SPECIFICATION Spec
CONSTANTS
  a = a
  b = b
  c = c
  srv = srv
  Tenants = {a, b, c}
  Shared = {c}
  Managed = {}
  Servers = {srv}
  ServerOf <- MCServerOf
  PoolMax <- MCPoolMax
  LargestPool = 2
  Budget <- MCBudget
  Requests = {r1, r2}
  Pools = {p1, p2, p3}
  Writers = {}
  Modes = {}
  None = None
  Core = Core
INVARIANTS TypeOK HandleIsolation NoDyingPoolReachable OvershootBounded
SYMMETRY Symmetry
