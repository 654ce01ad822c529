SPECIFICATION FairSpec
CONSTANTS
  a = a
  b = b
  c = c
  srv = srv
  Tenants = {a}
  Shared = {}
  Managed = {a}
  Servers = {srv}
  ServerOf <- MCServerOf
  PoolMax <- MCPoolMax
  LargestPool = 2
  Budget <- MCBudget
  Requests = {r1, r2}
  Pools = {p1}
  Writers = {w1}
  Modes = {"request","job","script"}
  None = None
  Core = Core

PROPERTIES CacheConverges 
