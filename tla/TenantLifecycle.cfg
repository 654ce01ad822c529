SPECIFICATION Spec
CONSTANTS
  Rows = {1, 2, 3}
  Servers = {sa, sb}
  Core = core
  Requests = {q1, q2}
  Scripts = {m1}
  Verbs = {"provision", "resume", "decommission"}
  Writes = {w1}
  MaxFaults = 2
  None = None
SYMMETRY Interchangeable
INVARIANTS TypeOK LiveHasDatabase NoWriteLost
PROPERTY WipesSpareLive
CHECK_DEADLOCK FALSE
