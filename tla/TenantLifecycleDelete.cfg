SPECIFICATION Spec
CONSTANTS
  Rows = {1, 2, 3}
  Servers = {sa, sb}
  Core = core
  Requests = {q1}
  Scripts = {m1}
  Verbs = {"provision", "resume", "decommission"}
  Writes = {w1}
  MaxFaults = 1
  None = None
INVARIANT FaultLeavesDecommissioning
CHECK_DEADLOCK FALSE
