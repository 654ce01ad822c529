SPECIFICATION Spec
CONSTANTS
  Sales = {s1}
  Ops = {o1, o2}
  Covering <- MCCovering
  Requests = {r1, r2}
  None = None
  Absent = Absent
  Deleted = Deleted
SYMMETRY Symmetry
INVARIANTS TypeOK RollUpNotLost NoWaitCycle
PROPERTIES UnfulfilReopensAll GenerationFindsNone
