SPECIFICATION Spec
CONSTANTS
  Orders = {o1}
  Clients = {c1, c2}
  Runs = {s1, s2}
  Cap = 1
  MaxCrashes = 1
  Hand = Hand
  None = None
INVARIANTS TypeOK FencedOutcomes RegisteredWasSolved
PROPERTIES CancelIsFinal ImplementsPlanLife
SYMMETRY Symmetry
CHECK_DEADLOCK FALSE
