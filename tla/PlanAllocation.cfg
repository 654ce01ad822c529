SPECIFICATION Spec
CONSTANTS
  Plans = {p1, p2}
  Edited <- OneLine
  Orders = {o1}
  Requests = {r1, r2}
  Quantity <- TwoAndAHalf
  Manual = {4}
  ByHand = {150}
  Sheets = {1, 3}
  Most = 3
  Underrun <- TenPercent
  Overrun <- ThirtyPercent
  Absolute = 0
  Relative = 5
  None = None
SYMMETRY Symmetry
INVARIANTS TypeOK OrderNotOverbooked
PROPERTIES RegistrationStands
