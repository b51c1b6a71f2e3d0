CONSTANTS
  b1 = b1
  u1 = u1
  u2 = u2
  NoInfo = NoInfo
  Provisions = {p1}
  Updates = {u1, u2}
  Deprovisions = {}
  Binds = {}
  Unbinds = {}
  BindingOf <- SameBinding
  Target <- Growing
  Size0 <- MCSize0
  MaxInFlight = 2
SPECIFICATION Spec
PROPERTIES
  OnlyExpands
CHECK_DEADLOCK FALSE
