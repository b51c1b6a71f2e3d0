CONSTANTS
  b1 = b1
  u1 = u1
  u2 = u2
  NoInfo = NoInfo
  Provisions = {p1, p2}
  Updates = {u1}
  Deprovisions = {d1}
  Binds = {x1}
  Unbinds = {y1}
  BindingOf <- SameBinding
  Target <- Growing
  Size0 <- MCSize0
  MaxInFlight = 2
SPECIFICATION Spec
SYMMETRY Permuted
INVARIANTS
  TypeOK
  OneWinnerPerLife
  BuiltAsAnswered
  SuccessIsRecorded
  RecordMatchesCluster
  GoroutineIsTold
CHECK_DEADLOCK FALSE
