CONSTANTS
  dc1 = dc1
  dc2 = dc2
  route = route
  Volumes = {v1, v2}
  Provisioner = p1
  Updates = {}
  Deprovisions = {d1}
  SelfUndo = self
  NoJob = NoJob
  Chain <- ChainOfThree
  Dcs <- TwoDcs
  Pod = pod
  Foreign = {f1}
SPECIFICATION Spec
INVARIANTS
  OthersUntouched
CHECK_DEADLOCK FALSE
