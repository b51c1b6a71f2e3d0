CONSTANTS
  dc1 = dc1
  dc2 = dc2
  route = route
  Volumes = {v1}
  Provisioner = p1
  Updates = {u1}
  Deprovisions = {d1}
  SelfUndo = self
  NoJob = NoJob
  Chain <- ChainOfTwo
  Dcs <- OneDc
  Pod = pod
  Foreign = {f1}
SPECIFICATION Spec
INVARIANTS
  TypeOK
  BuiltOnBoundVolumes
  CleanRemoval
PROPERTIES
  UsesJobsProperly
CHECK_DEADLOCK FALSE
