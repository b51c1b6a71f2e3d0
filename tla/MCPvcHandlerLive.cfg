CONSTANTS
  dc1 = dc1
  dc2 = dc2
  route = route
  Volumes = {v1, v2}
  Provisioner = p1
  Updates = {}
  Deprovisions = {d1}
  SelfUndo = self
  NoJob = NoJob
  Chain <- ChainOfTwo
  Dcs <- OneDc
  Pod = pod
  Foreign = {}
SPECIFICATION FairSpec
PROPERTIES
  FailureIsCleaned
  ProvisionCompletes
CHECK_DEADLOCK FALSE
