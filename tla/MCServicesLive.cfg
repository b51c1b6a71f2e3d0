CONSTANTS
  Handlers <- AllHandlers
  Surroundings <- Impatient
  MaxFailures = 1
SPECIFICATION FairSpec
PROPERTIES
  DeprovisionEnds
  ProvisionCompletes
  VolumesAsPromised
CHECK_DEADLOCK FALSE
