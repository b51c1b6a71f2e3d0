CONSTANTS
  Handlers <- AllHandlers
  Surroundings <- Patient
  MaxFailures = 1
SPECIFICATION Spec
INVARIANTS
  TypeOK
  CleanRemoval
  SucceededIsBindable
  AllOrNothing
  OrphansComeFromHelpers
PROPERTIES
  VerdictIsFinal
CHECK_DEADLOCK FALSE
