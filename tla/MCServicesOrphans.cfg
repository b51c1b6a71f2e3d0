CONSTANTS
  Handlers <- AllHandlers
  Surroundings <- Undisturbed
  MaxFailures = 0
SPECIFICATION Spec
INVARIANT NothingLeftBehind
CHECK_DEADLOCK FALSE
