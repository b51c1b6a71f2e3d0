CONSTANTS
  Volumes = {v1, v2, v3}
  Creators = {p1}
  Expanders = {}
  Cancellers = {d1}
  NoJob = NoJob
SPECIFICATION PromptSpec
PROPERTIES
  CallerDoesTheDeletions
CHECK_DEADLOCK FALSE
