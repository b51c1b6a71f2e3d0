CONSTANTS
  Capacity = 5
  AnswerSlots = 1
  MaxEvents = 6
SPECIFICATION FairSpec
INVARIANTS
  TypeOK
  NilMeansBound
  EndsWithNow
  LeftWithRoom
PROPERTIES
  BoundIsNoticed
  ProbeEnds
CHECK_DEADLOCK FALSE
