CONSTANTS
  Volumes = {v1, v2}
  Creators = {p1}
  Expanders = {u1}
  Cancellers = {d1}
  NoJob = NoJob
SPECIFICATION FairSpec
INVARIANTS
  TypeOK
  OneJobAtATime
  AnswerIsTrue
  ClaimsBoundWhenTold
  DeletionsFollowTheJob
  BlockedByTwoFailures
  IInv
PROPERTIES
  KeepsContract
  ClaimsAreAccountedFor
  StarterIsAnswered
  PollEndsUnlessBlocked
CHECK_DEADLOCK FALSE
