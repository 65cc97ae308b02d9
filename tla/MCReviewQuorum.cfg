CONSTANTS
  Nodes = {a, b, c}
  Confidences = {1, 2, 3}
  Threshold = 2
  MaxConfidence = 2
SPECIFICATION Spec
INVARIANTS PromotionSound StreamingAgreesWithPolicy
PROPERTIES NoVoteOvertaken EveryGoroutineEnds
CHECK_DEADLOCK FALSE
