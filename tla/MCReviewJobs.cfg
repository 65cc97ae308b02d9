CONSTANTS
  Hashes = {h1, h2}
  Sampled = {h1}
  Legacy = {h2}
  None = None
  MaxAttempts = 2
  QueueCap = 1
  ListLimit = 2
  MaxFaults = 2
SPECIFICATION Spec
INVARIANTS ClaimableHasAttempt PromotedHasRule IdempotentWithoutFaults
PROPERTIES SettledIsFinal EveryJobSettles 
