CONSTANTS
  Hashes = {h1}
  Sampled = {h1}
  Legacy = {}
  None = None
  MaxAttempts = 2
  QueueCap = 1
  ListLimit = 2
  MaxFaults = 1
SPECIFICATION Spec
PROPERTY StaleJobsRecovered
