CONSTANTS
  Calls = {c1, c2}
  Digests = {new, bad}
  Initial = tag
  Healthy = {tag, new}
  NoImage = NoImage
  MaxFaults = 0
SPECIFICATION SafetySpec
INVARIANT PriorImageRestored
CHECK_DEADLOCK FALSE
