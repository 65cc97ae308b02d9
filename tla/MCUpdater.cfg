CONSTANTS
  Calls = {c1, c2, c3}
  Digests = {old, new, bad}
  Initial = old
  Healthy = {old, new}
  NoImage = NoImage
  MaxFaults = 2
SPECIFICATION Spec
INVARIANT LeavesHealthyContainer
PROPERTIES SuccessIsReal OperationEnds
CHECK_DEADLOCK FALSE
