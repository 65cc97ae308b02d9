CONSTANTS
  Admins = {a1, a2}
  Promotions = {}
  None = None
  NodeSlots = 2
SPECIFICATION SafetySpec
INVARIANT SavedUpstreamApplied
CHECK_DEADLOCK FALSE
