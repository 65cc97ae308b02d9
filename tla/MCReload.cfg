CONSTANTS
  Admins = {a1, a2}
  Promotions = {p}
  None = None
  NodeSlots = 2
SPECIFICATION Spec
INVARIANTS StaleMeansPending NoLostUpdate
PROPERTIES NeverOlder EveryWriteAnswered
CHECK_DEADLOCK FALSE
