CONSTANTS
  Requests = {r1, r2}
  Generations <- MCGenerations
  Slots = 1
  EventCap = 1
  None = None
SPECIFICATION Spec
INVARIANTS BlockedHasEvidence JudgedByPinnedRules SlotsFreed PanicOnlyAfterGrace ShutdownDrainsEvents
PROPERTIES AnswersDespiteWriter ImplementsAuditGate
CHECK_DEADLOCK FALSE
