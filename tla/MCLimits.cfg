CONSTANTS
  Requests = {r1, r2, r3, r4}
  RequestedLimits = {0, 1, 3}
  DefaultConcurrency = 2
  MaxTime = 6
  LoginTime = 3
  f1 = f1
  a1 = a1
  None = None
  Calls = {c1, c2}
  Fingerprints = {f1}
  Addresses = {a1}
  Clients <- MCClients
  Limit = 2
  Window = 3
  MaxBuckets = 2
  MaxLag = 2
  Handlers = {h1, h2, h3}
  IPs = {i1}
  Tokens = {t1}
  MaxFailures = 2
  LoginWindow = 2
  SessionLife = 1
SPECIFICATION MCSpec
SYMMETRY Symmetry
INVARIANTS NoLostWakeup ReviewBudget GuessesBounded LoggedOutStaysOut
PROPERTIES AdmittedWithinLimit ImplementsSemaphore
CHECK_DEADLOCK FALSE
