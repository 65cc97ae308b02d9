CONSTANTS
  h1 = h1
  h2 = h2
  c1 = c1
  c2 = c2
  Hashes = {h1, h2}
  Contents = {c1, c2}
  Digest <- MCDigest
  Traces = {t1, t2}
  Blank = Blank
  Admins = {a1}
  MaxId = 3
  Events = {e1, e2}
  EvidenceDays = 2
  RetentionDays = {1, 3}
  MaxMissed = 2
SPECIFICATION MCSpec
INVARIANTS ContentProven ErasedInTime
PROPERTIES FirstTraceKept RiskRulesLoaded ExpiredEvidenceErased
CHECK_DEADLOCK FALSE
