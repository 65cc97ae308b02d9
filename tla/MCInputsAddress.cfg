CONSTANTS
  MaxDepth = 5
  DefaultRunes = 3
  Marker = 2
  MaxText = 6
  MaxBody = 4
  MaxAnswer = 6
  MaxChain = 4
  Proxies = {p1, p2}
  Outside = {o1, o2}
  Malformed = Malformed
  Texts <- MCTexts
  Sizes <- MCSizes
  Bodies <- MCBodies
  Answers <- MCAnswers
  Providers <- MCProviders
  Chains <- MCChains
  OldEvents <- MCOldEvents
SPECIFICATION MCSpec
INVARIANT ChargedAuthenticated
CHECK_DEADLOCK FALSE
