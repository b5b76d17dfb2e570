\* Two claims at a time on three keys, with time: the session LRU.
SPECIFICATION Spec
CONSTANTS
  k1 = k1
  k2 = k2
  k3 = k3
  c1 = c1
  c2 = c2
  c3 = c3
  scopeA = scopeA
  scopeB = scopeB
  None = None
  NoScope = NoScope
  Open = Open
  Broken = Broken
  Keys = {k1, k2, k3}
  KeySize <- SessionKeySize
  AnswerSizes = {2, 3}
  Claims = {c1, c2}
  Settings <- SessionSettings
  MaxAnswers = 2
  MaxFlights = 2
  MaxSession = 3
  FlightBytes = 3
  SizeMax = 1000
  MaxTime = 2
SYMMETRY ClaimSymmetry
INVARIANTS
  SessionAccounting
  LruIsRecency
  NoExpiredAnswer
  ServedRight
