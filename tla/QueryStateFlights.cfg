\* Three claims on three keys, no session cache: registry, sharing and budgets.
SPECIFICATION FairSpec
CONSTANTS
  k1 = k1
  k2 = k2
  k3 = k3
  c1 = c1
  c2 = c2
  c3 = c3
  scopeA = scopeA
  scopeB = scopeB
  None = None
  NoScope = NoScope
  Open = Open
  Broken = Broken
  Keys = {k1, k2, k3}
  KeySize <- FlightKeySize
  AnswerSizes = {2}
  Claims = {c1, c2, c3}
  Settings <- FlightSettings
  MaxAnswers = 2
  MaxFlights = 1
  MaxSession = 2
  FlightBytes = 3
  SizeMax = 1000
  MaxTime = 0
INVARIANTS
  TypeOK
  RegistryExact
  BytesExact
  AskedOnce
  WithinBudget
PROPERTIES
  FollowersAnswered
