SPECIFICATION MCSpec
CONSTANTS
  Scenarios = {"funds", "cuts", "scores", "attesting", "adjusted", "name", "governed", "fees",
               "lists", "setter", "guardian", "quotes", "oracle"}
  None = None
  Absent = Absent
  p1 = p1
  p2 = p2
  u1 = u1
  u2 = u2
  n1 = n1
  n2 = n2
  n3 = n3
  d1 = d1
  d2 = d2
  t1 = t1
  o1 = o1
  Providers = {p1, p2}
  Intervals = {1, 2}
  MaxMisses = {1, 2}
  Cooldowns = {1, 2}
  MaxTotal = 2
  MaxTime = 7
  Targets = {t1}
  Values = {0, 1}
  Operations <- MCOperations
  Delays = {1, 2, 3}
  MIN_DELAY_FLOOR = 2
  Hour = 1
  MaxTimestamp = 6
INVARIANTS
  ContractTypes
  RegistryBooks
  QuotesSound
PROPERTIES
  
  DecayIsFair
  SuspensionsFair
  NamesKept
  DelaysHold
