SPECIFICATION MCSpec
CONSTANTS
  Requesters = {u1}
  Providers = {p1, p2, p3}
  Treasuries = {t1, t2}
  Restaking = {p1}
  Escrow = Escrow
  NoAddr = NoAddr
  MaxReservations = 2
  Amounts = {40}
  Durations = {2}
  FeeChoices = {0, 2000}
  BurnChoices = {3333}
  ThresholdChoices = {5000}
  DisputeAmounts = {15}
  MaxUint128 = 80
  InitialBalance = 80
  MaxTime = 3
INVARIANTS IndInv Solvent ExitAlwaysPossible TokensConserved
PROPERTIES ClosedForever PaymentsFair
SYMMETRY Symmetry
