SPECIFICATION MCSpec
CONSTANTS
  Scenarios = {"replay", "banning", "restarting", "staking", "table", "chains", "shared", "rotated", "slots"}
  None = None
  x1 = x1
  x2 = x2
  w1 = w1
  w2 = w2
  d1 = d1
  d2 = d2
  d3 = d3
  k1 = k1
  k2 = k2
  k3 = k3
  Checkers = {x1, x2}
  Nonces = {k1}
  MaxAge = 2
  FutureSkew = 1
  NonceWindow = 4
  MaxStall = 1
  MaxTime = 7
  Conns = {d1, d2, d3}
  MaxPerIP = 2
  MaxConns = 2
  NCounters = 3
  Nothing = None
INVARIANTS
  NoReplay
  
  SnapshotsSound
  SlotsSound

  
SYMMETRY Symmetry
CHECK_DEADLOCK FALSE
