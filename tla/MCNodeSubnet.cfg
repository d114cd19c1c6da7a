SPECIFICATION Spec
CONSTANTS
  Scenarios = {"inbound"}
  None = None
  Absent = Absent
  Nil = Nil
  c1 = c1
  c2 = c2
  c3 = c3
  p1 = p1
  p2 = p2
  s1 = s1
  s2 = s2
  Exempt = Exempt
  Temp = Temp
  n1 = n1
  n2 = n2
  n3 = n3
  k1 = k1
  k2 = k2
  j1 = j1
  NoDep = NoDep
  NoLook = NoLook
INVARIANT SubnetLimited
CHECK_DEADLOCK FALSE
