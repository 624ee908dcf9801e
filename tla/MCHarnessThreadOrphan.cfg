SPECIFICATION Spec
CONSTANTS
  p = p
  q = q
  r = r
  w = w
  m1 = m1
  m2 = m2
  m3 = m3
  m4 = m4
  m5 = m5
  m6 = m6
  s1 = s1
  u1 = u1
  None = None
  Messages <- MCMessages
  Ids <- MCIds
  IdOf <- MCIdOf
  Attached = {m2, m5, m6}
  Stops = {s1}
  Uses = {u1}
  MaxConns = 4
  MaxCrashes = 1
  MaxDeaths = 1
  MaxEnds = 1
INVARIANTS
  NothingOutlives
CHECK_DEADLOCK FALSE
