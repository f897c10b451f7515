SPECIFICATION Spec
SYMMETRY Symmetry
CONSTANTS
  p1 = p1
  p2 = p2
  t1 = t1
  t2 = t2
  d1 = d1
  d2 = d2
  None = None
  Proc = {p1, p2}
  Token = {t1, t2}
  Plan = {d1, d2}
  MaxCrashes = 1
  MaxFaults = 2
  MaxTorn = 1
INVARIANTS
    NeverLost
