SPECIFICATION FairSpec
CONSTANTS
  p1 = p1
  t1 = t1
  t2 = t2
  t3 = t3
  d1 = d1
  d2 = d2
  None = None
  Proc = {p1}
  Token = {t1, t2, t3}
  Plan = {d1, d2}
  MaxCrashes = 3
  MaxFaults = 0
  MaxTorn = 0
INVARIANTS
    CommittedStays
    FilesMatchDatabase
    ErasedStaysErased
PROPERTIES
    ChangesAtOnce
    RecordsClose
