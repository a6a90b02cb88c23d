CONSTANTS
  Kontexts = {k1, k2}
  Main = {m1, m2}
  Private = {p1}
  Areas = {a1}
  Tables = {t1, t2}
  Frames = {f1, f2}
  None = None
SPECIFICATION FairSpec
INVARIANT EntriesCurrent
PROPERTIES FaultResolved FaultEnds
