SPECIFICATION Spec
CONSTANTS
  Threads = {t1, t2, t3}
  NoThread = NoThread
  MaxContexts = 3
  CountMod = 5
  FirstElsewhere = FALSE
  Failures = {"kzalloc"}
SYMMETRY ThreadSymmetry
INVARIANTS
  TypeOK
  RefcountExact
  KontextCountExact
  SearchFindsSlot
  OneFirstThread
  ReclaimComplete
PROPERTIES
  FirstThreadKept
  ImplementsHandles
