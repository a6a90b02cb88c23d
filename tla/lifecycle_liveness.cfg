SPECIFICATION FairSpec
CONSTANTS
  Threads = {t1, t2, t3}
  NoThread = NoThread
  MaxContexts = 2
  CountMod = 4
  FirstElsewhere = FALSE
  Failures = {"getfd_kontainer", "kontainer_init", "kzalloc", "getfd"}
INVARIANTS
  NoUseAfterFree
PROPERTIES
  ExitReclaims
  AddReturns
