SPECIFICATION Spec
CONSTANTS
  Threads = {t1, t2}
  NoThread = NoThread
  MaxContexts = 2
  CountMod = 6
  FirstElsewhere = FALSE
  Failures = {"getfd_kontainer", "kontainer_init", "kzalloc", "getfd", "map_page", "kontext_init"}
SYMMETRY ThreadSymmetry
INVARIANTS
  UnusedSlotOwnsNoPages
  LockDiscipline
CHECK_DEADLOCK FALSE
