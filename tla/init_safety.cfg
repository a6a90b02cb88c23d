CONSTANTS
  Processes = {p1, p2}
  NBlocks = 16
  FailSets <- CleanOrAll
  EarlyUse = FALSE
  LevelFive = TRUE
  Isolation = TRUE
  MaxId = 4
SPECIFICATION Spec
CHECK_DEADLOCK FALSE
SYMMETRY Symmetry
INVARIANTS ModuleRefsExact KxIntact PagesOwned IdsUnique FlushSupported
