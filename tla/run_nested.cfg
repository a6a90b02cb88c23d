SPECIFICATION FairSpec
CONSTANTS
  Zero = Zero
  Values = {Zero}
  Faults = {f, g}
  NoFault = NoFault
  StackTop = 8
  Depth = 1
  Redzone = 1
  HcArgs = 1
  ExcFrame = 1
  MaxRepeat = 1
  MaxHandlers = 2
  ReuseFirst = FALSE
  HandlerFirst = FALSE
INVARIANTS
  RecordsApart
PROPERTIES
  SignalEndsRun
  FaultLoopEnds
