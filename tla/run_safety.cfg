SPECIFICATION Spec
CONSTANTS
  Zero = Zero
  Values = {Zero, v}
  Faults = {f, g}
  NoFault = NoFault
  StackTop = 8
  Depth = 0
  Redzone = 1
  HcArgs = 2
  ExcFrame = 2
  MaxRepeat = 1
  MaxHandlers = 1
  ReuseFirst = FALSE
  HandlerFirst = FALSE
INVARIANTS
  TypeOK
  NothingPendingInside
  ExitAgrees
PROPERTIES
  ImplementsPayload
  CloneAdjustExact
