CONSTANTS
  Callers = {c1}
  NoCaller = NoCaller
  Kontexts = {}
  MaxSlots = 3
  VdsoSlot = 1
  GuestmemSlot = 2
  EntrySize = 16
  TopEntry = 3
  MonitorEntry = 0
  Hole = 4
  VdsoRoom = 4
  Asked <- AskedOverlapping
  Tried <- TriedNone
  SetFirst = TRUE
SPECIFICATION Spec
INVARIANT NoOverlaps
