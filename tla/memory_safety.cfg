CONSTANTS
  Callers = {c1, c2}
  NoCaller = NoCaller
  Kontexts = {k1}
  MaxSlots = 3
  VdsoSlot = 1
  GuestmemSlot = 2
  EntrySize = 16
  TopEntry = 3
  MonitorEntry = 2
  Hole = 4
  VdsoRoom = 4
  Asked <- AskedApart
  Tried <- TriedAll
  SetFirst = TRUE
SPECIFICATION FairSpec
INVARIANTS SlotCountExact TranslationRight
PROPERTIES ImplementsRegions MemoryReturns
