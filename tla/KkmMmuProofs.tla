----------------------------- MODULE KkmMmuProofs -----------------------------
(***************************************************************************)
(* Theorems about KkmMmu, for every number of threads, pages, areas, tables*)
(* and frames.                                                             *)
(***************************************************************************)
EXTENDS KkmMmu, TLAPS

USE DEF habits, monitor, guest, kontext

(* A thread that resolves a fault has one, and a private page was found.   *)
FaultInv ==
  \A k \in Kontexts :
    /\ pc[k] \in {"lock", "read", "write", "update"} => fault[k].page \in Pages
    /\ pc[k] = "write" => fault[k].page \in Main
    /\ pc[k] = "update" /\ fault[k].page \in Private => fault_area[k] \in Areas
    /\ pc[k] = "lock" /\ fault[k].page \in Private => ~fault[k].write
    /\ pc[k] = "read" /\ fault[k].page \in Private => ~fault[k].write

(* A monitor that syncs first has the payload's entry and its own agree, as*)
(* soon as there is one, and there is one when the payload runs.           *)
SyncInv ==
  /\ guest_entry # None => linked
  /\ synced_first =>
       /\ guest_entry \in {native_entry, None}
       /\ (\E k \in Kontexts : pc[k] # "monitor") => guest_entry # None

(* A monitor that keeps its private area has every fault look there.       *)
AreaInv ==
  slot_kept =>
    /\ \A k \in Kontexts : fault_area[k] # None => fault_area[k] = slot
    /\ \A p \in Private :
         guest_pt[p] # None => slot # None /\ guest_pt[p] = area_pt[slot][p]

MInv == TypeOK /\ FaultInv /\ SyncInv /\ AreaInv

-----------------------------------------------------------------------------
(* No entry has been copied before the first call.                         *)
LEMMA MmuInit == Init => MInv
<1> SUFFICES ASSUME Init PROVE MInv
  OBVIOUS
<1> USE MmuAssumption DEF Init
<1>1. TypeOK
  BY DEF TypeOK, NoFault, Pages
<1>2. FaultInv /\ SyncInv /\ AreaInv
  BY DEF FaultInv, SyncInv, AreaInv
<1> QED
  BY <1>1, <1>2 DEF MInv

(* The monitor's kernel maps a page.                                       *)
LEMMA TouchedKeeps ==
  ASSUME MInv, NEW p \in Main, Touched(p),
         UNCHANGED <<synced_first, guest_entry>>
  PROVE  /\ native_entry' \in Tables /\ present' \in [Tables -> SUBSET Main]
         /\ synced_first /\ guest_entry \in {native_entry, None} =>
              guest_entry \in {native_entry', None}
<1>1. native_entry' \in Tables
  <2>1. \E u \in Tables : u # guest_entry
    BY MmuAssumption
  <2> QED
    BY <2>1 DEF Touched, MInv, TypeOK
<1>2. present' \in [Tables -> SUBSET Main]
  BY <1>1 DEF Touched, MInv, TypeOK
<1>3. native_entry # None => native_entry' = native_entry
  BY DEF Touched
<1> QED
  BY <1>1, <1>2, <1>3

(* The monitor's mappings come and go; its kept habits protect what was    *)
(* copied.                                                                 *)
LEMMA MonitorStep ==
  ASSUME MInv, \/ \E p \in Main : Map(p) \/ Touch(p) \/ Unmap(p)
               \/ \E a \in Areas, p \in Private : UnmapPrivate(a, p)
  PROVE  MInv'
<1> USE MmuAssumption DEF MInv
<1>1. ASSUME NEW p \in Main, Map(p) PROVE MInv'
  BY <1>1 DEF Map, TypeOK, FaultInv, SyncInv, AreaInv
<1>2. ASSUME NEW p \in Main, Touch(p) PROVE MInv'
  <2>1. /\ native_entry' \in Tables /\ present' \in [Tables -> SUBSET Main]
        /\ synced_first => guest_entry \in {native_entry', None}
        /\ UNCHANGED <<habits, vma, area_pt, guest, pf_lock, kontext>>
    BY <1>2, TouchedKeeps DEF Touch, SyncInv
  <2> QED
    BY <2>1 DEF TypeOK, FaultInv, SyncInv, AreaInv
<1>3. ASSUME NEW p \in Main, Unmap(p) PROVE MInv'
  BY <1>3 DEF Unmap, TypeOK, FaultInv, SyncInv, AreaInv
<1>4. ASSUME NEW a \in Areas, NEW p \in Private, UnmapPrivate(a, p)
      PROVE  MInv'
  <2>1. area_pt' \in [Areas -> [Private -> Frames \cup {None}]]
    BY <1>4 DEF UnmapPrivate, TypeOK
  <2> QED
    BY <1>4, <2>1 DEF UnmapPrivate, TypeOK, FaultInv, SyncInv, AreaInv
<1> QED
  BY <1>1, <1>2, <1>3, <1>4

(* KKM_MEMORY copies the entry of now.                                     *)
LEMMA MemoryStep ==
  ASSUME MInv, SetMain \/ (\E a \in Areas : SetSlot(a)) \/ ClearSlot
  PROVE  MInv'
<1> USE MmuAssumption DEF MInv
<1>1. /\ guest_entry' = native_entry
      /\ linked' \in BOOLEAN /\ (guest_entry' # None => linked')
      /\ UNCHANGED <<monitor, guest_pt, pf_lock, kontext>>
  BY DEF SetMain, SetSlot, ClearSlot, Sync, TypeOK, SyncInv
<1>2. /\ slot' \in Areas \cup {None}
      /\ slot_kept /\ slot # None => slot' = slot
  BY DEF SetMain, SetSlot, ClearSlot, TypeOK
<1>3. TypeOK' /\ FaultInv'
  BY <1>1, <1>2 DEF TypeOK, FaultInv
<1>4. SyncInv'
  BY <1>1 DEF SyncInv
<1>5. AreaInv'
  BY <1>1, <1>2 DEF AreaInv
<1> QED
  BY <1>3, <1>4, <1>5

(* The payload begins, or faults on a page it may fault on.                *)
LEMMA PayloadStep ==
  ASSUME MInv, NEW k \in Kontexts,
         \/ RunPayload(k)
         \/ \E p \in Pages, w \in BOOLEAN : PayloadFaults(k, p, w)
  PROVE  MInv'
<1> USE MmuAssumption DEF MInv
<1>1. CASE RunPayload(k)
  BY <1>1 DEF RunPayload, TypeOK, FaultInv, SyncInv, AreaInv
<1>2. ASSUME NEW p \in Pages, NEW w \in BOOLEAN, PayloadFaults(k, p, w)
      PROVE  MInv'
  <2>1. [page |-> p, write |-> w]
          \in [page : Pages \cup {None}, write : BOOLEAN]
    OBVIOUS
  <2>2. TypeOK'
    BY <1>2, <2>1 DEF PayloadFaults, TypeOK
  <2>3. FaultInv'
    BY <1>2 DEF PayloadFaults, FaultInv, TypeOK
  <2>4. SyncInv' /\ AreaInv'
    BY <1>2 DEF PayloadFaults, SyncInv, AreaInv, TypeOK
  <2> QED
    BY <2>2, <2>3, <2>4
<1> QED
  BY <1>1, <1>2

(* A fault takes pf_lock and the place of the private area.                *)
LEMMA LockStep ==
  ASSUME MInv, NEW k \in Kontexts, FaultLock(k)
  PROVE  MInv'
<1> USE MmuAssumption DEF MInv
<1>1. TypeOK'
  BY DEF FaultLock, TypeOK
<1>2. FaultInv'
  BY DEF FaultLock, FaultInv, TypeOK
<1>3. SyncInv' /\ AreaInv'
  BY DEF FaultLock, SyncInv, AreaInv, TypeOK
<1> QED
  BY <1>1, <1>2, <1>3

(* The read maps the page for the monitor.                                 *)
LEMMA ReadStep ==
  ASSUME MInv, NEW k \in Kontexts, FaultRead(k)
  PROVE  MInv'
<1> USE MmuAssumption DEF MInv
<1> DEFINE p == fault[k].page
           to == IF fault[k].write THEN "write" ELSE "update"
<1>1. /\ p \in Pages /\ pc[k] = "read" /\ pc' = [pc EXCEPT ![k] = to]
      /\ UNCHANGED <<habits, vma, guest, pf_lock, fault, fault_area>>
      /\ p \in Private => fault_area[k] \in Areas /\ ~fault[k].write
  BY DEF FaultRead, FaultInv, Translated, TypeOK
<1>2. pc' \in [Kontexts -> {"monitor", "payload", "lock", "read", "write",
                            "update"}]
      /\ pc'[k] = to /\ \A j \in Kontexts \ {k} : pc'[j] = pc[j]
  BY <1>1 DEF TypeOK
<1>3. FaultInv'
  <2> HIDE DEF to
  <2>1. (to = "write" => p \in Main) /\ (to = "write" \/ to = "update")
    BY <1>1 DEF to, Pages
  <2> QED
    BY <1>1, <1>2, <2>1 DEF FaultInv
<1>4. CASE p \in Main
  <2>1. /\ native_entry' \in Tables /\ present' \in [Tables -> SUBSET Main]
        /\ synced_first => guest_entry \in {native_entry', None}
        /\ UNCHANGED area_pt
    BY <1>1, <1>4, TouchedKeeps DEF FaultRead, SyncInv
  <2>2. TypeOK'
    BY <1>1, <1>2, <2>1 DEF TypeOK
  <2>3. SyncInv' /\ AreaInv'
    BY <1>1, <1>2, <2>1 DEF SyncInv, AreaInv
  <2> QED
    BY <1>3, <2>2, <2>3
<1>5. CASE p \in Private
  <2> DEFINE a == fault_area[k]
  <2>1. a \in Areas /\ p \notin Main
    BY <1>1, <1>5
  <2>2. TouchedPrivate(a, p) /\ UNCHANGED <<native_entry, present>>
    BY <2>1 DEF FaultRead
  <2>3. /\ area_pt' \in [Areas -> [Private -> Frames \cup {None}]]
        /\ \A b \in Areas : \A q \in Private :
             area_pt[b][q] # None => area_pt'[b][q] = area_pt[b][q]
    <3>1. CASE UNCHANGED area_pt
      BY <3>1 DEF TypeOK
    <3>2. ASSUME area_pt[a][p] = None, NEW f \in Frames,
                 area_pt' = [area_pt EXCEPT ![a][p] = f]
          PROVE  /\ area_pt' \in [Areas -> [Private -> Frames \cup {None}]]
                 /\ \A b \in Areas : \A q \in Private :
                      area_pt[b][q] # None => area_pt'[b][q] = area_pt[b][q]
      BY <1>5, <2>1, <3>2 DEF TypeOK
    <3> QED
      BY <2>2, <3>1, <3>2 DEF TouchedPrivate
  <2>4. TypeOK'
    BY <1>1, <1>2, <2>2, <2>3 DEF TypeOK
  <2>5. SyncInv'
    BY <1>1, <1>2, <2>2 DEF SyncInv
  <2>6. AreaInv'
    BY <1>1, <2>3 DEF AreaInv, TypeOK
  <2> QED
    BY <1>3, <2>4, <2>5, <2>6
<1> QED
  BY <1>1, <1>4, <1>5 DEF Pages

(* So does the write.                                                      *)
LEMMA WriteStep ==
  ASSUME MInv, NEW k \in Kontexts, FaultWrite(k)
  PROVE  MInv'
<1> USE MmuAssumption DEF MInv
<1> DEFINE p == fault[k].page
<1>1. /\ p \in Main /\ pc[k] = "write" /\ pc' = [pc EXCEPT ![k] = "update"]
      /\ UNCHANGED <<habits, vma, area_pt, guest, pf_lock, fault, fault_area>>
      /\ Touched(p)
  BY DEF FaultWrite, FaultInv
<1>2. /\ native_entry' \in Tables /\ present' \in [Tables -> SUBSET Main]
      /\ synced_first => guest_entry \in {native_entry', None}
  BY <1>1, TouchedKeeps DEF SyncInv
<1>3. TypeOK'
  BY <1>1, <1>2 DEF TypeOK
<1>4. FaultInv'
  BY <1>1 DEF FaultInv, TypeOK, Pages
<1>5. SyncInv' /\ AreaInv'
  BY <1>1, <1>2 DEF SyncInv, AreaInv, TypeOK
<1> QED
  BY <1>3, <1>4, <1>5

(* A fault ends, with the entry of its page copied or with an error.       *)
LEMMA ReturnStep ==
  ASSUME MInv, NEW k \in Kontexts, FaultError(k) \/ FaultUpdate(k)
  PROVE  MInv'
<1> USE MmuAssumption DEF MInv
<1>1. NoFault \in [page : Pages \cup {None}, write : BOOLEAN]
      /\ NoFault.page = None
  BY DEF NoFault
<1>2. PICK to \in {"monitor", "payload"} : FaultReturns(k, to)
  BY DEF FaultError, FaultUpdate
<1>3. /\ pc[k] # "monitor" /\ UNCHANGED <<monitor, guest_entry, linked, slot>>
      /\ pc' = [pc EXCEPT ![k] = to] /\ fault' = [fault EXCEPT ![k] = NoFault]
      /\ fault_area' = [fault_area EXCEPT ![k] = None] /\ pf_lock' = None
  BY <1>2 DEF FaultError, FaultUpdate, FaultReturns, LockReleased
<1>4. /\ guest_pt' \in [Private -> Frames \cup {None}]
      /\ slot_kept => \A q \in Private : guest_pt'[q] # None =>
           slot # None /\ guest_pt'[q] = area_pt[slot][q]
  <2>1. CASE UNCHANGED guest_pt
    BY <2>1 DEF TypeOK, AreaInv
  <2>2. CASE FaultUpdate(k) /\ fault[k].page \in Private
    <3> DEFINE p == fault[k].page
               a == fault_area[k]
    <3>1. a \in Areas /\ guest_pt' = [guest_pt EXCEPT ![p] = area_pt[a][p]]
      BY <2>2 DEF FaultUpdate, FaultInv, PrivateEntry
    <3>2. area_pt[a][p] \in Frames \cup {None}
      BY <2>2, <3>1 DEF TypeOK
    <3>3. slot_kept => a = slot /\ slot # None
      BY <3>1 DEF AreaInv
    <3> QED
      BY <2>2, <3>1, <3>2, <3>3 DEF TypeOK, AreaInv
  <2> QED
    BY <2>1, <2>2 DEF FaultError, FaultUpdate
<1>5. TypeOK'
  BY <1>1, <1>3, <1>4 DEF TypeOK
<1>6. FaultInv'
  BY <1>1, <1>3 DEF FaultInv, TypeOK
<1>7. SyncInv' /\ AreaInv'
  BY <1>3, <1>4 DEF SyncInv, AreaInv, TypeOK
<1> QED
  BY <1>5, <1>6, <1>7

(* Every step keeps the invariant of the page faults.                      *)
LEMMA MmuStep == MInv /\ [Next]_vars => MInv'
<1> SUFFICES ASSUME MInv, [Next]_vars PROVE MInv'
  OBVIOUS
<1>1. ASSUME UNCHANGED vars PROVE MInv'
  BY <1>1 DEF vars, MInv, TypeOK, FaultInv, SyncInv, AreaInv
<1> QED
  BY <1>1, MonitorStep, MemoryStep, PayloadStep, LockStep, ReadStep, WriteStep,
     ReturnStep DEF Next, ProcessPageFault

(* The invariant that the other theorems follow from.                      *)
THEOREM MmuInvariant == Spec => []MInv
<1> QED
  BY MmuInit, MmuStep, PTL DEF Spec

(* What tables and faults hold, at any time: a fault that is resolved      *)
(* always has the page and the place it was found at.                      *)
THEOREM MmuTypeCorrect == Spec => []TypeOK
<1>1. MInv => TypeOK
  BY DEF MInv
<1> QED
  BY <1>1, MmuInvariant, PTL

(* kkm_mmu_sync and the copied private entries leave the payload with no   *)
(* entry that the monitor does not have, if the monitor syncs before it    *)
(* runs the payload and keeps its private area.                            *)
THEOREM EntriesCorrect == Spec => []EntriesCurrent
<1>1. MInv => EntriesCurrent
  BY DEF MInv, SyncInv, AreaInv, EntriesCurrent
<1> QED
  BY <1>1, MmuInvariant, PTL

(* A page fault that kkm_process_page_fault takes to be resolved is.       *)
THEOREM ResolvedCorrect == Spec => FaultResolved
<1> DEFINE Resolved ==
      \A k \in Kontexts, p \in Pages :
        /\ synced_first /\ fault[k].page = p
        /\ pc[k] = "update" /\ pc'[k] = "payload"
        /\ MonitorMaps(p, fault_area[k])
        => Hit(p)'
<1>1. MInv /\ [Next]_vars => [Resolved]_vars
  <2> SUFFICES ASSUME MInv, Next, NEW k \in Kontexts, NEW p \in Pages,
                      synced_first, fault[k].page = p,
                      pc[k] = "update", pc'[k] = "payload",
                      MonitorMaps(p, fault_area[k])
               PROVE  Hit(p)'
    OBVIOUS
  <2> USE MmuAssumption DEF MInv
  <2>1. FaultUpdate(k)
    <3>1. ASSUME NEW j \in Kontexts, j # k,
                 RunPayload(j) \/ FaultLock(j) \/ ProcessPageFault(j)
                 \/ \E q \in Pages, w \in BOOLEAN : PayloadFaults(j, q, w)
          PROVE  pc'[k] = pc[k]
      BY <3>1 DEF RunPayload, FaultLock, ProcessPageFault, PayloadFaults,
                  FaultRead, FaultWrite, FaultError, FaultUpdate, FaultReturns,
                  TypeOK
    <3>2. ASSUME \/ \E q \in Main : Map(q) \/ Touch(q) \/ Unmap(q)
                 \/ \E a \in Areas : \/ SetSlot(a)
                                      \/ \E q \in Private : UnmapPrivate(a, q)
                 \/ SetMain \/ ClearSlot
          PROVE  pc' = pc
      BY <3>2 DEF Map, Touch, Unmap, SetSlot, UnmapPrivate, SetMain, ClearSlot
    <3>3. ~RunPayload(k) /\ ~FaultLock(k) /\ ~FaultRead(k) /\ ~FaultWrite(k)
          /\ ~FaultError(k)
          /\ \A q \in Pages, w \in BOOLEAN : ~PayloadFaults(k, q, w)
      BY DEF RunPayload, FaultLock, FaultRead, FaultWrite, FaultError,
             PayloadFaults
    <3> QED
      BY <3>1, <3>2, <3>3 DEF Next, ProcessPageFault
  <2>2. /\ UNCHANGED <<monitor, guest_entry, linked, slot>>
        /\ guest_entry # None /\ linked
        /\ guest_entry = native_entry
    BY <2>1 DEF FaultUpdate, SyncInv
  <2>3. CASE p \in Main
    BY <2>2, <2>3 DEF Hit, MonitorMaps
  <2>4. CASE p \in Private
    <3>1. guest_pt'[p] = area_pt[fault_area[k]][p]
      BY <2>1, <2>4 DEF FaultUpdate, PrivateEntry, TypeOK
    <3> QED
      BY <2>2, <2>4, <3>1 DEF Hit, MonitorMaps
  <2> QED
    BY <2>3, <2>4 DEF Pages
<1> QED
  BY <1>1, MmuInvariant, PTL DEF Spec, FaultResolved
=============================================================================
