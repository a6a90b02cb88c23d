-------------------------------- MODULE KkmMmu --------------------------------
(***************************************************************************)
(* The page tables of a payload and its page faults: kkm_mmu_sync and      *)
(* kkm_mmu_update_priv_area (kkm_mmu.c), kkm_process_page_fault            *)
(* (kkm_kontext.c), beside the monitor, whose page tables they copy from.  *)
(*                                                                         *)
(* The payload's own memory hangs below one top level entry, the monitor's,*)
(* copied into the payload's tables by KKM_MEMORY: below it the two share  *)
(* one table.  Its private pages (vdso, vvar, code of the monitor) have a  *)
(* table of their own, filled page by page as they fault.                  *)
(*                                                                         *)
(* With five levels the entry is one of low_p4d instead of the pgd; the    *)
(* guest kernel's and the payload's tables, and the entries for the bottom *)
(* and the top of the address space, are always written together.          *)
(***************************************************************************)
EXTENDS Integers

CONSTANTS
  Kontexts,    (* threads that run the payload                             *)
  Main,        (* pages of the payload's own memory                        *)
  Private,     (* pages of the private area                                *)
  Areas,       (* places the monitor may put the private area's memory     *)
  Tables,      (* pages that may be the table below the monitor's entry    *)
  Frames,      (* page frames behind private pages                         *)
  None

Pages == Main \cup Private

ASSUME MmuAssumption ==
  /\ Main \cap Private = {}
  /\ None \notin Pages \cup Tables \cup Areas \cup Frames
  /\ \E t, u \in Tables : t # u

VARIABLES
  synced_first, (* the monitor touches its memory, then calls KKM_MEMORY,  *)
                (* before it runs the payload, and never unmaps all of it  *)
  slot_kept,    (* it keeps the private area's slot and the memory there   *)
  vma,          (* the main pages the monitor has mapped                   *)
  native_entry, (* the table below the monitor's top level entry           *)
  present,      (* the pages that a table maps                             *)
  area_pt,      (* the frames behind the pages of an area                  *)
  guest_entry,  (* the payload's copy of native_entry                      *)
  linked,       (* the private area's table is in the payload's tables     *)
  guest_pt,     (* the private area's table                                *)
  slot,         (* where the private area's memory is                      *)
  pf_lock,      (* the kontext that holds it                               *)
  pc,           (* where a kontext is                                      *)
  fault,        (* the page and the access of its page fault               *)
  fault_area    (* where the translation found the page                    *)

habits == <<synced_first, slot_kept>>
monitor == <<habits, vma, native_entry, present, area_pt>>
guest == <<guest_entry, linked, guest_pt, slot>>
kontext == <<pc, fault, fault_area>>
vars == <<monitor, guest, pf_lock, kontext>>

TypeOK ==
  /\ synced_first \in BOOLEAN /\ slot_kept \in BOOLEAN
  /\ vma \subseteq Main
  /\ native_entry \in Tables \cup {None}
  /\ present \in [Tables -> SUBSET Main]
  /\ area_pt \in [Areas -> [Private -> Frames \cup {None}]]
  /\ guest_entry \in Tables \cup {None}
  /\ linked \in BOOLEAN
  /\ guest_pt \in [Private -> Frames \cup {None}]
  /\ slot \in Areas \cup {None}
  /\ pf_lock \in Kontexts \cup {None}
  /\ pc \in [Kontexts -> {"monitor", "payload", "lock", "read", "write",
                          "update"}]
  /\ fault \in [Kontexts -> [page : Pages \cup {None}, write : BOOLEAN]]
  /\ fault_area \in [Kontexts -> Areas \cup {None}]

NoFault == [page |-> None, write |-> FALSE]

Init ==
  /\ synced_first \in BOOLEAN /\ slot_kept \in BOOLEAN
  /\ vma = {} /\ native_entry = None
  /\ present = [t \in Tables |-> {}]
  /\ area_pt = [a \in Areas |-> [p \in Private |-> None]]
  /\ guest_entry = None /\ linked = FALSE
  /\ guest_pt = [p \in Private |-> None]
  /\ slot = None
  /\ pf_lock = None
  /\ pc = [k \in Kontexts |-> "monitor"]
  /\ fault = [k \in Kontexts |-> NoFault]
  /\ fault_area = [k \in Kontexts |-> None]

-----------------------------------------------------------------------------
(***************************************************************************)
(* The monitor and its kernel                                              *)
(***************************************************************************)

Map(p) ==
  /\ p \in Main \ vma
  /\ vma' = vma \cup {p}
  /\ UNCHANGED <<habits, native_entry, present, area_pt, guest, pf_lock,
                 kontext>>

(* A page of the monitor's that is touched gets its entry, and a table for *)
(* it if there is none; a page of an area gets a frame nobody has.         *)
Touched(p) ==
  LET t == IF native_entry = None THEN CHOOSE u \in Tables : u # guest_entry
                                  ELSE native_entry
  IN /\ native_entry' = t
     /\ present' = [present EXCEPT ![t] = @ \cup {p}]

TouchedPrivate(a, p) ==
  IF area_pt[a][p] # None
    THEN UNCHANGED area_pt
    ELSE \E f \in Frames :
           /\ \A b \in Areas : \A q \in Private : area_pt[b][q] # f
           /\ area_pt' = [area_pt EXCEPT ![a][p] = f]

Touch(p) ==
  /\ p \in vma /\ Touched(p)
  /\ UNCHANGED <<habits, vma, area_pt, guest, pf_lock, kontext>>

(* The kernel frees a table that maps nothing any more.                    *)
Unmap(p) ==
  /\ p \in vma
  /\ synced_first => native_entry # None /\ present[native_entry] \ {p} # {}
  /\ vma' = vma \ {p}
  /\ present' = [t \in Tables |-> present[t] \ {p}]
  /\ native_entry' = IF native_entry # None /\ present[native_entry] \ {p} = {}
                       THEN None ELSE native_entry
  /\ UNCHANGED <<habits, area_pt, guest, pf_lock, kontext>>

UnmapPrivate(a, p) ==
  /\ ~slot_kept /\ area_pt[a][p] # None
  /\ area_pt' = [area_pt EXCEPT ![a][p] = None]
  /\ UNCHANGED <<habits, vma, native_entry, present, guest, pf_lock, kontext>>

RunPayload(k) ==
  /\ pc[k] = "monitor"
  /\ synced_first => guest_entry # None
  /\ pc' = [pc EXCEPT ![k] = "payload"]
  /\ UNCHANGED <<monitor, guest, pf_lock, fault, fault_area>>

-----------------------------------------------------------------------------
(***************************************************************************)
(* KKM_MEMORY                                                              *)
(***************************************************************************)

(* Mutant: the private area's table is not linked.                         *)
SyncMain == guest_entry' = native_entry /\ UNCHANGED linked

(* kkm_mmu_sync                                                            *)
Sync ==
  IF guest_entry = native_entry
    THEN UNCHANGED <<guest_entry, linked>>
    ELSE guest_entry' = native_entry /\ linked' = TRUE

(* A region of the payload's own memory; with synced_first the monitor has  *)
(* touched it.                                                             *)
SetMain ==
  /\ synced_first => native_entry # None
  /\ Sync
  /\ UNCHANGED <<monitor, guest_pt, slot, pf_lock, kontext>>

SetSlot(a) ==
  /\ slot = None
  /\ slot' = a /\ Sync
  /\ UNCHANGED <<monitor, guest_pt, pf_lock, kontext>>

ClearSlot ==
  /\ ~slot_kept /\ slot # None
  /\ slot' = None /\ Sync
  /\ UNCHANGED <<monitor, guest_pt, pf_lock, kontext>>

-----------------------------------------------------------------------------
(***************************************************************************)
(* The payload and its page faults                                         *)
(***************************************************************************)

Hit(p) ==
  IF p \in Main
    THEN guest_entry # None /\ p \in present[guest_entry]
    ELSE linked /\ guest_pt[p] # None

PayloadFaults(k, p, w) ==
  /\ pc[k] = "payload" /\ ~Hit(p)
  /\ p \in Private => ~w
  /\ pc' = [pc EXCEPT ![k] = "lock"]
  /\ fault' = [fault EXCEPT ![k] = [page |-> p, write |-> w]]
  /\ UNCHANGED <<monitor, guest, pf_lock, fault_area>>

(* Mutant: a fault that fails keeps the lock.                              *)
LockKept == pf_lock

LockReleased == None

FaultReturns(k, to) ==
  /\ pc' = [pc EXCEPT ![k] = to]
  /\ pf_lock' = LockReleased
  /\ fault' = [fault EXCEPT ![k] = NoFault]
  /\ fault_area' = [fault_area EXCEPT ![k] = None]

(* The lock is taken and the address translated.                           *)
FaultLock(k) ==
  /\ pc[k] = "lock" /\ pf_lock = None
  /\ pf_lock' = k
  /\ pc' = [pc EXCEPT ![k] = "read"]
  /\ fault_area' = [fault_area EXCEPT ![k] = slot]
  /\ UNCHANGED <<monitor, guest, fault>>

Translated(k) == fault[k].page \in Private => fault_area[k] # None
Mapped(k) == fault[k].page \in Main => fault[k].page \in vma

(* The read makes the monitor's kernel map the page.                       *)
FaultRead(k) ==
  LET p == fault[k].page
  IN /\ pc[k] = "read" /\ Translated(k) /\ Mapped(k)
     /\ IF p \in Main
          THEN /\ Touched(p) /\ UNCHANGED area_pt
          ELSE /\ TouchedPrivate(fault_area[k], p)
               /\ UNCHANGED <<native_entry, present>>
     /\ pc' = [pc EXCEPT ![k] = IF fault[k].write THEN "write" ELSE "update"]
     /\ UNCHANGED <<habits, vma, guest, pf_lock, fault, fault_area>>

(* So that the page can be written, the byte that was read is written back.*)
FaultWrite(k) ==
  LET p == fault[k].page
  IN /\ pc[k] = "write" /\ Mapped(k)
     /\ Touched(p)
     /\ pc' = [pc EXCEPT ![k] = "update"]
     /\ UNCHANGED <<habits, vma, area_pt, guest, pf_lock, fault, fault_area>>

(* KKM_RUN returns -EFAULT; the lock is given back.                        *)
FaultError(k) ==
  /\ \/ pc[k] = "read" /\ ~(Translated(k) /\ Mapped(k))
     \/ pc[k] = "write" /\ ~Mapped(k)
  /\ FaultReturns(k, "monitor")
  /\ UNCHANGED <<monitor, guest>>

(* Mutant: the entry of another page is copied.                            *)
PrivateEntryAny(a, p) ==
  CHOOSE f \in Frames \cup {None} : f # area_pt[a][p]

(* What kkm_mmu_update_priv_area copies for a page, with its index in the  *)
(* payload's table.                                                        *)
PrivateEntry(a, p) == area_pt[a][p]

FaultUpdate(k) ==
  LET p == fault[k].page
  IN /\ pc[k] = "update"
     /\ guest_pt' = IF p \in Private
                      THEN [guest_pt EXCEPT ![p] =
                              PrivateEntry(fault_area[k], p)]
                      ELSE guest_pt
     /\ FaultReturns(k, "payload")
     /\ UNCHANGED <<monitor, guest_entry, linked, slot>>

ProcessPageFault(k) ==
  FaultRead(k) \/ FaultWrite(k) \/ FaultError(k) \/ FaultUpdate(k)

-----------------------------------------------------------------------------
Next ==
  \/ \E p \in Main : Map(p) \/ Touch(p) \/ Unmap(p)
  \/ \E a \in Areas : SetSlot(a) \/ \E p \in Private : UnmapPrivate(a, p)
  \/ SetMain \/ ClearSlot
  \/ \E k \in Kontexts :
       \/ RunPayload(k) \/ FaultLock(k) \/ ProcessPageFault(k)
       \/ \E p \in Pages, w \in BOOLEAN : PayloadFaults(k, p, w)

Spec == Init /\ [][Next]_vars

(* A thread in the kernel goes on, and gets a mutex it waits for.          *)
Fairness ==
  \A k \in Kontexts : WF_vars(ProcessPageFault(k)) /\ SF_vars(FaultLock(k))

FairSpec == Spec /\ Fairness

-----------------------------------------------------------------------------
(***************************************************************************)
(* Properties                                                              *)
(***************************************************************************)

(* The entry that the monitor's page tables have for a page.               *)
MonitorMaps(p, a) ==
  IF p \in Main THEN native_entry # None /\ p \in present[native_entry]
                ELSE a # None /\ area_pt[a][p] # None

(* A page fault that is taken to be completely resolved (kkm_kontext.c:1034)*)
(* leaves the payload with the page, if the monitor still has it and its   *)
(* memory was in place when it last called KKM_MEMORY.                     *)
FaultResolved ==
  [][\A k \in Kontexts, p \in Pages :
       /\ synced_first /\ fault[k].page = p
       /\ pc[k] = "update" /\ pc'[k] = "payload"
       /\ MonitorMaps(p, fault_area[k])
       => Hit(p)']_vars

(* The payload never reaches memory that the monitor does not have there   *)
(* any more: its entries are the monitor's of now, whatever faults, calls  *)
(* of KKM_MEMORY and changes of the monitor's memory came in between, as   *)
(* long as the monitor keeps what the driver never takes back.             *)
EntriesCurrent ==
  /\ synced_first => guest_entry \in {native_entry, None}
  /\ slot_kept /\ linked =>
       \A p \in Private :
         guest_pt[p] # None => slot # None /\ guest_pt[p] = area_pt[slot][p]

(* Every page fault ends, in the payload or in an error for the monitor.   *)
FaultEnds ==
  \A k \in Kontexts : pc[k] = "lock" ~> pc[k] \in {"payload", "monitor"}
=============================================================================
