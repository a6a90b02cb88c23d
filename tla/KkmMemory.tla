------------------------------ MODULE KkmMemory ------------------------------
(***************************************************************************)
(* The memory regions of a kontainer: KKM_MEMORY (kkm_set_kontainer_memory,*)
(* kkm_main.c) and the translation of the payload's addresses into the     *)
(* monitor's (kkm_guest_va_to_monitor_va, kkm_kontext.c).                  *)
(*                                                                         *)
(* The writers of a slot hold mem_lock; the translation takes no lock and  *)
(* reads the fields of a slot one after the other.  A slot is written in   *)
(* the order of its fields, which is how memset and memcpy do it.          *)
(*                                                                         *)
(* Addresses count half pages.  An address space is a row of areas of      *)
(* EntrySize, one for each top level entry of the page tables: area 0 is   *)
(* the payload's text and data, area 1 is private (vdso, vvar and code of  *)
(* the monitor), area TopEntry is the payload's stack and mappings.        *)
(***************************************************************************)
EXTENDS Integers, FiniteSets

CONSTANTS
  Callers,        (* threads of the monitor that call KKM_MEMORY           *)
  NoCaller,       (* mem_lock is free                                      *)
  Kontexts,       (* threads that translate an address of the payload      *)
  MaxSlots,       (* KKM_MAX_MEMORY_SLOTS                                  *)
  VdsoSlot,       (* KKM_KM_RSRV_VDSOSLOT                                  *)
  GuestmemSlot,   (* KKM_KM_RSRV_KMGUESTMEM_SLOT                           *)
  EntrySize,      (* what a top level entry maps, 512G                     *)
  TopEntry,       (* KKM_PGD_GUEST_PAYLOAD_TOP_ENTRY                       *)
  MonitorEntry,   (* KKM_PGD_MONITOR_PAYLOAD_ENTRY                         *)
  Hole,           (* 2M at both ends of the payload's address space        *)
  VdsoRoom,       (* KKM_GUEST_KMGUESTMEM_BASE_VA - the private area's base *)
  Asked,          (* the regions the monitor asks for, by their slots      *)
  Tried,          (* the payload's addresses that are translated           *)
  SetFirst        (* the monitor sets the private area's slots before the  *)
                  (* payload runs and then leaves them alone               *)

PageSize == 2
Region == [memory_size : Nat, guest_phys_addr : Nat, userspace_addr : Nat]
NoRegion == [memory_size |-> 0, guest_phys_addr |-> 0, userspace_addr |-> 0]

ASSUME MemoryAssumption ==
  /\ NoCaller \notin Callers
  /\ MaxSlots \in Nat \ {0}
  /\ VdsoSlot \in 0..(MaxSlots - 1) /\ GuestmemSlot \in 0..(MaxSlots - 1)
  /\ VdsoSlot # GuestmemSlot
  /\ EntrySize \in Nat \ {0} /\ TopEntry \in Nat \ {0, 1}
  /\ MonitorEntry \in Nat /\ Hole \in Nat /\ VdsoRoom \in Nat
  /\ \A s \in DOMAIN Asked : Asked[s] \subseteq Region
  /\ DOMAIN Asked \subseteq Nat
  /\ Tried \subseteq Nat
  /\ SetFirst \in BOOLEAN

Slots == 0..(MaxSlots - 1)
Fails == -1

VARIABLES
  mem_slot,        (* kkm->mem_slot; [MaxSlots] is what kkm has behind it  *)
  mem_slot_count,
  mem_lock,        (* the caller that holds it                             *)
  call,            (* where a caller is in KKM_MEMORY                      *)
  arg,             (* the slot and the region of its call                  *)
  ret_val,         (* what its last call returned                          *)
  running,         (* the payload runs                                     *)
  walk,            (* where a kontext is in the translation                *)
  guest_va,        (* the address it translates                            *)
  monitor_va       (* its last answer                                      *)

slots == <<mem_slot, mem_slot_count>>
callers == <<call, arg, ret_val>>
walkers == <<running, walk, guest_va, monitor_va>>
vars == <<slots, mem_lock, callers, walkers>>

EmptySlot == [used |-> FALSE, mr |-> NoRegion]

TypeOK ==
  /\ mem_slot \in [0..MaxSlots -> [used : BOOLEAN, mr : Region]]
  /\ mem_slot_count \in Nat
  /\ mem_lock \in Callers \cup {NoCaller}
  /\ call \in [Callers -> {"idle", "lock", "check", "used", "size", "rest",
                           "unlock"}]
  /\ arg \in [Callers -> [slot : DOMAIN Asked \cup {0}, mr : Region]]
  /\ ret_val \in [Callers -> {"ok", "EINVAL"}]
  /\ running \in BOOLEAN
  /\ walk \in [Kontexts -> {"idle", "vdso", "vdso_addr", "guestmem",
                            "guestmem_addr"}]
  /\ guest_va \in [Kontexts -> Tried \cup {0}]
  /\ monitor_va \in [Kontexts -> Nat \cup {Fails}]

Init ==
  /\ mem_slot = [s \in 0..MaxSlots |-> EmptySlot]
  /\ mem_slot_count = 0
  /\ mem_lock = NoCaller
  /\ call = [c \in Callers |-> "idle"]
  /\ arg = [c \in Callers |-> [slot |-> 0, mr |-> NoRegion]]
  /\ ret_val = [c \in Callers |-> "ok"]
  /\ running = FALSE
  /\ walk = [k \in Kontexts |-> "idle"]
  /\ guest_va = [k \in Kontexts |-> 0]
  /\ monitor_va = [k \in Kontexts |-> Fails]

-----------------------------------------------------------------------------
(***************************************************************************)
(* KKM_MEMORY                                                              *)
(***************************************************************************)

Aligned(mr) ==
  \A f \in DOMAIN mr : mr[f] % PageSize = 0

(* Whether the monitor changes this slot now.                              *)
Allowed(s) == SetFirst /\ running => s \notin {VdsoSlot, GuestmemSlot}

SlotAccepted(s) == s <= MaxSlots

(* The slot's number and the alignment are checked without the lock.       *)
MemoryCall(c) ==
  /\ call[c] = "idle"
  /\ \E s \in DOMAIN Asked : \E mr \in Asked[s] \cup {NoRegion} :
       /\ Allowed(s)
       /\ IF SlotAccepted(s) /\ Aligned(mr)
            THEN /\ call' = [call EXCEPT ![c] = "lock"]
                 /\ arg' = [arg EXCEPT ![c] = [slot |-> s, mr |-> mr]]
                 /\ ret_val' = [ret_val EXCEPT ![c] = "ok"]
            ELSE /\ ret_val' = [ret_val EXCEPT ![c] = "EINVAL"]
                 /\ UNCHANGED <<call, arg>>
  /\ UNCHANGED <<slots, mem_lock, walkers>>

(* Mutant: the lock is taken whether or not it is free.                    *)
LockIgnored == TRUE

LockFree == mem_lock = NoCaller

MemoryLock(c) ==
  /\ call[c] = "lock"
  /\ LockFree
  /\ mem_lock' = c
  /\ call' = [call EXCEPT ![c] = "check"]
  /\ UNCHANGED <<slots, arg, ret_val, walkers>>

(* Size 0 removes the region of a slot that has one, another size sets a   *)
(* slot that has none.                                                     *)
Conflict(s, mr) == (mr.memory_size = 0) # mem_slot[s].used

StartsIn(a, from, size) == from <= a /\ a < from + size

(* The loop passes over the slots in use.                                  *)
OverlapFound(mr) ==
  \E s \in Slots :
    /\ ~mem_slot[s].used
    /\ \/ StartsIn(mr.userspace_addr, mem_slot[s].mr.userspace_addr,
                   mem_slot[s].mr.memory_size)
       \/ StartsIn(mr.guest_phys_addr, mem_slot[s].mr.guest_phys_addr,
                   mem_slot[s].mr.memory_size)

(* An overlap changes what the call returns, not what it does.             *)
MemoryCheck(c) ==
  LET s == arg[c].slot
      mr == arg[c].mr
      conflict == Conflict(s, mr)
      overlap == mr.memory_size # 0 /\ OverlapFound(mr)
  IN /\ call[c] = "check"
     /\ ret_val' = [ret_val EXCEPT ![c] =
                      IF conflict \/ overlap THEN "EINVAL" ELSE @]
     /\ call' = [call EXCEPT ![c] = IF conflict THEN "unlock" ELSE "used"]
     /\ UNCHANGED <<slots, mem_lock, arg, walkers>>

WriteUsed(c) ==
  /\ call[c] = "used"
  /\ mem_slot' = [mem_slot EXCEPT ![arg[c].slot].used =
                    arg[c].mr.memory_size # 0]
  /\ call' = [call EXCEPT ![c] = "size"]
  /\ UNCHANGED <<mem_slot_count, mem_lock, arg, ret_val, walkers>>

WriteSize(c) ==
  /\ call[c] = "size"
  /\ mem_slot' = [mem_slot EXCEPT ![arg[c].slot].mr =
       [@ EXCEPT !.guest_phys_addr = arg[c].mr.guest_phys_addr,
                 !.memory_size = arg[c].mr.memory_size]]
  /\ call' = [call EXCEPT ![c] = "rest"]
  /\ UNCHANGED <<mem_slot_count, mem_lock, arg, ret_val, walkers>>

(* Mutant: a removal is not counted.                                       *)
CountAfterSet(mr) ==
  IF mr.memory_size = 0 THEN mem_slot_count ELSE mem_slot_count + 1

CountAfter(mr) ==
  IF mr.memory_size = 0 THEN mem_slot_count - 1 ELSE mem_slot_count + 1

(* memset clears what the monitor last gave; a removal's own address is 0. *)
WriteRest(c) ==
  /\ call[c] = "rest"
  /\ mem_slot' = [mem_slot EXCEPT ![arg[c].slot].mr =
       [@ EXCEPT !.userspace_addr = arg[c].mr.userspace_addr]]
  /\ mem_slot_count' = CountAfter(arg[c].mr)
  /\ call' = [call EXCEPT ![c] = "unlock"]
  /\ UNCHANGED <<mem_lock, arg, ret_val, walkers>>

(* Mutant: an error returns without giving the lock back.                  *)
LockAfterSuccess(c) == IF ret_val[c] = "ok" THEN NoCaller ELSE mem_lock

LockAfter(c) == NoCaller

MemoryUnlock(c) ==
  /\ call[c] = "unlock"
  /\ mem_lock' = LockAfter(c)
  /\ call' = [call EXCEPT ![c] = "idle"]
  /\ arg' = [arg EXCEPT ![c] = [slot |-> 0, mr |-> NoRegion]]
  /\ UNCHANGED <<slots, ret_val, walkers>>

-----------------------------------------------------------------------------
(***************************************************************************)
(* The translation of an address of the payload                            *)
(***************************************************************************)

StartPayload ==
  /\ ~running
  /\ SetFirst =>
       \A c \in Callers :
         call[c] # "idle" => arg[c].slot \notin {VdsoSlot, GuestmemSlot}
  /\ running' = TRUE
  /\ UNCHANGED <<slots, mem_lock, callers, walk, guest_va, monitor_va>>

UserMemBase == MonitorEntry * EntrySize      (* KKM_KM_USER_MEM_BASE        *)
TopVa == (TopEntry + 1) * EntrySize - Hole   (* KKM_GUEST_MEM_TOP_VA        *)
VaOffset == TopVa - (EntrySize - Hole)       (* KKM_GUEST_VA_OFFSET         *)
VdsoVa == EntrySize                          (* KKM_GUEST_VVAR_VDSO_BASE_VA *)
GuestmemVa == VdsoVa + VdsoRoom              (* KKM_GUEST_KMGUESTMEM_BASE_VA *)

InBottom(va) == Hole <= va /\ va < EntrySize
InTop(va) == VaOffset <= va /\ va < TopVa

TopAddress(va) == UserMemBase + (va - VaOffset)

(* The ranges that need no slot.                                           *)
TranslateLinear(k) ==
  /\ running /\ walk[k] = "idle"
  /\ \E va \in Tried :
       /\ InBottom(va) \/ InTop(va)
       /\ guest_va' = [guest_va EXCEPT ![k] = va]
       /\ monitor_va' = [monitor_va EXCEPT ![k] =
                           IF InBottom(va) THEN UserMemBase + va
                                           ELSE TopAddress(va)]
  /\ UNCHANGED <<slots, mem_lock, callers, running, walk>>

TranslatePrivate(k) ==
  /\ running /\ walk[k] = "idle"
  /\ \E va \in Tried :
       /\ ~InBottom(va) /\ ~InTop(va)
       /\ guest_va' = [guest_va EXCEPT ![k] = va]
  /\ monitor_va' = [monitor_va EXCEPT ![k] = Fails]
  /\ walk' = [walk EXCEPT ![k] = "vdso"]
  /\ UNCHANGED <<slots, mem_lock, callers, running>>

(* Mutant: the end of the region is not looked at.                         *)
HitFromStart(s, base, va) == mem_slot[s].used /\ base <= va

Hit(s, base, va) ==
  mem_slot[s].used /\ StartsIn(va, base, mem_slot[s].mr.memory_size)

(* One slot: its use and size are read, then its address.                  *)
TranslateHit(k, at, s, base, hit, miss) ==
  /\ walk[k] = at
  /\ walk' = [walk EXCEPT ![k] = IF Hit(s, base, guest_va[k])
                                   THEN hit ELSE miss]
  /\ UNCHANGED <<slots, mem_lock, callers, running, guest_va, monitor_va>>

TranslateAddress(k, at, s, base) ==
  /\ walk[k] = at
  /\ walk' = [walk EXCEPT ![k] = "idle"]
  /\ monitor_va' = [monitor_va EXCEPT ![k] =
                      guest_va[k] - base + mem_slot[s].mr.userspace_addr]
  /\ UNCHANGED <<slots, mem_lock, callers, running, guest_va>>

Translate(k) ==
  \/ TranslateLinear(k)
  \/ TranslatePrivate(k)
  \/ TranslateHit(k, "vdso", VdsoSlot, VdsoVa, "vdso_addr", "guestmem")
  \/ TranslateAddress(k, "vdso_addr", VdsoSlot, VdsoVa)
  \/ TranslateHit(k, "guestmem", GuestmemSlot, GuestmemVa, "guestmem_addr",
                  "idle")
  \/ TranslateAddress(k, "guestmem_addr", GuestmemSlot, GuestmemVa)

-----------------------------------------------------------------------------
Memory(c) ==
  \/ MemoryLock(c) \/ MemoryCheck(c)
  \/ WriteUsed(c) \/ WriteSize(c) \/ WriteRest(c)
  \/ MemoryUnlock(c)

Next ==
  \/ \E c \in Callers : MemoryCall(c) \/ Memory(c)
  \/ StartPayload
  \/ \E k \in Kontexts : Translate(k)

Spec == Init /\ [][Next]_vars

(* A caller goes on; a mutex of the kernel is given to those who wait for  *)
(* it in turn.                                                             *)
Fairness ==
  \A c \in Callers : WF_vars(Memory(c)) /\ SF_vars(MemoryLock(c))

FairSpec == Spec /\ Fairness

-----------------------------------------------------------------------------
(***************************************************************************)
(* Properties                                                              *)
(***************************************************************************)

UsedSlots == {s \in Slots : mem_slot[s].used}

(* Outside of mem_lock, mem_slot_count is the number of slots in use,      *)
(* whatever calls failed.                                                  *)
SlotCountExact ==
  mem_lock = NoCaller => mem_slot_count = Cardinality(UsedSlots)

(* The slots as KkmRegions sees them: a region is there from the write of  *)
(* its last field to the write of its slot's first.                        *)
BeingSet(s) ==
  \E c \in Callers : call[c] \in {"size", "rest"} /\ arg[c].slot = s

SetRegions == [s \in {t \in UsedSlots : ~BeingSet(t)} |-> mem_slot[s].mr]

R == INSTANCE KkmRegions WITH
  Numbers <- Slots, Region <- UNION {Asked[s] : s \in DOMAIN Asked},
  regions <- SetRegions

(* Calls of several threads, failed ones among them, add and remove whole  *)
(* regions: KKM_MEMORY implements KkmRegions.                              *)
ImplementsRegions == R!Spec

(* The entry and the offset in it that an address has in the page tables.  *)
(* The payload's first and last entries are copies of the monitor's one    *)
(* (kkm_mmu_sync), so the monitor has the same memory at the same offset.  *)
Linear(va) == MonitorEntry * EntrySize + (va % EntrySize)

(* The private area's two regions, as the monitor ever gave them.          *)
Given(va) ==
  IF va < GuestmemVa
    THEN {va - VdsoVa + mr.userspace_addr :
            mr \in {r \in Asked[VdsoSlot] : va < VdsoVa + r.memory_size}}
    ELSE {va - GuestmemVa + mr.userspace_addr :
            mr \in {r \in Asked[GuestmemSlot] :
                      va < GuestmemVa + r.memory_size}}

(* The address that the driver reads and writes for the payload is the one *)
(* that the payload's page tables, or the region in the private area, have *)
(* for it.  It is what every hypercall, exception and page fault relies on.*)
TranslationRight ==
  \A k \in Kontexts :
    walk[k] = "idle" /\ monitor_va[k] # Fails =>
      monitor_va[k] \in IF InBottom(guest_va[k]) \/ InTop(guest_va[k])
                          THEN {Linear(guest_va[k])} ELSE Given(guest_va[k])

Overlap(m, n) ==
  \/ StartsIn(m.userspace_addr, n.userspace_addr, n.memory_size)
  \/ StartsIn(m.guest_phys_addr, n.guest_phys_addr, n.memory_size)

(* No two regions overlap in the monitor's or the payload's address space  *)
(* (the comments of kkm_main.c:576 and 583).                               *)
NoOverlaps ==
  \A s, t \in DOMAIN SetRegions :
    s # t => ~Overlap(mem_slot[s].mr, mem_slot[t].mr)

(* Every KKM_MEMORY call returns: mem_lock is given back on every path,    *)
(* failed calls among them.                                                *)
MemoryReturns == \A c \in Callers : call[c] # "idle" ~> call[c] = "idle"
=============================================================================
