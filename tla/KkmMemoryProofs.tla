--------------------------- MODULE KkmMemoryProofs ---------------------------
(***************************************************************************)
(* Theorems about KkmMemory, for every number of threads and of slots and  *)
(* every set of regions and addresses.                                     *)
(***************************************************************************)
EXTENDS KkmMemory, FiniteSetTheorems, TLAPS

Locked == {"check", "used", "size", "rest", "unlock"}
Writing == {"size", "rest"}

(* mem_lock is held exactly by the caller between its lock and its unlock. *)
LockInv ==
  /\ \A c \in Callers : call[c] \in Locked <=> mem_lock = c

(* A call past the first checks is about a slot that the table, or what is *)
(* behind it, has, and about a region the monitor has asked for.           *)
ArgInv ==
  \A c \in Callers : call[c] # "idle" =>
    /\ arg[c].slot \in DOMAIN Asked /\ arg[c].slot <= MaxSlots
    /\ arg[c].mr \in Asked[arg[c].slot] \cup {NoRegion}

(* What the check under the lock has found, and what was written since.    *)
SlotInv ==
  \A c \in Callers :
    LET m == mem_slot[arg[c].slot]
    IN /\ call[c] = "used" => m.used = (arg[c].mr.memory_size = 0)
       /\ call[c] \in Writing => m.used = (arg[c].mr.memory_size # 0)
       /\ call[c] = "rest" =>
            /\ m.mr.guest_phys_addr = arg[c].mr.guest_phys_addr
            /\ m.mr.memory_size = arg[c].mr.memory_size

(* The count is one late while a caller writes; it counts the slot behind  *)
(* the table with the others.                                              *)
AllUsed == {s \in 0..MaxSlots : mem_slot[s].used}

CountInv ==
  /\ (\A c \in Callers : call[c] \notin Writing) =>
       mem_slot_count = Cardinality(AllUsed)
  /\ \A c \in Callers : call[c] \in Writing =>
       mem_slot_count = Cardinality(AllUsed)
                          + IF arg[c].mr.memory_size = 0 THEN 1 ELSE -1

(* An address is looked up in a region that begins at or below it.         *)
WalkInv ==
  \A k \in Kontexts :
    /\ walk[k] = "vdso_addr" => VdsoVa <= guest_va[k]
    /\ walk[k] = "guestmem_addr" => GuestmemVa <= guest_va[k]

(* Nothing is written behind the table that the monitor does not ask for.  *)
BehindInv ==
  MaxSlots \notin DOMAIN Asked => mem_slot[MaxSlots] = EmptySlot

MInv ==
  /\ TypeOK /\ LockInv /\ ArgInv /\ SlotInv /\ CountInv
  /\ BehindInv /\ WalkInv

USE DEF slots, callers, walkers, Locked, Writing

-----------------------------------------------------------------------------
(* A product of naturals is one: the arithmetic that Layout needs.         *)
LEMMA ProductNat == ASSUME NEW a \in Nat, NEW b \in Nat PROVE a * b \in Nat
OBVIOUS

(* The payload's address space, in terms of its entries.                   *)
LEMMA Layout ==
  /\ UserMemBase \in Nat
  /\ VaOffset = TopEntry * EntrySize /\ VaOffset \in Nat
  /\ VdsoVa \in Nat /\ GuestmemVa \in Nat /\ VdsoVa <= GuestmemVa
<1> USE MemoryAssumption
<1>1. UserMemBase \in Nat
  BY ProductNat DEF UserMemBase
<1>2. TopEntry * EntrySize \in Nat
  BY ProductNat
<1>3. (TopEntry + 1) * EntrySize = TopEntry * EntrySize + EntrySize
  OBVIOUS
<1>4. VaOffset = TopEntry * EntrySize
  <2> DEFINE P == TopEntry * EntrySize
  <2>1. P \in Nat /\ (TopEntry + 1) * EntrySize = P + EntrySize
    BY <1>2, <1>3
  <2> HIDE DEF P
  <2>2. VaOffset = P
    BY <2>1 DEF VaOffset, TopVa
  <2> QED
    BY <2>2 DEF P
<1>5. VdsoVa \in Nat /\ GuestmemVa \in Nat /\ VdsoVa <= GuestmemVa
  BY DEF VdsoVa, GuestmemVa
<1> QED
  BY <1>1, <1>2, <1>4, <1>5

(* The slots in use, the extra one among them, can be counted.             *)
LEMMA AllUsedFinite ==
  IsFiniteSet(AllUsed) /\ Cardinality(AllUsed) \in Nat
<1>1. IsFiniteSet(0..MaxSlots)
  BY FS_Interval, MemoryAssumption
<1>2. AllUsed \in SUBSET (0..MaxSlots)
  BY DEF AllUsed
<1> QED
  BY <1>1, <1>2, FS_Subset, FS_CardinalityType

-----------------------------------------------------------------------------
(* A kontainer begins with no slot in use.                                 *)
LEMMA MemoryInit == Init => MInv
<1> SUFFICES ASSUME Init PROVE MInv
  OBVIOUS
<1> USE MemoryAssumption DEF Init
<1>1. NoRegion \in Region
  BY DEF NoRegion, Region
<1>2. TypeOK
  BY <1>1 DEF TypeOK, EmptySlot, Fails
<1>3. LockInv /\ ArgInv /\ SlotInv /\ BehindInv /\ WalkInv
  BY DEF LockInv, ArgInv, SlotInv, BehindInv, WalkInv
<1>4. CountInv
  <2>1. AllUsed = {}
    BY DEF AllUsed, EmptySlot
  <2> QED
    BY <2>1, FS_EmptySet DEF CountInv
<1> QED
  BY <1>2, <1>3, <1>4 DEF MInv

(* What the invariant says of a caller's own region and slot.              *)
LEMMA Arg ==
  ASSUME MInv, NEW c \in Callers, call[c] # "idle"
  PROVE  /\ arg[c] \in [slot : DOMAIN Asked \cup {0}, mr : Region]
         /\ arg[c].slot \in 0..MaxSlots /\ arg[c].mr \in Region
         /\ arg[c].mr.memory_size \in Nat
<1>1. arg[c] \in [slot : DOMAIN Asked \cup {0}, mr : Region]
  BY DEF MInv, TypeOK
<1>2. arg[c].slot \in Nat /\ arg[c].slot <= MaxSlots
  BY <1>1, MemoryAssumption DEF MInv, ArgInv
<1> QED
  BY <1>1, <1>2, MemoryAssumption DEF Region

(* Only one caller is between the lock and the unlock.                     *)
LEMMA OneLocked ==
  ASSUME MInv, NEW c \in Callers, call[c] \in Locked, NEW d \in Callers,
         d # c
  PROVE  call[d] \in {"idle", "lock"}
BY DEF MInv, LockInv, TypeOK

(* One field of a slot, or two, are written.                               *)
Slot == [used : BOOLEAN, mr : Region]

(* The write of a slot's first field touches nothing else.                 *)
LEMMA UsedWritten ==
  ASSUME mem_slot \in [0..MaxSlots -> Slot], NEW s \in 0..MaxSlots,
         NEW z \in Nat, mem_slot' = [mem_slot EXCEPT ![s].used = z # 0]
  PROVE  /\ mem_slot' \in [0..MaxSlots -> Slot]
         /\ mem_slot'[s].used = (z # 0)
         /\ \A t \in 0..MaxSlots \ {s} : mem_slot'[t] = mem_slot[t]
<1>1. mem_slot[s] \in Slot
  OBVIOUS
<1>2. mem_slot'[s] = [mem_slot[s] EXCEPT !.used = z # 0]
  OBVIOUS
<1>3. mem_slot'[s] \in Slot /\ mem_slot'[s].used = (z # 0)
  BY <1>1, <1>2 DEF Slot
<1>4. \A t \in 0..MaxSlots \ {s} : mem_slot'[t] = mem_slot[t]
  OBVIOUS
<1>5. mem_slot' \in [0..MaxSlots -> Slot]
  BY <1>1, <1>3, <1>4
<1> QED
  BY <1>3, <1>4, <1>5

(* Nor does the write of a field of its region.                            *)
LEMMA RegionWritten ==
  ASSUME mem_slot \in [0..MaxSlots -> Slot], NEW s \in 0..MaxSlots,
         NEW r \in Region, mem_slot' = [mem_slot EXCEPT ![s].mr = r]
  PROVE  /\ mem_slot' \in [0..MaxSlots -> Slot]
         /\ mem_slot'[s].used = mem_slot[s].used /\ mem_slot'[s].mr = r
         /\ \A t \in 0..MaxSlots \ {s} : mem_slot'[t] = mem_slot[t]
<1>1. mem_slot[s] \in Slot
  OBVIOUS
<1>2. mem_slot'[s] = [mem_slot[s] EXCEPT !.mr = r]
  OBVIOUS
<1>3. /\ mem_slot'[s] \in Slot
      /\ mem_slot'[s].used = mem_slot[s].used /\ mem_slot'[s].mr = r
  BY <1>1, <1>2 DEF Slot
<1>4. \A t \in 0..MaxSlots \ {s} : mem_slot'[t] = mem_slot[t]
  OBVIOUS
<1>5. mem_slot' \in [0..MaxSlots -> Slot]
  BY <1>1, <1>3, <1>4
<1> QED
  BY <1>3, <1>4, <1>5

(* A call has its arguments before it asks for the lock.                   *)
LEMMA CallStep ==
  ASSUME MInv, NEW c \in Callers, MemoryCall(c)
  PROVE  MInv'
<1> USE MemoryAssumption DEF MInv, MemoryCall
<1>1. NoRegion \in Region
  BY DEF NoRegion, Region
<1>2. TypeOK'
  <2>1. arg' \in [Callers -> [slot : DOMAIN Asked \cup {0}, mr : Region]]
    <3>1. PICK s \in DOMAIN Asked : \E mr \in Asked[s] \cup {NoRegion} :
            arg' \in {arg, [arg EXCEPT ![c] = [slot |-> s, mr |-> mr]]}
      OBVIOUS
    <3>2. PICK mr \in Asked[s] \cup {NoRegion} :
            arg' \in {arg, [arg EXCEPT ![c] = [slot |-> s, mr |-> mr]]}
      BY <3>1
    <3>3. [slot |-> s, mr |-> mr] \in [slot : DOMAIN Asked \cup {0},
                                      mr : Region]
      BY <1>1
    <3>4. arg \in [Callers -> [slot : DOMAIN Asked \cup {0}, mr : Region]]
      BY DEF TypeOK
    <3> HIDE DEF MInv, MemoryCall
    <3> QED
      BY <3>2, <3>3, <3>4
  <2> QED
    BY <2>1 DEF TypeOK
<1>3. LockInv' /\ BehindInv' /\ WalkInv'
  BY DEF LockInv, BehindInv, WalkInv, TypeOK
<1>4. ArgInv'
  BY DEF ArgInv, TypeOK, SlotAccepted
<1>5. ASSUME NEW d \in Callers
      PROVE  /\ call'[d] \in Locked => call[d] = call'[d] /\ arg'[d] = arg[d]
             /\ call[d] \in Locked => call[d] = call'[d]
  BY DEF TypeOK
<1>6. SlotInv'
  BY <1>5 DEF SlotInv
<1>7. CountInv'
  BY <1>5 DEF CountInv, AllUsed
<1> QED
  BY <1>2, <1>3, <1>4, <1>6, <1>7

(* mem_lock goes to one caller.                                            *)
LEMMA LockStep ==
  ASSUME MInv, NEW c \in Callers, MemoryLock(c)
  PROVE  MInv'
<1> USE MemoryAssumption DEF MInv, MemoryLock, LockFree, TypeOK
<1>1. TypeOK'
  OBVIOUS
<1>2. LockInv' /\ ArgInv' /\ SlotInv' /\ BehindInv' /\ WalkInv'
  BY DEF LockInv, ArgInv, SlotInv, BehindInv, WalkInv
<1>3. CountInv'
  BY DEF CountInv, AllUsed
<1> QED
  BY <1>1, <1>2, <1>3

(* Past the check the caller's slot is one it may write.                   *)
LEMMA CheckStep ==
  ASSUME MInv, NEW c \in Callers, MemoryCheck(c)
  PROVE  MInv'
<1> USE MemoryAssumption DEF MInv, MemoryCheck, TypeOK
<1>1. TypeOK'
  OBVIOUS
<1>2. LockInv' /\ ArgInv' /\ BehindInv' /\ WalkInv'
  BY DEF LockInv, ArgInv, BehindInv, WalkInv
<1>3. SlotInv'
  BY Arg DEF SlotInv, Conflict
<1>4. CountInv'
  BY DEF CountInv, AllUsed
<1> QED
  BY <1>1, <1>2, <1>3, <1>4

(* The count lags behind the slots from here on, by the writer's slot.     *)
LEMMA UsedStep ==
  ASSUME MInv, NEW c \in Callers, WriteUsed(c)
  PROVE  MInv'
<1> USE MemoryAssumption DEF MInv, WriteUsed
<1> DEFINE s == arg[c].slot
           size == arg[c].mr.memory_size
<1>1. s \in 0..MaxSlots /\ size \in Nat
  BY Arg
<1>2. mem_slot \in [0..MaxSlots -> Slot]
  BY DEF TypeOK, Slot
<1>3. mem_slot[s].used = (size = 0)
  BY DEF SlotInv
<1>4. /\ mem_slot' \in [0..MaxSlots -> Slot]
      /\ mem_slot'[s].used = (size # 0)
      /\ \A t \in 0..MaxSlots \ {s} : mem_slot'[t] = mem_slot[t]
  <2>1. mem_slot' = [mem_slot EXCEPT ![s].used = size # 0]
    OBVIOUS
  <2> HIDE DEF s, size, MInv, WriteUsed
  <2> QED
    BY <1>1, <1>2, <2>1, UsedWritten
<1>5. TypeOK'
  BY <1>4 DEF TypeOK, Slot
<1>6. LockInv' /\ ArgInv' /\ BehindInv' /\ WalkInv'
  BY DEF LockInv, ArgInv, BehindInv, WalkInv, TypeOK
<1>7. \A d \in Callers \ {c} : call[d] \in {"idle", "lock"}
  BY OneLocked
<1>8. SlotInv'
  <2>1. /\ call'[c] = "size" /\ arg' = arg
        /\ \A d \in Callers \ {c} : call'[d] \in {"idle", "lock"}
    BY <1>7 DEF TypeOK
  <2> QED
    BY <1>4, <2>1 DEF SlotInv
<1>9. CountInv'
  <2>1. mem_slot_count = Cardinality(AllUsed)
    BY <1>7 DEF CountInv
  <2>2. Cardinality(AllUsed') =
          IF size = 0 THEN Cardinality(AllUsed) - 1
                      ELSE Cardinality(AllUsed) + 1
    <3> HIDE DEF s, size
    <3>1. CASE size = 0
      <4>1. mem_slot[s].used /\ ~mem_slot'[s].used
        BY <1>3, <1>4, <3>1
      <4>2. AllUsed' = AllUsed \ {s} /\ s \in AllUsed
        BY <1>1, <1>4, <4>1 DEF AllUsed
      <4> QED
        BY <4>2, <3>1, AllUsedFinite, FS_RemoveElement
    <3>2. CASE size # 0
      <4>1. ~mem_slot[s].used /\ mem_slot'[s].used
        BY <1>3, <1>4, <3>2
      <4>2. AllUsed' = AllUsed \cup {s} /\ s \notin AllUsed
        BY <1>1, <1>4, <4>1 DEF AllUsed
      <4> QED
        BY <4>2, <3>2, AllUsedFinite, FS_AddElement
    <3> QED
      BY <3>1, <3>2
  <2> QED
    BY <2>1, <2>2, <1>7, AllUsedFinite, SMTT(30) DEF CountInv, TypeOK
<1> QED
  BY <1>5, <1>6, <1>8, <1>9

(* The second write leaves the count as it is.                             *)
LEMMA SizeStep ==
  ASSUME MInv, NEW c \in Callers, WriteSize(c)
  PROVE  MInv'
<1> USE MemoryAssumption DEF MInv, WriteSize
<1> DEFINE s == arg[c].slot
           mr == arg[c].mr
<1>1. s \in 0..MaxSlots /\ mr \in Region
  BY Arg
<1>2. mem_slot \in [0..MaxSlots -> Slot]
  BY DEF TypeOK, Slot
<1>3. /\ mem_slot' \in [0..MaxSlots -> Slot]
      /\ mem_slot'[s].used = mem_slot[s].used
      /\ mem_slot'[s].mr.guest_phys_addr = mr.guest_phys_addr
      /\ mem_slot'[s].mr.memory_size = mr.memory_size
      /\ \A t \in 0..MaxSlots \ {s} : mem_slot'[t] = mem_slot[t]
  <2> DEFINE r == [mem_slot[s].mr EXCEPT
                     !.guest_phys_addr = mr.guest_phys_addr,
                     !.memory_size = mr.memory_size]
  <2>1. mem_slot[s].mr \in Region
    BY <1>1, <1>2 DEF Slot
  <2>2. /\ r \in Region
        /\ r.guest_phys_addr = mr.guest_phys_addr
        /\ r.memory_size = mr.memory_size
    BY <1>1, <2>1 DEF Region
  <2>3. mem_slot' = [mem_slot EXCEPT ![s].mr = r]
    OBVIOUS
  <2> HIDE DEF s, mr, r, MInv, WriteSize
  <2> QED
    BY <1>1, <1>2, <2>2, <2>3, RegionWritten
<1>4. TypeOK'
  BY <1>3 DEF TypeOK, Slot
<1>5. LockInv' /\ ArgInv' /\ BehindInv' /\ WalkInv'
  BY DEF LockInv, ArgInv, BehindInv, WalkInv, TypeOK
<1>6. \A d \in Callers \ {c} : call[d] \in {"idle", "lock"}
  BY OneLocked
<1>7. SlotInv'
  BY <1>3, <1>6, ZenonT(40) DEF SlotInv, TypeOK
<1>8. CountInv'
  <2>1. AllUsed' = AllUsed
    <3> HIDE DEF s
    <3> QED
      BY <1>1, <1>3 DEF AllUsed
  <2> QED
    BY <2>1 DEF CountInv, TypeOK
<1> QED
  BY <1>4, <1>5, <1>7, <1>8

(* The last write is where the count catches up.                           *)
LEMMA RestStep ==
  ASSUME MInv, NEW c \in Callers, WriteRest(c)
  PROVE  MInv'
<1> USE MemoryAssumption DEF MInv, WriteRest
<1> DEFINE s == arg[c].slot
           a == arg[c].mr.userspace_addr
<1>1. s \in 0..MaxSlots /\ a \in Nat
  BY Arg DEF Region
<1>2. mem_slot \in [0..MaxSlots -> Slot]
  BY DEF TypeOK, Slot
<1>3. /\ mem_slot' \in [0..MaxSlots -> Slot]
      /\ mem_slot'[s].used = mem_slot[s].used
      /\ \A t \in 0..MaxSlots \ {s} : mem_slot'[t] = mem_slot[t]
  <2> DEFINE r == [mem_slot[s].mr EXCEPT !.userspace_addr = a]
  <2>1. mem_slot[s].mr \in Region
    BY <1>1, <1>2 DEF Slot
  <2>2. r \in Region
    BY <1>1, <2>1 DEF Region
  <2>3. mem_slot' = [mem_slot EXCEPT ![s].mr = r]
    OBVIOUS
  <2> HIDE DEF s, a, r, MInv, WriteRest
  <2> QED
    BY <1>1, <1>2, <2>2, <2>3, RegionWritten
<1>4. \A d \in Callers \ {c} : call[d] \in {"idle", "lock"}
  BY OneLocked
<1>5. AllUsed' = AllUsed
  <2> HIDE DEF s
  <2> QED
    BY <1>1, <1>3 DEF AllUsed
<1>6. mem_slot_count' = Cardinality(AllUsed)
  BY AllUsedFinite DEF CountInv, CountAfter
<1>7. TypeOK'
  BY <1>3, <1>6, AllUsedFinite DEF TypeOK, Slot
<1>8. LockInv' /\ ArgInv' /\ BehindInv' /\ WalkInv'
  BY DEF LockInv, ArgInv, BehindInv, WalkInv, TypeOK
<1>9. SlotInv'
  BY <1>4 DEF SlotInv, TypeOK
<1>10. CountInv'
  BY <1>4, <1>5, <1>6 DEF CountInv, TypeOK
<1> QED
  BY <1>7, <1>8, <1>9, <1>10

(* mem_lock is given back with the count exact.                            *)
LEMMA UnlockStep ==
  ASSUME MInv, NEW c \in Callers, MemoryUnlock(c)
  PROVE  MInv'
<1> USE MemoryAssumption DEF MInv, MemoryUnlock, LockAfter
<1>1. NoRegion \in Region
  BY DEF NoRegion, Region
<1>2. TypeOK'
  BY <1>1 DEF TypeOK
<1>3. LockInv' /\ ArgInv' /\ SlotInv' /\ BehindInv' /\ WalkInv'
  BY DEF LockInv, ArgInv, SlotInv, BehindInv, WalkInv, TypeOK
<1>4. CountInv'
  BY DEF CountInv, AllUsed, TypeOK
<1> QED
  BY <1>2, <1>3, <1>4

(* A translation changes nothing but its own answer.                       *)
LEMMA TranslateStep ==
  ASSUME MInv, NEW k \in Kontexts, Translate(k)
  PROVE  MInv'
<1> USE MemoryAssumption, Layout DEF MInv
<1>1. UNCHANGED <<slots, mem_lock, callers, running>>
  BY DEF Translate, TranslateLinear, TranslatePrivate, TranslateHit,
         TranslateAddress
<1>2. LockInv' /\ ArgInv' /\ SlotInv' /\ BehindInv'
  BY <1>1 DEF LockInv, ArgInv, SlotInv, BehindInv
<1>3. CountInv'
  BY <1>1 DEF CountInv, AllUsed
<1>4. ASSUME NEW x \in {"vdso_addr", "guestmem_addr"}, NEW s \in Slots,
             NEW base \in Nat, TranslateAddress(k, x, s, base),
             base <= guest_va[k]
      PROVE  TypeOK' /\ WalkInv'
  <2>1. s \in 0..MaxSlots
    BY DEF Slots
  <2>2. mem_slot[s].mr.userspace_addr \in Nat
    BY <2>1 DEF TypeOK, Region
  <2>3. guest_va[k] \in Nat
    <3>1. guest_va[k] \in Tried \cup {0}
      BY DEF TypeOK
    <3>2. Tried \cup {0} \subseteq Nat
      OBVIOUS
    <3> QED
      BY <3>1, <3>2
  <2>4. guest_va[k] - base + mem_slot[s].mr.userspace_addr \in Nat
    BY <1>4, <2>2, <2>3
  <2> QED
    BY <1>4, <2>4 DEF TranslateAddress, TypeOK, WalkInv
<1>5. ASSUME NEW x, NEW s \in Slots, NEW base \in Nat,
             NEW hit \in {"vdso_addr", "guestmem_addr"},
             NEW miss \in {"idle", "guestmem"},
             base = IF hit = "vdso_addr" THEN VdsoVa ELSE GuestmemVa,
             TranslateHit(k, x, s, base, hit, miss)
      PROVE  TypeOK' /\ WalkInv'
  BY <1>5 DEF TranslateHit, TypeOK, WalkInv, Hit, StartsIn
<1>6. ASSUME TranslateLinear(k) PROVE TypeOK' /\ WalkInv'
  BY <1>6 DEF TranslateLinear, TypeOK, WalkInv, InBottom, InTop, TopAddress,
              Fails
<1>7. ASSUME TranslatePrivate(k) PROVE TypeOK' /\ WalkInv'
  BY <1>7 DEF TranslatePrivate, TypeOK, WalkInv, Fails
<1>8. VdsoSlot \in Slots /\ GuestmemSlot \in Slots
  BY DEF Slots
<1>9. TypeOK' /\ WalkInv'
  BY <1>4, <1>5, <1>6, <1>7, <1>8 DEF Translate, TranslateAddress, WalkInv
<1> QED
  BY <1>2, <1>3, <1>9

(* Every step keeps the invariant of KKM_MEMORY.                           *)
LEMMA MemoryStep == MInv /\ [Next]_vars => MInv'
<1> SUFFICES ASSUME MInv, [Next]_vars PROVE MInv'
  OBVIOUS
<1>1. ASSUME NEW c \in Callers, MemoryCall(c) \/ Memory(c) PROVE MInv'
  BY <1>1, CallStep, LockStep, CheckStep, UsedStep, SizeStep, RestStep,
     UnlockStep DEF Memory
<1>2. ASSUME StartPayload PROVE MInv'
  BY <1>2 DEF StartPayload, MInv, TypeOK, LockInv, ArgInv, SlotInv, CountInv,
              AllUsed, BehindInv, WalkInv
<1>3. ASSUME NEW k \in Kontexts, Translate(k) PROVE MInv'
  BY <1>3, TranslateStep
<1>4. ASSUME UNCHANGED vars PROVE MInv'
  BY <1>4 DEF vars, MInv, TypeOK, LockInv, ArgInv, SlotInv, CountInv,
              AllUsed, BehindInv, WalkInv
<1> QED
  BY <1>1, <1>2, <1>3, <1>4 DEF Next

(* The invariant from which the count, the regions and the translation are *)
(* proved.                                                                 *)
THEOREM MemoryInvariant == Spec => []MInv
<1>1. Init => MInv
  BY MemoryInit
<1>2. MInv /\ [Next]_vars => MInv'
  BY MemoryStep
<1> QED
  BY <1>1, <1>2, PTL DEF Spec

(* What the slots and the callers hold, at any time.                       *)
THEOREM MemoryTypeCorrect == Spec => []TypeOK
<1>1. MInv => TypeOK
  BY DEF MInv
<1> QED
  BY <1>1, MemoryInvariant, PTL

(* The count of the slots in use, whatever calls of whatever threads have  *)
(* failed, if the monitor asks for no slot behind the table.               *)
THEOREM CountCorrect ==
  ASSUME MaxSlots \notin DOMAIN Asked
  PROVE  Spec => []SlotCountExact
<1>1. MInv => SlotCountExact
  <2> SUFFICES ASSUME MInv, mem_lock = NoCaller PROVE SlotCountExact
    BY DEF SlotCountExact
  <2>1. mem_slot_count = Cardinality(AllUsed)
    BY MemoryAssumption DEF MInv, LockInv, CountInv
  <2>2. ~mem_slot[MaxSlots].used
    BY DEF MInv, BehindInv, EmptySlot
  <2>3. AllUsed = UsedSlots
    BY <2>2, MemoryAssumption DEF AllUsed, UsedSlots, Slots
  <2> QED
    BY <2>1, <2>3 DEF SlotCountExact
<1> QED
  BY <1>1, MemoryInvariant, PTL

-----------------------------------------------------------------------------
(***************************************************************************)
(* KKM_MEMORY implements KkmRegions: the write of used that clears a slot  *)
(* removes its region, the last write that sets one adds it, and no other  *)
(* step shows.                                                             *)
(***************************************************************************)
Shown == {s \in UsedSlots : ~BeingSet(s)}

(* The same regions are shown if the same slots are, unwritten.            *)
LEMMA ShownSame ==
  ASSUME Shown' = Shown, \A s \in Shown : mem_slot'[s] = mem_slot[s]
  PROVE  SetRegions' = SetRegions
<1>1. SetRegions = [s \in Shown |-> mem_slot[s].mr]
  BY DEF SetRegions, Shown
<1>2. SetRegions' = [s \in Shown' |-> mem_slot'[s].mr]
  BY DEF SetRegions, Shown
<1> QED
  BY <1>1, <1>2

(* A kontainer begins with no region.                                      *)
LEMMA RegionsInit == Init => R!Init
<1> SUFFICES ASSUME Init PROVE R!Init
  OBVIOUS
<1>1. UsedSlots = {}
  BY MemoryAssumption DEF Init, UsedSlots, Slots, EmptySlot
<1>2. SetRegions = << >>
  BY <1>1 DEF SetRegions
<1> QED
  BY <1>2 DEF R!Init

(* The caller that writes is the only one.                                 *)
LEMMA OneBeingSet ==
  ASSUME MInv, NEW c \in Callers, call[c] \in Locked,
         \A d \in Callers \ {c} : call'[d] = call[d]
  PROVE  \A s \in Slots :
           /\ BeingSet(s) <=> call[c] \in Writing /\ arg[c].slot = s
           /\ BeingSet(s)' <=> call'[c] \in Writing /\ arg'[c].slot = s
<1>1. \A d \in Callers \ {c} : call[d] \in {"idle", "lock"}
  BY OneLocked
<1> QED
  BY <1>1 DEF BeingSet

(* The first write of a slot takes its region away.                        *)
LEMMA UsedShown ==
  ASSUME MInv, NEW c \in Callers, WriteUsed(c)
  PROVE  /\ Shown' = Shown \ {arg[c].slot}
         /\ \A t \in Shown' : mem_slot'[t] = mem_slot[t]
<1> DEFINE s == arg[c].slot
<1>1. /\ s \in 0..MaxSlots /\ arg[c].mr.memory_size \in Nat
      /\ mem_slot \in [0..MaxSlots -> Slot]
  BY Arg, WriteUsed(c) DEF WriteUsed, MInv, TypeOK, Slot
<1>2. /\ call[c] = "used" /\ call'[c] = "size" /\ arg' = arg
      /\ mem_slot' = [mem_slot EXCEPT ![s].used = arg[c].mr.memory_size # 0]
      /\ \A d \in Callers \ {c} : call'[d] = call[d]
  BY DEF WriteUsed, MInv, TypeOK
<1>3. \A t \in 0..MaxSlots \ {s} : mem_slot'[t] = mem_slot[t]
  BY <1>1, <1>2, UsedWritten
<1>4. \A t \in Slots : ~BeingSet(t) /\ (BeingSet(t)' <=> t = s)
  BY <1>2, OneBeingSet
<1> HIDE DEF s
<1>5. Shown' = Shown \ {s}
  BY <1>3, <1>4, MemoryAssumption DEF Shown, UsedSlots, Slots
<1>6. \A t \in Shown \ {s} : mem_slot'[t] = mem_slot[t]
  BY <1>3, MemoryAssumption DEF Shown, UsedSlots, Slots
<1> QED
  BY <1>5, <1>6 DEF s

(* It is Remove of KkmRegions, or nothing if there was no region.          *)
LEMMA UsedRegions ==
  ASSUME MInv, NEW c \in Callers, WriteUsed(c)
  PROVE  [R!Next]_SetRegions
<1> DEFINE s == arg[c].slot
<1>1. /\ Shown' = Shown \ {s}
      /\ \A t \in Shown \ {s} : mem_slot'[t] = mem_slot[t]
  BY UsedShown
<1> HIDE DEF s
<1>2. CASE s \in Shown
  <2>1. SetRegions = [t \in Shown |-> mem_slot[t].mr]
    BY DEF SetRegions, Shown
  <2>2. SetRegions' = [t \in Shown \ {s} |-> mem_slot'[t].mr]
    BY <1>1 DEF SetRegions, Shown
  <2>3. s \in Slots
    BY <1>2 DEF Shown, UsedSlots
  <2>4. R!Remove(s)
    BY <1>1, <1>2, <2>1, <2>2 DEF R!Remove, R!Restrict
  <2> QED
    BY <2>3, <2>4 DEF R!Next
<1>3. CASE s \notin Shown
  BY <1>1, <1>3, ShownSame
<1> QED
  BY <1>2, <1>3

(* The second write is not seen.                                           *)
LEMMA SizeRegions ==
  ASSUME MInv, NEW c \in Callers, WriteSize(c)
  PROVE  SetRegions' = SetRegions
<1> DEFINE s == arg[c].slot
           r == [mem_slot[s].mr EXCEPT
                   !.guest_phys_addr = arg[c].mr.guest_phys_addr,
                   !.memory_size = arg[c].mr.memory_size]
<1>1. /\ s \in 0..MaxSlots /\ arg[c].mr \in Region
      /\ mem_slot \in [0..MaxSlots -> Slot]
  BY Arg, WriteSize(c) DEF WriteSize, MInv, TypeOK, Slot
<1>2. /\ call[c] = "size" /\ call'[c] = "rest" /\ arg' = arg
      /\ mem_slot' = [mem_slot EXCEPT ![s].mr = r]
      /\ \A d \in Callers \ {c} : call'[d] = call[d]
  BY DEF WriteSize, MInv, TypeOK
<1>3. r \in Region
  <2>1. mem_slot[s].mr \in Region
    BY <1>1 DEF Slot
  <2> QED
    BY <1>1, <2>1 DEF Region
<1>4. \A t \in Slots : (BeingSet(t) <=> t = s) /\ (BeingSet(t)' <=> t = s)
  BY <1>2, OneBeingSet
<1> HIDE DEF s, r
<1>5. \A t \in 0..MaxSlots \ {s} : mem_slot'[t] = mem_slot[t]
  BY <1>1, <1>2, <1>3, RegionWritten
<1>6. Shown' = Shown /\ \A t \in Shown : mem_slot'[t] = mem_slot[t]
  BY <1>4, <1>5, MemoryAssumption DEF Shown, UsedSlots, Slots
<1> QED
  BY <1>6, ShownSame

(* The last write shows the region that was asked for, unless it removes   *)
(* one or its slot is beyond the table.                                    *)
LEMMA RestShown ==
  ASSUME MInv, NEW c \in Callers, WriteRest(c),
         NEW s, s = arg[c].slot, NEW mr, mr = arg[c].mr
  PROVE  /\ s \notin Shown /\ \A t \in Shown : mem_slot'[t] = mem_slot[t]
         /\ \/ Shown' = Shown
            \/ /\ Shown' = Shown \cup {s} /\ mem_slot'[s].mr = mr
               /\ s \in Slots /\ s \in DOMAIN Asked /\ mr \in Asked[s]
<1> DEFINE r == [mem_slot[s].mr EXCEPT !.userspace_addr = mr.userspace_addr]
<1>1. /\ s \in 0..MaxSlots /\ mr \in Region
      /\ mem_slot \in [0..MaxSlots -> Slot]
      /\ s \in DOMAIN Asked /\ mr \in Asked[s] \cup {NoRegion}
  BY Arg, WriteRest(c) DEF WriteRest, MInv, TypeOK, ArgInv, Slot
<1>2. /\ call[c] = "rest" /\ call'[c] = "unlock" /\ arg' = arg
      /\ mem_slot' = [mem_slot EXCEPT ![s].mr = r]
      /\ \A d \in Callers \ {c} : call'[d] = call[d]
  BY DEF WriteRest, MInv, TypeOK
<1>3. r \in Region /\ r = mr
  <2>1. mem_slot[s].mr \in Region
    BY <1>1 DEF Slot
  <2>2. /\ mem_slot[s].mr.guest_phys_addr = mr.guest_phys_addr
        /\ mem_slot[s].mr.memory_size = mr.memory_size
    BY <1>2 DEF MInv, SlotInv
  <2> QED
    BY <1>1, <2>1, <2>2 DEF Region
<1>4. \A t \in Slots : (BeingSet(t) <=> t = s) /\ ~BeingSet(t)'
  BY <1>2, OneBeingSet
<1>5. mem_slot[s].used = (mr.memory_size # 0)
  BY <1>2 DEF MInv, SlotInv
<1> HIDE DEF r
<1>6. /\ \A t \in 0..MaxSlots \ {s} : mem_slot'[t] = mem_slot[t]
      /\ mem_slot'[s].used = mem_slot[s].used /\ mem_slot'[s].mr = mr
  BY <1>1, <1>2, <1>3, RegionWritten
<1>7. s \notin Shown /\ \A t \in Shown : mem_slot'[t] = mem_slot[t]
  BY <1>4, <1>6, MemoryAssumption DEF Shown, UsedSlots, Slots
<1>8. CASE s \in UsedSlots
  <2>1. Shown' = Shown \cup {s}
    BY <1>4, <1>6, <1>8, MemoryAssumption DEF Shown, UsedSlots, Slots
  <2>2. s \in Slots /\ mr # NoRegion
    <3>1. s \in Slots /\ mem_slot[s].used
      BY <1>8 DEF UsedSlots
    <3>2. mr.memory_size # 0
      BY <1>5, <3>1
    <3>3. NoRegion.memory_size = 0
      BY DEF NoRegion
    <3> QED
      BY <3>1, <3>2, <3>3
  <2> QED
    BY <1>1, <1>6, <1>7, <2>1, <2>2
<1>9. CASE s \notin UsedSlots
  <2>1. Shown' = Shown
    BY <1>4, <1>6, <1>9, MemoryAssumption DEF Shown, UsedSlots, Slots
  <2> QED
    BY <1>7, <2>1
<1> QED
  BY <1>8, <1>9

(* It is Add of KkmRegions, or nothing.                                    *)
LEMMA RestRegions ==
  ASSUME MInv, NEW c \in Callers, WriteRest(c)
  PROVE  [R!Next]_SetRegions
<1> DEFINE s == arg[c].slot
           mr == arg[c].mr
<1>1. /\ s \notin Shown /\ \A t \in Shown : mem_slot'[t] = mem_slot[t]
      /\ \/ Shown' = Shown
         \/ /\ Shown' = Shown \cup {s} /\ mem_slot'[s].mr = mr
            /\ s \in Slots /\ s \in DOMAIN Asked /\ mr \in Asked[s]
  BY RestShown
<1> HIDE DEF s, mr
<1>2. CASE Shown' = Shown
  BY <1>1, <1>2, ShownSame
<1>3. CASE /\ Shown' = Shown \cup {s} /\ mem_slot'[s].mr = mr
           /\ s \in Slots /\ s \in DOMAIN Asked /\ mr \in Asked[s]
  <2>1. SetRegions = [t \in Shown |-> mem_slot[t].mr]
    BY DEF SetRegions, Shown
  <2>2. SetRegions' = [t \in Shown \cup {s} |-> mem_slot'[t].mr]
    BY <1>3 DEF SetRegions, Shown
  <2>3. SetRegions' = [m \in DOMAIN SetRegions \cup {s} |->
                         IF m = s THEN mr ELSE SetRegions[m]]
    BY <1>1, <1>3, <2>1, <2>2
  <2>4. R!Add(s, mr)
    BY <1>1, <1>3, <2>1, <2>3 DEF R!Add
  <2>5. mr \in UNION {Asked[t] : t \in DOMAIN Asked}
    BY <1>3
  <2> QED
    BY <1>3, <2>4, <2>5 DEF R!Next
<1> QED
  BY <1>1, <1>2, <1>3

(* The other steps write no slot and leave who writes one.                 *)
LEMMA OtherRegions ==
  ASSUME UNCHANGED mem_slot,
         \A c \in Callers : /\ call[c] \in Writing <=> call'[c] \in Writing
                            /\ call[c] \in Writing => arg'[c] = arg[c]
  PROVE  SetRegions' = SetRegions
<1>1. \A s \in Slots : BeingSet(s)' <=> BeingSet(s)
  BY DEF BeingSet
<1>2. Shown' = Shown
  BY <1>1 DEF Shown, UsedSlots
<1> QED
  BY <1>2, ShownSame

(* No other step is seen.                                                  *)
LEMMA SameRegions ==
  ASSUME MInv, [Next]_vars,
         \A c \in Callers : ~WriteUsed(c) /\ ~WriteRest(c)
  PROVE  SetRegions' = SetRegions
<1>1. ASSUME NEW c \in Callers, MemoryCall(c) PROVE SetRegions' = SetRegions
  BY <1>1, OtherRegions DEF MemoryCall, MInv, TypeOK
<1>2. ASSUME NEW c \in Callers, MemoryLock(c) PROVE SetRegions' = SetRegions
  BY <1>2, OtherRegions DEF MemoryLock, MInv, TypeOK
<1>3. ASSUME NEW c \in Callers, MemoryCheck(c) PROVE SetRegions' = SetRegions
  BY <1>3, OtherRegions DEF MemoryCheck, MInv, TypeOK
<1>4. ASSUME NEW c \in Callers, MemoryUnlock(c) PROVE SetRegions' = SetRegions
  BY <1>4, OtherRegions DEF MemoryUnlock, MInv, TypeOK
<1>5. ASSUME StartPayload PROVE SetRegions' = SetRegions
  BY <1>5, OtherRegions DEF StartPayload
<1>6. ASSUME NEW k \in Kontexts, Translate(k) PROVE SetRegions' = SetRegions
  BY <1>6, OtherRegions DEF Translate, TranslateLinear, TranslatePrivate,
                            TranslateHit, TranslateAddress
<1>7. ASSUME UNCHANGED vars PROVE SetRegions' = SetRegions
  BY <1>7, OtherRegions DEF vars
<1> QED
  BY <1>1, <1>2, <1>3, <1>4, <1>5, <1>6, <1>7, SizeRegions DEF Next, Memory

(* Every step is one of KkmRegions or a stutter.                           *)
LEMMA RegionsStep == MInv /\ [Next]_vars => [R!Next]_SetRegions
  BY UsedRegions, RestRegions, SameRegions

(* KKM_MEMORY, with all its callers and failures, adds and removes whole   *)
(* regions one at a time.                                                  *)
THEOREM RegionsCorrect == Spec => ImplementsRegions
<1>1. Init => R!Init
  BY RegionsInit
<1>2. MInv /\ [Next]_vars => [R!Next]_SetRegions
  BY RegionsStep
<1> QED
  BY <1>1, <1>2, MemoryInvariant, PTL DEF Spec, ImplementsRegions, R!Spec

-----------------------------------------------------------------------------
(***************************************************************************)
(* The translation                                                         *)
(***************************************************************************)
(* A number has one remainder.                                             *)
LEMMA Between ==
  ASSUME NEW n \in Nat \ {0}, NEW q \in Int, NEW a \in Int,
         NEW y \in 0..(n - 1), NEW d \in 0..(n - 1), q * n + y = a * n + d
  PROVE  y = d
<1> DEFINE e == q - a
<1>1. e \in Int /\ e * n = d - y
  <2>1. e * n = q * n - a * n
    OBVIOUS
  <2>2. q * n \in Int /\ a * n \in Int
    OBVIOUS
  <2> DEFINE Q == q * n
             A == a * n
  <2>3. Q + y = A + d /\ Q \in Int /\ A \in Int /\ e * n = Q - A
    BY <2>1, <2>2
  <2> HIDE DEF Q, A
  <2> QED
    BY <2>3
<1> HIDE DEF e
<1>2. CASE e >= 1
  <2>1. e * n >= n
    BY <1>1, <1>2
  <2> QED
    BY <1>1, <2>1
<1>3. CASE e <= -1
  <2>1. e * n <= -n
    BY <1>1, <1>3
  <2> QED
    BY <1>1, <2>1
<1>4. CASE e = 0
  BY <1>1, <1>4
<1> QED
  BY <1>1, <1>2, <1>3, <1>4

(* The remainder of a multiple and an offset is the offset: what relates an*)
(* address to its offset in a top level entry.                             *)
LEMMA Remainder ==
  ASSUME NEW a \in Nat, NEW n \in Nat \ {0}, NEW d \in 0..(n - 1),
         NEW x, x = a * n + d
  PROVE  x % n = d
<1>1. x \in Int
  OBVIOUS
<1>2. x % n \in 0..(n - 1)
  BY <1>1
<1>3. (x \div n) \in Int
  BY <1>1
<1>4. (x \div n) * n + (x % n) = x
  BY <1>1
<1> DEFINE q == x \div n
           y == x % n
<1>5. q * n + y = a * n + d /\ y \in 0..(n - 1) /\ q \in Int /\ a \in Int
  BY <1>2, <1>3, <1>4
<1>6. y = d
  <2> HIDE DEF q, y
  <2> QED
    BY <1>5, Between
<1> QED
  BY <1>6

(* The bottom and the top of the payload are at the offsets they have in   *)
(* the page tables, whatever the size of an entry.                         *)
LEMMA LinearRight ==
  ASSUME NEW va \in Nat
  PROVE  /\ InBottom(va) => UserMemBase + va = Linear(va)
         /\ InTop(va) => TopAddress(va) = Linear(va)
<1> USE MemoryAssumption, Layout
<1>1. ASSUME InBottom(va) PROVE va % EntrySize = va
  <2>1. va = 0 * EntrySize + va /\ va \in 0..(EntrySize - 1)
    BY <1>1 DEF InBottom
  <2> QED
    BY <2>1, Remainder
<1>2. ASSUME InTop(va) PROVE va % EntrySize = va - VaOffset
  <2> DEFINE d == va - VaOffset
             P == TopEntry * EntrySize
  <2>1. P \in Nat /\ VaOffset = P
    BY Layout
  <2>2. TopVa = P + EntrySize - Hole
    <3>1. (TopEntry + 1) * EntrySize = P + EntrySize
      OBVIOUS
    <3> QED
      BY <3>1 DEF TopVa
  <2>3. d \in 0..(EntrySize - 1) /\ va = P + d
    <3> HIDE DEF P
    <3> QED
      BY <1>2, <2>1, <2>2 DEF InTop
  <2> HIDE DEF d
  <2>4. (TopEntry * EntrySize + d) % EntrySize = d
    BY <2>3, Remainder
  <2>5. va % EntrySize = d
    BY <2>3, <2>4
  <2> QED
    BY <2>5 DEF d
<1>3. UserMemBase = MonitorEntry * EntrySize
  BY DEF UserMemBase
<1> QED
  BY <1>1, <1>2, <1>3 DEF Linear, TopAddress

(* The monitor leaves the private area's slots alone while the payload     *)
(* runs; what shows of a slot is a region the monitor has asked for there. *)
Private == {VdsoSlot, GuestmemSlot}

QuietInv ==
  SetFirst /\ running =>
    \A c \in Callers : call[c] # "idle" => arg[c].slot \notin Private

WholeInv ==
  \A s \in DOMAIN SetRegions :
    s \in DOMAIN Asked /\ SetRegions[s] \in Asked[s]

(* A translation that goes on has not answered yet, is of a private        *)
(* address, and has found it in the slot whose address it reads.           *)
LookInv ==
  \A k \in Kontexts :
    /\ walk[k] # "idle" =>
         /\ running /\ monitor_va[k] = Fails
         /\ ~InBottom(guest_va[k]) /\ ~InTop(guest_va[k])
    /\ walk[k] = "vdso_addr" => Hit(VdsoSlot, VdsoVa, guest_va[k])
    /\ walk[k] = "guestmem_addr" =>
         Hit(GuestmemSlot, GuestmemVa, guest_va[k])

TInv == MInv /\ QuietInv /\ WholeInv /\ LookInv /\ TranslationRight

RoomAsked == \A r \in Asked[VdsoSlot] : r.memory_size <= VdsoRoom

(* No translation has begun.                                               *)
LEMMA TranslationInit == Init => TInv
<1> SUFFICES ASSUME Init PROVE TInv
  OBVIOUS
<1>1. MInv
  BY MemoryInit
<1>2. QuietInv /\ LookInv /\ TranslationRight
  BY DEF Init, QuietInv, LookInv, TranslationRight
<1>3. WholeInv
  <2>1. UsedSlots = {}
    BY MemoryAssumption DEF Init, UsedSlots, Slots, EmptySlot
  <2> QED
    BY <2>1 DEF WholeInv, SetRegions
<1> QED
  BY <1>1, <1>2, <1>3 DEF TInv

(* Once the payload runs, no call is on the private area's slots.          *)
LEMMA QuietStep == MInv /\ QuietInv /\ [Next]_vars => QuietInv'
<1> SUFFICES ASSUME MInv, QuietInv, [Next]_vars, SetFirst, running',
                    NEW c \in Callers, call'[c] # "idle"
             PROVE  arg'[c].slot \notin Private
  BY DEF QuietInv
<1> USE DEF QuietInv, MInv, TypeOK, Private
<1>1. ASSUME NEW d \in Callers, MemoryCall(d)
      PROVE  arg'[c].slot \notin Private
  BY <1>1 DEF MemoryCall, Allowed
<1>2. ASSUME NEW d \in Callers, Memory(d)
      PROVE  arg'[c].slot \notin Private
  <2>1. arg'[c] = arg[c] /\ call[c] # "idle" /\ running' = running
    BY <1>2 DEF Memory, MemoryLock, MemoryCheck, WriteUsed, WriteSize,
                WriteRest, MemoryUnlock
  <2> QED
    BY <2>1
<1>3. CASE StartPayload
  BY <1>3 DEF StartPayload
<1>4. ASSUME NEW k \in Kontexts, Translate(k)
      PROVE  arg'[c].slot \notin Private
  BY <1>4 DEF Translate, TranslateLinear, TranslatePrivate, TranslateHit,
              TranslateAddress
<1>5. CASE UNCHANGED vars
  BY <1>5 DEF vars
<1> QED
  BY <1>1, <1>2, <1>3, <1>4, <1>5 DEF Next

(* From then on a slot of the private area is empty or holds a region the  *)
(* monitor gave.                                                           *)
LEMMA WholeStep == MInv /\ WholeInv /\ [Next]_vars => WholeInv'
<1> SUFFICES ASSUME MInv, WholeInv, [Next]_vars PROVE WholeInv'
  OBVIOUS
<1>1. SetRegions = [t \in Shown |-> mem_slot[t].mr]
      /\ SetRegions' = [t \in Shown' |-> mem_slot'[t].mr]
  BY DEF SetRegions, Shown
<1>2. ASSUME NEW c \in Callers, WriteUsed(c) PROVE WholeInv'
  <2>1. Shown' \subseteq Shown /\ \A t \in Shown' : mem_slot'[t] = mem_slot[t]
    BY <1>2, UsedShown
  <2> QED
    BY <1>1, <2>1 DEF WholeInv
<1>3. ASSUME NEW c \in Callers, WriteRest(c) PROVE WholeInv'
  <2> DEFINE s == arg[c].slot
             mr == arg[c].mr
  <2>1. /\ s \notin Shown /\ \A t \in Shown : mem_slot'[t] = mem_slot[t]
        /\ \/ Shown' = Shown
           \/ /\ Shown' = Shown \cup {s} /\ mem_slot'[s].mr = mr
              /\ s \in Slots /\ s \in DOMAIN Asked /\ mr \in Asked[s]
    BY <1>3, RestShown
  <2> HIDE DEF s, mr
  <2> QED
    BY <1>1, <2>1 DEF WholeInv
<1>4. CASE \A c \in Callers : ~WriteUsed(c) /\ ~WriteRest(c)
  BY <1>4, SameRegions DEF WholeInv
<1> QED
  BY <1>2, <1>3, <1>4

(* While the payload runs, nobody writes the private area's slots.         *)
LEMMA PrivateSame ==
  ASSUME MInv, QuietInv, SetFirst, running, [Next]_vars,
         NEW s \in Private
  PROVE  mem_slot'[s] = mem_slot[s] /\ ~BeingSet(s)
<1>1. \A c \in Callers : call[c] # "idle" => arg[c].slot # s
  BY DEF QuietInv
<1>2. s \in 0..MaxSlots /\ s \in DOMAIN mem_slot
  BY MemoryAssumption DEF Private, MInv, TypeOK
<1>3. ASSUME NEW c \in Callers, WriteUsed(c) \/ WriteSize(c) \/ WriteRest(c)
      PROVE  mem_slot'[s] = mem_slot[s]
  BY <1>1, <1>2, <1>3 DEF WriteUsed, WriteSize, WriteRest
<1>4. CASE \A c \in Callers : ~(WriteUsed(c) \/ WriteSize(c) \/ WriteRest(c))
  <2>1. UNCHANGED mem_slot
    BY <1>4 DEF Next, vars, Memory, MemoryCall, MemoryLock, MemoryCheck,
                MemoryUnlock, StartPayload, Translate, TranslateLinear,
                TranslatePrivate, TranslateHit, TranslateAddress
  <2> QED
    BY <1>1, <2>1 DEF BeingSet
<1> QED
  BY <1>1, <1>3, <1>4 DEF BeingSet

(* A private slot in use, while the payload runs, has a region asked for.  *)
LEMMA PrivateAsked ==
  ASSUME MInv, QuietInv, WholeInv, SetFirst, running, NEW s \in Private,
         mem_slot[s].used
  PROVE  mem_slot[s].mr \in Asked[s] /\ mem_slot[s].mr \in Region
<1>1. ~BeingSet(s)
  BY DEF QuietInv, BeingSet
<1>2. s \in Slots
  BY MemoryAssumption DEF Private, Slots
<1>3. s \in Shown
  BY <1>1, <1>2 DEF Shown, UsedSlots
<1>4. s \in DOMAIN Asked /\ mem_slot[s].mr \in Asked[s]
  BY <1>3 DEF WholeInv, SetRegions, Shown
<1> QED
  BY <1>4, MemoryAssumption


(* The steps of the others leave a translation as it is.                   *)
LEMMA LookKept ==
  ASSUME TInv, SetFirst, [Next]_vars, UNCHANGED <<walk, guest_va, monitor_va>>,
         running => running'
  PROVE  LookInv' /\ TranslationRight'
<1>1. TranslationRight'
  BY DEF TInv, TranslationRight
<1>2. ASSUME running
      PROVE  /\ mem_slot'[VdsoSlot] = mem_slot[VdsoSlot]
             /\ mem_slot'[GuestmemSlot] = mem_slot[GuestmemSlot]
  BY <1>2, PrivateSame DEF TInv, Private
<1>3. LookInv'
  BY <1>2 DEF TInv, LookInv, Hit
<1> QED
  BY <1>1, <1>3

(* An address that is translated is a natural number.                      *)
LEMMA GuestIsNat ==
  ASSUME MInv, NEW k \in Kontexts
  PROVE  guest_va[k] \in Nat
<1>1. guest_va[k] \in Tried \cup {0}
  BY DEF MInv, TypeOK
<1>2. Tried \cup {0} \subseteq Nat
  BY MemoryAssumption
<1> QED
  BY <1>1, <1>2

(* The address read after a hit is that of the region hit.                 *)
LEMMA AddressRight ==
  ASSUME TInv, SetFirst, RoomAsked, NEW k \in Kontexts,
         NEW s \in Private, NEW base,
         base = IF s = VdsoSlot THEN VdsoVa ELSE GuestmemVa,
         NEW at \in {"vdso_addr", "guestmem_addr"},
         (at = "vdso_addr") = (s = VdsoSlot),
         TranslateAddress(k, at, s, base)
  PROVE  LookInv' /\ TranslationRight'
<1> USE MemoryAssumption DEF TInv, TranslateAddress
<1>1. /\ running /\ ~InBottom(guest_va[k]) /\ ~InTop(guest_va[k])
      /\ Hit(s, base, guest_va[k])
  BY DEF LookInv, Private
<1>2. mem_slot[s].mr \in Asked[s] /\ mem_slot[s].mr \in Region
  BY <1>1, PrivateAsked DEF Hit
<1>3. base <= guest_va[k] /\ guest_va[k] < base + mem_slot[s].mr.memory_size
  BY <1>1 DEF Hit, StartsIn
<1>4. guest_va' = guest_va /\ walk'[k] = "idle"
      /\ monitor_va'[k] = guest_va[k] - base + mem_slot[s].mr.userspace_addr
      /\ UNCHANGED slots
      /\ \A j \in Kontexts \ {k} :
           walk'[j] = walk[j] /\ monitor_va'[j] = monitor_va[j]
  BY DEF MInv, TypeOK
<1>5. monitor_va'[k] \in Given(guest_va[k])
  <2>1. CASE s = VdsoSlot
    <3>1. mem_slot[s].mr.memory_size <= VdsoRoom
          /\ mem_slot[s].mr.memory_size \in Nat
      BY <1>2, <2>1 DEF RoomAsked, Region
    <3>2. guest_va[k] < GuestmemVa
      BY <1>3, <2>1, <3>1, GuestIsNat, Layout DEF GuestmemVa
    <3> QED
      BY <1>2, <1>3, <1>4, <2>1, <3>2 DEF Given
  <2>2. CASE s = GuestmemSlot
    <3>1. ~(guest_va[k] < GuestmemVa) /\ base = GuestmemVa
      BY <1>3, <2>2, GuestIsNat, Layout
    <3> QED
      BY <1>2, <1>3, <1>4, <2>2, <3>1 DEF Given
  <2> QED
    BY <2>1, <2>2 DEF Private
<1>6. LookInv'
  BY <1>4 DEF LookInv, Hit, InBottom, InTop
<1>7. TranslationRight'
  BY <1>1, <1>4, <1>5 DEF TranslationRight
<1> QED
  BY <1>6, <1>7

(* A hit is remembered only for an address of the region.                  *)
LEMMA LookStep ==
  ASSUME TInv, SetFirst, RoomAsked, NEW k \in Kontexts, Translate(k)
  PROVE  LookInv' /\ TranslationRight'
<1> USE MemoryAssumption DEF TInv
<1>1. CASE TranslateLinear(k)
  <2>1. PICK va \in Tried :
          /\ InBottom(va) \/ InTop(va)
          /\ guest_va' = [guest_va EXCEPT ![k] = va]
          /\ monitor_va' = [monitor_va EXCEPT ![k] =
                              IF InBottom(va) THEN UserMemBase + va
                                              ELSE TopAddress(va)]
    BY <1>1 DEF TranslateLinear
  <2>2. va \in Nat
    OBVIOUS
  <2>3. guest_va'[k] = va /\ monitor_va'[k] = Linear(va)
        /\ walk[k] = "idle" /\ UNCHANGED <<slots, running, walk>>
        /\ \A j \in Kontexts \ {k} :
             guest_va'[j] = guest_va[j] /\ monitor_va'[j] = monitor_va[j]
    BY <1>1, <2>1, <2>2, LinearRight DEF TranslateLinear, MInv, TypeOK
  <2>4. LookInv'
    BY <2>3 DEF LookInv, Hit
  <2>5. TranslationRight'
    BY <2>1, <2>3 DEF TranslationRight
  <2> QED
    BY <2>4, <2>5
<1>2. CASE TranslatePrivate(k)
  BY <1>2 DEF TranslatePrivate, LookInv, TranslationRight, MInv, TypeOK, Hit
<1>3. ASSUME NEW s \in Private, NEW base, NEW at \in {"vdso", "guestmem"},
             NEW hit \in {"vdso_addr", "guestmem_addr"},
             NEW miss \in {"idle", "guestmem"},
             s = IF hit = "vdso_addr" THEN VdsoSlot ELSE GuestmemSlot,
             base = IF hit = "vdso_addr" THEN VdsoVa ELSE GuestmemVa,
             TranslateHit(k, at, s, base, hit, miss)
      PROVE  LookInv' /\ TranslationRight'
  BY <1>3 DEF TranslateHit, LookInv, TranslationRight, MInv, TypeOK, Hit
<1>4. VdsoSlot \in Private /\ GuestmemSlot \in Private
      /\ VdsoSlot # GuestmemSlot
  BY DEF Private
<1> HIDE DEF TInv
<1>5. CASE \/ TranslateAddress(k, "vdso_addr", VdsoSlot, VdsoVa)
           \/ TranslateAddress(k, "guestmem_addr", GuestmemSlot, GuestmemVa)
  BY <1>4, <1>5, AddressRight
<1>6. CASE \/ TranslateHit(k, "vdso", VdsoSlot, VdsoVa, "vdso_addr",
                           "guestmem")
           \/ TranslateHit(k, "guestmem", GuestmemSlot, GuestmemVa,
                           "guestmem_addr", "idle")
  BY <1>3, <1>4, <1>6
<1> QED
  BY <1>1, <1>2, <1>5, <1>6 DEF Translate

(* Every step keeps translations right.                                    *)
LEMMA TranslationStep ==
  ASSUME SetFirst, RoomAsked
  PROVE  TInv /\ [Next]_vars => TInv'
<1> SUFFICES ASSUME TInv, [Next]_vars PROVE TInv'
  OBVIOUS
<1>1. MInv' /\ QuietInv' /\ WholeInv'
  BY MemoryStep, QuietStep, WholeStep DEF TInv
<1>2. LookInv' /\ TranslationRight'
  <2>1. ASSUME NEW k \in Kontexts, Translate(k)
        PROVE  LookInv' /\ TranslationRight'
    BY <2>1, LookStep
  <2>2. CASE \A k \in Kontexts : ~Translate(k)
    <3>1. UNCHANGED <<walk, guest_va, monitor_va>> /\ (running => running')
      <4>1. ASSUME NEW c \in Callers, MemoryCall(c) \/ Memory(c)
            PROVE  UNCHANGED walkers
        BY <4>1 DEF Memory, MemoryCall, MemoryLock, MemoryCheck, WriteUsed,
                    WriteSize, WriteRest, MemoryUnlock
      <4>2. StartPayload \/ UNCHANGED vars =>
              UNCHANGED <<walk, guest_va, monitor_va>> /\ (running => running')
        BY DEF StartPayload, vars
      <4> QED
        BY <2>2, <4>1, <4>2 DEF Next
    <3> QED
      BY <3>1, LookKept
  <2> QED
    BY <2>1, <2>2
<1> QED
  BY <1>1, <1>2 DEF TInv

(* guest_va_to_monitor_va answers with the address that the page tables or *)
(* the private regions have, though it takes no lock, if the monitor sets  *)
(* the private area's slots before the payload runs and then leaves them.  *)
THEOREM TranslationCorrect ==
  ASSUME SetFirst, RoomAsked
  PROVE  Spec => []TranslationRight
<1>1. Init => TInv
  BY TranslationInit
<1>2. TInv /\ [Next]_vars => TInv'
  BY TranslationStep
<1>3. TInv => TranslationRight
  BY DEF TInv
<1> QED
  BY <1>1, <1>2, <1>3, PTL DEF Spec
=============================================================================
