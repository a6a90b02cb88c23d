---------------------------- MODULE KkmCountProofs ----------------------------
(***************************************************************************)
(* What KkmLifecycle counts, who owns a slot and what is reachable, for    *)
(* every number of threads and of slots.  Only kzalloc may fail: any other *)
(* failure leaves a descriptor without a kontext or a kontainer without a  *)
(* reference, and the counts are wrong from then on.                       *)
(***************************************************************************)
EXTENDS KkmLifecycleProofs, FiniteSetTheorems

OnlyKzalloc == Failures \subseteq {"kzalloc"}

USE DEF Slots, EINVAL, ENOMEM, FileStates, AddPcs, ReleasePcs, Pcs, Goto,
        objectVars, slotVars, fileVars, threadVars

-----------------------------------------------------------------------------
(***************************************************************************)
(* The inductive invariant                                                 *)
(***************************************************************************)

(* A thread owns its slot from the claim to the return of the descriptor,  *)
(* and from the last reference to the file until the slot is given up; it  *)
(* has installed a descriptor, or there is none.                           *)
Installed == {"add_map", "add_init", "add_finish"}
Bare == {"add_getfd", "rel_free", "rel_unuse"}
Owners == Installed \cup Bare

ThreadInv(t) ==
  /\ pc[t] \in Installed => file[slot[t]] = "hidden" /\ ret_val[t] = slot[t]
  /\ ret_val[t] \in Slots => pc[t] \in Installed
  /\ pc[t] \in Bare => file[slot[t]] = "none"
  /\ pc[t] \in Owners => used[slot[t]]
  /\ pc[t] \in Owners \cup {"rel_first"} => allocated[slot[t]]
  /\ pc[t] = "run" => file[slot[t]] \in {"open", "closed"}
  /\ pc[t] = "add_init" => mmap_area[slot[t]]
  /\ pc[t] = "add_finish" => guest_area[slot[t]] /\ mmap_area[slot[t]]

(* What a slot holds is somebody's: its owner's or its file's.             *)
SlotInv(i) ==
  /\ file[i] = "hidden" =>
       \E t \in Threads : pc[t] \in Installed /\ slot[t] = i
  /\ file[i] # "none" => allocated[i]
  /\ file[i] \in {"open", "closed"} =>
       used[i] /\ guest_area[i] /\ mmap_area[i]
  /\ used[i] => \/ file[i] # "none"
                \/ \E t \in Threads : pc[t] \in Bare /\ slot[t] = i
  /\ mapped[i] => file[i] \in {"open", "closed"}
  /\ guest_area[i] \/ mmap_area[i] =>
       \/ file[i] # "none"
       \/ \E t \in Threads : pc[t] = "rel_free" /\ slot[t] = i

Alone ==
  \A t, u \in Threads :
    t # u /\ pc[t] \in Owners /\ pc[u] \in Owners => slot[t] # slot[u]

OwnerInv ==
  /\ \A t \in Threads : ThreadInv(t)
  /\ \A i \in Slots : SlotInv(i)
  /\ Alone

(* An add holds the kontainer's file; one thread releases it, after that.  *)
KontainerInv ==
  /\ kontainer_file # "hidden" /\ kkm # "leaked"
  /\ \A t \in Threads :
       /\ pc[t] \in AddPcs => kontainer_file # "none"
       /\ pc[t] = "kontainer_release" =>
            /\ kontainer_file = "none"
            /\ \A u \in Threads \ {t} : pc[u] # "kontainer_release"

(* The room that the count check found is there until the add has counted  *)
(* its kontext.                                                            *)
Adding == {"add_scan", "add_getfd"} \cup Installed
RoomInv == \A t \in Threads : pc[t] \in Adding => kontext_count < MaxContexts

(* The search has an unused slot before it.                                *)
SearchInv ==
  \A t \in Threads :
    pc[t] = "add_scan" =>
      slot[t] >= 1 /\ \E i \in Slots : i >= slot[t] /\ ~used[i]

(* A slot is live from its claim on; a release that is about to clear      *)
(* first_thread cannot hit a kontext that was made as the first thread.    *)
LiveSlot(i) ==
  file[i] # "none" \/ \E t \in Threads : pc[t] = "add_getfd" /\ slot[t] = i

FirstInv ==
  /\ \A i, j \in Slots :
       /\ LiveSlot(i) /\ made_first[i]
       /\ LiveSlot(j) /\ made_first[j]
       => i = j
  /\ \A t \in Threads :
       pc[t] = "rel_first" /\ LiveSlot(slot[t]) => ~made_first[slot[t]]

CInv ==
  /\ LockInv
  /\ OwnerInv /\ KontainerInv
  /\ RefcountExact /\ KontextCountExact
  /\ RoomInv /\ SearchInv /\ FirstInv

-----------------------------------------------------------------------------
(***************************************************************************)
(* Who owns a slot                                                         *)
(***************************************************************************)

(* A step of thread t that touches slot i alone has to keep what is said of*)
(* the two, if nobody else owns the slot.                                  *)
LEMMA OwnerLocal ==
  ASSUME TypeInv, OwnerInv, NEW t \in Threads, NEW i \in Slots,
         \A u \in Threads \ {t} :
           pc'[u] = pc[u] /\ slot'[u] = slot[u] /\ ret_val'[u] = ret_val[u],
         \A j \in Slots \ {i} :
           /\ file'[j] = file[j] /\ mapped'[j] = mapped[j]
           /\ allocated'[j] = allocated[j] /\ used'[j] = used[j]
           /\ guest_area'[j] = guest_area[j] /\ mmap_area'[j] = mmap_area[j],
         \A u \in Threads \ {t} : pc[u] \in Owners => slot[u] # i,
         \A u \in Threads \ {t} :
           slot[u] = i =>
             /\ pc[u] = "run" => file'[i] \in {"open", "closed"}
             /\ pc[u] = "rel_first" => allocated'[i],
         pc[t] \in Owners => slot[t] = i, pc'[t] \in Owners => slot'[t] = i,
         ThreadInv(t)', SlotInv(i)'
  PROVE  OwnerInv'
<1>1. ASSUME NEW u \in Threads PROVE ThreadInv(u)'
  <2>1. CASE u = t
    BY <2>1
  <2>2. CASE u # t /\ pc[u] \in Owners \cup {"run", "rel_first"}
    <3>1. slot[u] \in Slots
      BY <2>2 DEF TypeInv, SlotOK, Owners, Installed, Bare
    <3>2. CASE slot[u] # i
      BY <2>2, <3>1, <3>2 DEF OwnerInv, ThreadInv
    <3>3. CASE slot[u] = i
      BY <2>2, <3>1, <3>3
      DEF OwnerInv, ThreadInv, Owners, Installed, Bare
    <3> QED
      BY <3>2, <3>3
  <2>3. CASE u # t /\ pc[u] \notin Owners \cup {"run", "rel_first"}
    BY <2>3 DEF OwnerInv, ThreadInv, Owners, Installed, Bare
  <2> QED
    BY <2>1, <2>2, <2>3
<1>2. ASSUME NEW j \in Slots PROVE SlotInv(j)'
  <2>1. CASE j = i
    BY <2>1
  <2>2. CASE j # i
    <3>1. \A u \in Threads : pc[u] \in Owners /\ slot[u] = j =>
            pc'[u] = pc[u] /\ slot'[u] = j
      BY <2>2
    <3>2. \A x \in Installed \cup Bare \cup {"rel_free"} : x \in Owners
      BY DEF Owners, Bare
    <3>3. SlotInv(j)
      BY DEF OwnerInv
    <3> QED
      BY <2>2, <3>1, <3>2, <3>3 DEF SlotInv
  <2> QED
    BY <2>1, <2>2
<1>3. Alone'
  BY DEF OwnerInv, Alone
<1> QED
  BY <1>1, <1>2, <1>3 DEF OwnerInv

(* A step that touches no slot, of a thread that owns none.                *)
LEMMA OwnerQuiet ==
  ASSUME TypeInv, OwnerInv, NEW t \in Threads,
         \A u \in Threads \ {t} :
           pc'[u] = pc[u] /\ slot'[u] = slot[u] /\ ret_val'[u] = ret_val[u],
         UNCHANGED <<file, mapped, allocated, used, guest_area, mmap_area>>,
         pc[t] \notin Owners, pc'[t] \notin Owners \cup {"rel_first"},
         pc'[t] = "run" => file[slot'[t]] \in {"open", "closed"},
         ret_val'[t] \notin Slots
  PROVE  OwnerInv'
<1>1. ASSUME NEW u \in Threads PROVE ThreadInv(u)'
  BY DEF OwnerInv, ThreadInv, Owners, Installed, Bare
<1>2. ASSUME NEW j \in Slots PROVE SlotInv(j)'
  <2>1. \A u \in Threads : pc[u] \in Owners =>
          pc'[u] = pc[u] /\ slot'[u] = slot[u]
    OBVIOUS
  <2>2. \A x \in Installed \cup Bare \cup {"rel_free"} : x \in Owners
    BY DEF Owners, Bare
  <2>3. SlotInv(j)
    BY DEF OwnerInv
  <2> QED
    BY <2>1, <2>2, <2>3 DEF SlotInv
<1>3. Alone'
  BY DEF OwnerInv, Alone
<1> QED
  BY <1>1, <1>2, <1>3 DEF OwnerInv

-----------------------------------------------------------------------------
(***************************************************************************)
(* The counts                                                              *)
(***************************************************************************)

(* What is counted is finite.                                              *)
LEMMA CountedFinite ==
  ASSUME TypeInv
  PROVE  /\ IsFiniteSet(Registered) /\ Cardinality(Registered) \in Nat
         /\ IsFiniteSet(Releasing) /\ Cardinality(Releasing) \in Nat
         /\ IsFiniteSet(StillCounted) /\ Cardinality(StillCounted) \in Nat
<1>1. IsFiniteSet(Slots)
  BY FS_Interval, ConstantsAssumption
<1>2. /\ Registered \in SUBSET Slots
      /\ Releasing \in SUBSET Threads /\ StillCounted \in SUBSET Threads
  BY DEF Registered, Releasing, StillCounted
<1> QED
  BY <1>1, <1>2, FS_Subset, FS_CardinalityType, ConstantsAssumption

(* Sets with no member, and with one or more.                              *)
LEMMA CountedNone ==
  ASSUME NEW S, IsFiniteSet(S)
  PROVE  /\ Cardinality(S) = 0 <=> \A x : x \notin S
         /\ Cardinality(S) \in Nat
         /\ \A x \in S : Cardinality(S) >= 1
         /\ Cardinality(S) = 1 => \A x, y \in S : x = y
<1>1. Cardinality(S) \in Nat /\ (Cardinality(S) = 0 <=> S = {})
  BY FS_CardinalityType, FS_EmptySet
<1>2. Cardinality(S) = 1 => \E x : S = {x}
  BY FS_Singleton
<1> QED
  BY <1>1, <1>2

(* A thread in the driver holds a reference through a file or through a    *)
(* release: with the last reference gone every thread has left.            *)
LEMMA NothingLeft ==
  ASSUME CInv, NEW t \in Threads, reference_count = 1,
         pc[t] \in ReleasePcs \cup {"kontainer_release"}
  PROVE  /\ \A u \in Threads \ {t} : pc[u] = "idle"
         /\ \A i \in Slots : file[i] = "none"
         /\ kontainer_file = "none"
<1> DEFINE held == IF KontainerHeld THEN 1 ELSE 0
<1>1. /\ Cardinality(Registered) + Cardinality(Releasing) + held = 1
      /\ IsFiniteSet(Registered) /\ IsFiniteSet(Releasing)
  BY CountedFinite DEF CInv, RefcountExact, LockInv
<1>2. /\ Registered = {} /\ \A u \in Releasing : u = t
      /\ KontainerHeld => pc[t] = "kontainer_release"
  <2> HIDE DEF held
  <2>1. CASE pc[t] \in ReleasePcs
    <3>1. t \in Releasing
      BY <2>1 DEF Releasing
    <3>2. held \in {0, 1} /\ (held = 0 <=> ~KontainerHeld)
      BY DEF held
    <3> QED
      BY <1>1, <3>1, <3>2, CountedNone
  <2>2. CASE pc[t] = "kontainer_release"
    <3>1. held = 1
      BY <2>2 DEF held, KontainerHeld
    <3> QED
      BY <1>1, <2>2, <3>1, CountedNone
  <2> QED
    BY <2>1, <2>2
<1>3. kontainer_file = "none"
  BY <1>2 DEF KontainerHeld, CInv, KontainerInv
<1>4. ASSUME NEW u \in Threads \ {t} PROVE pc[u] = "idle"
  <2>1. pc[u] \notin ReleasePcs
    BY <1>2 DEF Releasing
  <2>2. pc[u] \notin AddPcs
    BY <1>3 DEF CInv, KontainerInv
  <2>3. pc[u] # "kontainer_release"
    BY <1>2 DEF KontainerHeld, CInv, KontainerInv
  <2>4. pc[u] # "run"
    <3>1. pc[u] = "run" => slot[u] \in Registered
      BY DEF CInv, LockInv, TypeInv, SlotOK, OwnerInv, ThreadInv, Registered
    <3> QED
      BY <1>2, <3>1
  <2> QED
    BY <2>1, <2>2, <2>3, <2>4 DEF CInv, LockInv, TypeInv, TypeOK
<1>5. ASSUME NEW i \in Slots PROVE file[i] = "none"
  <2>1. file[i] \notin {"open", "closed"}
    BY <1>2 DEF Registered
  <2>2. file[i] # "hidden"
    <3>1. \A u \in Threads : pc[u] \notin Installed
      BY <1>4 DEF Installed
    <3> QED
      BY <3>1 DEF CInv, OwnerInv, SlotInv
  <2> QED
    BY <2>1, <2>2 DEF CInv, LockInv, TypeInv, TypeOK
<1> QED
  BY <1>3, <1>4, <1>5

(* A reference is dropped by a thread that has one.                        *)
LEMMA Dropping ==
  ASSUME CInv, NEW t \in Threads,
         pc[t] \in ReleasePcs \cup {"kontainer_release"},
         kkm_reference_count_down
  PROVE  /\ reference_count \in Nat \ {0}
         /\ reference_count' = reference_count - 1
         /\ reference_count # 1 => UNCHANGED <<kkm, allocated>>
         /\ reference_count = 1 => kkm' = "freed"
         /\ kkm = "alive"
<1>1. /\ IsFiniteSet(Registered) /\ IsFiniteSet(Releasing)
      /\ Cardinality(Registered) \in Nat /\ Cardinality(Releasing) \in Nat
      /\ reference_count = Cardinality(Registered) + Cardinality(Releasing)
                             + (IF KontainerHeld THEN 1 ELSE 0)
  BY CountedFinite DEF CInv, LockInv, RefcountExact
<1>2. t \in Releasing \/ KontainerHeld
  BY DEF Releasing, KontainerHeld
<1>3. reference_count \in Nat \ {0}
  BY <1>1, <1>2, CountedNone
<1> QED
  BY <1>3
  DEF kkm_reference_count_down, RefDec, CInv, RefcountExact, KontainerInv,
      LockInv, TypeInv, TypeOK

-----------------------------------------------------------------------------
(***************************************************************************)
(* The owners, step by step                                                *)
(***************************************************************************)

(* The last reference to a file makes its thread the slot's owner.         *)
LEMMA OwnerDrop ==
  ASSUME CInv, NEW t \in Threads, NEW i \in Slots,
         NEW rest \in {"open", "closed"}, NEW stillUsed \in BOOLEAN,
         DropKontextRef(t, i, rest, stillUsed),
         pc[t] \in {"run", "idle"}, file[i] \in {"open", "closed"},
         \A j \in Slots \ {i} : mapped'[j] = mapped[j],
         mapped'[i] => mapped[i] /\ (rest = "open" \/ stillUsed),
         \A u \in Threads \ {t} : pc[u] = "run" /\ slot[u] = i => stillUsed,
         UNCHANGED <<slotVars, ret_val>>
  PROVE  OwnerInv'
<1> USE DEF CInv, LockInv
<1>1. /\ \A u \in Threads : pc[u] \in Owners => slot[u] # i
      /\ used[i] /\ allocated[i] /\ guest_area[i] /\ mmap_area[i]
      /\ ret_val[t] \notin Slots
  BY DEF OwnerInv, ThreadInv, SlotInv, Owners, Installed, Bare
<1>2. /\ \A u \in Threads \ {t} : pc'[u] = pc[u] /\ slot'[u] = slot[u]
      /\ \A j \in Slots \ {i} : file'[j] = file[j]
  BY DEF DropKontextRef, TypeInv, TypeOK
<1>3. CASE rest = "closed" /\ ~stillUsed
  <2>1. file'[i] = "none" /\ pc'[t] = "rel_free" /\ slot'[t] = i
    BY <1>3 DEF DropKontextRef, TypeInv, TypeOK
  <2>2. ThreadInv(t)' /\ SlotInv(i)'
    BY <1>1, <1>3, <2>1 DEF ThreadInv, SlotInv, Owners, Installed, Bare
  <2>3. pc'[t] \in Owners /\ pc[t] \notin Owners
    BY <2>1 DEF Owners, Installed, Bare
  <2> QED
    BY <1>1, <1>2, <1>3, <2>1, <2>2, <2>3, OwnerLocal
<1>4. CASE rest = "open" \/ stillUsed
  <2>1. file'[i] = rest /\ pc'[t] = "idle" /\ slot'[t] = 0
    BY <1>4 DEF DropKontextRef, TypeInv, TypeOK
  <2>2. ThreadInv(t)' /\ SlotInv(i)'
    BY <1>1, <1>4, <2>1
    DEF ThreadInv, SlotInv, Owners, Installed, Bare
  <2>3. pc'[t] \notin Owners /\ pc[t] \notin Owners
    BY <2>1 DEF Owners, Installed, Bare
  <2> QED
    BY <1>1, <1>2, <1>4, <2>1, <2>2, <2>3, OwnerLocal
<1> QED
  BY <1>3, <1>4

(* A use, a mapping or a descriptor of a kontext ends.                     *)
LEMMA OwnerClose ==
  ASSUME CInv, NEW t \in Threads, NEW i \in Slots,
         \/ slot[t] = i /\ RunEnd(t)
         \/ Munmap(t, i) \/ CloseKontext(t, i)
  PROVE  OwnerInv'
<1>1. CASE slot[t] = i /\ RunEnd(t)
  <2> DEFINE others == \E u \in Threads \ {t} : pc[u] = "run" /\ slot[u] = i
             still == mapped[i] \/ others
  <2>1. /\ pc[t] = "run" /\ UNCHANGED <<slotVars, mapped, ret_val>>
        /\ DropKontextRef(t, i, file[i], still)
    BY <1>1 DEF RunEnd
  <2>2. file[i] \in {"open", "closed"}
    BY <1>1, <2>1 DEF CInv, OwnerInv, ThreadInv
  <2>3. still \in BOOLEAN
    BY DEF CInv, LockInv, TypeInv, TypeOK
  <2>4. /\ \A u \in Threads \ {t} :
             pc[u] = "run" /\ slot[u] = i => still
        /\ mapped'[i] => mapped[i] /\ still
    BY <2>1
  <2> HIDE DEF others, still
  <2> QED
    BY <2>1, <2>2, <2>3, <2>4, OwnerDrop
<1>2. CASE Munmap(t, i)
  <2> DEFINE still == Running(i)
  <2>1. /\ pc[t] = "idle" /\ UNCHANGED <<slotVars, ret_val>>
        /\ DropKontextRef(t, i, file[i], still)
    BY <1>2 DEF Munmap
  <2>2. file[i] \in {"open", "closed"}
    BY <1>2 DEF Munmap, CInv, OwnerInv, SlotInv
  <2>3. still \in BOOLEAN
    BY DEF Running
  <2>4. \A u \in Threads \ {t} : pc[u] = "run" /\ slot[u] = i => still
    BY DEF Running
  <2>5. ~mapped'[i] /\ \A j \in Slots \ {i} : mapped'[j] = mapped[j]
    BY <1>2 DEF Munmap, CInv, LockInv, TypeInv, TypeOK
  <2> HIDE DEF still
  <2> QED
    BY <2>1, <2>2, <2>3, <2>4, <2>5, OwnerDrop
<1>3. CASE CloseKontext(t, i)
  <2> DEFINE still == mapped[i] \/ Running(i)
  <2>1. /\ pc[t] = "idle" /\ UNCHANGED <<slotVars, mapped, ret_val>>
        /\ DropKontextRef(t, i, "closed", still)
    BY <1>3 DEF CloseKontext
  <2>2. file[i] \in {"open", "closed"}
    BY <1>3
    DEF CloseKontext, Closable, AllIdle, CInv, OwnerInv, SlotInv, Installed,
        LockInv, TypeInv, TypeOK
  <2>3. still \in BOOLEAN
    BY DEF Running, CInv, LockInv, TypeInv, TypeOK
  <2>4. /\ \A u \in Threads \ {t} :
             pc[u] = "run" /\ slot[u] = i => still
        /\ mapped'[i] => mapped[i] /\ still
    BY <2>1 DEF Running
  <2> HIDE DEF still
  <2> QED
    BY <2>1, <2>2, <2>3, <2>4, OwnerDrop
<1> QED
  BY <1>1, <1>2, <1>3

(* The steps of an add between the claim and its end.                      *)
LEMMA OwnerAdd ==
  ASSUME CInv, NEW t \in Threads, NEW i, i = slot[t],
         \/ AddClaim(t) \/ AddGetFd(t) \/ AddMapPages(t) \/ AddKontextInit(t)
         \/ AddFinish(t)
  PROVE  OwnerInv'
<1> USE DEF CInv, LockInv
<1>1. CASE AddClaim(t)
  <2>1. /\ i \in Slots /\ pc[t] = "add_scan" /\ (allocated[i] => ~used[i])
        /\ pc' = [pc EXCEPT ![t] = "add_getfd"]
        /\ allocated' = [allocated EXCEPT ![i] = TRUE]
        /\ used' = [used EXCEPT ![i] = TRUE]
        /\ UNCHANGED <<file, mapped, guest_area, mmap_area, slot, ret_val>>
    BY <1>1 DEF AddClaim
  <2>2. /\ \A u \in Threads :
             pc[u] \in Owners \cup {"run", "rel_first"} /\ slot[u] = i =>
               pc[u] = "rel_first"
        /\ file[i] = "none" /\ ~guest_area[i] /\ ~mmap_area[i] /\ ~mapped[i]
        /\ ret_val[t] \notin Slots
    <3>1. ASSUME NEW u \in Threads, slot[u] = i,
                 pc[u] \in Owners \cup {"run", "rel_first"}
          PROVE  pc[u] = "rel_first"
      BY <2>1, <3>1 DEF OwnerInv, ThreadInv, SlotInv
    <3>2. file[i] = "none"
      <4>1. file[i] # "hidden"
        BY <2>1, <3>1 DEF OwnerInv, SlotInv, Owners, Installed
      <4>2. file[i] \notin {"open", "closed"}
        BY <2>1 DEF OwnerInv, SlotInv
      <4> QED
        BY <2>1, <4>1, <4>2 DEF TypeInv, TypeOK
    <3>3. \A u \in Threads : ~(pc[u] = "rel_free" /\ slot[u] = i)
      BY <3>1 DEF Owners, Bare
    <3>4. ~guest_area[i] /\ ~mmap_area[i] /\ ~mapped[i]
      BY <2>1, <3>2, <3>3 DEF OwnerInv, SlotInv
    <3>5. ret_val[t] \notin Slots
      BY <2>1 DEF OwnerInv, ThreadInv, Installed
    <3> QED
      BY <3>1, <3>2, <3>4, <3>5
  <2>3. /\ \A u \in Threads \ {t} : pc'[u] = pc[u]
        /\ \A j \in Slots \ {i} :
             allocated'[j] = allocated[j] /\ used'[j] = used[j]
        /\ pc'[t] = "add_getfd" /\ slot'[t] = i /\ allocated'[i] /\ used'[i]
    BY <2>1 DEF TypeInv, TypeOK
  <2>4. ThreadInv(t)'
    BY <2>1, <2>2, <2>3 DEF ThreadInv, Owners, Installed, Bare
  <2>6. SlotInv(i)'
    BY <2>1, <2>2, <2>3 DEF SlotInv, Bare
  <2>5. pc[t] \notin Owners /\ \A u \in Threads \ {t} :
          /\ pc[u] \in Owners => slot[u] # i
          /\ slot[u] = i => pc[u] # "run"
    BY <2>1, <2>2 DEF Owners, Installed, Bare
  <2> HIDE DEF CInv, LockInv
  <2> QED
    BY <2>1, <2>3, <2>4, <2>5, <2>6, OwnerLocal DEF CInv, LockInv
<1>2. ASSUME ~AddClaim(t)
      PROVE  /\ i \in Slots /\ pc[t] \in Owners
             /\ \A u \in Threads \ {t} : pc[u] \in Owners => slot[u] # i
             /\ \A u \in Threads : slot[u] = i => pc[u] # "run"
  BY <1>2
  DEF AddGetFd, AddMapPages, AddKontextInit, AddFinish, Owners, Installed,
      Bare, OwnerInv, ThreadInv, Alone, TypeInv, SlotOK
<1>3. CASE AddGetFd(t)
  <2>1. /\ pc[t] = "add_getfd" /\ pc' = [pc EXCEPT ![t] = "add_map"]
        /\ file' = [file EXCEPT ![i] = "hidden"]
        /\ ret_val' = [ret_val EXCEPT ![t] = i]
        /\ UNCHANGED <<mapped, allocated, used, guest_area, mmap_area, slot>>
    BY <1>3 DEF AddGetFd
  <2>2. /\ \A u \in Threads \ {t} : pc'[u] = pc[u] /\ ret_val'[u] = ret_val[u]
        /\ \A j \in Slots \ {i} : file'[j] = file[j]
        /\ pc'[t] = "add_map" /\ ret_val'[t] = i /\ file'[i] = "hidden"
    BY <1>2, <1>3, <2>1 DEF AddClaim, TypeInv, TypeOK
  <2>3. file[i] = "none" /\ used[i] /\ allocated[i] /\ slot'[t] = i
    BY <2>1 DEF OwnerInv, ThreadInv, Owners, Bare
  <2>4. ThreadInv(t)' /\ SlotInv(i)'
    BY <1>2, <1>3, <2>1, <2>2, <2>3
    DEF AddClaim, ThreadInv, SlotInv, OwnerInv, Owners, Installed, Bare
  <2> QED
    BY <1>2, <1>3, <2>1, <2>2, <2>3, <2>4, OwnerLocal DEF AddClaim
<1>4. CASE AddMapPages(t)
  <2>1. /\ pc[t] = "add_map" /\ pc' = [pc EXCEPT ![t] = "add_init"]
        /\ mmap_area' = [mmap_area EXCEPT ![i] = TRUE]
        /\ UNCHANGED <<file, mapped, allocated, used, guest_area, slot,
                       ret_val>>
    BY <1>4 DEF AddMapPages
  <2>2. /\ \A u \in Threads \ {t} : pc'[u] = pc[u]
        /\ \A j \in Slots \ {i} : mmap_area'[j] = mmap_area[j]
        /\ pc'[t] = "add_init" /\ mmap_area'[i]
    BY <1>2, <1>4, <2>1 DEF AddClaim, TypeInv, TypeOK
  <2>3. /\ file[i] = "hidden" /\ used[i] /\ allocated[i] /\ ret_val[t] = i
        /\ slot'[t] = i
    BY <2>1 DEF OwnerInv, ThreadInv, Owners, Installed
  <2>4. ThreadInv(t)' /\ SlotInv(i)'
    BY <1>2, <1>4, <2>1, <2>2, <2>3
    DEF AddClaim, ThreadInv, SlotInv, OwnerInv, Owners, Installed, Bare
  <2> QED
    BY <1>2, <1>4, <2>1, <2>2, <2>3, <2>4, OwnerLocal DEF AddClaim
<1>5. CASE AddKontextInit(t)
  <2>1. /\ pc[t] = "add_init" /\ pc' = [pc EXCEPT ![t] = "add_finish"]
        /\ guest_area' = [guest_area EXCEPT ![i] = TRUE]
        /\ UNCHANGED <<file, mapped, allocated, used, mmap_area, slot, ret_val>>
    BY <1>5 DEF AddKontextInit
  <2>2. /\ \A u \in Threads \ {t} : pc'[u] = pc[u]
        /\ \A j \in Slots \ {i} : guest_area'[j] = guest_area[j]
        /\ pc'[t] = "add_finish" /\ guest_area'[i]
    BY <1>2, <1>5, <2>1 DEF AddClaim, TypeInv, TypeOK
  <2>3. /\ file[i] = "hidden" /\ used[i] /\ allocated[i] /\ ret_val[t] = i
        /\ mmap_area[i] /\ slot'[t] = i
    BY <2>1 DEF OwnerInv, ThreadInv, Owners, Installed
  <2>4. ThreadInv(t)' /\ SlotInv(i)'
    BY <1>2, <1>5, <2>1, <2>2, <2>3
    DEF AddClaim, ThreadInv, SlotInv, OwnerInv, Owners, Installed, Bare
  <2> QED
    BY <1>2, <1>5, <2>1, <2>2, <2>3, <2>4, OwnerLocal DEF AddClaim
<1>6. CASE AddFinish(t)
  <2>1. pc[t] = "add_finish" /\ i \in Slots
    BY <1>6 DEF AddFinish, TypeInv, SlotOK
  <2>2. /\ file[i] = "hidden" /\ used[i] /\ allocated[i] /\ ret_val[t] = i
        /\ guest_area[i] /\ mmap_area[i] /\ ~mapped[i]
    BY <2>1 DEF OwnerInv, ThreadInv, SlotInv, Owners, Installed
  <2>3. /\ \A u \in Threads \ {t} :
             pc'[u] = pc[u] /\ slot'[u] = slot[u] /\ ret_val'[u] = ret_val[u]
        /\ \A j \in Slots \ {i} : file'[j] = file[j]
        /\ pc'[t] \in {"idle", "kontainer_release"} /\ file'[i] = "open"
        /\ ret_val'[t] = 0
        /\ UNCHANGED <<mapped, allocated, used, guest_area, mmap_area>>
    BY <1>6, <2>1, <2>2 DEF AddFinish, LeaveAdd, TypeInv, TypeOK
  <2>4. ThreadInv(t)'
    BY <2>3, ConstantsAssumption DEF ThreadInv, Owners, Installed, Bare
  <2>7. SlotInv(i)'
    BY <2>2, <2>3 DEF SlotInv
  <2>5. pc'[t] \notin Owners
    BY <2>3 DEF Owners, Installed, Bare
  <2>6. ~AddClaim(t)
    BY <2>1 DEF AddClaim
  <2> QED
    BY <1>2, <2>1, <2>2, <2>3, <2>4, <2>5, <2>6, <2>7, OwnerLocal
<1> QED
  BY <1>1, <1>3, <1>4, <1>5, <1>6

(* The steps of a release up to first_thread.                              *)
LEMMA OwnerRelease ==
  ASSUME CInv, NEW t \in Threads, NEW i, i = slot[t],
         ReleaseFree(t) \/ ReleaseUnuse(t) \/ ReleaseFirst(t)
  PROVE  OwnerInv'
<1> USE DEF CInv, LockInv
<1>1. /\ i \in Slots /\ allocated[i] /\ ret_val[t] \notin Slots
      /\ pc[t] \in {"rel_free", "rel_unuse"} =>
           /\ file[i] = "none" /\ used[i] /\ ~mapped[i]
           /\ \A u \in Threads \ {t} : pc[u] \in Owners => slot[u] # i
           /\ \A u \in Threads : slot[u] = i => pc[u] # "run"
  BY DEF ReleaseFree, ReleaseUnuse, ReleaseFirst, TypeInv, SlotOK, OwnerInv,
         ThreadInv, SlotInv, Alone, Owners, Installed, Bare
<1>2. CASE ReleaseFree(t)
  <2>1. /\ pc[t] = "rel_free" /\ pc'[t] = "rel_unuse" /\ slot' = slot
        /\ \A u \in Threads \ {t} : pc'[u] = pc[u]
        /\ \A j \in Slots \ {i} :
             guest_area'[j] = guest_area[j] /\ mmap_area'[j] = mmap_area[j]
        /\ ~guest_area'[i] /\ ~mmap_area'[i]
        /\ UNCHANGED <<file, mapped, allocated, used, ret_val>>
    BY <1>1, <1>2 DEF ReleaseFree, TypeInv, TypeOK
  <2>2. ThreadInv(t)'
    BY <1>1, <2>1 DEF ThreadInv, Owners, Installed, Bare
  <2>3. SlotInv(i)'
    BY <1>1, <2>1 DEF SlotInv, Bare
  <2>4. pc[t] \in Owners
    BY <2>1 DEF Owners, Bare
  <2> HIDE DEF CInv, LockInv
  <2> QED
    BY <1>1, <2>1, <2>2, <2>3, <2>4, OwnerLocal DEF CInv, LockInv
<1>3. CASE ReleaseUnuse(t)
  <2>1. /\ pc[t] = "rel_unuse" /\ pc'[t] = "rel_first" /\ slot' = slot
        /\ \A u \in Threads \ {t} : pc'[u] = pc[u]
        /\ \A j \in Slots \ {i} : used'[j] = used[j]
        /\ ~used'[i]
        /\ UNCHANGED <<file, mapped, allocated, guest_area, mmap_area, ret_val>>
    BY <1>1, <1>3 DEF ReleaseUnuse, TypeInv, TypeOK
  <2>2. ThreadInv(t)'
    BY <1>1, <2>1 DEF ThreadInv, Owners, Installed, Bare
  <2>3. ~guest_area[i] /\ ~mmap_area[i]
    <3>1. \A u \in Threads : ~(pc[u] = "rel_free" /\ slot[u] = i)
      BY <1>1, <2>1 DEF Owners, Bare
    <3> QED
      BY <1>1, <2>1, <3>1 DEF OwnerInv, SlotInv
  <2>4. SlotInv(i)'
    BY <1>1, <2>1, <2>3 DEF SlotInv
  <2>5. pc[t] \in Owners /\ pc'[t] \notin Owners
    BY <2>1 DEF Owners, Installed, Bare
  <2> HIDE DEF CInv, LockInv
  <2> QED
    BY <1>1, <2>1, <2>2, <2>4, <2>5, OwnerLocal DEF CInv, LockInv
<1>4. CASE ReleaseFirst(t)
  <2>1. /\ pc[t] = "rel_first" /\ pc'[t] = "rel_count"
        /\ \A u \in Threads \ {t} : pc'[u] = pc[u]
        /\ UNCHANGED <<slot, file, mapped, allocated, used, guest_area,
                       mmap_area, ret_val>>
    BY <1>4 DEF ReleaseFirst, TypeInv, TypeOK
  <2>2. pc[t] \notin Owners /\ pc'[t] \notin Owners \cup {"rel_first"}
    BY <2>1 DEF Owners, Installed, Bare
  <2> HIDE DEF CInv, LockInv
  <2> QED
    BY <1>1, <2>1, <2>2, OwnerQuiet DEF CInv, LockInv
<1> QED
  BY <1>2, <1>3, <1>4

(* The release of a reference may free every slot, with nobody left in one.*)
LEMMA OwnerDown ==
  ASSUME CInv, NEW t \in Threads, ReleaseDown(t) \/ KontainerRelease(t)
  PROVE  OwnerInv'
<1> USE DEF CInv, LockInv
<1>1. /\ pc[t] \in {"rel_down", "kontainer_release"} /\ pc'[t] = "idle"
      /\ \A u \in Threads \ {t} : pc'[u] = pc[u] /\ slot'[u] = slot[u]
      /\ kkm_reference_count_down
      /\ UNCHANGED <<file, mapped, used, guest_area, mmap_area, ret_val>>
  BY DEF ReleaseDown, KontainerRelease, TypeInv, TypeOK
<1>2. ret_val[t] \notin Slots
  BY <1>1 DEF OwnerInv, ThreadInv, Installed
<1>3. CASE reference_count # 1
  <2>1. pc[t] \notin Owners /\ pc'[t] \notin Owners \cup {"rel_first"}
    BY <1>1 DEF Owners, Installed, Bare
  <2>2. allocated' = allocated
    BY <1>1, <1>3, Dropping
  <2> HIDE DEF CInv, LockInv
  <2> QED
    BY <1>1, <1>2, <2>1, <2>2, OwnerQuiet DEF CInv, LockInv
<1>4. CASE reference_count = 1
  <2>1. /\ \A u \in Threads : pc'[u] = "idle"
        /\ \A j \in Slots : file[j] = "none"
    <3> HIDE DEF CInv, LockInv
    <3> QED
      BY <1>1, <1>4, NothingLeft
  <2>2. ASSUME NEW u \in Threads PROVE ThreadInv(u)'
    BY <1>1, <1>2, <2>1
    DEF OwnerInv, ThreadInv, Owners, Installed, Bare
  <2>3. \A u \in Threads : pc[u] \notin Owners
    BY <1>1, <2>1 DEF Owners, Installed, Bare
  <2>4. ASSUME NEW j \in Slots PROVE SlotInv(j)'
    <3>1. ~used[j] /\ ~guest_area[j] /\ ~mmap_area[j] /\ ~mapped[j]
      BY <2>1, <2>3 DEF OwnerInv, SlotInv, Owners, Bare
    <3> QED
      BY <1>1, <2>1, <3>1 DEF SlotInv
  <2>5. Alone'
    BY <2>1 DEF Alone, Owners, Installed, Bare
  <2> QED
    BY <2>2, <2>4, <2>5 DEF OwnerInv
<1> QED
  BY <1>3, <1>4

(* The failures that are left out.                                         *)
LEMMA NoOtherFailure ==
  ASSUME OnlyKzalloc, NEW t \in Threads
  PROVE  /\ ~CreateGetFdFails(t) /\ ~CreateInitFails(t)
         /\ ~AddGetFdFails(t) /\ ~AddMapPagesFails(t)
         /\ ~AddKontextInitFails(t)
BY DEF OnlyKzalloc, CreateGetFdFails, CreateInitFails, AddGetFdFails,
       AddMapPagesFails, AddKontextInitFails

(* Every other step of a thread touches no slot.                           *)
Quiet(t) ==
  \/ CreateKontainer(t) \/ AddBegin(t)
  \/ \E mm \in Mms, vcpu_id \in VcpuIds :
       AddLock(t, mm, vcpu_id) \/ AddRefused(t, mm, vcpu_id)
  \/ AddScanBusy(t) \/ AddNoMemory(t) \/ AddRunsOff(t) \/ AddError(t)
  \/ \E i \in Slots : RunBegin(t, i)
  \/ ReleaseCount(t) \/ CloseKontainer(t)

(* The quiet steps keep the owners.                                        *)
LEMMA OwnerOther ==
  ASSUME CInv, NEW t \in Threads, Quiet(t)
  PROVE  OwnerInv'
<1> USE DEF CInv, LockInv
<1>1. ret_val[t] \in Slots => pc[t] \in Installed
  BY DEF OwnerInv, ThreadInv
<1>2. pc[t] \notin Installed => ret_val[t] \notin Slots
  BY <1>1
<1> DEFINE Calm ==
      /\ \A u \in Threads \ {t} :
           pc'[u] = pc[u] /\ slot'[u] = slot[u] /\ ret_val'[u] = ret_val[u]
      /\ UNCHANGED <<file, mapped, allocated, used, guest_area, mmap_area>>
      /\ pc[t] \notin Owners /\ pc'[t] \notin Owners \cup {"rel_first"}
      /\ pc'[t] = "run" => file[slot'[t]] \in {"open", "closed"}
      /\ ret_val'[t] \notin Slots
<1>3. Calm
  <2> USE <1>2 DEF TypeInv, TypeOK, Owners, Installed, Bare
  <2>1. CASE CreateKontainer(t)
    BY <2>1 DEF CreateKontainer
  <2>2. CASE AddBegin(t)
    BY <2>2 DEF AddBegin, Enter
  <2>3. CASE \E mm \in Mms, vcpu_id \in VcpuIds : AddLock(t, mm, vcpu_id)
    BY <2>3 DEF AddLock
  <2>4. CASE \E mm \in Mms, vcpu_id \in VcpuIds : AddRefused(t, mm, vcpu_id)
    BY <2>4 DEF AddRefused
  <2>5. CASE AddScanBusy(t)
    BY <2>5 DEF AddScanBusy
  <2>6. CASE AddNoMemory(t)
    BY <2>6 DEF AddNoMemory
  <2>7. CASE AddRunsOff(t)
    BY <2>7 DEF AddRunsOff
  <2>8. CASE AddError(t)
    BY <2>8, ConstantsAssumption DEF AddError, LeaveAdd
  <2>9. CASE \E i \in Slots : RunBegin(t, i)
    BY <2>9 DEF RunBegin, Enter
  <2>10. CASE ReleaseCount(t)
    BY <2>10 DEF ReleaseCount
  <2>11. CASE CloseKontainer(t)
    BY <2>11 DEF CloseKontainer
  <2> QED
    BY <2>1, <2>2, <2>3, <2>4, <2>5, <2>6, <2>7, <2>8, <2>9, <2>10, <2>11
    DEF Quiet
<1> HIDE DEF CInv, LockInv
<1> QED
  BY <1>3, OwnerQuiet DEF CInv, LockInv

(* Every step keeps the owners: the slots change hands only as said above. *)
LEMMA OwnerStep ==
  ASSUME OnlyKzalloc, CInv, [Next]_vars
  PROVE  OwnerInv'
<1>1. ASSUME NEW t \in Threads, NEW i \in Slots, Mmap(t, i)
      PROVE  OwnerInv'
  <2>1. /\ mapped' = [mapped EXCEPT ![i] = TRUE] /\ file[i] = "open"
        /\ UNCHANGED <<file, slotVars, threadVars>>
    BY <1>1 DEF Mmap
  <2>2. \A j \in Slots : mapped'[j] => mapped[j] \/ file[j] = "open"
    BY <2>1 DEF CInv, LockInv, TypeInv, TypeOK
  <2> QED
    BY <2>1, <2>2 DEF CInv, OwnerInv, ThreadInv, SlotInv, Alone
<1>2. ASSUME Kill \/ Exited \/ UNCHANGED vars PROVE OwnerInv'
  <2>1. UNCHANGED <<fileVars, slotVars, threadVars>>
    BY <1>2 DEF Kill, Exited, vars
  <2> QED
    BY <2>1 DEF CInv, OwnerInv, ThreadInv, SlotInv, Alone
<1>4. ASSUME NEW t \in Threads, NEW first \in BOOLEAN, SetSaveInfo(t, first)
      PROVE  OwnerInv'
  <2>1. /\ UNCHANGED <<fileVars, threadVars, allocated, used>>
        /\ UNCHANGED <<guest_area, mmap_area>>
    BY <1>4 DEF SetSaveInfo
  <2> QED
    BY <2>1 DEF CInv, OwnerInv, ThreadInv, SlotInv, Alone
<1>3. ASSUME NEW t \in Threads, RunEnd(t) PROVE OwnerInv'
  <2>1. slot[t] \in Slots
    BY <1>3 DEF RunEnd, CInv, LockInv, TypeInv, SlotOK
  <2> QED
    BY <1>3, <2>1, OwnerClose
<1> QED
  BY <1>1, <1>2, <1>3, <1>4, NoOtherFailure, OwnerOther, OwnerAdd, OwnerRelease,
     OwnerDown, OwnerClose
  DEF Next, Driver, Request, Close, Quiet

-----------------------------------------------------------------------------
(***************************************************************************)
(* The kontainer's file                                                    *)
(***************************************************************************)

(* No add begins on a file that is gone, and its last holder releases it.  *)
LEMMA KontainerStep ==
  ASSUME OnlyKzalloc, CInv, [Next]_vars
  PROVE  KontainerInv'
<1> USE DEF CInv, LockInv, TypeInv, TypeOK, KontainerInv
<1>1. ASSUME NEW t \in Threads, CreateKontainer(t) PROVE KontainerInv'
  <2>1. reference_count = 0
    BY <1>1 DEF CreateKontainer, RefcountExact
  <2>2. ~KontainerHeld
    BY <2>1, CountedFinite DEF RefcountExact
  <2> QED
    BY <1>1, <2>2 DEF CreateKontainer, KontainerHeld
<1>2. ASSUME NEW t \in Threads, AddError(t) \/ AddFinish(t)
      PROVE  KontainerInv'
  BY <1>2 DEF AddError, AddFinish, LeaveAdd
<1>3. ASSUME NEW t \in Threads, CloseKontainer(t) PROVE KontainerInv'
  BY <1>3 DEF CloseKontainer, Closable
<1>4. ASSUME NEW t \in Threads, KontainerRelease(t) \/ ReleaseDown(t)
      PROVE  KontainerInv'
  BY <1>4 DEF KontainerRelease, ReleaseDown, kkm_reference_count_down
<1>6. ASSUME NEW t \in Threads, NEW i \in Slots,
             Munmap(t, i) \/ CloseKontext(t, i)
      PROVE  KontainerInv'
  BY <1>6 DEF Munmap, CloseKontext, DropKontextRef
<1>7. ASSUME NEW t \in Threads,
             \/ AddBegin(t) \/ \E i \in Slots : RunBegin(t, i)
      PROVE  KontainerInv'
  BY <1>7 DEF AddBegin, RunBegin, Enter
<1>8. ASSUME NEW t \in Threads,
             \/ \E mm \in Mms, vcpu_id \in VcpuIds :
                  AddLock(t, mm, vcpu_id) \/ AddRefused(t, mm, vcpu_id)
             \/ AddScanBusy(t) \/ AddClaim(t) \/ AddNoMemory(t)
             \/ AddRunsOff(t) \/ AddGetFd(t) \/ AddMapPages(t)
             \/ AddKontextInit(t)
      PROVE  KontainerInv'
  BY <1>8
  DEF AddLock, AddRefused, AddScanBusy, AddClaim, AddNoMemory, AddRunsOff,
      AddGetFd, AddMapPages, AddKontextInit
<1>9. ASSUME NEW t \in Threads,
             ReleaseFree(t) \/ ReleaseUnuse(t) \/ ReleaseFirst(t)
               \/ ReleaseCount(t)
      PROVE  KontainerInv'
  BY <1>9 DEF ReleaseFree, ReleaseUnuse, ReleaseFirst, ReleaseCount
<1>10. ASSUME \/ \E t \in Threads : \E i \in Slots : Mmap(t, i)
              \/ Kill \/ Exited \/ UNCHANGED vars
       PROVE  KontainerInv'
  BY <1>10 DEF Mmap, Kill, Exited, vars
<1>5. ASSUME NEW t \in Threads, RunEnd(t) PROVE KontainerInv'
  BY <1>5 DEF RunEnd, DropKontextRef
<1>11. ASSUME NEW t \in Threads, NEW first \in BOOLEAN, SetSaveInfo(t, first)
       PROVE  KontainerInv'
  BY <1>11 DEF SetSaveInfo
<1> HIDE DEF CInv, KontainerInv
<1> QED
  BY <1>1, <1>2, <1>3, <1>4, <1>5, <1>6, <1>7, <1>8, <1>9, <1>10, <1>11,
     NoOtherFailure
  DEF Next, Driver, Request, Close

-----------------------------------------------------------------------------
(***************************************************************************)
(* The two counts                                                          *)
(***************************************************************************)

Shared == {"open", "closed"}
Counts == RefcountExact /\ KontextCountExact

(* What a step may do to the kontainer and its counts: nothing, or create  *)
(* it, add a kontext, uncount one, give a reference back.                  *)
Moves ==
  \/ /\ UNCHANGED <<kkm, reference_count, kontext_count>>
     /\ KontainerHeld' <=> KontainerHeld
  \/ /\ kkm = "none" /\ kkm' = "alive" /\ KontainerHeld'
     /\ reference_count' = 1 /\ kontext_count' = kontext_count
  \/ /\ KontainerHeld /\ KontainerHeld' /\ kontext_count < MaxContexts
     /\ reference_count' = reference_count + 1
     /\ kontext_count' = kontext_count + 1 /\ kkm' = kkm
  \/ /\ kontext_count' = kontext_count - 1
     /\ UNCHANGED <<kkm, reference_count>>
     /\ KontainerHeld' <=> KontainerHeld
  \/ /\ reference_count' = reference_count - 1
     /\ kontext_count' = kontext_count
     /\ kkm' = IF reference_count = 1 THEN "freed" ELSE kkm
     /\ KontainerHeld' => KontainerHeld

(* A step that registers nothing, releases nothing and lets nothing go.    *)
LEMMA CountFrame ==
  ASSUME Counts, NEW t \in Threads,
         \A u \in Threads \ {t} : pc'[u] = pc[u],
         pc'[t] \in ReleasePcs <=> pc[t] \in ReleasePcs,
         pc'[t] = "rel_down" <=> pc[t] = "rel_down",
         \A i \in Slots : file'[i] \in Shared <=> file[i] \in Shared,
         KontainerHeld' <=> KontainerHeld,
         UNCHANGED <<kkm, reference_count, kontext_count>>
  PROVE  Counts' /\ Moves
<1>1. /\ Registered' = Registered /\ Releasing' = Releasing
      /\ StillCounted' = StillCounted
  BY DEF Registered, Releasing, StillCounted, Shared
<1> HIDE DEF Registered, Releasing, StillCounted, KontainerHeld
<1> QED
  BY <1>1 DEF Counts, RefcountExact, KontextCountExact, Moves

(* The kontainer is created with its file's reference.                     *)
LEMMA CountCreate ==
  ASSUME CInv, NEW t \in Threads, CreateKontainer(t)
  PROVE  Counts' /\ Moves
<1> USE DEF CInv, LockInv
<1>1. /\ kkm' = "alive" /\ kontainer_file' = "open" /\ reference_count' = 1
      /\ reference_count = 0
      /\ UNCHANGED <<kontext_count, file, pc>>
  BY DEF CreateKontainer, RefcountExact
<1>2. /\ Cardinality(Registered) = 0 /\ Cardinality(Releasing) = 0
  BY <1>1, CountedFinite DEF RefcountExact
<1>3. /\ Registered' = Registered /\ Releasing' = Releasing
      /\ StillCounted' = StillCounted /\ KontainerHeld'
  BY <1>1 DEF Registered, Releasing, StillCounted, KontainerHeld
<1>4. kkm = "none"
  BY DEF CreateKontainer
<1> HIDE DEF CInv, LockInv, Registered, Releasing, StillCounted, KontainerHeld
<1>5. RefcountExact' /\ KontextCountExact'
  BY <1>1, <1>2, <1>3 DEF RefcountExact, KontextCountExact, CInv
<1> QED
  BY <1>1, <1>3, <1>4, <1>5 DEF Counts, Moves

(* An add ends: its hold on the kontainer's file becomes the release of it *)
(* or leaves the file to others.                                           *)
LEMMA LeaveHeld ==
  ASSUME CInv, NEW t \in Threads, pc[t] \in AddPcs, LeaveAdd(t)
  PROVE  /\ KontainerHeld /\ KontainerHeld'
         /\ pc'[t] \notin ReleasePcs
         /\ \A u \in Threads \ {t} : pc'[u] = pc[u]
<1>1. kontainer_file # "none"
  BY DEF CInv, KontainerInv
<1>2. /\ \A u \in Threads \ {t} : pc'[u] = pc[u]
      /\ \/ pc'[t] = "kontainer_release"
         \/ pc'[t] = "idle" /\ kontainer_file' = kontainer_file
  BY DEF LeaveAdd, CInv, LockInv, TypeInv, TypeOK
<1> QED
  BY <1>1, <1>2 DEF KontainerHeld

(* An add that fails counts nothing.                                       *)
LEMMA CountAddError ==
  ASSUME CInv, NEW t \in Threads, AddError(t)
  PROVE  Counts' /\ Moves
<1>1. /\ pc[t] = "add_error" /\ LeaveAdd(t)
      /\ UNCHANGED <<kkm, reference_count, kontext_count>>
  BY DEF AddError
<1>2. ret_val[t] \notin Slots
  BY <1>1 DEF CInv, OwnerInv, ThreadInv, Installed
<1>3. file' = file
  BY <1>1, <1>2 DEF LeaveAdd
<1> QED
  BY <1>1, <1>3, LeaveHeld, CountFrame DEF Counts, CInv

(* A kontext is counted twice, once in each counter, when its descriptor   *)
(* is handed out.                                                          *)
LEMMA CountAddFinish ==
  ASSUME CInv, NEW t \in Threads, AddFinish(t)
  PROVE  Counts' /\ Moves
<1> DEFINE i == slot[t]
<1>1. /\ pc[t] = "add_finish" /\ LeaveAdd(t) /\ kkm' = kkm
      /\ reference_count' = RefInc(reference_count)
      /\ kontext_count' = CountInc(kontext_count)
  BY DEF AddFinish
<1>2. i \in Slots /\ file[i] = "hidden" /\ ret_val[t] = i
  BY <1>1
  DEF CInv, LockInv, TypeInv, SlotOK, OwnerInv, ThreadInv, Installed
<1>3. /\ KontainerHeld /\ KontainerHeld'
      /\ pc'[t] \notin ReleasePcs
      /\ \A u \in Threads \ {t} : pc'[u] = pc[u]
  BY <1>1, LeaveHeld
<1>4. file' = [file EXCEPT ![i] = "open"] /\ file \in [Slots -> FileStates]
  BY <1>1, <1>2 DEF LeaveAdd, CInv, LockInv, TypeInv, TypeOK
<1>5. /\ Registered' = Registered \cup {i} /\ i \notin Registered
      /\ Releasing' = Releasing /\ StillCounted' = StillCounted
  BY <1>1, <1>2, <1>3, <1>4 DEF Registered, Releasing, StillCounted
<1>6. /\ IsFiniteSet(Registered) /\ Cardinality(Registered) \in Nat
      /\ Cardinality(Releasing) \in Nat /\ Cardinality(StillCounted) \in Nat
  BY CountedFinite DEF CInv, LockInv
<1>7. Cardinality(Registered') = Cardinality(Registered) + 1
  BY <1>5, <1>6, FS_AddElement
<1>8. kontext_count' = kontext_count + 1 /\ kontext_count' <= MaxContexts
  BY <1>1, ConstantsAssumption
  DEF CInv, RoomInv, Adding, Installed, CountInc, LockInv, TypeInv, TypeOK
<1>9. /\ reference_count' = reference_count + 1 /\ reference_count \in Nat
      /\ reference_count # 0
  BY <1>1, <1>3, <1>6 DEF CInv, RefcountExact, RefInc
<1> HIDE DEF Registered, Releasing, StillCounted
<1>12. Moves
  BY <1>1, <1>3, <1>8, <1>9, ConstantsAssumption
  DEF Moves, CInv, LockInv, TypeInv, TypeOK
<1>10. RefcountExact'
  BY <1>1, <1>3, <1>5, <1>6, <1>7, <1>9 DEF CInv, RefcountExact
<1>11. KontextCountExact'
  BY <1>5, <1>6, <1>7, <1>8 DEF CInv, KontextCountExact
<1> QED
  BY <1>10, <1>11, <1>12 DEF Counts

(* The last reference to a kontext's file turns the kontext into a release *)
(* that is counted in its place.                                           *)
LEMMA CountDrop ==
  ASSUME CInv, NEW t \in Threads, NEW i \in Slots, NEW rest \in Shared,
         NEW stillUsed \in BOOLEAN,
         DropKontextRef(t, i, rest, stillUsed),
         pc[t] \in {"run", "idle"}, file[i] \in Shared,
         UNCHANGED <<objectVars, kontext_count>>
  PROVE  Counts' /\ Moves
<1>1. /\ \A u \in Threads \ {t} : pc'[u] = pc[u]
      /\ file \in [Slots -> FileStates]
      /\ KontainerHeld' <=> KontainerHeld
  BY DEF DropKontextRef, CInv, LockInv, TypeInv, TypeOK, KontainerHeld
<1>2. CASE rest = "closed" /\ ~stillUsed
  <2>1. file' = [file EXCEPT ![i] = "none"] /\ pc'[t] = "rel_free"
    BY <1>2 DEF DropKontextRef, CInv, LockInv, TypeInv, TypeOK
  <2>2. /\ Registered' = Registered \ {i} /\ i \in Registered
        /\ Releasing' = Releasing \cup {t} /\ t \notin Releasing
        /\ StillCounted' = StillCounted \cup {t} /\ t \notin StillCounted
    BY <1>1, <2>1 DEF Registered, Releasing, StillCounted, Shared
  <2>3. /\ IsFiniteSet(Registered) /\ Cardinality(Registered) \in Nat
        /\ IsFiniteSet(Releasing) /\ Cardinality(Releasing) \in Nat
        /\ IsFiniteSet(StillCounted) /\ Cardinality(StillCounted) \in Nat
    BY CountedFinite DEF CInv, LockInv
  <2> HIDE DEF Registered, Releasing, StillCounted, KontainerHeld
  <2>4. /\ Cardinality(Registered') = Cardinality(Registered) - 1
        /\ Cardinality(Releasing') = Cardinality(Releasing) + 1
        /\ Cardinality(StillCounted') = Cardinality(StillCounted) + 1
    BY <2>2, <2>3, FS_AddElement, FS_RemoveElement
  <2>5. UNCHANGED <<kkm, reference_count, kontext_count>>
    OBVIOUS
  <2>6. RefcountExact /\ KontextCountExact
    BY DEF CInv
  <2>7. RefcountExact'
    BY <1>1, <2>3, <2>4, <2>5, <2>6 DEF RefcountExact
  <2>8. KontextCountExact'
    BY <2>3, <2>4, <2>5, <2>6 DEF KontextCountExact
  <2> QED
    BY <1>1, <2>5, <2>7, <2>8 DEF Counts, Moves
<1>3. CASE rest = "open" \/ stillUsed
  <2>1. file' = [file EXCEPT ![i] = rest] /\ pc'[t] = "idle"
    BY <1>3 DEF DropKontextRef, CInv, LockInv, TypeInv, TypeOK, Shared
  <2>2. \A j \in Slots : file'[j] \in Shared <=> file[j] \in Shared
    BY <1>1, <2>1
  <2> QED
    BY <1>1, <2>1, <2>2, CountFrame DEF Counts, CInv
<1> QED
  BY <1>2, <1>3 DEF Shared

(* A use, a mapping or a descriptor of a kontext ends.                     *)
LEMMA CountClose ==
  ASSUME CInv, NEW t \in Threads, NEW i \in Slots,
         \/ slot[t] = i /\ RunEnd(t)
         \/ Munmap(t, i) \/ CloseKontext(t, i)
  PROVE  Counts' /\ Moves
<1>1. CASE slot[t] = i /\ RunEnd(t)
  <2> DEFINE others == \E u \in Threads \ {t} : pc[u] = "run" /\ slot[u] = i
             still == mapped[i] \/ others
  <2>1. /\ pc[t] = "run" /\ UNCHANGED <<objectVars, kontext_count>>
        /\ DropKontextRef(t, i, file[i], still)
    BY <1>1 DEF RunEnd
  <2>2. file[i] \in Shared
    BY <1>1, <2>1 DEF CInv, OwnerInv, ThreadInv, Shared
  <2>3. still \in BOOLEAN
    BY DEF CInv, LockInv, TypeInv, TypeOK
  <2> HIDE DEF others, still
  <2> QED
    BY <2>1, <2>2, <2>3, CountDrop
<1>2. CASE Munmap(t, i)
  <2>1. /\ pc[t] = "idle" /\ UNCHANGED <<objectVars, kontext_count>>
        /\ DropKontextRef(t, i, file[i], Running(i)) /\ mapped[i]
    BY <1>2 DEF Munmap
  <2>2. file[i] \in Shared /\ Running(i) \in BOOLEAN
    BY <2>1 DEF CInv, OwnerInv, SlotInv, Shared, Running
  <2> QED
    BY <2>1, <2>2, CountDrop
<1>3. CASE CloseKontext(t, i)
  <2> DEFINE still == mapped[i] \/ Running(i)
  <2>1. /\ pc[t] = "idle" /\ UNCHANGED <<objectVars, kontext_count>>
        /\ DropKontextRef(t, i, "closed", still)
    BY <1>3 DEF CloseKontext
  <2>2. file[i] \in Shared
    BY <1>3
    DEF CloseKontext, Closable, AllIdle, CInv, OwnerInv, SlotInv, Installed,
        LockInv, TypeInv, TypeOK, Shared
  <2>3. still \in BOOLEAN
    BY DEF Running, CInv, LockInv, TypeInv, TypeOK
  <2>4. "closed" \in Shared
    BY DEF Shared
  <2> HIDE DEF still
  <2> QED
    BY <2>1, <2>2, <2>3, <2>4, CountDrop
<1> QED
  BY <1>1, <1>2, <1>3

(* A release gives up its place in kontext_count, and later its reference. *)
LEMMA CountReleaseCount ==
  ASSUME CInv, NEW t \in Threads, ReleaseCount(t)
  PROVE  Counts' /\ Moves
<1>1. /\ pc[t] = "rel_count" /\ pc' = [pc EXCEPT ![t] = "rel_down"]
      /\ pc \in [Threads -> Pcs]
      /\ kontext_count' = CountDec(kontext_count)
      /\ UNCHANGED <<objectVars, file>>
  BY DEF ReleaseCount, CInv, LockInv, TypeInv, TypeOK
<1>2. /\ StillCounted' = StillCounted \ {t} /\ t \in StillCounted
      /\ Releasing' = Releasing /\ Registered' = Registered
      /\ KontainerHeld' <=> KontainerHeld
  BY <1>1 DEF StillCounted, Releasing, Registered, KontainerHeld
<1>3. /\ IsFiniteSet(StillCounted) /\ Cardinality(StillCounted) \in Nat
      /\ Cardinality(Registered) \in Nat
  BY CountedFinite DEF CInv, LockInv
<1> HIDE DEF StillCounted, Releasing, Registered, KontainerHeld
<1>4. /\ Cardinality(StillCounted') = Cardinality(StillCounted) - 1
      /\ Cardinality(StillCounted) >= 1
  BY <1>2, <1>3, FS_RemoveElement, CountedNone
<1>5. kontext_count' = kontext_count - 1
  BY <1>1, <1>3, <1>4 DEF CInv, KontextCountExact, CountDec
<1>6. RefcountExact'
  BY <1>1, <1>2 DEF CInv, RefcountExact
<1>7. KontextCountExact'
  BY <1>2, <1>3, <1>4, <1>5, ConstantsAssumption
  DEF CInv, KontextCountExact
<1> QED
  BY <1>1, <1>2, <1>5, <1>6, <1>7 DEF Counts, Moves

(* The last step of either release gives its own reference back.           *)
LEMMA CountDown ==
  ASSUME CInv, NEW t \in Threads, ReleaseDown(t) \/ KontainerRelease(t)
  PROVE  Counts' /\ Moves
<1>1. /\ pc' = [pc EXCEPT ![t] = "idle"] /\ pc \in [Threads -> Pcs]
      /\ pc[t] \in {"rel_down", "kontainer_release"}
      /\ kkm_reference_count_down
      /\ UNCHANGED <<kontainer_file, kontext_count, file>>
  BY DEF ReleaseDown, KontainerRelease, CInv, LockInv, TypeInv, TypeOK
<1>2. /\ reference_count \in Nat \ {0}
      /\ reference_count' = reference_count - 1
      /\ reference_count # 1 => kkm' = kkm
      /\ reference_count = 1 => kkm' = "freed"
      /\ kkm = "alive"
  BY <1>1, Dropping
<1>3. Registered' = Registered /\ StillCounted' = StillCounted
  BY <1>1 DEF Registered, StillCounted
<1>4. /\ IsFiniteSet(Releasing) /\ Cardinality(Releasing) \in Nat
      /\ Cardinality(Registered) \in Nat
  BY CountedFinite DEF CInv, LockInv
<1>5. KontextCountExact'
  BY <1>1, <1>3 DEF CInv, KontextCountExact
<1>6. kkm' \in {"none", "freed"} <=> reference_count' = 0
  BY <1>2
<1>7. CASE pc[t] = "rel_down"
  <2>1. /\ Releasing' = Releasing \ {t} /\ t \in Releasing
        /\ KontainerHeld' <=> KontainerHeld
    BY <1>1, <1>7 DEF Releasing, KontainerHeld
  <2> HIDE DEF Releasing, Registered, KontainerHeld
  <2>2. Cardinality(Releasing') = Cardinality(Releasing) - 1
    BY <1>4, <2>1, FS_RemoveElement
  <2>3. RefcountExact'
    BY <1>2, <1>3, <1>4, <1>6, <2>1, <2>2 DEF CInv, RefcountExact
  <2>4. Moves
    BY <1>1, <1>2, <2>1 DEF Moves
  <2> QED
    BY <1>5, <2>3, <2>4 DEF Counts
<1>8. CASE pc[t] = "kontainer_release"
  <2>1. /\ Releasing' = Releasing /\ KontainerHeld /\ ~KontainerHeld'
    BY <1>1, <1>8 DEF Releasing, KontainerHeld, CInv, KontainerInv
  <2> HIDE DEF Releasing, Registered, KontainerHeld
  <2>3. RefcountExact'
    BY <1>2, <1>3, <1>4, <1>6, <2>1 DEF CInv, RefcountExact
  <2>4. Moves
    BY <1>1, <1>2, <2>1 DEF Moves
  <2> QED
    BY <1>5, <2>3, <2>4 DEF Counts
<1> QED
  BY <1>1, <1>7, <1>8

(* The steps that move no count.                                           *)
LEMMA CountOther ==
  ASSUME CInv, NEW t \in Threads,
         \/ AddBegin(t)
         \/ \E mm \in Mms, vcpu_id \in VcpuIds :
              AddLock(t, mm, vcpu_id) \/ AddRefused(t, mm, vcpu_id)
         \/ AddScanBusy(t) \/ AddClaim(t) \/ AddNoMemory(t) \/ AddRunsOff(t)
         \/ AddGetFd(t) \/ AddMapPages(t) \/ AddKontextInit(t)
         \/ \E i \in Slots : RunBegin(t, i) \/ Mmap(t, i)
         \/ ReleaseFree(t) \/ ReleaseUnuse(t) \/ ReleaseFirst(t)
         \/ CloseKontainer(t)
  PROVE  Counts' /\ Moves
<1> DEFINE Still ==
      /\ \A u \in Threads \ {t} : pc'[u] = pc[u]
      /\ pc'[t] \in ReleasePcs <=> pc[t] \in ReleasePcs
      /\ pc'[t] = "rel_down" <=> pc[t] = "rel_down"
      /\ UNCHANGED <<kkm, reference_count, kontext_count>>
    Kept ==
      /\ kontainer_file' = kontainer_file
      /\ pc[t] # "kontainer_release" /\ pc'[t] # "kontainer_release"
<1> USE DEF CInv, LockInv, TypeInv, TypeOK
<1>1. CASE AddGetFd(t)
  <2>1. Still /\ Kept
    BY <1>1 DEF AddGetFd
  <2>2. \A i \in Slots : file'[i] \in Shared <=> file[i] \in Shared
    BY <1>1 DEF AddGetFd, OwnerInv, ThreadInv, Bare, Shared
  <2>3. KontainerHeld' <=> KontainerHeld
    BY <2>1 DEF KontainerHeld
  <2> QED
    BY <2>1, <2>2, <2>3, CountFrame DEF Counts
<1>2. CASE CloseKontainer(t)
  <2>1. Still /\ file' = file
    BY <1>2 DEF CloseKontainer
  <2>2. KontainerHeld /\ KontainerHeld'
    BY <1>2 DEF CloseKontainer, Closable, KontainerHeld
  <2> QED
    BY <2>1, <2>2, CountFrame DEF Counts
<1>3. ASSUME Still, Kept, file' = file PROVE Counts' /\ Moves
  <2>1. KontainerHeld' <=> KontainerHeld
    BY <1>3 DEF KontainerHeld
  <2> QED
    BY <1>3, <2>1, CountFrame DEF Counts
<1>4. CASE \/ AddBegin(t) \/ \E i \in Slots : RunBegin(t, i) \/ Mmap(t, i)
  <2>1. Still /\ Kept /\ file' = file
    BY <1>4 DEF AddBegin, RunBegin, Enter, Mmap
  <2> QED
    BY <1>3, <2>1
<1>5. CASE \/ \E mm \in Mms, vcpu_id \in VcpuIds :
                AddLock(t, mm, vcpu_id) \/ AddRefused(t, mm, vcpu_id)
           \/ AddScanBusy(t) \/ AddClaim(t) \/ AddNoMemory(t)
           \/ AddRunsOff(t) \/ AddMapPages(t) \/ AddKontextInit(t)
  <2>1. Still /\ Kept /\ file' = file
    BY <1>5 DEF AddLock, AddRefused, AddScanBusy, AddClaim, AddNoMemory,
                AddRunsOff, AddMapPages, AddKontextInit
  <2> QED
    BY <1>3, <2>1
<1>6. CASE ReleaseFree(t) \/ ReleaseUnuse(t) \/ ReleaseFirst(t)
  <2>1. Still /\ Kept /\ file' = file
    BY <1>6 DEF ReleaseFree, ReleaseUnuse, ReleaseFirst
  <2> QED
    BY <1>3, <2>1
<1> QED
  BY <1>1, <1>2, <1>4, <1>5, <1>6

(* Every step keeps both counts.                                           *)
LEMMA CountStep ==
  ASSUME OnlyKzalloc, CInv, [Next]_vars
  PROVE  Counts' /\ Moves
<1>1. ASSUME \/ Kill \/ Exited \/ UNCHANGED vars
             \/ \E t \in Threads, first \in BOOLEAN : SetSaveInfo(t, first)
      PROVE  Counts' /\ Moves
  <2>1. UNCHANGED <<kkm, reference_count, kontext_count, kontainer_file,
                    file, pc>>
    BY <1>1 DEF Kill, Exited, SetSaveInfo, vars
  <2>2. /\ Registered' = Registered /\ Releasing' = Releasing
        /\ StillCounted' = StillCounted
        /\ KontainerHeld' <=> KontainerHeld
    BY <2>1 DEF Registered, Releasing, StillCounted, KontainerHeld
  <2> HIDE DEF Registered, Releasing, StillCounted, KontainerHeld
  <2>3. RefcountExact' /\ KontextCountExact'
    BY <2>1, <2>2 DEF CInv, RefcountExact, KontextCountExact
  <2> QED
    BY <2>1, <2>2, <2>3 DEF Counts, Moves
<1>2. ASSUME NEW t \in Threads, RunEnd(t) PROVE Counts' /\ Moves
  <2>1. slot[t] \in Slots
    BY <1>2 DEF RunEnd, CInv, LockInv, TypeInv, SlotOK
  <2> QED
    BY <1>2, <2>1, CountClose
<1> QED
  BY <1>1, <1>2, NoOtherFailure, CountCreate, CountAddError, CountAddFinish,
     CountClose, CountReleaseCount, CountDown, CountOther
  DEF Next, Driver, Request, Close

-----------------------------------------------------------------------------
(***************************************************************************)
(* The room that was checked, the search and the first thread              *)
(***************************************************************************)

Elsewhere(t) ==
  \A u \in Threads \ {t} : pc'[u] = pc[u] /\ slot'[u] = slot[u]

(* One thread at a time is in the locked part of an add.                   *)
LEMMA OneAdder ==
  ASSUME CInv, NEW t \in Threads, pc[t] \in AddPcs \ {"add_lock"}
  PROVE  /\ kontext_lock = t /\ kontext_lock # NoThread
         /\ \A u \in Threads \ {t} : pc[u] \notin AddPcs \ {"add_lock"}
BY ConstantsAssumption DEF CInv, LockInv, LockDiscipline

(* The room stays while nobody counts, and nobody is left to use it when   *)
(* somebody does.                                                          *)
LEMMA RoomFrame ==
  ASSUME RoomInv, NEW t \in Threads, Elsewhere(t),
         pc'[t] \in Adding => pc[t] \in Adding,
         \/ kontext_count' = kontext_count
         \/ \A u \in Threads : pc'[u] \notin Adding
  PROVE  RoomInv'
BY DEF RoomInv, Elsewhere

(* A slot that becomes unused does not disturb a search.                   *)
LEMMA SearchFrame ==
  ASSUME SearchInv, NEW t \in Threads, Elsewhere(t),
         pc'[t] # "add_scan",
         \/ \A i \in Slots : used'[i] => used[i]
         \/ \A u \in Threads : pc'[u] # "add_scan"
  PROVE  SearchInv'
<1>1. ASSUME NEW u \in Threads, pc'[u] = "add_scan"
      PROVE  /\ slot'[u] >= 1
             /\ \E i \in Slots : i >= slot'[u] /\ ~used'[i]
  <2>1. u # t /\ pc[u] = "add_scan" /\ slot'[u] = slot[u]
    BY <1>1 DEF Elsewhere
  <2>2. \A i \in Slots : used'[i] => used[i]
    BY <1>1
  <2> QED
    BY <2>1, <2>2 DEF SearchInv
<1> QED
  BY <1>1 DEF SearchInv

(* First threads stay apart when no slot comes to life and no release is   *)
(* about to clear first_thread.                                            *)
LEMMA FirstFrame ==
  ASSUME FirstInv, NEW t \in Threads, Elsewhere(t),
         pc'[t] \notin {"add_getfd", "rel_first"},
         \A i \in Slots :
           /\ made_first'[i] => made_first[i]
           /\ file'[i] # "none" => LiveSlot(i),
         \A u \in Threads : pc[u] = "rel_first" => slot[u] \in Slots
  PROVE  FirstInv'
<1>1. ASSUME NEW i \in Slots, LiveSlot(i)' PROVE LiveSlot(i)
  <2>1. CASE file'[i] # "none"
    BY <2>1
  <2>2. ASSUME NEW u \in Threads, pc'[u] = "add_getfd", slot'[u] = i
        PROVE  LiveSlot(i)
    BY <2>2 DEF Elsewhere, LiveSlot
  <2> QED
    BY <1>1, <2>1, <2>2 DEF LiveSlot
<1>2. ASSUME NEW u \in Threads, NEW i, i = slot'[u],
             pc'[u] = "rel_first", LiveSlot(i)'
      PROVE  ~made_first'[i]
  <2>1. pc[u] = "rel_first" /\ i = slot[u] /\ i \in Slots
    BY <1>2 DEF Elsewhere
  <2>2. LiveSlot(i)
    BY <1>1, <1>2, <2>1
  <2>3. ~made_first[i]
    BY <2>1, <2>2 DEF FirstInv
  <2> QED
    BY <2>1, <2>3
<1>3. \A i, j \in Slots :
        /\ LiveSlot(i)' /\ made_first'[i]
        /\ LiveSlot(j)' /\ made_first'[j]
        => i = j
  BY <1>1 DEF FirstInv
<1> QED
  BY <1>2, <1>3 DEF FirstInv

(* Fewer kontexts than slots are counted, and every used slot belongs to a *)
(* counted kontext or to a counted release: a slot is unused.              *)
LEMMA SlotLeft ==
  ASSUME CInv, kontext_lock = NoThread, kontext_count < MaxContexts
  PROVE  \E i \in Slots : ~used[i]
<1> SUFFICES ASSUME \A i \in Slots : used[i] PROVE FALSE
  OBVIOUS
<1> DEFINE Rest == Slots \ Registered
           Owns(u, i) == pc[u] \in {"rel_free", "rel_unuse"} /\ slot[u] = i
           f == [i \in Rest |-> CHOOSE u \in Threads : Owns(u, i)]
<1>1. \A u \in Threads : pc[u] \notin Installed \cup {"add_getfd"}
  BY ConstantsAssumption DEF CInv, LockInv, LockDiscipline, Installed
<1>2. ASSUME NEW i \in Rest PROVE \E u \in Threads : Owns(u, i)
  <2>1. /\ used[i] /\ SlotInv(i) /\ file[i] \notin {"open", "closed"}
        /\ file[i] \in FileStates
    BY <1>2 DEF CInv, OwnerInv, Registered, LockInv, TypeInv, TypeOK
  <2>2. file[i] = "none"
    BY <1>1, <2>1 DEF SlotInv
  <2> QED
    BY <1>1, <2>1, <2>2 DEF SlotInv, Bare
<1>3. ASSUME NEW i \in Rest PROVE f[i] \in StillCounted /\ slot[f[i]] = i
  <2>1. f[i] = CHOOSE u \in Threads : Owns(u, i)
    OBVIOUS
  <2>2. f[i] \in Threads /\ Owns(f[i], i)
    BY <1>2, <2>1
  <2> QED
    BY <2>2 DEF StillCounted
<1>4. f \in [Rest -> StillCounted]
  BY <1>3
<1>5. /\ IsFiniteSet(Slots) /\ Cardinality(Slots) = MaxContexts
      /\ MaxContexts \in Nat
  BY FS_Interval, ConstantsAssumption
<1>6. Slots \cap Registered = Registered
  BY DEF Registered
<1>7. /\ IsFiniteSet(Rest)
      /\ Cardinality(Rest) = MaxContexts - Cardinality(Registered)
  BY <1>5, <1>6, FS_Difference
<1>8. /\ IsFiniteSet(StillCounted) /\ Cardinality(StillCounted) \in Nat
      /\ Cardinality(Registered) \in Nat
      /\ kontext_count = Cardinality(Registered) + Cardinality(StillCounted)
  BY CountedFinite DEF CInv, LockInv, KontextCountExact
<1>9. Cardinality(StillCounted) < Cardinality(Rest)
  BY <1>5, <1>7, <1>8
<1>10. \E x, y \in Rest : x # y /\ f[x] = f[y]
  <2> HIDE DEF f, Rest
  <2> QED
    BY <1>4, <1>7, <1>8, <1>9, FS_PigeonHole
<1> QED
  BY <1>3, <1>10

(* The three parts of the invariant that this section is about.            *)
Late == RoomInv /\ SearchInv /\ FirstInv

(* The count check of an add: it finds room, and a slot for its search.    *)
LEMMA LateLock ==
  ASSUME CInv, NEW t \in Threads, NEW mm, NEW vcpu_id,
         AddLock(t, mm, vcpu_id)
  PROVE  Late'
<1>1. /\ kontext_lock = NoThread /\ kontext_count < MaxContexts
      /\ pc' = [pc EXCEPT ![t] = "add_scan"]
      /\ slot' = [slot EXCEPT ![t] = 1]
      /\ UNCHANGED <<kontext_count, slotVars, fileVars>>
  BY DEF AddLock, AddAllowed
<1>2. /\ pc'[t] = "add_scan" /\ slot'[t] = 1 /\ Elsewhere(t)
  BY <1>1 DEF CInv, LockInv, TypeInv, TypeOK, Elsewhere
<1>3. \A u \in Threads \ {t} : pc'[u] \notin Adding
  BY <1>1, <1>2, ConstantsAssumption
  DEF Elsewhere, CInv, LockInv, LockDiscipline, Adding, Installed
<1>4. RoomInv'
  BY <1>1, <1>3 DEF RoomInv
<1>5. \E i \in Slots : ~used[i]
  BY <1>1, SlotLeft
<1>6. SearchInv'
  <2>1. \E i \in Slots : i >= 1 /\ ~used'[i]
    BY <1>1, <1>5
  <2>2. \A u \in Threads \ {t} : pc'[u] # "add_scan"
    BY <1>3 DEF Adding
  <2> QED
    BY <1>2, <2>1, <2>2 DEF SearchInv
<1>7. FirstInv'
  <2>1. \A i \in Slots :
          /\ made_first'[i] => made_first[i]
          /\ file'[i] # "none" => LiveSlot(i)
    BY <1>1 DEF LiveSlot
  <2> QED
    BY <1>2, <2>1, FirstFrame DEF CInv, LockInv, TypeInv, SlotOK
<1> QED
  BY <1>4, <1>6, <1>7 DEF Late

(* The search passes a used slot, so the unused one is still before it.    *)
LEMMA LateBusy ==
  ASSUME CInv, NEW t \in Threads, AddScanBusy(t)
  PROVE  Late'
<1>1. /\ pc[t] = "add_scan" /\ slot[t] \in Slots /\ used[slot[t]]
      /\ slot' = [slot EXCEPT ![t] = slot[t] + 1]
      /\ UNCHANGED <<kontext_count, slotVars, fileVars, pc>>
  BY DEF AddScanBusy
<1>2. slot'[t] = slot[t] + 1 /\ Elsewhere(t)
  BY <1>1 DEF CInv, LockInv, TypeInv, TypeOK, Elsewhere
<1>3. RoomInv'
  BY <1>1, <1>2, RoomFrame DEF CInv
<1>4. SearchInv'
  <2>1. \A u \in Threads \ {t} : pc'[u] # "add_scan"
    BY <1>1, OneAdder
  <2>2. PICK i \in Slots : i >= slot[t] /\ ~used[i]
    BY <1>1 DEF CInv, SearchInv
  <2>3. i >= slot[t] + 1 /\ slot[t] + 1 >= 1 /\ ~used'[i]
    BY <1>1, <2>2, ConstantsAssumption
  <2> QED
    BY <1>2, <2>1, <2>3 DEF SearchInv
<1>5. FirstInv'
  <2>1. \A i \in Slots :
          /\ made_first'[i] => made_first[i]
          /\ file'[i] # "none" => LiveSlot(i)
    BY <1>1 DEF LiveSlot
  <2> QED
    BY <1>1, <1>2, <2>1, FirstFrame DEF CInv, LockInv, TypeInv, SlotOK
<1> QED
  BY <1>3, <1>4, <1>5 DEF Late

(* A claim as first thread finds no kontext and no release on its way.     *)
LEMMA LateClaim ==
  ASSUME CInv, NEW t \in Threads, NEW i, i = slot[t], AddClaim(t)
  PROVE  Late'
<1>1. /\ i \in Slots /\ pc[t] = "add_scan"
      /\ pc' = [pc EXCEPT ![t] = "add_getfd"]
      /\ made_first' = [made_first EXCEPT ![i] = (kontext_count = 0)]
      /\ UNCHANGED <<kontext_count, file, slot>>
  BY DEF AddClaim
<1>2. /\ pc'[t] = "add_getfd" /\ Elsewhere(t)
      /\ \A j \in Slots \ {i} : made_first'[j] = made_first[j]
      /\ made_first'[i] => kontext_count = 0
  BY <1>1 DEF CInv, LockInv, TypeInv, TypeOK, Elsewhere
<1>3. RoomInv'
  BY <1>1, <1>2, RoomFrame DEF CInv, Adding
<1>4. SearchInv'
  <2>1. \A u \in Threads : pc'[u] # "add_scan"
    BY <1>1, <1>2, OneAdder DEF Elsewhere
  <2> QED
    BY <1>2, <2>1, SearchFrame DEF CInv
<1>5. ASSUME NEW j \in Slots, j # i, LiveSlot(j)' PROVE LiveSlot(j)
  <2>1. CASE file'[j] # "none"
    BY <1>1, <2>1 DEF LiveSlot
  <2>2. ASSUME NEW u \in Threads, pc'[u] = "add_getfd", slot'[u] = j
        PROVE  LiveSlot(j)
    BY <1>1, <1>2, <1>5, <2>2 DEF Elsewhere, LiveSlot
  <2> QED
    BY <1>5, <2>1, <2>2 DEF LiveSlot
<1>6. ASSUME kontext_count = 0
      PROVE  /\ \A j \in Slots : ~LiveSlot(j)
             /\ \A u \in Threads : pc'[u] # "rel_first"
  <2>1. Registered = {} /\ StillCounted = {}
    BY <1>6, CountedFinite, CountedNone
    DEF CInv, LockInv, KontextCountExact
  <2>2. \A u \in Threads : pc[u] \notin Installed \cup {"add_getfd"}
    BY <1>1, OneAdder DEF Installed
  <2>3. ASSUME NEW j \in Slots PROVE ~LiveSlot(j)
    <3>1. file[j] # "hidden"
      BY <2>2 DEF CInv, OwnerInv, SlotInv
    <3>2. file[j] \notin {"open", "closed"}
      BY <2>1 DEF Registered
    <3>3. file[j] = "none"
      BY <3>1, <3>2 DEF CInv, LockInv, TypeInv, TypeOK
    <3> QED
      BY <2>2, <3>3 DEF LiveSlot
  <2>4. ASSUME NEW u \in Threads PROVE pc'[u] # "rel_first"
    BY <1>2, <2>1 DEF StillCounted, Elsewhere
  <2> QED
    BY <2>3, <2>4
<1>7. ASSUME NEW j \in Slots, NEW k \in Slots,
             LiveSlot(j)', made_first'[j], LiveSlot(k)', made_first'[k]
      PROVE  j = k
  <2>1. CASE kontext_count = 0
    BY <1>5, <1>6, <1>7, <2>1
  <2>2. CASE kontext_count # 0
    <3>1. j # i /\ k # i
      BY <1>2, <1>7, <2>2
    <3>2. /\ LiveSlot(j) /\ made_first[j] /\ LiveSlot(k) /\ made_first[k]
      BY <1>2, <1>5, <1>7, <3>1
    <3> QED
      BY <3>2 DEF CInv, FirstInv
  <2> QED
    BY <2>1, <2>2
<1>8. ASSUME NEW u \in Threads, NEW j, j = slot'[u],
             pc'[u] = "rel_first", LiveSlot(j)'
      PROVE  ~made_first'[j]
  <2>1. /\ pc[u] = "rel_first" /\ slot[u] = j /\ j \in Slots
        /\ kontext_count # 0
    BY <1>1, <1>2, <1>6, <1>8
    DEF Elsewhere, CInv, LockInv, TypeInv, SlotOK
  <2>2. CASE j = i
    BY <1>2, <2>1, <2>2
  <2>3. CASE j # i
    <3>1. LiveSlot(j)
      BY <1>5, <1>8, <2>1, <2>3
    <3>2. ~made_first[j]
      BY <2>1, <3>1 DEF CInv, FirstInv
    <3> QED
      BY <1>2, <2>1, <2>3, <3>2
  <2> QED
    BY <2>2, <2>3
<1>9. FirstInv'
  BY <1>7, <1>8 DEF FirstInv
<1> QED
  BY <1>3, <1>4, <1>9 DEF Late

(* A release that gives its slot up is its last owner: the slot is dead.   *)
LEMMA LateUnuse ==
  ASSUME CInv, NEW t \in Threads, NEW i, i = slot[t], ReleaseUnuse(t)
  PROVE  Late'
<1>1. /\ pc[t] = "rel_unuse" /\ pc' = [pc EXCEPT ![t] = "rel_first"]
      /\ used' = [used EXCEPT ![i] = FALSE] /\ used \in [Slots -> BOOLEAN]
      /\ i \in Slots
      /\ UNCHANGED <<kontext_count, made_first, file, slot>>
  BY DEF ReleaseUnuse, CInv, LockInv, TypeInv, TypeOK, SlotOK
<1>2. /\ pc'[t] = "rel_first" /\ Elsewhere(t)
      /\ \A j \in Slots : used'[j] => used[j]
  BY <1>1 DEF CInv, LockInv, TypeInv, TypeOK, Elsewhere
<1>3. RoomInv'
  BY <1>1, <1>2, RoomFrame DEF CInv, Adding, Installed
<1>4. SearchInv'
  BY <1>2, SearchFrame DEF CInv
<1>5. \A j \in Slots : LiveSlot(j)' => LiveSlot(j)
  BY <1>1, <1>2 DEF LiveSlot, Elsewhere
<1>6. ~LiveSlot(i)
  BY <1>1 DEF LiveSlot, CInv, OwnerInv, ThreadInv, Alone, Owners, Bare
<1>7. \A j, k \in Slots :
        /\ LiveSlot(j)' /\ made_first'[j]
        /\ LiveSlot(k)' /\ made_first'[k]
        => j = k
  BY <1>1, <1>5 DEF CInv, FirstInv
<1>8. ASSUME NEW u \in Threads, NEW j, j = slot'[u],
             pc'[u] = "rel_first", LiveSlot(j)'
      PROVE  ~made_first'[j]
  <2>1. CASE u = t
    BY <1>1, <1>5, <1>6, <1>8, <2>1
  <2>2. CASE u # t
    <3>1. pc[u] = "rel_first" /\ slot[u] = j /\ j \in Slots
      BY <1>2, <1>8, <2>2 DEF Elsewhere, CInv, LockInv, TypeInv, SlotOK
    <3> QED
      BY <1>1, <1>5, <1>8, <3>1 DEF CInv, FirstInv
  <2> QED
    BY <2>1, <2>2
<1>9. FirstInv'
  BY <1>7, <1>8 DEF FirstInv
<1> QED
  BY <1>3, <1>4, <1>9 DEF Late

(* The steps that neither claim nor search.                                *)
Plain(t) ==
  /\ Elsewhere(t)
  /\ pc'[t] \notin {"add_scan", "add_getfd", "rel_first"}
  /\ pc'[t] \in Adding => pc[t] \in Adding
  /\ used' = used
  /\ \A i \in Slots :
       /\ made_first'[i] => made_first[i]
       /\ file'[i] # "none" => LiveSlot(i)

(* Such a step keeps all three, unless it counts beside an add.            *)
LEMMA LatePlain ==
  ASSUME CInv, NEW t \in Threads, Plain(t),
         \/ kontext_count' = kontext_count
         \/ \A u \in Threads : pc'[u] \notin Adding
  PROVE  Late'
<1>1. RoomInv'
  BY RoomFrame DEF Plain, CInv
<1>2. SearchInv'
  BY SearchFrame DEF Plain, CInv
<1>3. FirstInv'
  BY FirstFrame DEF Plain, CInv, LockInv, TypeInv, SlotOK
<1> QED
  BY <1>1, <1>2, <1>3 DEF Late

(* The add after its claim, and the adds that fail.                        *)
LEMMA LateAdd ==
  ASSUME CInv, NEW t \in Threads,
         \/ CreateKontainer(t) \/ AddBegin(t)
         \/ \E mm \in Mms, vcpu_id \in VcpuIds : AddRefused(t, mm, vcpu_id)
         \/ AddNoMemory(t) \/ AddRunsOff(t) \/ AddGetFd(t) \/ AddMapPages(t)
         \/ AddKontextInit(t) \/ AddFinish(t) \/ AddError(t)
  PROVE  Late'
<1> USE DEF CInv, LockInv, TypeInv, TypeOK, Elsewhere
<1>1. CASE CreateKontainer(t) \/ AddBegin(t)
  <2>1. Plain(t) /\ kontext_count' = kontext_count
    BY <1>1
    DEF Plain, CreateKontainer, AddBegin, Enter, Adding, Installed, LiveSlot
  <2> QED
    BY <2>1, LatePlain
<1>2. CASE \/ \E mm \in Mms, vcpu_id \in VcpuIds : AddRefused(t, mm, vcpu_id)
           \/ AddNoMemory(t) \/ AddRunsOff(t)
  <2>1. Plain(t) /\ kontext_count' = kontext_count
    BY <1>2
    DEF Plain, AddRefused, AddNoMemory, AddRunsOff, Adding, Installed, LiveSlot
  <2> QED
    BY <2>1, LatePlain
<1>3. CASE AddGetFd(t)
  <2>1. /\ pc[t] = "add_getfd" /\ pc'[t] = "add_map"
        /\ file' = [file EXCEPT ![slot[t]] = "hidden"] /\ slot[t] \in Slots
        /\ UNCHANGED <<kontext_count, used, made_first>> /\ Elsewhere(t)
    BY <1>3 DEF AddGetFd, SlotOK
  <2>2. Plain(t)
    BY <2>1 DEF Plain, Adding, Installed, LiveSlot
  <2> QED
    BY <2>1, <2>2, LatePlain
<1>4. CASE AddMapPages(t) \/ AddKontextInit(t)
  <2>1. Plain(t) /\ kontext_count' = kontext_count
    BY <1>4
    DEF Plain, AddMapPages, AddKontextInit, Adding, Installed, LiveSlot
  <2> QED
    BY <2>1, LatePlain
<1>5. CASE AddFinish(t) \/ AddError(t)
  <2>1. /\ pc[t] \in {"add_finish", "add_error"} /\ LeaveAdd(t)
        /\ UNCHANGED <<used, made_first>>
    BY <1>5 DEF AddFinish, AddError
  <2>2. \A i \in Slots : file'[i] # "none" => LiveSlot(i)
    <3>1. ret_val[t] \in Slots => file[ret_val[t]] = "hidden"
      BY DEF OwnerInv, ThreadInv
    <3> QED
      BY <2>1, <3>1 DEF LeaveAdd, LiveSlot
  <2>3. /\ Elsewhere(t) /\ pc'[t] \in {"idle", "kontainer_release"}
    BY <2>1 DEF LeaveAdd
  <2>4. Plain(t)
    BY <2>1, <2>2, <2>3 DEF Plain, Adding, Installed
  <2>5. \A u \in Threads : pc'[u] \notin Adding
    BY <2>1, <2>3, OneAdder DEF Adding, Installed
  <2> QED
    BY <2>4, <2>5, LatePlain
<1> QED
  BY <1>1, <1>2, <1>3, <1>4, <1>5

(* Uses, mappings, closes and releases.                                    *)
LEMMA LateUse ==
  ASSUME CInv, NEW t \in Threads,
         \/ \E i \in Slots : RunBegin(t, i) \/ Mmap(t, i) \/ Munmap(t, i)
                               \/ CloseKontext(t, i)
         \/ RunEnd(t) \/ CloseKontainer(t) \/ KontainerRelease(t)
         \/ ReleaseFree(t) \/ ReleaseFirst(t) \/ ReleaseCount(t)
         \/ ReleaseDown(t)
  PROVE  Late'
<1> USE DEF CInv, LockInv, TypeInv, TypeOK, Elsewhere
<1>1. ASSUME NEW i \in Slots, NEW rest, NEW still,
             DropKontextRef(t, i, rest, still), file[i] # "none",
             UNCHANGED <<kontext_count, slotVars>>
      PROVE  Late'
  <2>1. /\ Elsewhere(t) /\ pc'[t] \in {"rel_free", "idle"}
        /\ \A j \in Slots : file'[j] # "none" => file[j] # "none"
    BY <1>1 DEF DropKontextRef
  <2>2. Plain(t)
    BY <1>1, <2>1 DEF Plain, Adding, Installed, LiveSlot
  <2> QED
    BY <1>1, <2>2, LatePlain
<1>2. ASSUME NEW i \in Slots, RunBegin(t, i) \/ Mmap(t, i) PROVE Late'
  <2>1. Plain(t) /\ kontext_count' = kontext_count
    BY <1>2 DEF Plain, RunBegin, Enter, Mmap, Adding, Installed, LiveSlot
  <2> QED
    BY <2>1, LatePlain
<1>3. ASSUME NEW i \in Slots, Munmap(t, i) PROVE Late'
  <2>1. file[i] # "none"
    BY <1>3 DEF Munmap, OwnerInv, SlotInv
  <2> QED
    BY <1>1, <1>3, <2>1 DEF Munmap
<1>4. ASSUME NEW i \in Slots, CloseKontext(t, i) PROVE Late'
  <2>1. file[i] # "none"
    BY <1>4 DEF CloseKontext, Closable
  <2> QED
    BY <1>1, <1>4, <2>1 DEF CloseKontext
<1>5. CASE RunEnd(t)
  <2>1. slot[t] \in Slots /\ file[slot[t]] # "none"
    BY <1>5 DEF RunEnd, SlotOK, OwnerInv, ThreadInv
  <2> QED
    BY <1>1, <1>5, <2>1 DEF RunEnd
<1>6. CASE CloseKontainer(t) \/ KontainerRelease(t) \/ ReleaseDown(t)
  <2>1. Plain(t) /\ kontext_count' = kontext_count
    BY <1>6
    DEF Plain, CloseKontainer, KontainerRelease, ReleaseDown, Adding,
        Installed, LiveSlot
  <2> QED
    BY <2>1, LatePlain
<1>7. CASE ReleaseFree(t) \/ ReleaseFirst(t)
  <2>1. Plain(t) /\ kontext_count' = kontext_count
    BY <1>7
    DEF Plain, ReleaseFree, ReleaseFirst, Adding, Installed, LiveSlot
  <2> QED
    BY <2>1, LatePlain
<1>8. CASE ReleaseCount(t)
  <2>1. Plain(t)
    BY <1>8 DEF Plain, ReleaseCount, Adding, Installed, LiveSlot
  <2>2. \A u \in Threads : pc'[u] \notin Adding
    BY <1>8, ConstantsAssumption
    DEF ReleaseCount, LockDiscipline, Adding, Installed
  <2> QED
    BY <2>1, <2>2, LatePlain
<1> QED
  BY <1>2, <1>3, <1>4, <1>5, <1>6, <1>7, <1>8

(* Every step keeps the room, the search and the first threads apart.      *)
LEMMA LateStep ==
  ASSUME OnlyKzalloc, CInv, [Next]_vars
  PROVE  Late'
<1>1. ASSUME \/ Kill \/ Exited \/ UNCHANGED vars
             \/ \E t \in Threads, first \in BOOLEAN : SetSaveInfo(t, first)
      PROVE  Late'
  BY <1>1
  DEF Kill, Exited, SetSaveInfo, vars, CInv, Late, RoomInv, SearchInv,
      FirstInv, LiveSlot
<1> QED
  BY <1>1, NoOtherFailure, LateLock, LateBusy, LateClaim, LateUnuse, LateAdd,
     LateUse
  DEF Next, Driver, Request, Close

-----------------------------------------------------------------------------
(***************************************************************************)
(* The theorems                                                            *)
(***************************************************************************)

(* Nothing is counted, owned or searched before a kontainer is created.    *)
LEMMA CInit == Init => CInv
<1> SUFFICES ASSUME Init PROVE CInv
  OBVIOUS
<1>1. LockInv
  BY TypeInit, ConstantsAssumption DEF Init, LockInv, LockDiscipline
<1>2. Registered = {} /\ Releasing = {} /\ StillCounted = {} /\ ~KontainerHeld
  BY DEF Init, Registered, Releasing, StillCounted, KontainerHeld
<1>3. RefcountExact /\ KontextCountExact
  BY <1>2, FS_EmptySet, ConstantsAssumption
  DEF Init, RefcountExact, KontextCountExact
<1>4. OwnerInv
  BY DEF Init, OwnerInv, ThreadInv, SlotInv, Alone, Owners, Installed, Bare
<1>5. KontainerInv
  BY DEF Init, KontainerInv
<1>6. RoomInv /\ SearchInv /\ FirstInv
  BY DEF Init, RoomInv, SearchInv, FirstInv, LiveSlot, Adding, Installed
<1> QED
  BY <1>1, <1>3, <1>4, <1>5, <1>6 DEF CInv

(* Every step keeps the invariant.                                         *)
LEMMA CStep ==
  ASSUME OnlyKzalloc, CInv, [Next]_vars
  PROVE  CInv' /\ Moves
<1>1. LockInv'
  BY LockStep, TypeStep DEF CInv, LockInv
<1> QED
  BY <1>1, OwnerStep, KontainerStep, CountStep, LateStep
  DEF CInv, Counts, Late

(* The invariant holds in every state of every behaviour.                  *)
LEMMA CAlways ==
  ASSUME OnlyKzalloc
  PROVE  Spec => []CInv
<1>1. CInv /\ [Next]_vars => CInv'
  BY CStep
<1> QED
  BY CInit, <1>1, PTL DEF Spec

(* Whoever is in the driver or has a file keeps the kontainer.             *)
LEMMA Reachable ==
  ASSUME CInv
  PROVE  NoUseAfterFree
<1> USE DEF CInv, LockInv
<1>1. KontainerHeld => kkm = "alive"
  BY CountedFinite
  DEF RefcountExact, KontainerInv, TypeInv, TypeOK
<1>2. ASSUME NEW i \in Slots, file[i] \in {"open", "closed"}
      PROVE  kkm = "alive"
  <2>1. Cardinality(Registered) >= 1
    BY <1>2, CountedFinite, CountedNone DEF Registered
  <2> QED
    BY <2>1, CountedFinite DEF RefcountExact, KontainerInv, TypeInv, TypeOK
<1>3. ASSUME NEW t \in Threads, pc[t] \in AddPcs \cup {"kontainer_release"}
      PROVE  kkm = "alive"
  BY <1>1, <1>3 DEF KontainerHeld, KontainerInv
<1>4. ASSUME NEW t \in Threads, pc[t] \in ReleasePcs PROVE kkm = "alive"
  <2>1. Cardinality(Releasing) >= 1
    BY <1>4, CountedFinite, CountedNone DEF Releasing
  <2> QED
    BY <2>1, CountedFinite DEF RefcountExact, KontainerInv, TypeInv, TypeOK
<1>5. ASSUME NEW t \in Threads, pc[t] = "run"
      PROVE  guest_area[slot[t]] /\ kkm = "alive"
  BY <1>2, <1>5 DEF OwnerInv, ThreadInv, SlotInv, TypeInv, SlotOK
<1>6. \A t \in Threads : pc[t] # "idle" => kkm = "alive"
  BY <1>3, <1>4, <1>5 DEF TypeInv, TypeOK
<1>7. ASSUME NEW i \in Slots, file[i] # "none"
      PROVE  kkm = "alive" /\ allocated[i]
  <2>1. allocated[i]
    BY <1>7 DEF OwnerInv, SlotInv
  <2>2. CASE file[i] = "hidden"
    BY <1>3, <2>1, <2>2 DEF OwnerInv, SlotInv, Installed
  <2> QED
    BY <1>2, <1>7, <2>1, <2>2 DEF TypeInv, TypeOK
<1>8. \A i \in Slots : mapped[i] => mmap_area[i]
  BY DEF OwnerInv, SlotInv
<1>9. \A t \in Threads :
        pc[t] \in {"rel_free", "rel_unuse", "rel_first"} => allocated[slot[t]]
  BY DEF OwnerInv, ThreadInv, Owners, Bare
<1>10. kontainer_file # "none" => kkm = "alive"
  BY <1>1 DEF KontainerHeld
<1> QED
  BY <1>5, <1>6, <1>7, <1>8, <1>9, <1>10 DEF NoUseAfterFree

(* reference_count is exact: kkm_kontainer_release and                     *)
(* kkm_execution_kontext_release drop what was taken, no more and no less. *)
THEOREM RefcountCorrect ==
  ASSUME OnlyKzalloc
  PROVE  Spec => []RefcountExact
<1>1. CInv => RefcountExact
  BY DEF CInv
<1> QED
  BY CAlways, <1>1, PTL

(* kontext_count is exact and never passes KKM_MAX_CONTEXTS.               *)
THEOREM KontextCountCorrect ==
  ASSUME OnlyKzalloc
  PROVE  Spec => []KontextCountExact
<1>1. CInv => KontextCountExact
  BY DEF CInv
<1> QED
  BY CAlways, <1>1, PTL

(* The search of kkm_add_execution_kontext never runs off the table.       *)
THEOREM SearchSucceeds ==
  ASSUME OnlyKzalloc
  PROVE  Spec => []SearchFindsSlot
<1>1. CInv => SearchFindsSlot
  BY ConstantsAssumption
  DEF SearchFindsSlot, CInv, SearchInv, LockInv, TypeInv, TypeOK
<1> QED
  BY CAlways, <1>1, PTL

(* While the monitor restores no first thread elsewhere, first_thread is   *)
(* only set in a kontext that was made as the first thread.                *)
MadeInv == \A i \in Slots : first_thread[i] => made_first[i]

(* AddClaim and SetSaveInfo write first_thread, the others clear it at     *)
(* most.                                                                   *)
LEMMA MadeAlways ==
  ASSUME ~FirstElsewhere
  PROVE  Spec => []MadeInv
<1>1. Init => MadeInv
  BY DEF Init, MadeInv
<1>2. ASSUME TypeInv, MadeInv, [Next]_vars PROVE MadeInv'
  <2>1. first_thread \in [Slots -> BOOLEAN] /\ made_first \in [Slots -> BOOLEAN]
    BY <1>2 DEF TypeInv, TypeOK
  <2>2. ASSUME NEW t \in Threads, AddClaim(t) PROVE MadeInv'
    BY <1>2, <2>1, <2>2 DEF AddClaim, MadeInv
  <2>3. ASSUME NEW t \in Threads, ReleaseFirst(t) PROVE MadeInv'
    BY <1>2, <2>1, <2>3 DEF ReleaseFirst, MadeInv
  <2>4. ASSUME NEW t \in Threads, NEW first \in BOOLEAN, SetSaveInfo(t, first)
        PROVE  MadeInv'
    BY <1>2, <2>1, <2>4 DEF SetSaveInfo, MadeInv
  <2>5. ASSUME UNCHANGED <<first_thread, made_first>> PROVE MadeInv'
    BY <1>2, <2>5 DEF MadeInv
  <2> QED
    BY <1>2, <2>2, <2>3, <2>4, <2>5
    DEF Next, Driver, Request, Close, CreateKontainer, CreateGetFdFails,
        CreateInitFails, AddBegin, AddLock, AddRefused, AddScanBusy,
        AddNoMemory, AddRunsOff, AddGetFd, AddGetFdFails, AddMapPages,
        AddMapPagesFails, AddKontextInit, AddKontextInitFails, AddFinish,
        AddError, RunBegin, RunEnd, Mmap, Munmap, CloseKontext, ReleaseFree,
        ReleaseUnuse, ReleaseCount, ReleaseDown, CloseKontainer,
        KontainerRelease, Kill, Exited, vars
<1>3. TypeInv /\ MadeInv /\ [Next]_vars => MadeInv'
  BY <1>2
<1> QED
  BY TypeInit, TypeStep, <1>1, <1>3, PTL DEF Spec

(* Two live kontexts are never both the first thread, whatever the monitor *)
(* restores on the kontexts that were made as the first one.               *)
THEOREM FirstThreadUnique ==
  ASSUME OnlyKzalloc, ~FirstElsewhere
  PROVE  Spec => []OneFirstThread
<1>1. CInv /\ MadeInv => OneFirstThread
  BY DEF CInv, FirstInv, MadeInv, OneFirstThread, LiveSlot
<1> QED
  BY CAlways, MadeAlways, <1>1, PTL

(* A release that is late with first_thread = false spares a new kontext,  *)
(* also when the monitor has set first_thread there again.                 *)
THEOREM FirstThreadStays ==
  ASSUME OnlyKzalloc, ~FirstElsewhere
  PROVE  Spec => FirstThreadKept
<1> DEFINE Given(i) == \E t \in Threads : slot[t] = i /\ SetSaveInfo(t, FALSE)
<1>1. ASSUME CInv, MadeInv, Next, NEW i \in Slots,
             first_thread[i], file[i] # "none", file'[i] # "none"
      PROVE  first_thread'[i] \/ Given(i)
  <2>1. ASSUME NEW t \in Threads, AddClaim(t) PROVE first_thread'[i]
    <3>1. slot[t] # i
      <4>3. pc[t] = "add_scan"
        BY <2>1 DEF AddClaim
      <4>4. \A u \in Threads \ {t} : pc[u] \notin AddPcs \ {"add_lock"}
        BY <1>1, <4>3, OneAdder
      <4>1. \A u \in Threads : pc[u] \notin Installed
        BY <4>3, <4>4 DEF Installed
      <4>2. used[i] /\ allocated[i]
        BY <1>1, <4>1
        DEF CInv, LockInv, TypeInv, TypeOK, OwnerInv, SlotInv
      <4> QED
        BY <2>1, <4>2 DEF AddClaim
    <3> QED
      BY <1>1, <2>1, <3>1 DEF AddClaim, CInv, LockInv, TypeInv, TypeOK
  <2>2. ASSUME NEW t \in Threads, ReleaseFirst(t) PROVE first_thread'[i]
    <3>1. slot[t] # i
      BY <1>1, <2>2 DEF ReleaseFirst, CInv, FirstInv, MadeInv, LiveSlot
    <3> QED
      BY <1>1, <2>2, <3>1 DEF ReleaseFirst, CInv, LockInv, TypeInv, TypeOK
  <2>3. ASSUME NEW t \in Threads, NEW first \in BOOLEAN, SetSaveInfo(t, first)
        PROVE  first_thread'[i] \/ Given(i)
    <3>1. CASE slot[t] = i /\ first = FALSE
      BY <2>3, <3>1
    <3>2. CASE slot[t] # i \/ first = TRUE
      <4>1. first_thread \in [Slots -> BOOLEAN]
        BY <1>1 DEF CInv, LockInv, TypeInv, TypeOK
      <4> QED
        BY <1>1, <2>3, <3>2, <4>1 DEF SetSaveInfo
    <3> QED
      BY <3>1, <3>2
  <2>4. ASSUME UNCHANGED first_thread PROVE first_thread'[i]
    BY <1>1, <2>4
  <2> HIDE DEF Given
  <2> QED
    BY <1>1, <2>1, <2>2, <2>3, <2>4
    DEF Next, Driver, Request, Close, CreateKontainer, CreateGetFdFails,
        CreateInitFails, AddBegin, AddLock, AddRefused, AddScanBusy,
        AddNoMemory, AddRunsOff, AddGetFd, AddGetFdFails, AddMapPages,
        AddMapPagesFails, AddKontextInit, AddKontextInitFails, AddFinish,
        AddError, RunBegin, RunEnd, Mmap, Munmap, CloseKontext, ReleaseFree,
        ReleaseUnuse, ReleaseCount, ReleaseDown, CloseKontainer,
        KontainerRelease, Kill, Exited, vars
<1>2. CInv /\ MadeInv /\ [Next]_vars =>
        [\A i \in Slots :
           first_thread[i] /\ file[i] # "none" /\ file'[i] # "none"
             => \/ first_thread'[i]
                \/ \E t \in Threads : slot[t] = i /\ SetSaveInfo(t, FALSE)
        ]_vars
  BY <1>1
<1> QED
  BY CAlways, MadeAlways, <1>2, PTL DEF Spec, FirstThreadKept

(* kkm_destroy_app frees slots that own nothing.                           *)
THEOREM ReclaimCorrect ==
  ASSUME OnlyKzalloc
  PROVE  Spec => []ReclaimComplete
<1>1. ASSUME CInv PROVE ReclaimComplete
  <2>1. NoUseAfterFree
    BY <1>1, Reachable
  <2> QED
    BY <1>1, <2>1
    DEF ReclaimComplete, NoUseAfterFree, CInv, OwnerInv, SlotInv
<1>2. CInv => ReclaimComplete
  BY <1>1
<1> QED
  BY CAlways, <1>2, PTL

-----------------------------------------------------------------------------
(***************************************************************************)
(* The refinement of KkmHandles                                            *)
(***************************************************************************)

(* The variables of KkmHandles, read off the two counters.                 *)
Mapped ==
  /\ Cardinality(Registered) + Cardinality(StillCounted) = kontext_count
  /\ kontext_count \in Nat /\ Cardinality(Down) \in Nat
  /\ reference_count = kontext_count + Cardinality(Down)
                         + (IF KontainerHeld THEN 1 ELSE 0)
  /\ kkm \in {"none", "freed"} <=> reference_count = 0

(* The counters hold what the refinement mapping counts.                   *)
LEMMA Mapping == CInv => Mapped
<1> SUFFICES ASSUME CInv PROVE Mapped
  OBVIOUS
<1>1. /\ IsFiniteSet(Releasing) /\ IsFiniteSet(StillCounted)
      /\ Cardinality(Registered) \in Nat
      /\ Cardinality(StillCounted) \in Nat
      /\ Cardinality(Releasing) \in Nat
  BY CountedFinite DEF CInv, LockInv
<1>2. /\ Releasing \ StillCounted = Down
      /\ Releasing \cap StillCounted = StillCounted
  BY DEF Releasing, StillCounted, Down
<1>3. /\ IsFiniteSet(Down)
      /\ Cardinality(Down) = Cardinality(Releasing) - Cardinality(StillCounted)
  BY <1>1, <1>2, FS_Difference
<1>4. Cardinality(Down) \in Nat
  BY <1>3, FS_CardinalityType
<1>5. RefcountExact /\ KontextCountExact
  BY DEF CInv
<1> QED
  BY <1>1, <1>3, <1>4, <1>5 DEF RefcountExact, KontextCountExact, Mapped

Counted == Cardinality(Registered) + Cardinality(StillCounted)
Leaving == Cardinality(Down)
Held == IF KontainerHeld THEN 1 ELSE 0

(* What a step does to the kontainer is a step of KkmHandles.              *)
LEMMA MoveRefines ==
  ASSUME Mapped, Mapped', Moves
  PROVE  [Handles!Next]_(Handles!vars)
<1>1. /\ Counted = kontext_count /\ kontext_count \in Nat
      /\ Counted' = kontext_count' /\ kontext_count' \in Nat
      /\ Leaving \in Nat /\ Leaving' \in Nat
      /\ reference_count = kontext_count + Leaving + Held
      /\ reference_count' = kontext_count' + Leaving' + Held'
      /\ kkm \in {"none", "freed"} <=> reference_count = 0
  BY DEF Mapped, Counted, Leaving, Held
<1>2. /\ Held \in {0, 1} /\ Held' \in {0, 1}
      /\ Held = 1 <=> KontainerHeld
      /\ Held' = 1 <=> KontainerHeld'
      /\ KontainerHeld \in BOOLEAN /\ KontainerHeld' \in BOOLEAN
  BY DEF KontainerHeld, Held
<1>3. PICK gone \in Nat, gone1 \in Nat, held \in {0, 1}, held1 \in {0, 1} :
        gone = Leaving /\ gone1 = Leaving' /\ held = Held /\ held1 = Held'
  BY <1>1, <1>2
<1>4. /\ kontext_count \in Nat /\ kontext_count' \in Nat
      /\ reference_count = kontext_count + gone + held
      /\ reference_count' = kontext_count' + gone1 + held1
      /\ kkm \in {"none", "freed"} <=> reference_count = 0
  BY <1>1, <1>3
<1>5. /\ held = 1 <=> KontainerHeld
      /\ held1 = 1 <=> KontainerHeld'
      /\ held1 = held <=> (KontainerHeld' <=> KontainerHeld)
      /\ KontainerHeld \in BOOLEAN /\ KontainerHeld' \in BOOLEAN
  BY <1>2, <1>3
<1> DEFINE last == ~KontainerHeld' /\ kontext_count' = 0 /\ gone1 = 0
<1>6. \/ /\ kkm = "none" /\ kkm' = "alive" /\ KontainerHeld' = TRUE
         /\ kontext_count' = kontext_count /\ gone1 = gone
      \/ /\ KontainerHeld /\ kontext_count < MaxContexts
         /\ kontext_count' = kontext_count + 1 /\ kkm' = kkm
         /\ KontainerHeld' = KontainerHeld /\ gone1 = gone
      \/ /\ kontext_count > 0 /\ kontext_count' = kontext_count - 1
         /\ gone1 = gone + 1 /\ kkm' = kkm
         /\ KontainerHeld' = KontainerHeld
      \/ /\ gone > 0 /\ gone1 = gone - 1
         /\ KontainerHeld' = KontainerHeld /\ kontext_count' = kontext_count
         /\ kkm' = IF last THEN "freed" ELSE kkm
      \/ /\ KontainerHeld /\ KontainerHeld' = FALSE
         /\ kontext_count' = kontext_count /\ gone1 = gone
         /\ kkm' = IF last THEN "freed" ELSE kkm
      \/ /\ kkm' = kkm /\ KontainerHeld' = KontainerHeld
         /\ kontext_count' = kontext_count /\ gone1 = gone
      => [Handles!Next]_(Handles!vars)
  <2>1. /\ kontext_count = Cardinality(Registered) + Cardinality(StillCounted)
        /\ kontext_count'
             = (Cardinality(Registered) + Cardinality(StillCounted))'
        /\ gone = Cardinality({t \in Threads : pc[t] = "rel_down"})
        /\ gone1 = Cardinality({t \in Threads : pc[t] = "rel_down"})'
    BY <1>1, <1>3 DEF Counted, Leaving, Down
  <2> QED
    BY <2>1 DEF Handles!Next, Handles!vars, Handles!Create, Handles!Register,
       Handles!Leave, Handles!Gone, Handles!Disown, Handles!FreeIfLast
<1>7. last <=> held1 = 0 /\ kontext_count' = 0 /\ gone1 = 0
  BY <1>5
<1> HIDE DEF last
<1>8. CASE /\ UNCHANGED <<kkm, reference_count, kontext_count>>
           /\ KontainerHeld' <=> KontainerHeld
  <2>1. held1 = held /\ kontext_count' = kontext_count
    BY <1>4, <1>5, <1>8
  <2>2. gone1 = gone
    BY <1>4, <1>5, <1>8, <2>1
  <2> QED
    BY <1>5, <1>6, <1>8, <2>1, <2>2
<1>9. CASE /\ kkm = "none" /\ kkm' = "alive" /\ KontainerHeld'
           /\ reference_count' = 1 /\ kontext_count' = kontext_count
  <2>1. held = 0 /\ kontext_count = 0 /\ gone = 0 /\ held1 = 1
    BY <1>4, <1>5, <1>9
  <2>2. gone1 = 0 /\ kontext_count' = kontext_count
    BY <1>4, <1>9, <2>1
  <2> QED
    BY <1>5, <1>6, <1>9, <2>1, <2>2
<1>10. CASE /\ KontainerHeld /\ KontainerHeld' /\ kontext_count < MaxContexts
            /\ reference_count' = reference_count + 1
            /\ kontext_count' = kontext_count + 1 /\ kkm' = kkm
  <2>1. /\ held1 = 1 /\ held = 1
        /\ kontext_count' = kontext_count + 1 /\ kontext_count < MaxContexts
    BY <1>4, <1>5, <1>10
  <2>2. gone1 = gone
    BY <1>4, <1>10, <2>1
  <2> QED
    BY <1>5, <1>6, <1>10, <2>1, <2>2
<1>11. CASE /\ kontext_count' = kontext_count - 1
            /\ UNCHANGED <<kkm, reference_count>>
            /\ KontainerHeld' <=> KontainerHeld
  <2>1. held1 = held /\ kontext_count' = kontext_count - 1 /\ kontext_count > 0
    BY <1>4, <1>5, <1>11
  <2>2. gone1 = gone + 1
    BY <1>4, <1>5, <1>11, <2>1
  <2> QED
    BY <1>5, <1>6, <1>11, <2>1, <2>2
<1>12. CASE /\ reference_count' = reference_count - 1
            /\ kontext_count' = kontext_count
            /\ kkm' = IF reference_count = 1 THEN "freed" ELSE kkm
            /\ KontainerHeld' => KontainerHeld
  <2>1. kontext_count' = kontext_count /\ (held1 = 1 => held = 1)
    BY <1>4, <1>5, <1>12
  <2>2. reference_count = 1 <=> held1 = 0 /\ kontext_count' = 0 /\ gone1 = 0
    BY <1>4, <1>5, <1>12
  <2>3. kkm' = IF last THEN "freed" ELSE kkm
    BY <1>7, <1>12, <2>2
  <2>4. CASE held1 = held
    <3>1. gone > 0 /\ gone1 = gone - 1
      BY <1>4, <1>5, <1>12, <2>1, <2>4
    <3> QED
      BY <1>5, <1>6, <2>1, <2>3, <2>4, <3>1
  <2>5. CASE held = 1 /\ held1 = 0
    <3>1. gone1 = gone
      BY <1>4, <1>12, <2>1, <2>5
    <3> QED
      BY <1>5, <1>6, <2>1, <2>3, <2>5, <3>1
  <2> QED
    BY <1>5, <2>1, <2>4, <2>5
<1> QED
  BY <1>8, <1>9, <1>10, <1>11, <1>12 DEF Moves

(* The kontainer keeps the promise of KkmHandles.                          *)
THEOREM HandlesRefined ==
  ASSUME OnlyKzalloc
  PROVE  Spec => ImplementsHandles
<1>1. Init => Handles!Init
  <2> SUFFICES ASSUME Init PROVE Handles!Init
    OBVIOUS
  <2>1. /\ Registered = {} /\ StillCounted = {} /\ ~KontainerHeld
        /\ {t \in Threads : pc[t] = "rel_down"} = {}
    BY DEF Init, Registered, StillCounted, KontainerHeld
  <2>2. /\ Cardinality(Registered) + Cardinality(StillCounted) = 0
        /\ Cardinality({t \in Threads : pc[t] = "rel_down"}) = 0
    BY <2>1, FS_EmptySet
  <2>3. KontainerHeld = FALSE /\ kkm = "none"
    BY <2>1 DEF Init, KontainerHeld
  <2> QED
    BY <2>2, <2>3 DEF Handles!Init
<1>2. CInv /\ Mapped /\ Mapped' /\ [Next]_vars =>
        [Handles!Next]_(Handles!vars)
  BY CStep, MoveRefines
<1> QED
  BY CAlways, Mapping, <1>1, <1>2, PTL DEF Spec, ImplementsHandles, Handles!Spec
=============================================================================
