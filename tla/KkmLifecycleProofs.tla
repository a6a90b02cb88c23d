------------------------- MODULE KkmLifecycleProofs -------------------------
(***************************************************************************)
(* Theorems about KkmLifecycle, for every number of threads and of slots   *)
(* and whatever allocations fail, or all of them but two.                  *)
(***************************************************************************)
EXTENDS KkmLifecycle, TLAPS, FiniteSetTheorems

(* The threads that work on a slot have a slot of the table; the type      *)
(* invariant alone would not survive AddGetFd or a release.                *)
SlotOK ==
  \A t \in Threads :
    pc[t] \in {"add_getfd", "add_map", "add_init", "add_finish", "run"}
              \cup ReleasePcs
      => slot[t] \in Slots

TypeInv == TypeOK /\ SlotOK

USE DEF Slots, EINVAL, ENOMEM, FileStates, AddPcs, ReleasePcs, Pcs, Goto,
        objectVars, slotVars, fileVars, threadVars

(* The types hold before a kontainer is created.                           *)
LEMMA TypeInit == Init => TypeInv
<1> SUFFICES ASSUME Init PROVE TypeInv
  OBVIOUS
<1> USE ConstantsAssumption DEF Init
<1>1. /\ kkm \in {"none", "alive", "freed", "leaked"}
      /\ kontainer_file \in FileStates
      /\ reference_count \in Int
  OBVIOUS
<1>8. killed \in BOOLEAN
  OBVIOUS
<1>6. kontext_count \in 0..(CountMod - 1)
  OBVIOUS
<1>7. kontext_lock \in Threads \cup {NoThread}
  OBVIOUS
<1>2. /\ allocated \in [Slots -> BOOLEAN]
      /\ used \in [Slots -> BOOLEAN]
      /\ first_thread \in [Slots -> BOOLEAN]
      /\ made_first \in [Slots -> BOOLEAN]
      /\ guest_area \in [Slots -> BOOLEAN]
      /\ mmap_area \in [Slots -> BOOLEAN]
      /\ mapped \in [Slots -> BOOLEAN]
      /\ file \in [Slots -> FileStates]
  OBVIOUS
<1>3. /\ pc \in [Threads -> Pcs]
      /\ slot \in [Threads -> 0..(MaxContexts + 1)]
  OBVIOUS
<1>4. ret_val \in [Threads -> Slots \cup {0, EINVAL, ENOMEM}]
  OBVIOUS
<1>5. SlotOK
  BY DEF SlotOK
<1> QED
  BY <1>1, <1>2, <1>3, <1>4, <1>5, <1>6, <1>7, <1>8 DEF TypeInv, TypeOK

(* The two helpers that end a release and a use of a kontext.              *)
LEMMA RefDownType ==
  ASSUME TypeInv, kkm_reference_count_down
  PROVE  /\ kkm' \in {"none", "alive", "freed", "leaked"}
         /\ reference_count' \in Int
         /\ allocated' \in [Slots -> BOOLEAN]
<1> USE DEF TypeInv, TypeOK, kkm_reference_count_down
<1>1. reference_count' \in Int
  BY DEF RefDec, Saturated
<1>2. kkm' \in {"none", "alive", "freed", "leaked"}
  OBVIOUS
<1>3. allocated' \in [Slots -> BOOLEAN]
  OBVIOUS
<1> QED
  BY <1>1, <1>2, <1>3

(* Letting a file go keeps the types, and a thread that starts a release   *)
(* has a slot inside the table.                                            *)
LEMMA DropType ==
  ASSUME TypeInv,
         NEW t \in Threads, NEW i \in Slots, NEW rest \in FileStates,
         NEW stillUsed, DropKontextRef(t, i, rest, stillUsed)
  PROVE  /\ file' \in [Slots -> FileStates]
         /\ pc' \in [Threads -> Pcs]
         /\ slot' \in [Threads -> 0..(MaxContexts + 1)]
         /\ \A u \in Threads :
              \/ pc'[u] = pc[u] /\ slot'[u] = slot[u]
              \/ pc'[u] = "rel_free" /\ slot'[u] \in Slots
              \/ pc'[u] = "idle"
<1> USE ConstantsAssumption DEF TypeInv, TypeOK, DropKontextRef
<1>1. file' \in [Slots -> FileStates]
  OBVIOUS
<1>2. pc' \in [Threads -> Pcs]
  OBVIOUS
<1>3. slot' \in [Threads -> 0..(MaxContexts + 1)]
  <2>1. i \in 0..(MaxContexts + 1) /\ 0 \in 0..(MaxContexts + 1)
    OBVIOUS
  <2> QED
    BY <2>1
<1>4. ASSUME NEW u \in Threads
      PROVE  \/ pc'[u] = pc[u] /\ slot'[u] = slot[u]
             \/ pc'[u] = "rel_free" /\ slot'[u] \in Slots
             \/ pc'[u] = "idle"
  OBVIOUS
<1> QED
  BY <1>1, <1>2, <1>3, <1>4

(* A call that does nothing but let a file go keeps the type invariant.    *)
LEMMA DropTypeInv ==
  ASSUME TypeInv,
         NEW t \in Threads, NEW i \in Slots, NEW rest \in FileStates,
         NEW stillUsed, DropKontextRef(t, i, rest, stillUsed),
         mapped' \in [Slots -> BOOLEAN],
         UNCHANGED <<objectVars, kontext_count, kontext_lock, slotVars,
                     ret_val, killed>>
  PROVE  TypeInv'
<1>1. /\ file' \in [Slots -> FileStates]
      /\ pc' \in [Threads -> Pcs]
      /\ slot' \in [Threads -> 0..(MaxContexts + 1)]
  BY DropType
<1>2. \A u \in Threads :
        \/ pc'[u] = pc[u] /\ slot'[u] = slot[u]
        \/ pc'[u] = "rel_free" /\ slot'[u] \in Slots
        \/ pc'[u] = "idle"
  BY DropType
<1>3. TypeOK'
  BY <1>1 DEF TypeInv, TypeOK
<1>4. SlotOK'
  BY <1>2 DEF TypeInv, SlotOK
<1> QED
  BY <1>3, <1>4 DEF TypeInv

(* Every step keeps the types and the slots inside the table.              *)
LEMMA TypeStep == TypeInv /\ [Next]_vars => TypeInv'
<1> SUFFICES ASSUME TypeInv, [Next]_vars PROVE TypeInv'
  OBVIOUS
<1> USE ConstantsAssumption DEF TypeInv, TypeOK, SlotOK
<1>1. ASSUME NEW t \in Threads, CreateKontainer(t) PROVE TypeInv'
  BY <1>1 DEF CreateKontainer
<1>2. ASSUME NEW t \in Threads, CreateGetFdFails(t) PROVE TypeInv'
  BY <1>2 DEF CreateGetFdFails
<1>3. ASSUME NEW t \in Threads, CreateInitFails(t) PROVE TypeInv'
  BY <1>3 DEF CreateInitFails
<1>4. ASSUME NEW t \in Threads, AddBegin(t) PROVE TypeInv'
  BY <1>4 DEF AddBegin, Enter
<1>5. ASSUME NEW t \in Threads, AddScanBusy(t) PROVE TypeInv'
  BY <1>5 DEF AddScanBusy
<1>6. ASSUME NEW t \in Threads, AddClaim(t) PROVE TypeInv'
  BY <1>6 DEF AddClaim
<1>7. ASSUME NEW t \in Threads, AddNoMemory(t) PROVE TypeInv'
  BY <1>7 DEF AddNoMemory
<1>8. ASSUME NEW t \in Threads, AddRunsOff(t) PROVE TypeInv'
  BY <1>8 DEF AddRunsOff
<1>9. ASSUME NEW t \in Threads, AddGetFd(t) PROVE TypeInv'
  BY <1>9 DEF AddGetFd
<1>10. ASSUME NEW t \in Threads, AddGetFdFails(t) PROVE TypeInv'
  BY <1>10 DEF AddGetFdFails
<1>11. ASSUME NEW t \in Threads, AddMapPages(t) PROVE TypeInv'
  BY <1>11 DEF AddMapPages
<1>12. ASSUME NEW t \in Threads, AddMapPagesFails(t) PROVE TypeInv'
  BY <1>12 DEF AddMapPagesFails
<1>13. ASSUME NEW t \in Threads, AddKontextInit(t) PROVE TypeInv'
  BY <1>13 DEF AddKontextInit
<1>14. ASSUME NEW t \in Threads, AddKontextInitFails(t) PROVE TypeInv'
  BY <1>14 DEF AddKontextInitFails
<1>15. ASSUME NEW t \in Threads, AddFinish(t) PROVE TypeInv'
  BY <1>15 DEF AddFinish, LeaveAdd, CountInc, RefInc, Saturated
<1>16. ASSUME NEW t \in Threads, AddError(t) PROVE TypeInv'
  BY <1>16 DEF AddError, LeaveAdd
<1>17. ASSUME NEW t \in Threads, ReleaseFree(t) PROVE TypeInv'
  BY <1>17 DEF ReleaseFree
<1>18. ASSUME NEW t \in Threads, ReleaseUnuse(t) PROVE TypeInv'
  BY <1>18 DEF ReleaseUnuse
<1>19. ASSUME NEW t \in Threads, ReleaseFirst(t) PROVE TypeInv'
  BY <1>19 DEF ReleaseFirst
<1>20. ASSUME NEW t \in Threads, ReleaseCount(t) PROVE TypeInv'
  BY <1>20 DEF ReleaseCount, CountDec
<1>21. ASSUME NEW t \in Threads, ReleaseDown(t) PROVE TypeInv'
  BY <1>21, RefDownType DEF ReleaseDown
<1>22. ASSUME NEW t \in Threads, CloseKontainer(t) PROVE TypeInv'
  BY <1>22 DEF CloseKontainer
<1>23. ASSUME NEW t \in Threads, KontainerRelease(t) PROVE TypeInv'
  BY <1>23, RefDownType DEF KontainerRelease
<1>24. ASSUME NEW t \in Threads, RunEnd(t) PROVE TypeInv'
  <2> DEFINE i == slot[t]
             others == \E u \in Threads \ {t} : pc[u] = "run" /\ slot[u] = i
  <2>1. i \in Slots /\ file[i] \in FileStates
    BY <1>24 DEF RunEnd
  <2>2. DropKontextRef(t, i, file[i], mapped[i] \/ others)
    BY <1>24 DEF RunEnd
  <2>3. /\ mapped' \in [Slots -> BOOLEAN]
        /\ UNCHANGED <<objectVars, kontext_count, kontext_lock, slotVars,
                       ret_val, killed>>
    BY <1>24 DEF RunEnd
  <2> HIDE DEF i, others, TypeInv, TypeOK, SlotOK
  <2> QED
    BY <2>1, <2>2, <2>3, DropTypeInv
<1>25. ASSUME NEW t \in Threads, NEW mm \in Mms, NEW vcpu_id \in VcpuIds,
             AddLock(t, mm, vcpu_id)
      PROVE  TypeInv'
  BY <1>25 DEF AddLock
<1>26. ASSUME NEW t \in Threads, NEW mm \in Mms, NEW vcpu_id \in VcpuIds,
             AddRefused(t, mm, vcpu_id)
      PROVE  TypeInv'
  BY <1>26 DEF AddRefused
<1>27. ASSUME NEW t \in Threads, NEW i \in Slots, RunBegin(t, i) PROVE TypeInv'
  BY <1>27 DEF RunBegin, Enter
<1>28. ASSUME NEW t \in Threads, NEW i \in Slots, Mmap(t, i) PROVE TypeInv'
  BY <1>28 DEF Mmap
<1>29. ASSUME NEW t \in Threads, NEW i \in Slots, Munmap(t, i) PROVE TypeInv'
  <2>1. file[i] \in FileStates /\ DropKontextRef(t, i, file[i], Running(i))
    BY <1>29 DEF Munmap
  <2>2. /\ mapped' \in [Slots -> BOOLEAN]
        /\ UNCHANGED <<objectVars, kontext_count, kontext_lock, slotVars,
                       ret_val, killed>>
    BY <1>29 DEF Munmap
  <2> HIDE DEF TypeInv, TypeOK, SlotOK
  <2> QED
    BY <2>1, <2>2, DropTypeInv
<1>30. ASSUME NEW t \in Threads, NEW i \in Slots, CloseKontext(t, i)
      PROVE  TypeInv'
  <2>1. DropKontextRef(t, i, "closed", mapped[i] \/ Running(i))
    BY <1>30 DEF CloseKontext
  <2>2. /\ mapped' \in [Slots -> BOOLEAN]
        /\ UNCHANGED <<objectVars, kontext_count, kontext_lock, slotVars,
                       ret_val, killed>>
    BY <1>30 DEF CloseKontext
  <2> HIDE DEF TypeInv, TypeOK, SlotOK
  <2> QED
    BY <2>1, <2>2, DropTypeInv
<1>31. ASSUME Kill PROVE TypeInv'
  BY <1>31 DEF Kill
<1>32. ASSUME UNCHANGED vars PROVE TypeInv'
  BY <1>32 DEF vars
<1>33. ASSUME NEW t \in Threads, NEW first \in BOOLEAN, SetSaveInfo(t, first)
       PROVE  TypeInv'
  BY <1>33 DEF SetSaveInfo
<1> QED
  BY <1>1, <1>2, <1>3, <1>4, <1>5, <1>6, <1>7, <1>8, <1>9, <1>10, <1>11,
     <1>12, <1>13, <1>14, <1>15, <1>16, <1>17, <1>18, <1>19, <1>20, <1>21,
     <1>22, <1>23, <1>24, <1>25, <1>26, <1>27, <1>28, <1>29, <1>30, <1>31,
     <1>32, <1>33
  DEF Next, Driver, Request, Close, Exited

(* Type correctness, whatever allocations may fail.                        *)
THEOREM TypeCorrect == Spec => []TypeOK
<1>1. TypeInv => TypeOK
  BY DEF TypeInv
<1> QED
  BY TypeInit, TypeStep, <1>1, PTL DEF Spec

-----------------------------------------------------------------------------
(***************************************************************************)
(* kontext_lock                                                            *)
(***************************************************************************)
LockInv == TypeInv /\ LockDiscipline

(* Every step of an add keeps the lock with the thread that took it; no    *)
(* other step touches it.                                                  *)
LEMMA LockStep == LockInv /\ [Next]_vars => LockDiscipline'
<1> SUFFICES ASSUME LockInv, [Next]_vars PROVE LockDiscipline'
  OBVIOUS
<1> USE ConstantsAssumption DEF LockInv, LockDiscipline, TypeInv, TypeOK
<1>1. ASSUME NEW t \in Threads, CreateKontainer(t) PROVE LockDiscipline'
  BY <1>1 DEF CreateKontainer
<1>2. ASSUME NEW t \in Threads, CreateGetFdFails(t) PROVE LockDiscipline'
  BY <1>2 DEF CreateGetFdFails
<1>3. ASSUME NEW t \in Threads, CreateInitFails(t) PROVE LockDiscipline'
  BY <1>3 DEF CreateInitFails
<1>4. ASSUME NEW t \in Threads, AddBegin(t) PROVE LockDiscipline'
  BY <1>4 DEF AddBegin, Enter
<1>5. ASSUME NEW t \in Threads, AddScanBusy(t) PROVE LockDiscipline'
  BY <1>5 DEF AddScanBusy
<1>6. ASSUME NEW t \in Threads, AddClaim(t) PROVE LockDiscipline'
  BY <1>6 DEF AddClaim
<1>7. ASSUME NEW t \in Threads, AddNoMemory(t) PROVE LockDiscipline'
  BY <1>7 DEF AddNoMemory
<1>8. ASSUME NEW t \in Threads, AddRunsOff(t) PROVE LockDiscipline'
  BY <1>8 DEF AddRunsOff
<1>9. ASSUME NEW t \in Threads, AddGetFd(t) PROVE LockDiscipline'
  BY <1>9 DEF AddGetFd
<1>10. ASSUME NEW t \in Threads, AddGetFdFails(t) PROVE LockDiscipline'
  BY <1>10 DEF AddGetFdFails
<1>11. ASSUME NEW t \in Threads, AddMapPages(t) PROVE LockDiscipline'
  BY <1>11 DEF AddMapPages
<1>12. ASSUME NEW t \in Threads, AddMapPagesFails(t) PROVE LockDiscipline'
  BY <1>12 DEF AddMapPagesFails
<1>13. ASSUME NEW t \in Threads, AddKontextInit(t) PROVE LockDiscipline'
  BY <1>13 DEF AddKontextInit
<1>14. ASSUME NEW t \in Threads, AddKontextInitFails(t) PROVE LockDiscipline'
  BY <1>14 DEF AddKontextInitFails
<1>15. ASSUME NEW t \in Threads, AddFinish(t) PROVE LockDiscipline'
  BY <1>15 DEF AddFinish, LeaveAdd
<1>16. ASSUME NEW t \in Threads, AddError(t) PROVE LockDiscipline'
  BY <1>16 DEF AddError, LeaveAdd
<1>17. ASSUME NEW t \in Threads, ReleaseFree(t) PROVE LockDiscipline'
  BY <1>17 DEF ReleaseFree
<1>18. ASSUME NEW t \in Threads, ReleaseUnuse(t) PROVE LockDiscipline'
  BY <1>18 DEF ReleaseUnuse
<1>19. ASSUME NEW t \in Threads, ReleaseFirst(t) PROVE LockDiscipline'
  BY <1>19 DEF ReleaseFirst
<1>20. ASSUME NEW t \in Threads, ReleaseCount(t) PROVE LockDiscipline'
  BY <1>20 DEF ReleaseCount
<1>21. ASSUME NEW t \in Threads, ReleaseDown(t) PROVE LockDiscipline'
  BY <1>21 DEF ReleaseDown
<1>22. ASSUME NEW t \in Threads, CloseKontainer(t) PROVE LockDiscipline'
  BY <1>22 DEF CloseKontainer
<1>23. ASSUME NEW t \in Threads, KontainerRelease(t) PROVE LockDiscipline'
  BY <1>23 DEF KontainerRelease
<1>24. ASSUME NEW t \in Threads, RunEnd(t) PROVE LockDiscipline'
  BY <1>24, ZenonT(40) DEF RunEnd, DropKontextRef
<1>25. ASSUME NEW t \in Threads, NEW mm \in Mms, NEW vcpu_id \in VcpuIds,
             AddLock(t, mm, vcpu_id)
      PROVE  LockDiscipline'
  BY <1>25 DEF AddLock
<1>26. ASSUME NEW t \in Threads, NEW mm \in Mms, NEW vcpu_id \in VcpuIds,
             AddRefused(t, mm, vcpu_id)
      PROVE  LockDiscipline'
  BY <1>26 DEF AddRefused
<1>27. ASSUME NEW t \in Threads, NEW i \in Slots, RunBegin(t, i)
      PROVE  LockDiscipline'
  BY <1>27 DEF RunBegin, Enter
<1>28. ASSUME NEW t \in Threads, NEW i \in Slots, Mmap(t, i)
      PROVE  LockDiscipline'
  BY <1>28 DEF Mmap
<1>29. ASSUME NEW t \in Threads, NEW i \in Slots, Munmap(t, i)
      PROVE  LockDiscipline'
  BY <1>29, ZenonT(40) DEF Munmap, DropKontextRef
<1>30. ASSUME NEW t \in Threads, NEW i \in Slots, CloseKontext(t, i)
      PROVE  LockDiscipline'
  BY <1>30 DEF CloseKontext, DropKontextRef
<1>31. ASSUME Kill PROVE LockDiscipline'
  BY <1>31 DEF Kill
<1>32. ASSUME UNCHANGED vars PROVE LockDiscipline'
  BY <1>32 DEF vars
<1>33. ASSUME NEW t \in Threads, NEW first \in BOOLEAN, SetSaveInfo(t, first)
       PROVE  LockDiscipline'
  BY <1>33 DEF SetSaveInfo
<1> QED
  BY <1>1, <1>2, <1>3, <1>4, <1>5, <1>6, <1>7, <1>8, <1>9, <1>10, <1>11,
     <1>12, <1>13, <1>14, <1>15, <1>16, <1>17, <1>18, <1>19, <1>20, <1>21,
     <1>22, <1>23, <1>24, <1>25, <1>26, <1>27, <1>28, <1>29, <1>30, <1>31,
     <1>32, <1>33
  DEF Next, Driver, Request, Close, Exited

(* No error path of an add keeps kontext_lock and no two threads are in    *)
(* its locked part at once, whatever allocations fail.                     *)
THEOREM LockCorrect == Spec => []LockDiscipline
<1>1. Init => LockInv
  BY TypeInit, ConstantsAssumption DEF Init, LockInv, LockDiscipline
<1>2. LockInv /\ [Next]_vars => LockInv'
  BY LockStep, TypeStep DEF LockInv
<1>3. LockInv => LockDiscipline
  BY DEF LockInv
<1> QED
  BY <1>1, <1>2, <1>3, PTL DEF Spec

-----------------------------------------------------------------------------
(***************************************************************************)
(* Who holds a slot, and what an add knows about the kontainer             *)
(***************************************************************************)

(* A thread holds its slot from the claim to the end of the add, and from  *)
(* the last reference to the file until the slot is given up.              *)
Claiming == {"add_getfd", "add_map", "add_init"}
Letting == {"rel_free", "rel_unuse"}
Holding == Claiming \cup Letting
Admitted == {"add_scan", "add_finish"} \cup Claiming

HolderInv(t) ==
  /\ pc[t] \in Holding => used[slot[t]]
  /\ pc[t] \in {"add_getfd"} \cup Letting => file[slot[t]] = "none"
  /\ pc[t] \in {"add_map", "add_init"} => file[slot[t]] \in {"none", "hidden"}
  /\ pc[t] = "rel_unuse" => ~guest_area[slot[t]] /\ ~mmap_area[slot[t]]
  /\ pc[t] = "run" => file[slot[t]] \in {"open", "closed"}
  /\ ret_val[t] \in Slots =>
       /\ pc[t] \in {"add_map", "add_init", "add_finish", "add_error"}
       /\ ret_val[t] = slot[t] /\ file[slot[t]] = "hidden"

(* Pages belong to a slot in use, and so does a file; a mapping has one.   *)
PageInv(i) ==
  /\ file[i] # "none" => used[i]
  /\ mapped[i] => file[i] \in {"open", "closed"}
  /\ ~used[i] => ~guest_area[i] /\ ~mmap_area[i]

(* No two threads hold the same slot.                                      *)
Apart ==
  \A t, u \in Threads :
    t # u /\ pc[t] \in Holding /\ pc[u] \in Holding => slot[t] # slot[u]

PagesInv ==
  /\ \A t \in Threads : HolderInv(t)
  /\ \A i \in Slots : PageInv(i)
  /\ Apart

(* What the threads know about the kontainer: an add holds its file, and   *)
(* once admitted keeps the count from changing.                            *)
KnownInv ==
  /\ kkm = "none" =>
       /\ kontainer_file = "none" /\ kontext_count = 0
       /\ AllIdle /\ \A i \in Slots : file[i] = "none" /\ ~used[i]
  /\ kkm = "alive" => \A i \in Slots : used[i] => allocated[i]
  /\ kontainer_file \in {"open", "closed"} => kkm \in {"alive", "freed"}
  /\ \A t \in Threads :
       /\ pc[t] = "kontainer_release" => kontainer_file = "none"
       /\ pc[t] \in AddPcs => kontainer_file \in {"open", "closed"}
       /\ pc[t] \in Admitted => kontext_count < MaxContexts

(* An add is admitted to a kontainer that is not freed.                    *)
EntryInv == \A t \in Threads : pc[t] \in Admitted => kkm = "alive"

BaseInv == LockInv /\ PagesInv /\ KnownInv /\ EntryInv

(* An admitted add is the only one.                                        *)
LEMMA AdmittedAlone ==
  ASSUME BaseInv, NEW t \in Threads, pc[t] \in Admitted
  PROVE  /\ kkm = "alive" /\ kontext_count < MaxContexts
         /\ kontainer_file \in {"open", "closed"}
         /\ \A u \in Threads \ {t} : pc[u] \notin Admitted
BY DEF BaseInv, KnownInv, EntryInv, LockInv, LockDiscipline, Admitted,
       Claiming

(* The search of an add stops at a slot that nobody uses: an allocated     *)
(* slot is looked at, and while the kontainer lives every slot in use is   *)
(* allocated.                                                              *)
LEMMA ClaimFree ==
  ASSUME BaseInv, NEW t \in Threads, AddClaim(t)
  PROVE  /\ slot[t] \in Slots /\ ~used[slot[t]] /\ kkm = "alive"
         /\ file[slot[t]] = "none"
         /\ \A u \in Threads : pc[u] \in Holding => slot[u] # slot[t]
         /\ \A u \in Threads : pc[u] = "run" => slot[u] # slot[t]
<1>1. slot[t] \in Slots /\ pc[t] = "add_scan"
  BY DEF AddClaim
<1>2. kkm = "alive"
  BY <1>1, AdmittedAlone DEF Admitted
<1>3. ~used[slot[t]]
  BY <1>1, <1>2 DEF AddClaim, BaseInv, KnownInv
<1>4. file[slot[t]] = "none"
  BY <1>1, <1>3 DEF BaseInv, PagesInv, PageInv
<1> QED
  BY <1>1, <1>2, <1>3, <1>4
  DEF BaseInv, PagesInv, HolderInv, Holding, Claiming, Letting

(* The last reference to a kontext's file makes its thread the holder of   *)
(* the slot.                                                               *)
LEMMA DropPages ==
  ASSUME BaseInv, NEW t \in Threads, NEW i \in Slots,
         NEW rest \in {"open", "closed"}, NEW stillUsed \in BOOLEAN,
         DropKontextRef(t, i, rest, stillUsed),
         pc[t] \in {"run", "idle"},
         \/ file[i] \in {"open", "closed"}
         \/ file[i] = "hidden" /\ \A u \in Threads : pc[u] = "idle",
         \A j \in Slots \ {i} : mapped'[j] = mapped[j],
         mapped'[i] => mapped[i] /\ (rest = "open" \/ stillUsed),
         \A u \in Threads \ {t} : pc[u] = "run" /\ slot[u] = i => stillUsed,
         UNCHANGED <<slotVars, ret_val>>
  PROVE  PagesInv'
<1> USE DEF BaseInv, LockInv
<1>1. /\ \A u \in Threads : pc[u] \in Holding => slot[u] # i
      /\ \A u \in Threads : ret_val[u] \in Slots => ret_val[u] # i
      /\ used[i] /\ ret_val[t] \notin Slots
  BY DEF PagesInv, HolderInv, PageInv, Holding, Claiming, Letting
<1>2. /\ \A u \in Threads \ {t} : pc'[u] = pc[u] /\ slot'[u] = slot[u]
      /\ \A j \in Slots \ {i} : file'[j] = file[j]
  BY DEF DropKontextRef, TypeInv, TypeOK
<1>3. \/ /\ file'[i] = "none" /\ pc'[t] = "rel_free" /\ slot'[t] = i
         /\ rest = "closed" /\ ~stillUsed
      \/ /\ file'[i] = rest /\ pc'[t] = "idle" /\ slot'[t] = 0
         /\ rest = "open" \/ stillUsed
  BY DEF DropKontextRef, TypeInv, TypeOK
<1>4. ASSUME NEW u \in Threads PROVE HolderInv(u)'
  <2>1. CASE u = t
    BY <1>1, <1>3, <2>1 DEF HolderInv, Holding, Claiming, Letting
  <2>2. CASE u # t /\ slot[u] = i
    BY <1>1, <1>2, <1>3, <2>2
    DEF PagesInv, HolderInv, Holding, Claiming, Letting
  <2>3. CASE u # t /\ slot[u] # i
    BY <1>2, <2>3 DEF PagesInv, HolderInv, Holding, Claiming, Letting,
       TypeInv, SlotOK
  <2> QED
    BY <2>1, <2>2, <2>3
<1>5. ASSUME NEW j \in Slots PROVE PageInv(j)'
  BY <1>1, <1>2, <1>3 DEF PagesInv, PageInv, TypeInv, TypeOK
<1>6. Apart'
  BY <1>1, <1>2, <1>3 DEF PagesInv, Apart, Holding, Claiming, Letting
<1> QED
  BY <1>4, <1>5, <1>6 DEF PagesInv

(* A use, a mapping or a descriptor of a kontext ends.                     *)
LEMMA ClosePages ==
  ASSUME BaseInv, NEW t \in Threads, NEW i \in Slots,
         \/ slot[t] = i /\ RunEnd(t)
         \/ Munmap(t, i) \/ CloseKontext(t, i)
  PROVE  /\ PagesInv'
         /\ \E rest \in {"open", "closed"}, stillUsed \in BOOLEAN :
              DropKontextRef(t, i, rest, stillUsed)
         /\ file[i] # "none" /\ pc[t] \in {"run", "idle"}
<1>1. CASE slot[t] = i /\ RunEnd(t)
  <2> DEFINE others == \E u \in Threads \ {t} : pc[u] = "run" /\ slot[u] = i
             still == mapped[i] \/ others
  <2>1. /\ pc[t] = "run" /\ UNCHANGED <<slotVars, ret_val, mapped>>
        /\ DropKontextRef(t, i, file[i], still)
    BY <1>1 DEF RunEnd
  <2>2. file[i] \in {"open", "closed"}
    BY <1>1, <2>1 DEF BaseInv, PagesInv, HolderInv
  <2>3. /\ still \in BOOLEAN
        /\ mapped[i] => still
        /\ \A u \in Threads \ {t} : pc[u] = "run" /\ slot[u] = i => still
    BY DEF BaseInv, LockInv, TypeInv, TypeOK
  <2> HIDE DEF others, still
  <2>4. /\ \A j \in Slots \ {i} : mapped'[j] = mapped[j]
        /\ mapped'[i] => mapped[i] /\ (file[i] = "open" \/ still)
        /\ UNCHANGED <<slotVars, ret_val>>
    BY <2>1, <2>3
  <2>5. PagesInv'
    BY <2>1, <2>2, <2>3, <2>4, DropPages
  <2> QED
    BY <2>1, <2>2, <2>3, <2>5
<1>2. CASE Munmap(t, i)
  <2> DEFINE still == Running(i)
  <2>1. /\ pc[t] = "idle" /\ UNCHANGED <<slotVars, ret_val>>
        /\ DropKontextRef(t, i, file[i], still)
    BY <1>2 DEF Munmap
  <2>5. mapped[i] /\ mapped' = [mapped EXCEPT ![i] = FALSE]
    BY <1>2 DEF Munmap
  <2>2. /\ file[i] \in {"open", "closed"} /\ still \in BOOLEAN
        /\ \A j \in Slots \ {i} : mapped'[j] = mapped[j]
        /\ ~mapped'[i]
        /\ \A u \in Threads \ {t} : pc[u] = "run" /\ slot[u] = i => still
    BY <2>5 DEF BaseInv, PagesInv, PageInv, Running, LockInv, TypeInv, TypeOK
  <2> HIDE DEF still
  <2>3. mapped'[i] => mapped[i] /\ (file[i] = "open" \/ still)
    BY <2>2
  <2>4. PagesInv'
    BY <2>1, <2>2, <2>3, DropPages
  <2> QED
    BY <2>1, <2>2, <2>4
<1>3. CASE CloseKontext(t, i)
  <2> DEFINE still == mapped[i] \/ Running(i)
  <2>1. /\ pc[t] = "idle" /\ UNCHANGED <<slotVars, ret_val, mapped>>
        /\ DropKontextRef(t, i, "closed", still)
    BY <1>3 DEF CloseKontext
  <2>3. \/ file[i] = "open"
        \/ file[i] = "hidden" /\ \A u \in Threads : pc[u] = "idle"
    BY <1>3 DEF CloseKontext, Closable, AllIdle
  <2>2. /\ still \in BOOLEAN
        /\ mapped[i] => still
        /\ \A u \in Threads \ {t} : pc[u] = "run" /\ slot[u] = i => still
    BY DEF Running, BaseInv, LockInv, TypeInv, TypeOK
  <2> HIDE DEF still
  <2>4. /\ \A j \in Slots \ {i} : mapped'[j] = mapped[j]
        /\ mapped'[i] => mapped[i] /\ still
        /\ UNCHANGED <<slotVars, ret_val>>
    BY <2>1, <2>2
  <2>5. PagesInv'
    BY <2>1, <2>2, <2>3, <2>4, DropPages
  <2> QED
    BY <2>1, <2>2, <2>3, <2>5
<1> QED
  BY <1>1, <1>2, <1>3

(* Every step keeps what a thread knows about the slot it holds.           *)
LEMMA HolderStep ==
  ASSUME BaseInv, NEW u \in Threads, [Next]_vars
  PROVE  HolderInv(u)'
<1> USE ConstantsAssumption
    DEF BaseInv, LockInv, LockDiscipline, TypeInv, TypeOK, SlotOK,
        PagesInv, HolderInv, PageInv, Apart, Claiming, Letting,
        Holding
<1>1. ASSUME NEW t \in Threads, CreateKontainer(t) PROVE HolderInv(u)'
  BY <1>1 DEF CreateKontainer
<1>2. ASSUME NEW t \in Threads, CreateGetFdFails(t) PROVE HolderInv(u)'
  BY <1>2 DEF CreateGetFdFails
<1>3. ASSUME NEW t \in Threads, CreateInitFails(t) PROVE HolderInv(u)'
  BY <1>3 DEF CreateInitFails
<1>4. ASSUME NEW t \in Threads, AddBegin(t) PROVE HolderInv(u)'
  BY <1>4 DEF AddBegin, Enter
<1>5. ASSUME NEW t \in Threads, AddScanBusy(t) PROVE HolderInv(u)'
  BY <1>5 DEF AddScanBusy
<1>6. ASSUME NEW t \in Threads, AddClaim(t) PROVE HolderInv(u)'
  <2>1. /\ pc[t] = "add_scan" /\ pc' = [pc EXCEPT ![t] = "add_getfd"]
        /\ used' = [used EXCEPT ![slot[t]] = TRUE]
        /\ UNCHANGED <<guest_area, mmap_area, file, slot, ret_val>>
    BY <1>6 DEF AddClaim
  <2>2. slot[t] \in Slots /\ file[slot[t]] = "none"
    BY <1>6, ClaimFree
  <2>3. CASE u = t
    BY <2>1, <2>2, <2>3
  <2>4. CASE u # t
    BY <2>1, <2>4
  <2> QED
    BY <2>3, <2>4
<1>7. ASSUME NEW t \in Threads, AddNoMemory(t) PROVE HolderInv(u)'
  BY <1>7 DEF AddNoMemory
<1>8. ASSUME NEW t \in Threads, AddRunsOff(t) PROVE HolderInv(u)'
  BY <1>8 DEF AddRunsOff
<1>9. ASSUME NEW t \in Threads, AddGetFd(t) PROVE HolderInv(u)'
  BY <1>9 DEF AddGetFd
<1>10. ASSUME NEW t \in Threads, AddGetFdFails(t) PROVE HolderInv(u)'
  BY <1>10 DEF AddGetFdFails
<1>11. ASSUME NEW t \in Threads, AddMapPages(t) PROVE HolderInv(u)'
  BY <1>11 DEF AddMapPages
<1>12. ASSUME NEW t \in Threads, AddMapPagesFails(t) PROVE HolderInv(u)'
  BY <1>12 DEF AddMapPagesFails
<1>13. ASSUME NEW t \in Threads, AddKontextInit(t) PROVE HolderInv(u)'
  BY <1>13 DEF AddKontextInit
<1>14. ASSUME NEW t \in Threads, AddKontextInitFails(t) PROVE HolderInv(u)'
  BY <1>14 DEF AddKontextInitFails
<1>15. ASSUME NEW t \in Threads, AddFinish(t) PROVE HolderInv(u)'
  BY <1>15 DEF AddFinish, LeaveAdd
<1>16. ASSUME NEW t \in Threads, AddError(t) PROVE HolderInv(u)'
  BY <1>16 DEF AddError, LeaveAdd
<1>17. ASSUME NEW t \in Threads, ReleaseFree(t) PROVE HolderInv(u)'
  BY <1>17 DEF ReleaseFree
<1>18. ASSUME NEW t \in Threads, ReleaseUnuse(t) PROVE HolderInv(u)'
  BY <1>18 DEF ReleaseUnuse
<1>19. ASSUME NEW t \in Threads, ReleaseFirst(t) PROVE HolderInv(u)'
  BY <1>19 DEF ReleaseFirst
<1>20. ASSUME NEW t \in Threads, ReleaseCount(t) PROVE HolderInv(u)'
  BY <1>20 DEF ReleaseCount
<1>21. ASSUME NEW t \in Threads, ReleaseDown(t) PROVE HolderInv(u)'
  BY <1>21 DEF ReleaseDown
<1>22. ASSUME NEW t \in Threads, CloseKontainer(t) PROVE HolderInv(u)'
  BY <1>22 DEF CloseKontainer
<1>23. ASSUME NEW t \in Threads, KontainerRelease(t) PROVE HolderInv(u)'
  BY <1>23 DEF KontainerRelease
<1>24. ASSUME NEW t \in Threads, RunEnd(t) PROVE HolderInv(u)'
  <2> HIDE DEF BaseInv, LockInv, LockDiscipline, TypeInv, TypeOK, SlotOK,
           PagesInv, HolderInv, PageInv, Apart
  <2>1. slot[t] \in Slots
    BY <1>24 DEF RunEnd, BaseInv, LockInv, TypeInv, SlotOK
  <2>2. PagesInv'
    BY <1>24, <2>1, ClosePages
  <2> QED
    BY <2>2 DEF PagesInv
<1>25. ASSUME NEW t \in Threads, NEW mm \in Mms, NEW vcpu_id \in VcpuIds,
             AddLock(t, mm, vcpu_id)
      PROVE  HolderInv(u)'
  BY <1>25 DEF AddLock, AddAllowed
<1>26. ASSUME NEW t \in Threads, NEW mm \in Mms, NEW vcpu_id \in VcpuIds,
             AddRefused(t, mm, vcpu_id)
      PROVE  HolderInv(u)'
  BY <1>26 DEF AddRefused
<1>27. ASSUME NEW t \in Threads, NEW i \in Slots, RunBegin(t, i)
      PROVE  HolderInv(u)'
  BY <1>27 DEF RunBegin, Enter
<1>28. ASSUME NEW t \in Threads, NEW i \in Slots, Mmap(t, i)
      PROVE  HolderInv(u)'
  BY <1>28 DEF Mmap
<1>29. ASSUME NEW t \in Threads, NEW i \in Slots, Munmap(t, i)
      PROVE  HolderInv(u)'
  <2> HIDE DEF BaseInv, LockInv, LockDiscipline, TypeInv, TypeOK, SlotOK,
           PagesInv, HolderInv, PageInv, Apart
  <2>1. PagesInv'
    BY <1>29, ClosePages
  <2> QED
    BY <2>1 DEF PagesInv
<1>30. ASSUME NEW t \in Threads, NEW i \in Slots, CloseKontext(t, i)
      PROVE  HolderInv(u)'
  <2> HIDE DEF BaseInv, LockInv, LockDiscipline, TypeInv, TypeOK, SlotOK,
           PagesInv, HolderInv, PageInv, Apart
  <2>1. PagesInv'
    BY <1>30, ClosePages
  <2> QED
    BY <2>1 DEF PagesInv
<1>31. ASSUME Kill PROVE HolderInv(u)'
  BY <1>31 DEF Kill
<1>32. ASSUME UNCHANGED vars PROVE HolderInv(u)'
  BY <1>32 DEF vars
<1>33. ASSUME NEW t \in Threads, NEW first \in BOOLEAN, SetSaveInfo(t, first)
       PROVE  HolderInv(u)'
  BY <1>33 DEF SetSaveInfo
<1> HIDE DEF BaseInv, LockInv, LockDiscipline, TypeInv, TypeOK, SlotOK,
         PagesInv, HolderInv, PageInv, Apart
<1> QED
  BY <1>1, <1>2, <1>3, <1>4, <1>5, <1>6, <1>7, <1>8, <1>9, <1>10, <1>11,
     <1>12, <1>13, <1>14, <1>15, <1>16, <1>17, <1>18, <1>19, <1>20, <1>21,
     <1>22, <1>23, <1>24, <1>25, <1>26, <1>27, <1>28, <1>29, <1>30, <1>31,
     <1>32, <1>33
  DEF Next, Driver, Request, Close, Exited

(* Every step keeps the pages, the mapping and the file with a slot in use. *)
LEMMA PageStep ==
  ASSUME BaseInv, NEW j \in Slots, [Next]_vars
  PROVE  PageInv(j)'
<1> USE ConstantsAssumption
    DEF BaseInv, LockInv, LockDiscipline, TypeInv, TypeOK, SlotOK,
        PagesInv, HolderInv, PageInv, Apart, Claiming, Letting,
        Holding
<1>1. ASSUME NEW t \in Threads, CreateKontainer(t) PROVE PageInv(j)'
  BY <1>1 DEF CreateKontainer
<1>2. ASSUME NEW t \in Threads, CreateGetFdFails(t) PROVE PageInv(j)'
  BY <1>2 DEF CreateGetFdFails
<1>3. ASSUME NEW t \in Threads, CreateInitFails(t) PROVE PageInv(j)'
  BY <1>3 DEF CreateInitFails
<1>4. ASSUME NEW t \in Threads, AddBegin(t) PROVE PageInv(j)'
  BY <1>4 DEF AddBegin, Enter
<1>5. ASSUME NEW t \in Threads, AddScanBusy(t) PROVE PageInv(j)'
  BY <1>5 DEF AddScanBusy
<1>6. ASSUME NEW t \in Threads, AddClaim(t) PROVE PageInv(j)'
  BY <1>6, ClaimFree DEF AddClaim
<1>7. ASSUME NEW t \in Threads, AddNoMemory(t) PROVE PageInv(j)'
  BY <1>7 DEF AddNoMemory
<1>8. ASSUME NEW t \in Threads, AddRunsOff(t) PROVE PageInv(j)'
  BY <1>8 DEF AddRunsOff
<1>9. ASSUME NEW t \in Threads, AddGetFd(t) PROVE PageInv(j)'
  BY <1>9 DEF AddGetFd
<1>10. ASSUME NEW t \in Threads, AddGetFdFails(t) PROVE PageInv(j)'
  BY <1>10 DEF AddGetFdFails
<1>11. ASSUME NEW t \in Threads, AddMapPages(t) PROVE PageInv(j)'
  BY <1>11 DEF AddMapPages
<1>12. ASSUME NEW t \in Threads, AddMapPagesFails(t) PROVE PageInv(j)'
  BY <1>12 DEF AddMapPagesFails
<1>13. ASSUME NEW t \in Threads, AddKontextInit(t) PROVE PageInv(j)'
  BY <1>13 DEF AddKontextInit
<1>14. ASSUME NEW t \in Threads, AddKontextInitFails(t) PROVE PageInv(j)'
  BY <1>14 DEF AddKontextInitFails
<1>15. ASSUME NEW t \in Threads, AddFinish(t) PROVE PageInv(j)'
  BY <1>15 DEF AddFinish, LeaveAdd
<1>16. ASSUME NEW t \in Threads, AddError(t) PROVE PageInv(j)'
  BY <1>16 DEF AddError, LeaveAdd
<1>17. ASSUME NEW t \in Threads, ReleaseFree(t) PROVE PageInv(j)'
  BY <1>17 DEF ReleaseFree
<1>18. ASSUME NEW t \in Threads, ReleaseUnuse(t) PROVE PageInv(j)'
  BY <1>18 DEF ReleaseUnuse
<1>19. ASSUME NEW t \in Threads, ReleaseFirst(t) PROVE PageInv(j)'
  BY <1>19 DEF ReleaseFirst
<1>20. ASSUME NEW t \in Threads, ReleaseCount(t) PROVE PageInv(j)'
  BY <1>20 DEF ReleaseCount
<1>21. ASSUME NEW t \in Threads, ReleaseDown(t) PROVE PageInv(j)'
  BY <1>21 DEF ReleaseDown
<1>22. ASSUME NEW t \in Threads, CloseKontainer(t) PROVE PageInv(j)'
  BY <1>22 DEF CloseKontainer
<1>23. ASSUME NEW t \in Threads, KontainerRelease(t) PROVE PageInv(j)'
  BY <1>23 DEF KontainerRelease
<1>24. ASSUME NEW t \in Threads, RunEnd(t) PROVE PageInv(j)'
  <2> HIDE DEF BaseInv, LockInv, LockDiscipline, TypeInv, TypeOK, SlotOK,
           PagesInv, HolderInv, PageInv, Apart
  <2>1. slot[t] \in Slots
    BY <1>24 DEF RunEnd, BaseInv, LockInv, TypeInv, SlotOK
  <2>2. PagesInv'
    BY <1>24, <2>1, ClosePages
  <2> QED
    BY <2>2 DEF PagesInv
<1>25. ASSUME NEW t \in Threads, NEW mm \in Mms, NEW vcpu_id \in VcpuIds,
             AddLock(t, mm, vcpu_id)
      PROVE  PageInv(j)'
  BY <1>25 DEF AddLock, AddAllowed
<1>26. ASSUME NEW t \in Threads, NEW mm \in Mms, NEW vcpu_id \in VcpuIds,
             AddRefused(t, mm, vcpu_id)
      PROVE  PageInv(j)'
  BY <1>26 DEF AddRefused
<1>27. ASSUME NEW t \in Threads, NEW i \in Slots, RunBegin(t, i)
      PROVE  PageInv(j)'
  BY <1>27 DEF RunBegin, Enter
<1>28. ASSUME NEW t \in Threads, NEW i \in Slots, Mmap(t, i) PROVE PageInv(j)'
  BY <1>28 DEF Mmap
<1>29. ASSUME NEW t \in Threads, NEW i \in Slots, Munmap(t, i)
      PROVE  PageInv(j)'
  <2> HIDE DEF BaseInv, LockInv, LockDiscipline, TypeInv, TypeOK, SlotOK,
           PagesInv, HolderInv, PageInv, Apart
  <2>1. PagesInv'
    BY <1>29, ClosePages
  <2> QED
    BY <2>1 DEF PagesInv
<1>30. ASSUME NEW t \in Threads, NEW i \in Slots, CloseKontext(t, i)
      PROVE  PageInv(j)'
  <2> HIDE DEF BaseInv, LockInv, LockDiscipline, TypeInv, TypeOK, SlotOK,
           PagesInv, HolderInv, PageInv, Apart
  <2>1. PagesInv'
    BY <1>30, ClosePages
  <2> QED
    BY <2>1 DEF PagesInv
<1>31. ASSUME Kill PROVE PageInv(j)'
  BY <1>31 DEF Kill
<1>32. ASSUME UNCHANGED vars PROVE PageInv(j)'
  BY <1>32 DEF vars
<1>33. ASSUME NEW t \in Threads, NEW first \in BOOLEAN, SetSaveInfo(t, first)
       PROVE  PageInv(j)'
  BY <1>33 DEF SetSaveInfo
<1> QED
  BY <1>1, <1>2, <1>3, <1>4, <1>5, <1>6, <1>7, <1>8, <1>9, <1>10, <1>11,
     <1>12, <1>13, <1>14, <1>15, <1>16, <1>17, <1>18, <1>19, <1>20, <1>21,
     <1>22, <1>23, <1>24, <1>25, <1>26, <1>27, <1>28, <1>29, <1>30, <1>31,
     <1>32, <1>33
  DEF Next, Driver, Request, Close, Exited

(* No step makes a second thread hold a slot.                              *)
LEMMA ApartStep ==
  ASSUME BaseInv, [Next]_vars
  PROVE  Apart'
<1> USE ConstantsAssumption
    DEF BaseInv, LockInv, LockDiscipline, TypeInv, TypeOK, SlotOK,
        PagesInv, HolderInv, PageInv, Apart, Claiming, Letting,
        Holding
<1>1. ASSUME NEW t \in Threads, CreateKontainer(t) PROVE Apart'
  BY <1>1 DEF CreateKontainer
<1>2. ASSUME NEW t \in Threads, CreateGetFdFails(t) PROVE Apart'
  BY <1>2 DEF CreateGetFdFails
<1>3. ASSUME NEW t \in Threads, CreateInitFails(t) PROVE Apart'
  BY <1>3 DEF CreateInitFails
<1>4. ASSUME NEW t \in Threads, AddBegin(t) PROVE Apart'
  BY <1>4 DEF AddBegin, Enter
<1>5. ASSUME NEW t \in Threads, AddScanBusy(t) PROVE Apart'
  BY <1>5 DEF AddScanBusy
<1>6. ASSUME NEW t \in Threads, AddClaim(t) PROVE Apart'
  <2>1. (\A u \in Threads \ {t} : pc'[u] = pc[u]) /\ slot' = slot
    BY <1>6 DEF AddClaim
  <2>2. Apart
    OBVIOUS
  <2> HIDE DEF BaseInv, LockInv, PagesInv, Holding, Apart
  <2>3. \A u \in Threads : pc[u] \in Holding => slot[u] # slot[t]
    BY <1>6, ClaimFree
  <2> QED
    BY <2>1, <2>2, <2>3 DEF Apart
<1>7. ASSUME NEW t \in Threads, AddNoMemory(t) PROVE Apart'
  BY <1>7 DEF AddNoMemory
<1>8. ASSUME NEW t \in Threads, AddRunsOff(t) PROVE Apart'
  BY <1>8 DEF AddRunsOff
<1>9. ASSUME NEW t \in Threads, AddGetFd(t) PROVE Apart'
  BY <1>9 DEF AddGetFd
<1>10. ASSUME NEW t \in Threads, AddGetFdFails(t) PROVE Apart'
  BY <1>10 DEF AddGetFdFails
<1>11. ASSUME NEW t \in Threads, AddMapPages(t) PROVE Apart'
  BY <1>11 DEF AddMapPages
<1>12. ASSUME NEW t \in Threads, AddMapPagesFails(t) PROVE Apart'
  BY <1>12 DEF AddMapPagesFails
<1>13. ASSUME NEW t \in Threads, AddKontextInit(t) PROVE Apart'
  BY <1>13 DEF AddKontextInit
<1>14. ASSUME NEW t \in Threads, AddKontextInitFails(t) PROVE Apart'
  BY <1>14 DEF AddKontextInitFails
<1>15. ASSUME NEW t \in Threads, AddFinish(t) PROVE Apart'
  BY <1>15 DEF AddFinish, LeaveAdd
<1>16. ASSUME NEW t \in Threads, AddError(t) PROVE Apart'
  BY <1>16 DEF AddError, LeaveAdd
<1>17. ASSUME NEW t \in Threads, ReleaseFree(t) PROVE Apart'
  BY <1>17 DEF ReleaseFree
<1>18. ASSUME NEW t \in Threads, ReleaseUnuse(t) PROVE Apart'
  BY <1>18 DEF ReleaseUnuse
<1>19. ASSUME NEW t \in Threads, ReleaseFirst(t) PROVE Apart'
  BY <1>19 DEF ReleaseFirst
<1>20. ASSUME NEW t \in Threads, ReleaseCount(t) PROVE Apart'
  BY <1>20 DEF ReleaseCount
<1>21. ASSUME NEW t \in Threads, ReleaseDown(t) PROVE Apart'
  BY <1>21 DEF ReleaseDown
<1>22. ASSUME NEW t \in Threads, CloseKontainer(t) PROVE Apart'
  BY <1>22 DEF CloseKontainer
<1>23. ASSUME NEW t \in Threads, KontainerRelease(t) PROVE Apart'
  BY <1>23 DEF KontainerRelease
<1>24. ASSUME NEW t \in Threads, RunEnd(t) PROVE Apart'
  <2> HIDE DEF BaseInv, LockInv, LockDiscipline, TypeInv, TypeOK, SlotOK,
           PagesInv, HolderInv, PageInv, Apart
  <2>1. slot[t] \in Slots
    BY <1>24 DEF RunEnd, BaseInv, LockInv, TypeInv, SlotOK
  <2>2. PagesInv'
    BY <1>24, <2>1, ClosePages
  <2> QED
    BY <2>2 DEF PagesInv
<1>25. ASSUME NEW t \in Threads, NEW mm \in Mms, NEW vcpu_id \in VcpuIds,
             AddLock(t, mm, vcpu_id)
      PROVE  Apart'
  BY <1>25 DEF AddLock, AddAllowed
<1>26. ASSUME NEW t \in Threads, NEW mm \in Mms, NEW vcpu_id \in VcpuIds,
             AddRefused(t, mm, vcpu_id)
      PROVE  Apart'
  BY <1>26 DEF AddRefused
<1>27. ASSUME NEW t \in Threads, NEW i \in Slots, RunBegin(t, i) PROVE Apart'
  BY <1>27 DEF RunBegin, Enter
<1>28. ASSUME NEW t \in Threads, NEW i \in Slots, Mmap(t, i) PROVE Apart'
  BY <1>28 DEF Mmap
<1>29. ASSUME NEW t \in Threads, NEW i \in Slots, Munmap(t, i) PROVE Apart'
  <2> HIDE DEF BaseInv, LockInv, LockDiscipline, TypeInv, TypeOK, SlotOK,
           PagesInv, HolderInv, PageInv, Apart
  <2>1. PagesInv'
    BY <1>29, ClosePages
  <2> QED
    BY <2>1 DEF PagesInv
<1>30. ASSUME NEW t \in Threads, NEW i \in Slots, CloseKontext(t, i)
      PROVE  Apart'
  <2> HIDE DEF BaseInv, LockInv, LockDiscipline, TypeInv, TypeOK, SlotOK,
           PagesInv, HolderInv, PageInv, Apart
  <2>1. PagesInv'
    BY <1>30, ClosePages
  <2> QED
    BY <2>1 DEF PagesInv
<1>31. ASSUME Kill PROVE Apart'
  BY <1>31 DEF Kill
<1>32. ASSUME UNCHANGED vars PROVE Apart'
  BY <1>32 DEF vars
<1>33. ASSUME NEW t \in Threads, NEW first \in BOOLEAN, SetSaveInfo(t, first)
       PROVE  Apart'
  BY <1>33 DEF SetSaveInfo
<1> QED
  BY <1>1, <1>2, <1>3, <1>4, <1>5, <1>6, <1>7, <1>8, <1>9, <1>10, <1>11,
     <1>12, <1>13, <1>14, <1>15, <1>16, <1>17, <1>18, <1>19, <1>20, <1>21,
     <1>22, <1>23, <1>24, <1>25, <1>26, <1>27, <1>28, <1>29, <1>30, <1>31,
     <1>32, <1>33
  DEF Next, Driver, Request, Close, Exited

(* A use, a mapping or a descriptor of a kontext ends: the kontainer is    *)
(* left alone.                                                             *)
LEMMA KnownClose ==
  ASSUME BaseInv, NEW t \in Threads, NEW i \in Slots,
         \/ slot[t] = i /\ RunEnd(t)
         \/ Munmap(t, i) \/ CloseKontext(t, i),
         UNCHANGED <<objectVars, kontext_count, slotVars>>
  PROVE  KnownInv'
<1>1. PICK rest \in {"open", "closed"}, stillUsed \in BOOLEAN :
        DropKontextRef(t, i, rest, stillUsed)
  BY ClosePages
<1>2. file[i] # "none" /\ pc[t] \in {"run", "idle"}
  BY ClosePages
<1>3. /\ \A u \in Threads \ {t} : pc'[u] = pc[u]
      /\ pc'[t] \in {"idle", "rel_free"}
  BY <1>1 DEF DropKontextRef, BaseInv, LockInv, TypeInv, TypeOK
<1>4. kkm # "none" /\ KnownInv
  BY <1>2 DEF BaseInv, KnownInv
<1> QED
  BY <1>3, <1>4 DEF KnownInv, Admitted, Claiming

(* Every step keeps what the threads know about the kontainer: nobody      *)
(* changes kontext_count while an admitted add holds the lock.             *)
LEMMA KnownStep ==
  ASSUME BaseInv, [Next]_vars
  PROVE  KnownInv'
<1> USE ConstantsAssumption
    DEF BaseInv, LockInv, LockDiscipline, TypeInv, TypeOK, SlotOK,
        KnownInv, Claiming, Admitted, AllIdle
<1>1. ASSUME NEW t \in Threads, CreateKontainer(t) PROVE KnownInv'
  BY <1>1 DEF CreateKontainer
<1>2. ASSUME NEW t \in Threads, CreateGetFdFails(t) PROVE KnownInv'
  BY <1>2 DEF CreateGetFdFails
<1>3. ASSUME NEW t \in Threads, CreateInitFails(t) PROVE KnownInv'
  BY <1>3 DEF CreateInitFails
<1>4. ASSUME NEW t \in Threads, AddBegin(t) PROVE KnownInv'
  BY <1>4 DEF AddBegin, Enter
<1>5. ASSUME NEW t \in Threads, AddScanBusy(t) PROVE KnownInv'
  BY <1>5 DEF AddScanBusy
<1>6. ASSUME NEW t \in Threads, AddClaim(t) PROVE KnownInv'
  BY <1>6, ClaimFree DEF AddClaim
<1>7. ASSUME NEW t \in Threads, AddNoMemory(t) PROVE KnownInv'
  BY <1>7 DEF AddNoMemory
<1>8. ASSUME NEW t \in Threads, AddRunsOff(t) PROVE KnownInv'
  BY <1>8 DEF AddRunsOff
<1>9. ASSUME NEW t \in Threads, AddGetFd(t) PROVE KnownInv'
  BY <1>9 DEF AddGetFd
<1>10. ASSUME NEW t \in Threads, AddGetFdFails(t) PROVE KnownInv'
  BY <1>10 DEF AddGetFdFails
<1>11. ASSUME NEW t \in Threads, AddMapPages(t) PROVE KnownInv'
  BY <1>11 DEF AddMapPages
<1>12. ASSUME NEW t \in Threads, AddMapPagesFails(t) PROVE KnownInv'
  BY <1>12 DEF AddMapPagesFails
<1>13. ASSUME NEW t \in Threads, AddKontextInit(t) PROVE KnownInv'
  BY <1>13 DEF AddKontextInit
<1>14. ASSUME NEW t \in Threads, AddKontextInitFails(t) PROVE KnownInv'
  BY <1>14 DEF AddKontextInitFails
<1>15. ASSUME NEW t \in Threads, AddFinish(t) PROVE KnownInv'
  BY <1>15, AdmittedAlone DEF AddFinish, LeaveAdd
<1>16. ASSUME NEW t \in Threads, AddError(t) PROVE KnownInv'
  BY <1>16 DEF AddError, LeaveAdd
<1>17. ASSUME NEW t \in Threads, ReleaseFree(t) PROVE KnownInv'
  BY <1>17 DEF ReleaseFree
<1>18. ASSUME NEW t \in Threads, ReleaseUnuse(t) PROVE KnownInv'
  BY <1>18 DEF ReleaseUnuse
<1>19. ASSUME NEW t \in Threads, ReleaseFirst(t) PROVE KnownInv'
  BY <1>19 DEF ReleaseFirst
<1>20. ASSUME NEW t \in Threads, ReleaseCount(t) PROVE KnownInv'
  BY <1>20 DEF ReleaseCount
<1>21. ASSUME NEW t \in Threads, ReleaseDown(t) PROVE KnownInv'
  BY <1>21 DEF ReleaseDown, kkm_reference_count_down
<1>22. ASSUME NEW t \in Threads, CloseKontainer(t) PROVE KnownInv'
  <2>1. CASE \E u \in Threads : pc[u] \in AddPcs
    BY <1>22, <2>1 DEF CloseKontainer, Closable
  <2>2. CASE \A u \in Threads : pc[u] \notin AddPcs
    BY <1>22, <2>2 DEF CloseKontainer, Closable
  <2> QED
    BY <2>1, <2>2
<1>23. ASSUME NEW t \in Threads, KontainerRelease(t) PROVE KnownInv'
  BY <1>23 DEF KontainerRelease, kkm_reference_count_down
<1>24. ASSUME NEW t \in Threads, RunEnd(t) PROVE KnownInv'
  <2>1. slot[t] \in Slots
    BY <1>24 DEF RunEnd
  <2>2. UNCHANGED <<objectVars, kontext_count, slotVars>>
    BY <1>24 DEF RunEnd
  <2> HIDE DEF BaseInv, KnownInv
  <2> QED
    BY <1>24, <2>1, <2>2, KnownClose
<1>25. ASSUME NEW t \in Threads, NEW mm \in Mms, NEW vcpu_id \in VcpuIds,
             AddLock(t, mm, vcpu_id)
      PROVE  KnownInv'
  BY <1>25 DEF AddLock, AddAllowed
<1>26. ASSUME NEW t \in Threads, NEW mm \in Mms, NEW vcpu_id \in VcpuIds,
             AddRefused(t, mm, vcpu_id)
      PROVE  KnownInv'
  BY <1>26 DEF AddRefused
<1>27. ASSUME NEW t \in Threads, NEW i \in Slots, RunBegin(t, i)
      PROVE  KnownInv'
  BY <1>27 DEF RunBegin, Enter
<1>28. ASSUME NEW t \in Threads, NEW i \in Slots, Mmap(t, i) PROVE KnownInv'
  BY <1>28 DEF Mmap
<1>29. ASSUME NEW t \in Threads, NEW i \in Slots, Munmap(t, i) PROVE KnownInv'
  <2>1. UNCHANGED <<objectVars, kontext_count, slotVars>>
    BY <1>29 DEF Munmap
  <2> HIDE DEF BaseInv, KnownInv
  <2> QED
    BY <1>29, <2>1, KnownClose
<1>30. ASSUME NEW t \in Threads, NEW i \in Slots, CloseKontext(t, i)
      PROVE  KnownInv'
  <2>1. UNCHANGED <<objectVars, kontext_count, slotVars>>
    BY <1>30 DEF CloseKontext
  <2> HIDE DEF BaseInv, KnownInv
  <2> QED
    BY <1>30, <2>1, KnownClose
<1>31. ASSUME Kill PROVE KnownInv'
  BY <1>31 DEF Kill
<1>32. ASSUME UNCHANGED vars PROVE KnownInv'
  BY <1>32 DEF vars
<1>33. ASSUME NEW t \in Threads, NEW first \in BOOLEAN, SetSaveInfo(t, first)
       PROVE  KnownInv'
  BY <1>33 DEF SetSaveInfo
<1> QED
  BY <1>1, <1>2, <1>3, <1>4, <1>5, <1>6, <1>7, <1>8, <1>9, <1>10, <1>11,
     <1>12, <1>13, <1>14, <1>15, <1>16, <1>17, <1>18, <1>19, <1>20, <1>21,
     <1>22, <1>23, <1>24, <1>25, <1>26, <1>27, <1>28, <1>29, <1>30, <1>31,
     <1>32, <1>33
  DEF Next, Driver, Request, Close, Exited

(* What the end of an add does to the pcs, the files and the kontainer's   *)
(* file.                                                                   *)
LEMMA LeaveFiles ==
  ASSUME BaseInv, NEW t \in Threads, pc[t] \in AddPcs, LeaveAdd(t)
  PROVE  /\ \A u \in Threads \ {t} : pc'[u] = pc[u]
         /\ pc'[t] \notin ReleasePcs
         /\ \A i \in Slots : file'[i] = "none" <=> file[i] = "none"
         /\ kontainer_file' \in {"open", "closed"} =>
              kontainer_file \in {"open", "closed"}
<1> USE DEF BaseInv, LockInv, TypeInv, TypeOK, LeaveAdd
<1>1. /\ \A u \in Threads \ {t} : pc'[u] = pc[u]
      /\ pc'[t] \in {"idle", "kontainer_release"}
      /\ kontainer_file' \in {"none", kontainer_file}
  OBVIOUS
<1>2. \A i \in Slots : file'[i] = "none" <=> file[i] = "none"
  BY DEF PagesInv, HolderInv
<1> QED
  BY <1>1, <1>2

-----------------------------------------------------------------------------
(***************************************************************************)
(* A slot that can be claimed owns no pages, whatever allocations fail     *)
(*                                                                         *)
(* The failures leave the counts wrong: a kontext that was never added is  *)
(* released like any other and takes one from kontext_count and one from   *)
(* reference_count.  The kontainer can then be freed, its slots with it,   *)
(* while its file is open.  What still keeps an add away from a slot that  *)
(* is used but no longer allocated is that the two counts stay in step:    *)
(* by the time the reference count has reached zero kontext_count has      *)
(* wrapped around, and kkm_add_execution_kontext refuses every add.        *)
(***************************************************************************)

(* While the kontainer lives kontext_count is the number of references but *)
(* for its file's and those of the releases that have uncounted, modulo    *)
(* 2^32; once it is freed under its file, the releases that are still to   *)
(* come cannot bring the count back below KKM_MAX_CONTEXTS.  Down are the  *)
(* threads that have uncounted their kontext and still refer to kkm.       *)
Down == {t \in Threads : pc[t] = "rel_down"}
Filed == {i \in Slots : file[i] # "none"}

Balanced(x) ==
  /\ reference_count >= 1
  /\ kontext_count = IF x >= 0 THEN x ELSE CountMod + x

Overdrawn(files, counted) == kontext_count >= MaxContexts + files + counted

TallyInv ==
  kontainer_file \in {"open", "closed"} =>
    /\ kkm = "alive" => Balanced(reference_count - 1 - Cardinality(Down))
    /\ kkm = "freed" => Overdrawn(Cardinality(Filed),
                                  Cardinality(StillCounted))

(* kontext_count is wide enough that its wrapped values stay clear of the  *)
(* limit: 2^32 against 256 slots and the threads of one process.           *)
Wide == CountMod >= 2 * MaxContexts + Cardinality(Threads)

PInv == LockInv /\ PagesInv /\ KnownInv /\ TallyInv

(* Subsets of the slots and of the threads are finite.                     *)
LEMMA TallyFinite ==
  ASSUME TypeInv
  PROVE  /\ IsFiniteSet(Filed) /\ Cardinality(Filed) \in Nat
         /\ IsFiniteSet(Down) /\ Cardinality(Down) \in Nat
         /\ IsFiniteSet(StillCounted) /\ Cardinality(StillCounted) \in Nat
         /\ Cardinality(Filed) <= MaxContexts
         /\ Cardinality(Down) + Cardinality(StillCounted)
              <= Cardinality(Threads)
<1>1. /\ IsFiniteSet(Slots) /\ Cardinality(Slots) = MaxContexts
      /\ IsFiniteSet(Threads)
  BY FS_Interval, ConstantsAssumption
<1>2. /\ Filed \in SUBSET Slots
      /\ Down \in SUBSET Threads /\ StillCounted \in SUBSET Threads
      /\ Down \cup StillCounted \in SUBSET Threads
      /\ Down \cap StillCounted = {}
  BY DEF Filed, Down, StillCounted
<1> HIDE DEF Slots
<1>3. /\ IsFiniteSet(Filed) /\ Cardinality(Filed) \in Nat
      /\ IsFiniteSet(Down) /\ Cardinality(Down) \in Nat
      /\ IsFiniteSet(StillCounted) /\ Cardinality(StillCounted) \in Nat
  BY <1>1, <1>2, FS_Subset, FS_CardinalityType
<1>4. Cardinality(Filed) <= MaxContexts
  BY <1>1, <1>2, FS_Subset
<1>5. Cardinality(Down \cup StillCounted) <= Cardinality(Threads)
  BY <1>1, <1>2, FS_Subset
<1>6. Cardinality(Down \cup StillCounted)
        = Cardinality(Down) + Cardinality(StillCounted)
  <2>1. Cardinality({}) = 0
    BY FS_EmptySet
  <2>2. Cardinality(Down \cup StillCounted)
          = Cardinality(Down) + Cardinality(StillCounted)
              - Cardinality(Down \cap StillCounted)
    BY <1>3, FS_Union
  <2>3. Cardinality(Down \cap StillCounted) = 0
    BY <1>2, <2>1
  <2> QED
    BY <1>3, <2>2, <2>3
<1> QED
  BY <1>3, <1>4, <1>5, <1>6

(* The two counts admit no add to a kontainer that is freed.               *)
LEMMA Admission ==
  ASSUME PInv
  PROVE  /\ BaseInv
         /\ \A t \in Threads :
              pc[t] \in Admitted =>
                Balanced(reference_count - 1 - Cardinality(Down))
<1> SUFFICES ASSUME NEW t \in Threads, pc[t] \in Admitted
             PROVE  /\ kkm = "alive"
                    /\ Balanced(reference_count - 1 - Cardinality(Down))
  BY DEF PInv, BaseInv, EntryInv
<1>1. /\ kontext_count < MaxContexts /\ kontext_count \in Nat
      /\ kontainer_file \in {"open", "closed"} /\ kkm \in {"alive", "freed"}
  BY ConstantsAssumption
  DEF PInv, KnownInv, Admitted, Claiming, LockInv, TypeInv, TypeOK
<1>2. kkm # "freed"
  <2>1. ~Overdrawn(Cardinality(Filed), Cardinality(StillCounted))
    BY <1>1, TallyFinite, ConstantsAssumption DEF Overdrawn, PInv, LockInv
  <2> QED
    BY <1>1, <2>1 DEF PInv, TallyInv
<1> QED
  BY <1>1, <1>2 DEF PInv, TallyInv

(* A step that leaves the counts, the releases and the number of files as  *)
(* they are.                                                               *)
LEMMA TallyFrame ==
  ASSUME PInv, NEW t \in Threads,
         \A u \in Threads \ {t} : pc'[u] = pc[u],
         pc'[t] \in ReleasePcs <=> pc[t] \in ReleasePcs,
         pc'[t] = "rel_down" <=> pc[t] = "rel_down",
         kkm = "freed" =>
           \A i \in Slots : file'[i] = "none" <=> file[i] = "none",
         kontainer_file' \in {"open", "closed"} =>
           kontainer_file \in {"open", "closed"},
         UNCHANGED <<kkm, reference_count, kontext_count>>
  PROVE  TallyInv'
<1>1. /\ Down' = Down /\ StillCounted' = StillCounted
      /\ kkm = "freed" => Filed' = Filed
  BY DEF Down, StillCounted, Filed
<1> HIDE DEF Down, StillCounted, Filed
<1> QED
  BY <1>1 DEF PInv, TallyInv, Balanced, Overdrawn

(* The last reference to a kontext's file turns the file into a release    *)
(* that is still to be counted.                                            *)
LEMMA TallyClose ==
  ASSUME PInv, NEW t \in Threads, NEW i \in Slots,
         \/ slot[t] = i /\ RunEnd(t)
         \/ Munmap(t, i) \/ CloseKontext(t, i),
         UNCHANGED <<objectVars, kontext_count>>
  PROVE  TallyInv'
<1>1. PICK rest \in {"open", "closed"}, stillUsed \in BOOLEAN :
        DropKontextRef(t, i, rest, stillUsed)
  BY ClosePages, Admission
<1>2. /\ file[i] # "none" /\ pc[t] \in {"run", "idle"}
      /\ file \in [Slots -> FileStates] /\ pc \in [Threads -> Pcs]
  BY ClosePages, Admission DEF PInv, LockInv, TypeInv, TypeOK
<1>3. CASE rest = "closed" /\ ~stillUsed
  <2>1. /\ file' = [file EXCEPT ![i] = "none"]
        /\ pc' = [pc EXCEPT ![t] = "rel_free"]
    BY <1>1, <1>3 DEF DropKontextRef
  <2>2. /\ Filed' = Filed \ {i} /\ i \in Filed /\ Down' = Down
        /\ StillCounted' = StillCounted \cup {t} /\ t \notin StillCounted
    BY <1>2, <2>1 DEF Filed, Down, StillCounted
  <2>3. /\ IsFiniteSet(Filed) /\ Cardinality(Filed) \in Nat
        /\ IsFiniteSet(StillCounted) /\ Cardinality(StillCounted) \in Nat
    BY TallyFinite DEF PInv, LockInv
  <2> HIDE DEF Filed, Down, StillCounted
  <2>4. /\ Cardinality(Filed') = Cardinality(Filed) - 1
        /\ Cardinality(StillCounted') = Cardinality(StillCounted) + 1
    BY <2>2, <2>3, FS_AddElement, FS_RemoveElement
  <2>5. /\ kontext_count \in Int /\ MaxContexts \in Int
        /\ UNCHANGED <<kkm, kontainer_file, reference_count, kontext_count>>
    BY ConstantsAssumption DEF PInv, LockInv, TypeInv, TypeOK
  <2>6. Overdrawn(Cardinality(Filed), Cardinality(StillCounted))
          => Overdrawn(Cardinality(Filed), Cardinality(StillCounted))'
    BY <2>3, <2>4, <2>5 DEF Overdrawn
  <2>7. Balanced(reference_count - 1 - Cardinality(Down))
          => Balanced(reference_count - 1 - Cardinality(Down))'
    BY <2>2, <2>5 DEF Balanced
  <2> QED
    BY <2>5, <2>6, <2>7 DEF PInv, TallyInv
<1>4. CASE rest = "open" \/ stillUsed
  <2>1. file' = [file EXCEPT ![i] = rest] /\ pc' = [pc EXCEPT ![t] = "idle"]
    BY <1>1, <1>4 DEF DropKontextRef
  <2>2. \A j \in Slots : file'[j] = "none" <=> file[j] = "none"
    BY <1>2, <2>1
  <2> QED
    BY <1>2, <2>1, <2>2, TallyFrame
<1> QED
  BY <1>3, <1>4

(* A descriptor can be installed only in a kontainer that is not freed.    *)
LEMMA TallyGetFd ==
  ASSUME PInv, NEW t \in Threads, AddGetFd(t)
  PROVE  TallyInv'
<1>1. /\ pc[t] = "add_getfd" /\ pc' = [pc EXCEPT ![t] = "add_map"]
      /\ pc \in [Threads -> Pcs]
      /\ UNCHANGED <<objectVars, kontext_count>>
  BY DEF AddGetFd, PInv, LockInv, TypeInv, TypeOK
<1>2. kkm = "alive"
  BY <1>1, Admission, AdmittedAlone DEF Admitted, Claiming
<1> QED
  BY <1>1, <1>2, TallyFrame

(* An added kontext counts in both: kontext_count was below the limit, so  *)
(* it cannot wrap, and no release is ahead of it by so much that the       *)
(* balance would be off.                                                   *)
LEMMA TallyAddFinish ==
  ASSUME PInv, Wide, NEW t \in Threads, AddFinish(t)
  PROVE  TallyInv'
<1>1. /\ pc[t] = "add_finish" /\ LeaveAdd(t) /\ kkm' = kkm
      /\ reference_count' = RefInc(reference_count)
      /\ kontext_count' = CountInc(kontext_count)
  BY DEF AddFinish
<1>2. /\ kkm = "alive" /\ kontext_count < MaxContexts
      /\ Balanced(reference_count - 1 - Cardinality(Down))
  BY <1>1, Admission, AdmittedAlone DEF Admitted
<1>3. Down' = Down
  BY <1>1, LeaveFiles, Admission DEF Down
<1> DEFINE d == Cardinality(Down)
<1>4. d' = d
  BY <1>3
<1>5. /\ d \in Nat /\ Cardinality(Threads) \in Nat /\ d <= Cardinality(Threads)
      /\ reference_count \in Int /\ kontext_count \in Nat
      /\ CountMod \in Nat /\ MaxContexts \in Nat
  BY TallyFinite, FS_CardinalityType, ConstantsAssumption
  DEF PInv, LockInv, TypeInv, TypeOK
<1> HIDE DEF d
<1>6. /\ reference_count >= 1
      /\ kontext_count = IF reference_count - 1 - d >= 0
                           THEN reference_count - 1 - d
                           ELSE CountMod + (reference_count - 1 - d)
  BY <1>2 DEF Balanced, d
<1>7. reference_count - 1 - d >= 0
  BY <1>2, <1>5, <1>6 DEF Wide
<1>8. /\ reference_count' = reference_count + 1
      /\ kontext_count' = kontext_count + 1
  BY <1>1, <1>2, <1>5, <1>6, ConstantsAssumption DEF RefInc, CountInc
<1>9. Balanced(reference_count - 1 - d)'
  BY <1>4, <1>5, <1>6, <1>7, <1>8 DEF Balanced
<1> QED
  BY <1>1, <1>2, <1>9 DEF TallyInv, d

(* A release takes one from kontext_count: it may wrap around while the    *)
(* kontainer lives, and never comes back below the limit once it is freed. *)
LEMMA TallyReleaseCount ==
  ASSUME PInv, Wide, NEW t \in Threads, ReleaseCount(t)
  PROVE  TallyInv'
<1>1. /\ pc[t] = "rel_count" /\ pc' = [pc EXCEPT ![t] = "rel_down"]
      /\ pc \in [Threads -> Pcs]
      /\ kontext_count' = CountDec(kontext_count)
      /\ UNCHANGED <<objectVars, file>>
  BY DEF ReleaseCount, PInv, LockInv, TypeInv, TypeOK
<1>2. /\ StillCounted' = StillCounted \ {t} /\ t \in StillCounted
      /\ Down' = Down \cup {t} /\ t \notin Down /\ Filed' = Filed
  BY <1>1 DEF StillCounted, Down, Filed
<1>3. /\ IsFiniteSet(StillCounted) /\ IsFiniteSet(Down)
      /\ Cardinality(StillCounted) \in Nat /\ Cardinality(Down) \in Nat
      /\ Cardinality(Filed) \in Nat
      /\ Cardinality(Down) + Cardinality(StillCounted)
           <= Cardinality(Threads)
  BY TallyFinite DEF PInv, LockInv
<1> HIDE DEF StillCounted, Down, Filed
<1> DEFINE d == Cardinality(Down)
           s == Cardinality(StillCounted)
           f == Cardinality(Filed)
<1>4. /\ s' = s - 1 /\ d' = d + 1 /\ f' = f
  BY <1>2, <1>3, FS_AddElement, FS_RemoveElement
<1>5. /\ s \in Nat /\ d \in Nat /\ f \in Nat
      /\ d + s <= Cardinality(Threads) /\ s' \in Nat
  <2>1. s # 0
    BY <1>2, <1>3, FS_EmptySet
  <2> QED
    BY <1>3, <1>4, <2>1
<1>6. /\ kontext_count \in Nat /\ reference_count \in Int
      /\ CountMod \in Nat /\ MaxContexts \in Nat /\ MaxContexts # 0
      /\ Cardinality(Threads) \in Nat
      /\ UNCHANGED <<kkm, kontainer_file, reference_count>>
  BY <1>1, FS_CardinalityType, ConstantsAssumption
  DEF PInv, LockInv, TypeInv, TypeOK
<1> HIDE DEF d, s, f
<1>7. Overdrawn(f, s) => Overdrawn(f, s)'
  BY <1>1, <1>4, <1>5, <1>6 DEF Overdrawn, CountDec
<1>8. Balanced(reference_count - 1 - d) => Balanced(reference_count - 1 - d)'
  <2> DEFINE x == reference_count - 1 - d
  <2>1. x \in Int /\ x' = x - 1
    BY <1>4, <1>5, <1>6
  <2>2. reference_count >= 1 => CountMod + x > 0
    BY <1>5, <1>6 DEF Wide
  <2> HIDE DEF x
  <2>3. Balanced(x) => Balanced(x)'
    BY <1>1, <1>6, <2>1, <2>2 DEF Balanced, CountDec
  <2> QED
    BY <2>3 DEF x
<1> QED
  BY <1>6, <1>7, <1>8 DEF PInv, TallyInv, d, s, f

(* A release gives a reference back, and with the last one the kontainer   *)
(* is gone.  Under an open file that takes a thread that has uncounted     *)
(* more than was counted: kontext_count has wrapped around.                *)
LEMMA TallyDown ==
  ASSUME PInv, Wide, NEW t \in Threads, ReleaseDown(t)
  PROVE  TallyInv'
<1>1. /\ pc[t] = "rel_down" /\ pc' = [pc EXCEPT ![t] = "idle"]
      /\ pc \in [Threads -> Pcs]
      /\ kkm_reference_count_down
      /\ UNCHANGED <<kontainer_file, kontext_count, file>>
  BY DEF ReleaseDown, PInv, LockInv, TypeInv, TypeOK
<1>2. /\ StillCounted' = StillCounted /\ Filed' = Filed
      /\ Down' = Down \ {t} /\ t \in Down
  BY <1>1 DEF StillCounted, Down, Filed
<1>3. /\ IsFiniteSet(Down)
      /\ Cardinality(StillCounted) \in Nat /\ Cardinality(Down) \in Nat
      /\ Cardinality(Filed) \in Nat /\ Cardinality(Filed) <= MaxContexts
      /\ Cardinality(Down) + Cardinality(StillCounted)
           <= Cardinality(Threads)
  BY TallyFinite DEF PInv, LockInv
<1> HIDE DEF StillCounted, Down, Filed
<1> DEFINE d == Cardinality(Down)
           s == Cardinality(StillCounted)
           f == Cardinality(Filed)
<1>4. /\ s' = s /\ d' = d - 1 /\ f' = f
  BY <1>2, <1>3, FS_RemoveElement
<1>5. /\ s \in Nat /\ d \in Nat /\ f \in Nat /\ d # 0
      /\ d + s <= Cardinality(Threads) /\ f <= MaxContexts
  BY <1>2, <1>3, FS_EmptySet
<1>6. /\ kontext_count \in Nat /\ reference_count \in Int
      /\ CountMod \in Nat /\ MaxContexts \in Nat
      /\ Cardinality(Threads) \in Nat
      /\ UNCHANGED <<kontainer_file, kontext_count>>
  BY <1>1, FS_CardinalityType, ConstantsAssumption
  DEF PInv, LockInv, TypeInv, TypeOK
<1> HIDE DEF d, s, f
<1>7. /\ kontainer_file \in {"open", "closed"} => kkm \in {"alive", "freed"}
      /\ kkm' \in {kkm, "freed"}
      /\ kkm' # kkm => reference_count = 1
      /\ reference_count = 1 => kkm' = "freed"
      /\ reference_count >= 1 => reference_count' = reference_count - 1
  BY <1>1, <1>6 DEF PInv, KnownInv, kkm_reference_count_down, RefDec, Saturated
<1>8. Overdrawn(f, s) => Overdrawn(f, s)'
  BY <1>4, <1>6 DEF Overdrawn
<1>9. reference_count # 1 /\ Balanced(reference_count - 1 - d)
        => Balanced(reference_count - 1 - d)'
  <2>1. reference_count >= 1 =>
          (reference_count - 1 - d)' = reference_count - 1 - d
    BY <1>4, <1>5, <1>6, <1>7
  <2> QED
    BY <1>6, <1>7, <2>1 DEF Balanced
<1>10. reference_count = 1 /\ Balanced(reference_count - 1 - d)
         => Overdrawn(f, s)'
  <2>1. ASSUME reference_count = 1, Balanced(reference_count - 1 - d)
        PROVE  kontext_count = CountMod - d
    BY <1>5, <1>6, <2>1 DEF Balanced
  <2> QED
    BY <1>4, <1>5, <1>6, <2>1 DEF Overdrawn, Wide
<1> QED
  BY <1>6, <1>7, <1>8, <1>9, <1>10 DEF PInv, TallyInv, d, s, f

(* Every step keeps kontext_count and reference_count in step while the    *)
(* kontainer lives, and the count above the limit after that.              *)
LEMMA TallyStep ==
  ASSUME PInv, Wide, [Next]_vars
  PROVE  TallyInv'
<1>1. ASSUME NEW t \in Threads, CreateKontainer(t) PROVE TallyInv'
  <2>1. /\ kkm = "none" /\ kkm' = "alive" /\ reference_count' = 1
        /\ UNCHANGED <<kontext_count, pc>>
    BY <1>1 DEF CreateKontainer
  <2>2. Down' = {} /\ kontext_count = 0
    BY <2>1 DEF PInv, KnownInv, AllIdle, Down
  <2>3. Cardinality(Down') = 0
    BY <2>2, FS_EmptySet
  <2> HIDE DEF Down
  <2> QED
    BY <2>1, <2>2, <2>3 DEF TallyInv, Balanced
<1>2. ASSUME NEW t \in Threads, CreateGetFdFails(t) PROVE TallyInv'
  BY <1>2 DEF CreateGetFdFails, PInv, KnownInv, TallyInv
<1>3. ASSUME NEW t \in Threads, CreateInitFails(t) PROVE TallyInv'
  BY <1>3 DEF CreateInitFails, TallyInv
<1>4. ASSUME NEW t \in Threads, AddBegin(t) PROVE TallyInv'
  BY <1>4, TallyFrame
  DEF AddBegin, Enter, PInv, LockInv, TypeInv, TypeOK
<1>5. ASSUME NEW t \in Threads, AddScanBusy(t) PROVE TallyInv'
  BY <1>5, TallyFrame
  DEF AddScanBusy, PInv, LockInv, TypeInv, TypeOK
<1>6. ASSUME NEW t \in Threads, AddClaim(t) PROVE TallyInv'
  BY <1>6, TallyFrame
  DEF AddClaim, PInv, LockInv, TypeInv, TypeOK
<1>7. ASSUME NEW t \in Threads, AddNoMemory(t) PROVE TallyInv'
  BY <1>7, TallyFrame
  DEF AddNoMemory, PInv, LockInv, TypeInv, TypeOK
<1>8. ASSUME NEW t \in Threads, AddRunsOff(t) PROVE TallyInv'
  BY <1>8, TallyFrame
  DEF AddRunsOff, PInv, LockInv, TypeInv, TypeOK
<1>9. ASSUME NEW t \in Threads, AddGetFd(t) PROVE TallyInv'
  BY <1>9, TallyGetFd
<1>10. ASSUME NEW t \in Threads, AddGetFdFails(t) PROVE TallyInv'
  BY <1>10, TallyFrame
  DEF AddGetFdFails, PInv, LockInv, TypeInv, TypeOK
<1>11. ASSUME NEW t \in Threads, AddMapPages(t) PROVE TallyInv'
  BY <1>11, TallyFrame
  DEF AddMapPages, PInv, LockInv, TypeInv, TypeOK
<1>12. ASSUME NEW t \in Threads, AddMapPagesFails(t) PROVE TallyInv'
  BY <1>12, TallyFrame
  DEF AddMapPagesFails, PInv, LockInv, TypeInv, TypeOK
<1>13. ASSUME NEW t \in Threads, AddKontextInit(t) PROVE TallyInv'
  BY <1>13, TallyFrame
  DEF AddKontextInit, PInv, LockInv, TypeInv, TypeOK
<1>14. ASSUME NEW t \in Threads, AddKontextInitFails(t) PROVE TallyInv'
  BY <1>14, TallyFrame
  DEF AddKontextInitFails, PInv, LockInv, TypeInv, TypeOK
<1>15. ASSUME NEW t \in Threads, AddFinish(t) PROVE TallyInv'
  BY <1>15, TallyAddFinish
<1>16. ASSUME NEW t \in Threads, AddError(t) PROVE TallyInv'
  <2>1. pc[t] = "add_error" /\ LeaveAdd(t)
    BY <1>16 DEF AddError
  <2>2. UNCHANGED <<kkm, reference_count, kontext_count>>
    BY <1>16 DEF AddError
  <2> QED
    BY <2>1, <2>2, LeaveFiles, Admission, TallyFrame
<1>17. ASSUME NEW t \in Threads, ReleaseFree(t) PROVE TallyInv'
  BY <1>17, TallyFrame
  DEF ReleaseFree, PInv, LockInv, TypeInv, TypeOK
<1>18. ASSUME NEW t \in Threads, ReleaseUnuse(t) PROVE TallyInv'
  BY <1>18, TallyFrame
  DEF ReleaseUnuse, PInv, LockInv, TypeInv, TypeOK
<1>19. ASSUME NEW t \in Threads, ReleaseFirst(t) PROVE TallyInv'
  BY <1>19, TallyFrame
  DEF ReleaseFirst, PInv, LockInv, TypeInv, TypeOK
<1>20. ASSUME NEW t \in Threads, ReleaseCount(t) PROVE TallyInv'
  BY <1>20, TallyReleaseCount
<1>21. ASSUME NEW t \in Threads, ReleaseDown(t) PROVE TallyInv'
  BY <1>21, TallyDown
<1>22. ASSUME NEW t \in Threads, CloseKontainer(t) PROVE TallyInv'
  <2>1. /\ kontainer_file' \in {"open", "closed"} =>
             kontainer_file \in {"open", "closed"}
        /\ UNCHANGED <<kkm, reference_count, kontext_count, file>>
    BY <1>22 DEF CloseKontainer, Closable, PInv, KnownInv, LockInv, TypeInv,
       TypeOK
  <2> QED
    BY <1>22, <2>1, TallyFrame
    DEF CloseKontainer, PInv, LockInv, TypeInv, TypeOK
<1>23. ASSUME NEW t \in Threads, KontainerRelease(t) PROVE TallyInv'
  <2>1. kontainer_file' = "none"
    BY <1>23 DEF KontainerRelease, PInv, KnownInv
  <2> QED
    BY <2>1 DEF TallyInv
<1>24. ASSUME NEW t \in Threads, RunEnd(t) PROVE TallyInv'
  <2>1. slot[t] \in Slots
    BY <1>24 DEF RunEnd, PInv, LockInv, TypeInv, SlotOK
  <2>2. UNCHANGED <<objectVars, kontext_count>>
    BY <1>24 DEF RunEnd
  <2> QED
    BY <1>24, <2>1, <2>2, TallyClose
<1>25. ASSUME NEW t \in Threads, NEW mm \in Mms, NEW vcpu_id \in VcpuIds,
             AddLock(t, mm, vcpu_id)
      PROVE  TallyInv'
  BY <1>25, TallyFrame
  DEF AddLock, AddAllowed, PInv, LockInv, TypeInv, TypeOK
<1>26. ASSUME NEW t \in Threads, NEW mm \in Mms, NEW vcpu_id \in VcpuIds,
             AddRefused(t, mm, vcpu_id)
      PROVE  TallyInv'
  BY <1>26, TallyFrame
  DEF AddRefused, PInv, LockInv, TypeInv, TypeOK
<1>27. ASSUME NEW t \in Threads, NEW i \in Slots, RunBegin(t, i)
      PROVE  TallyInv'
  BY <1>27, TallyFrame
  DEF RunBegin, Enter, PInv, LockInv, TypeInv, TypeOK
<1>28. ASSUME NEW t \in Threads, NEW i \in Slots, Mmap(t, i) PROVE TallyInv'
  BY <1>28, TallyFrame
  DEF Mmap, PInv, LockInv, TypeInv, TypeOK
<1>29. ASSUME NEW t \in Threads, NEW i \in Slots, Munmap(t, i) PROVE TallyInv'
  <2>1. UNCHANGED <<objectVars, kontext_count>>
    BY <1>29 DEF Munmap
  <2> QED
    BY <1>29, <2>1, TallyClose
<1>30. ASSUME NEW t \in Threads, NEW i \in Slots, CloseKontext(t, i)
      PROVE  TallyInv'
  <2>1. UNCHANGED <<objectVars, kontext_count>>
    BY <1>30 DEF CloseKontext
  <2> QED
    BY <1>30, <2>1, TallyClose
<1>31. ASSUME Kill PROVE TallyInv'
  BY <1>31 DEF Kill, PInv, TallyInv, Balanced, Overdrawn, Down, Filed,
     StillCounted
<1>32. ASSUME UNCHANGED vars PROVE TallyInv'
  BY <1>32 DEF vars, PInv, TallyInv, Balanced, Overdrawn, Down, Filed,
     StillCounted
<1>33. ASSUME NEW t \in Threads, NEW first \in BOOLEAN, SetSaveInfo(t, first)
       PROVE  TallyInv'
  BY <1>33 DEF SetSaveInfo, PInv, TallyInv, Balanced, Overdrawn, Down, Filed,
     StillCounted
<1> QED
  BY <1>1, <1>2, <1>3, <1>4, <1>5, <1>6, <1>7, <1>8, <1>9, <1>10, <1>11,
     <1>12, <1>13, <1>14, <1>15, <1>16, <1>17, <1>18, <1>19, <1>20, <1>21,
     <1>22, <1>23, <1>24, <1>25, <1>26, <1>27, <1>28, <1>29, <1>30, <1>31,
     <1>32, <1>33
  DEF Next, Driver, Request, Close, Exited

(* The invariant holds before a kontainer is created.                      *)
LEMMA InitPages == Init => PInv
<1> SUFFICES ASSUME Init PROVE PInv
  OBVIOUS
<1>1. LockInv
  BY TypeInit, ConstantsAssumption DEF Init, LockInv, LockDiscipline
<1>2. PagesInv
  BY ConstantsAssumption
  DEF Init, PagesInv, HolderInv, PageInv, Apart, Holding, Claiming, Letting
<1>3. KnownInv /\ TallyInv
  BY ConstantsAssumption
  DEF Init, KnownInv, TallyInv, AllIdle, Admitted, Claiming
<1> QED
  BY <1>1, <1>2, <1>3 DEF PInv

(* No pages are lost when a slot is claimed again, whatever allocations    *)
(* fail and however often: kkm_add_execution_kontext would overwrite the   *)
(* pointers of a slot that is no longer allocated, but it is not admitted  *)
(* to one that is still in use.                                            *)
THEOREM PagesCorrect ==
  ASSUME Wide
  PROVE  Spec => []UnusedSlotOwnsNoPages
<1>1. PInv /\ [Next]_vars => PInv'
  <2> SUFFICES ASSUME PInv, [Next]_vars PROVE PInv'
    OBVIOUS
  <2> BaseInv
    BY Admission
  <2>1. LockInv'
    BY LockStep, TypeStep DEF PInv, LockInv
  <2>2. PagesInv'
    BY HolderStep, PageStep, ApartStep DEF PagesInv
  <2>3. KnownInv' /\ TallyInv'
    BY KnownStep, TallyStep
  <2> QED
    BY <2>1, <2>2, <2>3 DEF PInv
<1>2. PInv => UnusedSlotOwnsNoPages
  BY DEF PInv, PagesInv, PageInv, UnusedSlotOwnsNoPages
<1> QED
  BY InitPages, <1>1, <1>2, PTL DEF Spec

-----------------------------------------------------------------------------
(***************************************************************************)
(* Nothing reachable is freed, when descriptors may run out                *)
(*                                                                         *)
(* A kontext without a descriptor is counted and never released, a         *)
(* kontainer whose initialisation fails has a file and no reference: the   *)
(* reference count is then too high or never reaches zero again, so the    *)
(* kontainer may leak and is not freed too early.  The last two            *)
(* allocations of an add are left out: a kontext that lacks its pages or   *)
(* its guest area is not counted, and its release is one too many.         *)
(***************************************************************************)
Uncounted == {"map_page", "kontext_init"}
EveryFileCounted == Failures \cap Uncounted = {}

(* A descriptor that an add has installed is handed out with the kontext's *)
(* pages behind it; the slot a release writes to is still allocated.       *)
BackedThread(t) ==
  /\ ret_val[t] \in Slots =>
       /\ pc[t] # "add_error"
       /\ pc[t] \in {"add_init", "add_finish"} => mmap_area[slot[t]]
       /\ pc[t] = "add_finish" => guest_area[slot[t]]
  /\ pc[t] = "rel_first" => allocated[slot[t]]

BackedSlot(i) ==
  /\ file[i] \in {"open", "closed"} => guest_area[i] /\ mmap_area[i]
  /\ file[i] = "hidden" => \E t \in Threads : ret_val[t] = i

BackedInv ==
  /\ \A t \in Threads : BackedThread(t)
  /\ \A i \in Slots : BackedSlot(i)

(* Nobody can reach the kontainer but the thread that closes its file.     *)
Abandoned ==
  /\ \A t \in Threads : pc[t] \in {"idle", "kontainer_release"}
  /\ \A i \in Slots : file[i] = "none"

Holders ==
  Cardinality(Registered) + Cardinality(Releasing)
    + (IF KontainerHeld THEN 1 ELSE 0)

(* A kontainer that lives has a reference for each of its holders, or has  *)
(* none and cannot lose one; one that does not live is not referred to.    *)
HeldInv ==
  /\ \A t, u \in Threads :
       pc[t] = "kontainer_release" /\ pc[u] = "kontainer_release" => t = u
  /\ kkm = "alive" =>
       \/ reference_count >= 1 /\ reference_count >= Holders
            /\ kontainer_file # "hidden"
       \/ reference_count <= 0 /\ Abandoned
            /\ kontainer_file \in {"none", "hidden"}
  /\ kkm # "alive" => AllIdle /\ Abandoned /\ kontainer_file = "none"
  /\ kkm = "none" => reference_count = 0

UseInv == LockInv /\ PagesInv /\ KnownInv /\ BackedInv /\ HeldInv

(* Cardinalities of what holds the kontainer.                              *)
LEMMA HoldersFinite ==
  ASSUME TypeInv
  PROVE  /\ IsFiniteSet(Registered) /\ Cardinality(Registered) \in Nat
         /\ IsFiniteSet(Releasing) /\ Cardinality(Releasing) \in Nat
         /\ \A i \in Registered : Cardinality(Registered) >= 1
         /\ \A t \in Releasing : Cardinality(Releasing) >= 1
         /\ \A t, u \in Releasing : t # u => Cardinality(Releasing) >= 2
<1>1. IsFiniteSet(Slots) /\ IsFiniteSet(Threads)
  BY FS_Interval, ConstantsAssumption
<1>2. Registered \in SUBSET Slots /\ Releasing \in SUBSET Threads
  BY DEF Registered, Releasing
<1> HIDE DEF Slots
<1>3. /\ IsFiniteSet(Registered) /\ Cardinality(Registered) \in Nat
      /\ IsFiniteSet(Releasing) /\ Cardinality(Releasing) \in Nat
  BY <1>1, <1>2, FS_Subset, FS_CardinalityType
<1>4. /\ \A i \in Registered : Cardinality(Registered) # 0
      /\ \A t \in Releasing : Cardinality(Releasing) # 0
  BY <1>3, FS_EmptySet
<1>5. \A t, u \in Releasing : t # u => Cardinality(Releasing) # 1
  BY <1>3, FS_Singleton
<1> QED
  BY <1>3, <1>4, <1>5

(* Whoever is in the driver but to close the kontainer, and any file of a  *)
(* kontext, is proof of a kontainer that lives and has its references.     *)
LEMMA Sound ==
  ASSUME UseInv
  PROVE  /\ BaseInv
         /\ \/ \E t \in Threads : pc[t] \notin {"idle", "kontainer_release"}
            \/ \E i \in Slots : file[i] # "none"
            \/ kontainer_file \in {"open", "closed"}
            => /\ kkm = "alive" /\ reference_count >= 1
               /\ reference_count >= Holders /\ kontainer_file # "hidden"
BY DEF UseInv, BaseInv, EntryInv, HeldInv, Abandoned, AllIdle, Admitted,
       Claiming

(* The thread that drops the last reference leaves nothing behind: no file *)
(* is open, no other thread is in the driver.                              *)
LEMMA LastHolder ==
  ASSUME UseInv, NEW t \in Threads, reference_count = 1, kkm = "alive",
         pc[t] \in ReleasePcs \cup {"kontainer_release"}
  PROVE  /\ \A u \in Threads \ {t} : pc[u] = "idle"
         /\ \A i \in Slots : file[i] = "none"
         /\ kontainer_file = "none"
<1>1. Holders <= 1
  BY DEF UseInv, HeldInv
<1>2. /\ TypeInv /\ pc \in [Threads -> Pcs] /\ file \in [Slots -> FileStates]
  BY DEF UseInv, LockInv, TypeInv, TypeOK
<1> DEFINE held == IF KontainerHeld THEN 1 ELSE 0
<1>3. Cardinality(Registered) + Cardinality(Releasing) + held <= 1
  BY <1>1 DEF Holders
<1>4. held \in {0, 1} /\ (held = 0 <=> ~KontainerHeld)
  OBVIOUS
<1> HIDE DEF held
<1>5. /\ pc[t] \in ReleasePcs => t \in Releasing
      /\ pc[t] = "kontainer_release" => KontainerHeld
  BY DEF Releasing, KontainerHeld
<1>6. /\ Registered = {} /\ \A u \in Releasing : u = t
      /\ KontainerHeld => Releasing = {} /\ pc[t] = "kontainer_release"
  <2>1. CASE t \in Releasing
    <3>1. \A u \in Releasing : u = t
      BY <1>2, <1>3, <1>4, <2>1, HoldersFinite
    <3>2. Registered = {} /\ ~KontainerHeld
      BY <1>2, <1>3, <1>4, <2>1, HoldersFinite
    <3> QED
      BY <3>1, <3>2
  <2>2. CASE KontainerHeld /\ pc[t] = "kontainer_release"
    <3>1. Registered = {} /\ Releasing = {}
      BY <1>2, <1>3, <1>4, <2>2, HoldersFinite
    <3> QED
      BY <2>2, <3>1
  <2> QED
    BY <1>5, <2>1, <2>2
<1>7. kontainer_file = "none"
  BY <1>6 DEF KontainerHeld, UseInv, KnownInv
<1>8. ASSUME NEW u \in Threads \ {t} PROVE pc[u] = "idle"
  <2>1. pc[u] \notin ReleasePcs
    BY <1>6 DEF Releasing
  <2>2. pc[u] \notin AddPcs
    BY <1>7 DEF UseInv, KnownInv
  <2>3. pc[u] # "kontainer_release"
    BY <1>6 DEF KontainerHeld, UseInv, HeldInv
  <2>4. pc[u] # "run"
    <3>1. pc[u] = "run" => slot[u] \in Registered
      BY <1>2 DEF TypeInv, SlotOK, UseInv, PagesInv, HolderInv, Registered
    <3> QED
      BY <1>6, <3>1
  <2> QED
    BY <1>2, <2>1, <2>2, <2>3, <2>4
<1>9. ASSUME NEW i \in Slots PROVE file[i] = "none"
  <2>1. file[i] \notin {"open", "closed"}
    BY <1>6 DEF Registered
  <2>2. file[i] # "hidden"
    <3>1. ASSUME NEW u \in Threads, ret_val[u] = i PROVE u # t /\ pc[u] # "idle"
      BY <3>1 DEF UseInv, PagesInv, HolderInv
    <3> QED
      BY <1>8, <3>1 DEF UseInv, BackedInv, BackedSlot
  <2> QED
    BY <1>2, <2>1, <2>2
<1> QED
  BY <1>7, <1>8, <1>9

(* A reference is dropped: the kontainer is freed by its last holder, or   *)
(* it lives on.                                                            *)
LEMMA DownUse ==
  ASSUME UseInv, NEW t \in Threads,
         pc[t] \in ReleasePcs \cup {"kontainer_release"},
         kkm_reference_count_down
  PROVE  /\ kkm = "alive"
         /\ \/ /\ reference_count = 1 /\ reference_count' = 0 /\ kkm' = "freed"
               /\ \A u \in Threads \ {t} : pc[u] = "idle"
               /\ \A i \in Slots : file[i] = "none"
               /\ kontainer_file = "none"
            \/ /\ reference_count > 1 /\ reference_count' = reference_count - 1
               /\ UNCHANGED <<kkm, allocated>>
            \/ /\ reference_count <= 0 /\ reference_count' = Saturated
               /\ UNCHANGED <<kkm, allocated>>
<1>1. reference_count \in Int
  BY DEF UseInv, LockInv, TypeInv, TypeOK
<1>2. kkm = "alive"
  BY DEF UseInv, HeldInv, AllIdle
<1>3. CASE reference_count = 1
  BY <1>2, <1>3, LastHolder DEF kkm_reference_count_down, RefDec
<1>4. CASE reference_count > 1
  BY <1>1, <1>2, <1>4 DEF kkm_reference_count_down, RefDec
<1>5. CASE reference_count <= 0
  BY <1>1, <1>2, <1>5 DEF kkm_reference_count_down, RefDec, Saturated
<1> QED
  BY <1>1, <1>3, <1>4, <1>5

(* Only a file whose number the monitor has can be let go.                 *)
LEMMA ClosedFile ==
  ASSUME UseInv, NEW t \in Threads, NEW i \in Slots,
         \/ slot[t] = i /\ RunEnd(t)
         \/ Munmap(t, i) \/ CloseKontext(t, i)
  PROVE  file[i] \in {"open", "closed"}
<1>1. CASE slot[t] = i /\ RunEnd(t)
  BY <1>1 DEF RunEnd, UseInv, PagesInv, HolderInv
<1>2. CASE Munmap(t, i)
  BY <1>2 DEF Munmap, UseInv, PagesInv, PageInv
<1>3. CASE CloseKontext(t, i)
  <2>1. file[i] # "hidden"
    <3>1. ASSUME AllIdle, NEW u \in Threads PROVE ret_val[u] # i
      BY <3>1 DEF AllIdle, UseInv, PagesInv, HolderInv
    <3> QED
      BY <1>3, <3>1
      DEF CloseKontext, Closable, UseInv, BackedInv, BackedSlot
  <2> QED
    BY <1>3, <2>1 DEF CloseKontext, Closable
<1> QED
  BY <1>1, <1>2, <1>3

(* A use, a mapping or a descriptor of a kontext ends: another thread's    *)
(* kontext is not touched.                                                 *)
LEMMA BackedClose ==
  ASSUME UseInv, NEW t \in Threads, NEW i \in Slots,
         \/ slot[t] = i /\ RunEnd(t)
         \/ Munmap(t, i) \/ CloseKontext(t, i)
  PROVE  BackedInv'
<1>1. PICK rest \in {"open", "closed"}, stillUsed \in BOOLEAN :
        DropKontextRef(t, i, rest, stillUsed)
  BY Sound, ClosePages
<1>2. UNCHANGED <<slotVars, ret_val>>
  BY DEF RunEnd, Munmap, CloseKontext
<1>3. file[i] \in {"open", "closed"}
  BY ClosedFile
<1>4. /\ \A u \in Threads \ {t} : pc'[u] = pc[u] /\ slot'[u] = slot[u]
      /\ \A j \in Slots \ {i} : file'[j] = file[j]
      /\ pc'[t] \in {"idle", "rel_free"}
      /\ file'[i] \in {"none", "open", "closed"}
  BY <1>1 DEF DropKontextRef, UseInv, LockInv, TypeInv, TypeOK
<1>5. ret_val[t] \notin Slots
  <2>1. pc[t] \in {"run", "idle"}
    BY Sound, ClosePages
  <2> QED
    BY <2>1 DEF UseInv, PagesInv, HolderInv
<1>6. ASSUME NEW u \in Threads PROVE BackedThread(u)'
  BY <1>2, <1>4, <1>5 DEF UseInv, BackedInv, BackedThread
<1>7. ASSUME NEW j \in Slots PROVE BackedSlot(j)'
  BY <1>2, <1>3, <1>4 DEF UseInv, BackedInv, BackedSlot
<1> QED
  BY <1>6, <1>7 DEF BackedInv

(* Every step keeps a kontext's pages with the add that hands it out.      *)
LEMMA BackedThreadStep ==
  ASSUME UseInv, EveryFileCounted, NEW u \in Threads, [Next]_vars
  PROVE  BackedThread(u)'
<1> USE ConstantsAssumption
    DEF UseInv, LockInv, LockDiscipline, TypeInv, TypeOK, SlotOK,
        PagesInv, HolderInv, PageInv, Apart, Claiming, Letting,
        Holding, BackedInv, BackedThread, BackedSlot
<1>1. ASSUME NEW t \in Threads, CreateKontainer(t) PROVE BackedThread(u)'
  BY <1>1 DEF CreateKontainer
<1>2. ASSUME NEW t \in Threads, CreateGetFdFails(t) PROVE BackedThread(u)'
  BY <1>2 DEF CreateGetFdFails
<1>3. ASSUME NEW t \in Threads, CreateInitFails(t) PROVE BackedThread(u)'
  BY <1>3 DEF CreateInitFails
<1>4. ASSUME NEW t \in Threads, AddBegin(t) PROVE BackedThread(u)'
  BY <1>4 DEF AddBegin, Enter
<1>5. ASSUME NEW t \in Threads, AddScanBusy(t) PROVE BackedThread(u)'
  BY <1>5 DEF AddScanBusy
<1>6. ASSUME NEW t \in Threads, AddClaim(t) PROVE BackedThread(u)'
  BY <1>6 DEF AddClaim
<1>7. ASSUME NEW t \in Threads, AddNoMemory(t) PROVE BackedThread(u)'
  BY <1>7 DEF AddNoMemory
<1>8. ASSUME NEW t \in Threads, AddRunsOff(t) PROVE BackedThread(u)'
  BY <1>8 DEF AddRunsOff
<1>9. ASSUME NEW t \in Threads, AddGetFd(t) PROVE BackedThread(u)'
  BY <1>9 DEF AddGetFd
<1>10. ASSUME NEW t \in Threads, AddGetFdFails(t) PROVE BackedThread(u)'
  BY <1>10 DEF AddGetFdFails
<1>11. ASSUME NEW t \in Threads, AddMapPages(t) PROVE BackedThread(u)'
  BY <1>11 DEF AddMapPages
<1>12. ASSUME NEW t \in Threads, AddMapPagesFails(t) PROVE BackedThread(u)'
  BY <1>12 DEF AddMapPagesFails, EveryFileCounted, Uncounted
<1>13. ASSUME NEW t \in Threads, AddKontextInit(t) PROVE BackedThread(u)'
  BY <1>13 DEF AddKontextInit
<1>14. ASSUME NEW t \in Threads, AddKontextInitFails(t) PROVE BackedThread(u)'
  BY <1>14 DEF AddKontextInitFails, EveryFileCounted, Uncounted
<1>15. ASSUME NEW t \in Threads, AddFinish(t) PROVE BackedThread(u)'
  BY <1>15 DEF AddFinish, LeaveAdd
<1>16. ASSUME NEW t \in Threads, AddError(t) PROVE BackedThread(u)'
  BY <1>16 DEF AddError, LeaveAdd
<1>17. ASSUME NEW t \in Threads, ReleaseFree(t) PROVE BackedThread(u)'
  BY <1>17 DEF ReleaseFree
<1>18. ASSUME NEW t \in Threads, ReleaseUnuse(t) PROVE BackedThread(u)'
  <2>1. allocated[slot[t]]
    BY <1>18, Sound DEF ReleaseUnuse, KnownInv
  <2> QED
    BY <1>18, <2>1 DEF ReleaseUnuse
<1>19. ASSUME NEW t \in Threads, ReleaseFirst(t) PROVE BackedThread(u)'
  BY <1>19 DEF ReleaseFirst
<1>20. ASSUME NEW t \in Threads, ReleaseCount(t) PROVE BackedThread(u)'
  BY <1>20 DEF ReleaseCount
<1>21. ASSUME NEW t \in Threads, ReleaseDown(t) PROVE BackedThread(u)'
  <2>1. /\ pc[t] \in ReleasePcs \cup {"kontainer_release"}
        /\ kkm_reference_count_down
        /\ pc' = [pc EXCEPT ![t] = "idle"]
        /\ UNCHANGED <<mmap_area, guest_area, ret_val>>
        /\ slot' \in {slot, [slot EXCEPT ![t] = 0]}
    BY <1>21 DEF ReleaseDown
  <2>2. \/ \A v \in Threads \ {t} : pc[v] = "idle"
        \/ UNCHANGED allocated
    BY <2>1, DownUse
  <2>3. ret_val[t] \notin Slots
    BY <2>1
  <2> QED
    BY <2>1, <2>2, <2>3
<1>22. ASSUME NEW t \in Threads, CloseKontainer(t) PROVE BackedThread(u)'
  BY <1>22 DEF CloseKontainer
<1>23. ASSUME NEW t \in Threads, KontainerRelease(t) PROVE BackedThread(u)'
  <2>1. /\ pc[t] \in ReleasePcs \cup {"kontainer_release"}
        /\ kkm_reference_count_down
        /\ pc' = [pc EXCEPT ![t] = "idle"]
        /\ UNCHANGED <<mmap_area, guest_area, ret_val>>
        /\ slot' \in {slot, [slot EXCEPT ![t] = 0]}
    BY <1>23 DEF KontainerRelease
  <2>2. \/ \A v \in Threads \ {t} : pc[v] = "idle"
        \/ UNCHANGED allocated
    BY <2>1, DownUse
  <2>3. ret_val[t] \notin Slots
    BY <2>1
  <2> QED
    BY <2>1, <2>2, <2>3
<1>24. ASSUME NEW t \in Threads, RunEnd(t) PROVE BackedThread(u)'
  <2>1. slot[t] \in Slots
    BY <1>24 DEF RunEnd
  <2> HIDE DEF UseInv, BackedInv, BackedThread, BackedSlot
  <2> QED
    BY <1>24, <2>1, BackedClose DEF BackedInv
<1>25. ASSUME NEW t \in Threads, NEW mm \in Mms, NEW vcpu_id \in VcpuIds,
             AddLock(t, mm, vcpu_id)
      PROVE  BackedThread(u)'
  BY <1>25 DEF AddLock, AddAllowed
<1>26. ASSUME NEW t \in Threads, NEW mm \in Mms, NEW vcpu_id \in VcpuIds,
             AddRefused(t, mm, vcpu_id)
      PROVE  BackedThread(u)'
  BY <1>26 DEF AddRefused
<1>27. ASSUME NEW t \in Threads, NEW i \in Slots, RunBegin(t, i)
      PROVE  BackedThread(u)'
  BY <1>27 DEF RunBegin, Enter
<1>28. ASSUME NEW t \in Threads, NEW i \in Slots, Mmap(t, i)
      PROVE  BackedThread(u)'
  BY <1>28 DEF Mmap
<1>29. ASSUME NEW t \in Threads, NEW i \in Slots, Munmap(t, i)
      PROVE  BackedThread(u)'
  <2> HIDE DEF UseInv, BackedInv, BackedThread, BackedSlot
  <2> QED
    BY <1>29, BackedClose DEF BackedInv
<1>30. ASSUME NEW t \in Threads, NEW i \in Slots, CloseKontext(t, i)
      PROVE  BackedThread(u)'
  <2> HIDE DEF UseInv, BackedInv, BackedThread, BackedSlot
  <2> QED
    BY <1>30, BackedClose DEF BackedInv
<1>31. ASSUME Kill PROVE BackedThread(u)'
  BY <1>31 DEF Kill
<1>32. ASSUME UNCHANGED vars PROVE BackedThread(u)'
  BY <1>32 DEF vars
<1>33. ASSUME NEW t \in Threads, NEW first \in BOOLEAN, SetSaveInfo(t, first)
       PROVE  BackedThread(u)'
  BY <1>33 DEF SetSaveInfo
<1> QED
  BY <1>1, <1>2, <1>3, <1>4, <1>5, <1>6, <1>7, <1>8, <1>9, <1>10, <1>11,
     <1>12, <1>13, <1>14, <1>15, <1>16, <1>17, <1>18, <1>19, <1>20, <1>21,
     <1>22, <1>23, <1>24, <1>25, <1>26, <1>27, <1>28, <1>29, <1>30, <1>31,
     <1>32, <1>33
  DEF Next, Driver, Request, Close, Exited

(* Every step keeps the pages behind a descriptor.                         *)
LEMMA BackedSlotStep ==
  ASSUME UseInv, EveryFileCounted, NEW j \in Slots, [Next]_vars
  PROVE  BackedSlot(j)'
<1> USE ConstantsAssumption
    DEF UseInv, LockInv, LockDiscipline, TypeInv, TypeOK, SlotOK,
        PagesInv, HolderInv, PageInv, Apart, Claiming, Letting,
        Holding, BackedInv, BackedThread, BackedSlot
<1>1. ASSUME NEW t \in Threads, CreateKontainer(t) PROVE BackedSlot(j)'
  BY <1>1 DEF CreateKontainer
<1>2. ASSUME NEW t \in Threads, CreateGetFdFails(t) PROVE BackedSlot(j)'
  BY <1>2 DEF CreateGetFdFails
<1>3. ASSUME NEW t \in Threads, CreateInitFails(t) PROVE BackedSlot(j)'
  BY <1>3 DEF CreateInitFails
<1>4. ASSUME NEW t \in Threads, AddBegin(t) PROVE BackedSlot(j)'
  BY <1>4 DEF AddBegin, Enter
<1>5. ASSUME NEW t \in Threads, AddScanBusy(t) PROVE BackedSlot(j)'
  BY <1>5 DEF AddScanBusy
<1>6. ASSUME NEW t \in Threads, AddClaim(t) PROVE BackedSlot(j)'
  <2>1. UNCHANGED <<guest_area, mmap_area, file, ret_val>>
    BY <1>6 DEF AddClaim
  <2>2. BackedSlot(j)
    OBVIOUS
  <2> HIDE DEF UseInv, LockInv, PagesInv, BackedInv
  <2> QED
    BY <2>1, <2>2
<1>7. ASSUME NEW t \in Threads, AddNoMemory(t) PROVE BackedSlot(j)'
  <2>4. UNCHANGED <<slotVars, fileVars>>
    BY <1>7 DEF AddNoMemory
  <2>5. ret_val' = [ret_val EXCEPT ![t] = ENOMEM] /\ pc[t] = "add_scan"
    BY <1>7 DEF AddNoMemory
  <2>6. ret_val \in [Threads -> Slots \cup {0, EINVAL, ENOMEM}]
    BY DEF UseInv, LockInv, TypeInv, TypeOK
  <2>7. \A v \in Threads \ {t} : ret_val'[v] = ret_val[v]
    BY <2>5, <2>6
  <2>8. ret_val[t] \notin Slots
    BY <2>5 DEF UseInv, PagesInv, HolderInv
  <2>1. /\ ret_val[t] \notin Slots
        /\ \A v \in Threads \ {t} : ret_val'[v] = ret_val[v]
        /\ UNCHANGED <<slotVars, fileVars>>
    BY <2>4, <2>7, <2>8
  <2>2. BackedSlot(j)
    OBVIOUS
  <2> HIDE DEF UseInv, LockInv, PagesInv, BackedInv
  <2> QED
    BY <2>1, <2>2
<1>8. ASSUME NEW t \in Threads, AddRunsOff(t) PROVE BackedSlot(j)'
  BY <1>8 DEF AddRunsOff
<1>9. ASSUME NEW t \in Threads, AddGetFd(t) PROVE BackedSlot(j)'
  <2>1. ret_val'[t] = slot[t] /\ ret_val[t] \notin Slots
    BY <1>9 DEF AddGetFd
  <2> QED
    BY <1>9, <2>1 DEF AddGetFd
<1>10. ASSUME NEW t \in Threads, AddGetFdFails(t) PROVE BackedSlot(j)'
  BY <1>10 DEF AddGetFdFails
<1>11. ASSUME NEW t \in Threads, AddMapPages(t) PROVE BackedSlot(j)'
  BY <1>11 DEF AddMapPages
<1>12. ASSUME NEW t \in Threads, AddMapPagesFails(t) PROVE BackedSlot(j)'
  BY <1>12 DEF AddMapPagesFails, EveryFileCounted, Uncounted
<1>13. ASSUME NEW t \in Threads, AddKontextInit(t) PROVE BackedSlot(j)'
  BY <1>13 DEF AddKontextInit
<1>14. ASSUME NEW t \in Threads, AddKontextInitFails(t) PROVE BackedSlot(j)'
  BY <1>14 DEF AddKontextInitFails, EveryFileCounted, Uncounted
<1>15. ASSUME NEW t \in Threads, AddFinish(t) PROVE BackedSlot(j)'
  BY <1>15 DEF AddFinish, LeaveAdd
<1>16. ASSUME NEW t \in Threads, AddError(t) PROVE BackedSlot(j)'
  BY <1>16 DEF AddError, LeaveAdd
<1>17. ASSUME NEW t \in Threads, ReleaseFree(t) PROVE BackedSlot(j)'
  BY <1>17 DEF ReleaseFree
<1>18. ASSUME NEW t \in Threads, ReleaseUnuse(t) PROVE BackedSlot(j)'
  BY <1>18 DEF ReleaseUnuse
<1>19. ASSUME NEW t \in Threads, ReleaseFirst(t) PROVE BackedSlot(j)'
  BY <1>19 DEF ReleaseFirst
<1>20. ASSUME NEW t \in Threads, ReleaseCount(t) PROVE BackedSlot(j)'
  BY <1>20 DEF ReleaseCount
<1>21. ASSUME NEW t \in Threads, ReleaseDown(t) PROVE BackedSlot(j)'
  <2>1. kkm_reference_count_down
    BY <1>21 DEF ReleaseDown
  <2> QED
    BY <1>21, <2>1, DownUse DEF ReleaseDown
<1>22. ASSUME NEW t \in Threads, CloseKontainer(t) PROVE BackedSlot(j)'
  BY <1>22 DEF CloseKontainer
<1>23. ASSUME NEW t \in Threads, KontainerRelease(t) PROVE BackedSlot(j)'
  <2>1. kkm_reference_count_down
    BY <1>23 DEF KontainerRelease
  <2> QED
    BY <1>23, <2>1, DownUse DEF KontainerRelease
<1>24. ASSUME NEW t \in Threads, RunEnd(t) PROVE BackedSlot(j)'
  <2>1. slot[t] \in Slots
    BY <1>24 DEF RunEnd
  <2> HIDE DEF UseInv, BackedInv, BackedThread, BackedSlot
  <2> QED
    BY <1>24, <2>1, BackedClose DEF BackedInv
<1>25. ASSUME NEW t \in Threads, NEW mm \in Mms, NEW vcpu_id \in VcpuIds,
             AddLock(t, mm, vcpu_id)
      PROVE  BackedSlot(j)'
  BY <1>25 DEF AddLock, AddAllowed
<1>26. ASSUME NEW t \in Threads, NEW mm \in Mms, NEW vcpu_id \in VcpuIds,
             AddRefused(t, mm, vcpu_id)
      PROVE  BackedSlot(j)'
  <2>4. UNCHANGED <<slotVars, fileVars>>
    BY <1>26 DEF AddRefused
  <2>5. ret_val' = [ret_val EXCEPT ![t] = EINVAL] /\ pc[t] = "add_lock"
    BY <1>26 DEF AddRefused
  <2>6. ret_val \in [Threads -> Slots \cup {0, EINVAL, ENOMEM}]
    BY DEF UseInv, LockInv, TypeInv, TypeOK
  <2>7. \A v \in Threads \ {t} : ret_val'[v] = ret_val[v]
    BY <2>5, <2>6
  <2>8. ret_val[t] \notin Slots
    BY <2>5 DEF UseInv, PagesInv, HolderInv
  <2>1. /\ ret_val[t] \notin Slots
        /\ \A v \in Threads \ {t} : ret_val'[v] = ret_val[v]
        /\ UNCHANGED <<slotVars, fileVars>>
    BY <2>4, <2>7, <2>8
  <2>2. BackedSlot(j)
    OBVIOUS
  <2> HIDE DEF UseInv, LockInv, PagesInv, BackedInv
  <2> QED
    BY <2>1, <2>2
<1>27. ASSUME NEW t \in Threads, NEW i \in Slots, RunBegin(t, i)
      PROVE  BackedSlot(j)'
  BY <1>27 DEF RunBegin, Enter
<1>28. ASSUME NEW t \in Threads, NEW i \in Slots, Mmap(t, i)
      PROVE  BackedSlot(j)'
  BY <1>28 DEF Mmap
<1>29. ASSUME NEW t \in Threads, NEW i \in Slots, Munmap(t, i)
      PROVE  BackedSlot(j)'
  <2> HIDE DEF UseInv, BackedInv, BackedThread, BackedSlot
  <2> QED
    BY <1>29, BackedClose DEF BackedInv
<1>30. ASSUME NEW t \in Threads, NEW i \in Slots, CloseKontext(t, i)
      PROVE  BackedSlot(j)'
  <2> HIDE DEF UseInv, BackedInv, BackedThread, BackedSlot
  <2> QED
    BY <1>30, BackedClose DEF BackedInv
<1>31. ASSUME Kill PROVE BackedSlot(j)'
  BY <1>31 DEF Kill
<1>32. ASSUME UNCHANGED vars PROVE BackedSlot(j)'
  BY <1>32 DEF vars
<1>33. ASSUME NEW t \in Threads, NEW first \in BOOLEAN, SetSaveInfo(t, first)
       PROVE  BackedSlot(j)'
  BY <1>33 DEF SetSaveInfo
<1> QED
  BY <1>1, <1>2, <1>3, <1>4, <1>5, <1>6, <1>7, <1>8, <1>9, <1>10, <1>11,
     <1>12, <1>13, <1>14, <1>15, <1>16, <1>17, <1>18, <1>19, <1>20, <1>21,
     <1>22, <1>23, <1>24, <1>25, <1>26, <1>27, <1>28, <1>29, <1>30, <1>31,
     <1>32, <1>33
  DEF Next, Driver, Request, Close, Exited

(* A step of a thread that holds the kontainer, and registers, releases    *)
(* and lets go of nothing.                                                 *)
LEMMA HeldFrame ==
  ASSUME UseInv, kkm = "alive", reference_count >= 1, NEW t \in Threads,
         \A u \in Threads \ {t} : pc'[u] = pc[u],
         pc'[t] \in ReleasePcs <=> pc[t] \in ReleasePcs,
         pc'[t] = "kontainer_release" =>
           pc[t] = "kontainer_release" \/ kontainer_file # "none",
         \A i \in Slots : file'[i] \in {"open", "closed"}
                            <=> file[i] \in {"open", "closed"},
         kontainer_file = "none" => kontainer_file' = "none",
         kontainer_file' # "hidden",
         UNCHANGED <<kkm, reference_count>>
  PROVE  HeldInv'
<1>1. Registered' = Registered /\ Releasing' = Releasing
  BY DEF Registered, Releasing
<1>2. KontainerHeld' => KontainerHeld
  BY DEF KontainerHeld
<1>3. \A u, v \in Threads :
        pc'[u] = "kontainer_release" /\ pc'[v] = "kontainer_release" => u = v
  BY DEF UseInv, HeldInv, KnownInv
<1>4. /\ reference_count \in Int /\ reference_count >= Holders
      /\ Cardinality(Registered) \in Nat /\ Cardinality(Releasing) \in Nat
  BY HoldersFinite DEF UseInv, HeldInv, LockInv, TypeInv, TypeOK
<1> HIDE DEF Registered, Releasing, KontainerHeld
<1>5. Holders' <= Holders
  BY <1>1, <1>2, <1>4 DEF Holders
<1>6. Holders' \in Int /\ Holders \in Int
  BY <1>1, <1>4 DEF Holders
<1>7. reference_count' >= 1 /\ reference_count' >= Holders'
  BY <1>4, <1>5, <1>6
<1> QED
  BY <1>3, <1>7 DEF HeldInv

(* A kontainer is created for the file that holds it.                      *)
LEMMA HeldCreate ==
  ASSUME UseInv, NEW t \in Threads, CreateKontainer(t)
  PROVE  HeldInv'
<1>1. /\ kkm = "none" /\ kkm' = "alive" /\ kontainer_file' = "open"
      /\ reference_count' = 1 /\ UNCHANGED <<file, pc>>
  BY DEF CreateKontainer
<1>2. /\ \A u \in Threads : pc[u] = "idle"
      /\ \A i \in Slots : file[i] = "none"
  BY <1>1 DEF UseInv, HeldInv, AllIdle, Abandoned
<1>3. Registered' = {} /\ Releasing' = {} /\ KontainerHeld'
  BY <1>1, <1>2 DEF Registered, Releasing, KontainerHeld
<1> HIDE DEF Registered, Releasing, KontainerHeld
<1>4. Holders' = 1
  <2>1. Cardinality({}) = 0
    BY FS_EmptySet
  <2> QED
    BY <1>3, <2>1 DEF Holders
<1> QED
  BY <1>1, <1>2, <1>4 DEF HeldInv

(* An add counts the kontext whose descriptor it hands out, and one that   *)
(* has no descriptor too.                                                  *)
LEMMA HeldAddFinish ==
  ASSUME UseInv, NEW t \in Threads, AddFinish(t)
  PROVE  HeldInv'
<1>1. /\ pc[t] = "add_finish" /\ LeaveAdd(t) /\ kkm' = kkm
      /\ reference_count' = RefInc(reference_count)
  BY DEF AddFinish
<1>2. /\ BaseInv /\ kkm = "alive" /\ reference_count >= 1
      /\ reference_count >= Holders
      /\ kontainer_file \in {"open", "closed"}
  BY <1>1, Sound DEF UseInv, KnownInv
<1>3. /\ \A u \in Threads \ {t} : pc'[u] = pc[u]
      /\ pc'[t] \notin ReleasePcs
      /\ kontainer_file' \in {"none", kontainer_file}
  BY <1>1, <1>2, LeaveFiles DEF LeaveAdd
<1>4. /\ file \in [Slots -> FileStates] /\ reference_count \in Int
      /\ \/ file' = file
         \/ \E i \in Slots : file' = [file EXCEPT ![i] = "open"]
  BY <1>1 DEF LeaveAdd, UseInv, LockInv, TypeInv, TypeOK
<1>5. Releasing' = Releasing
  BY <1>1, <1>3 DEF Releasing
<1>6. KontainerHeld
  BY <1>2 DEF KontainerHeld
<1>7. \A u, v \in Threads :
        pc'[u] = "kontainer_release" /\ pc'[v] = "kontainer_release" => u = v
  BY <1>2, <1>3 DEF UseInv, KnownInv
<1>8. /\ Cardinality(Registered') <= Cardinality(Registered) + 1
      /\ Cardinality(Registered') \in Nat
  <2>1. /\ Registered' = Registered
        \/ \E i \in Slots : Registered' = Registered \cup {i}
    BY <1>4 DEF Registered
  <2>2. IsFiniteSet(Registered) /\ Cardinality(Registered) \in Nat
    BY HoldersFinite DEF UseInv, LockInv
  <2>3. ASSUME NEW i
        PROVE  /\ Cardinality(Registered \cup {i}) \in Nat
               /\ Cardinality(Registered \cup {i})
                    <= Cardinality(Registered) + 1
    <3>1. CASE i \in Registered
      <4>1. Registered \cup {i} = Registered
        BY <3>1
      <4>2. Cardinality(Registered \cup {i}) = Cardinality(Registered)
        BY <4>1
      <4> QED
        BY <2>2, <4>2
    <3>2. CASE i \notin Registered
      <4>1. Cardinality(Registered \cup {i}) = Cardinality(Registered) + 1
        BY <2>2, <3>2, FS_AddElement
      <4> QED
        BY <2>2, <4>1
    <3> QED
      BY <3>1, <3>2
  <2> HIDE DEF Registered
  <2> QED
    BY <2>1, <2>2, <2>3
<1>9. Cardinality(Registered) \in Nat /\ Cardinality(Releasing) \in Nat
  BY HoldersFinite DEF UseInv, LockInv
<1> HIDE DEF Registered, Releasing, KontainerHeld
<1>10. Holders' <= Holders + 1 /\ Holders \in Int /\ Holders' \in Int
  BY <1>5, <1>6, <1>8, <1>9 DEF Holders
<1>11. reference_count' = reference_count + 1
  BY <1>1, <1>2, <1>4 DEF RefInc
<1>12. reference_count' >= 1 /\ reference_count' >= Holders'
  BY <1>2, <1>4, <1>10, <1>11
<1> QED
  BY <1>1, <1>2, <1>3, <1>7, <1>12 DEF HeldInv

(* The last reference to a kontext's file becomes a release that still     *)
(* holds the kontainer.                                                    *)
LEMMA HeldClose ==
  ASSUME UseInv, NEW t \in Threads, NEW i \in Slots,
         \/ slot[t] = i /\ RunEnd(t)
         \/ Munmap(t, i) \/ CloseKontext(t, i)
  PROVE  HeldInv'
<1>1. PICK rest \in {"open", "closed"}, stillUsed \in BOOLEAN :
        DropKontextRef(t, i, rest, stillUsed)
  BY Sound, ClosePages
<1>2. file[i] \in {"open", "closed"} /\ pc[t] \in {"run", "idle"}
  BY Sound, ClosePages, ClosedFile
<1>3. UNCHANGED <<kkm, reference_count, kontainer_file>>
  BY DEF RunEnd, Munmap, CloseKontext
<1>4. /\ kkm = "alive" /\ reference_count >= 1 /\ reference_count >= Holders
      /\ kontainer_file # "hidden"
  BY <1>2, Sound
<1>5. /\ file \in [Slots -> FileStates] /\ pc \in [Threads -> Pcs]
      /\ reference_count \in Int
  BY DEF UseInv, LockInv, TypeInv, TypeOK
<1>6. CASE rest = "closed" /\ ~stillUsed
  <2>1. /\ file' = [file EXCEPT ![i] = "none"]
        /\ pc' = [pc EXCEPT ![t] = "rel_free"]
    BY <1>1, <1>6 DEF DropKontextRef
  <2>2. /\ Registered' = Registered \ {i} /\ i \in Registered
        /\ Releasing' = Releasing \cup {t} /\ t \notin Releasing
        /\ KontainerHeld' <=> KontainerHeld
    BY <1>2, <1>3, <1>5, <2>1 DEF Registered, Releasing, KontainerHeld
  <2>3. /\ IsFiniteSet(Registered) /\ Cardinality(Registered) \in Nat
        /\ IsFiniteSet(Releasing) /\ Cardinality(Releasing) \in Nat
    BY HoldersFinite DEF UseInv, LockInv
  <2>4. \A u, v \in Threads :
          pc'[u] = "kontainer_release" /\ pc'[v] = "kontainer_release"
            => u = v
    BY <1>5, <2>1 DEF UseInv, HeldInv
  <2> HIDE DEF Registered, Releasing, KontainerHeld
  <2>5. /\ Cardinality(Registered') = Cardinality(Registered) - 1
        /\ Cardinality(Releasing') = Cardinality(Releasing) + 1
    BY <2>2, <2>3, FS_AddElement, FS_RemoveElement
  <2>6. Holders' = Holders
    BY <2>2, <2>3, <2>5 DEF Holders
  <2> QED
    BY <1>3, <1>4, <2>4, <2>6 DEF HeldInv
<1>7. CASE rest = "open" \/ stillUsed
  <2>1. file' = [file EXCEPT ![i] = rest] /\ pc' = [pc EXCEPT ![t] = "idle"]
    BY <1>1, <1>7 DEF DropKontextRef
  <2>2. \A j \in Slots : file'[j] \in {"open", "closed"}
                           <=> file[j] \in {"open", "closed"}
    BY <1>2, <1>5, <2>1
  <2>3. /\ \A u \in Threads \ {t} : pc'[u] = pc[u]
        /\ pc'[t] = "idle"
    BY <1>5, <2>1
  <2> QED
    BY <1>2, <1>3, <1>4, <2>2, <2>3, HeldFrame
<1> QED
  BY <1>6, <1>7

(* A release ends and gives back the reference that it held.               *)
LEMMA HeldDown ==
  ASSUME UseInv, NEW t \in Threads, ReleaseDown(t) \/ KontainerRelease(t)
  PROVE  HeldInv'
<1>1. /\ pc[t] \in {"rel_down", "kontainer_release"}
      /\ pc' = [pc EXCEPT ![t] = "idle"] /\ pc \in [Threads -> Pcs]
      /\ kkm_reference_count_down /\ UNCHANGED <<kontainer_file, file>>
      /\ reference_count \in Int
  BY DEF ReleaseDown, KontainerRelease, UseInv, LockInv, TypeInv, TypeOK
<1>2. \A u, v \in Threads :
        pc'[u] = "kontainer_release" /\ pc'[v] = "kontainer_release" => u = v
  BY <1>1 DEF UseInv, HeldInv
<1>3. kkm = "alive"
  BY <1>1, DownUse
<1>4. CASE reference_count = 1
  <2>1. /\ kkm' = "freed" /\ kontainer_file' = "none"
        /\ \A u \in Threads : pc'[u] = "idle"
        /\ \A i \in Slots : file'[i] = "none"
    BY <1>1, <1>4, DownUse
  <2> QED
    BY <2>1 DEF HeldInv, AllIdle, Abandoned
<1>5. CASE reference_count > 1
  <2>1. reference_count' = reference_count - 1 /\ kkm' = kkm
    BY <1>1, <1>5, DownUse
  <2>2. reference_count >= Holders /\ kontainer_file # "hidden"
    BY <1>1, <1>3, <1>5 DEF UseInv, HeldInv
  <2>3. Registered' = Registered
    BY <1>1 DEF Registered
  <2>4. /\ IsFiniteSet(Releasing) /\ Cardinality(Releasing) \in Nat
        /\ Cardinality(Registered) \in Nat
    BY HoldersFinite DEF UseInv, LockInv
  <2>5. Holders' = Holders - 1 /\ Holders \in Int
    <3>1. CASE pc[t] = "rel_down"
      <4>1. /\ Releasing' = Releasing \ {t} /\ t \in Releasing
            /\ KontainerHeld' <=> KontainerHeld
        BY <1>1, <3>1 DEF Releasing, KontainerHeld
      <4> HIDE DEF Releasing, Registered, KontainerHeld
      <4>2. Cardinality(Releasing') = Cardinality(Releasing) - 1
        BY <2>4, <4>1, FS_RemoveElement
      <4> QED
        BY <2>3, <2>4, <4>1, <4>2 DEF Holders
    <3>2. CASE pc[t] = "kontainer_release"
      <4>1. Releasing' = Releasing
        BY <1>1, <3>2 DEF Releasing
      <4>2. KontainerHeld /\ ~KontainerHeld'
        BY <1>1, <3>2 DEF KontainerHeld, UseInv, KnownInv, HeldInv
      <4> HIDE DEF Releasing, Registered, KontainerHeld
      <4> QED
        BY <2>3, <2>4, <4>1, <4>2 DEF Holders
    <3> QED
      BY <1>1, <3>1, <3>2
  <2>6. reference_count' >= 1 /\ reference_count' >= Holders'
    BY <1>1, <1>5, <2>1, <2>2, <2>5
  <2> QED
    BY <1>1, <1>2, <1>3, <2>1, <2>2, <2>6 DEF HeldInv
<1>6. CASE reference_count <= 0
  <2>1. reference_count' = Saturated /\ kkm' = kkm
    BY <1>1, <1>6, DownUse
  <2>2. Abandoned /\ kontainer_file \in {"none", "hidden"}
    BY <1>1, <1>3, <1>6 DEF UseInv, HeldInv
  <2>3. Abandoned'
    BY <1>1, <2>2 DEF Abandoned
  <2> QED
    BY <1>1, <1>2, <1>3, <2>1, <2>2, <2>3 DEF HeldInv, Saturated
<1> QED
  BY <1>1, <1>4, <1>5, <1>6

(* The kontainer's file is closed: its last user goes on to release it.    *)
LEMMA HeldCloseKontainer ==
  ASSUME UseInv, NEW t \in Threads, CloseKontainer(t)
  PROVE  HeldInv'
<1>1. /\ kontainer_file \in {"open", "hidden"}
      /\ UNCHANGED <<kkm, reference_count, file>>
      /\ pc[t] = "idle" /\ pc \in [Threads -> Pcs]
  BY DEF CloseKontainer, Closable, UseInv, LockInv, TypeInv, TypeOK
<1>2. /\ \A u \in Threads \ {t} : pc'[u] = pc[u]
      /\ pc'[t] \in {"idle", "kontainer_release"}
      /\ kontainer_file' \in {"closed", "none"}
  BY <1>1 DEF CloseKontainer
<1>3. CASE kontainer_file = "open"
  BY <1>1, <1>2, <1>3, Sound, HeldFrame
<1>4. CASE kontainer_file = "hidden"
  <2>1. kkm = "alive" /\ reference_count <= 0 /\ Abandoned
    BY <1>4 DEF UseInv, HeldInv
  <2>2. kontainer_file' = "none" /\ Abandoned'
    BY <1>1, <1>2, <2>1 DEF CloseKontainer, Abandoned
  <2>3. \A u, v \in Threads :
          pc'[u] = "kontainer_release" /\ pc'[v] = "kontainer_release"
            => u = v
    BY <1>1, <1>2, <1>4 DEF UseInv, KnownInv
  <2> QED
    BY <1>1, <2>1, <2>2, <2>3 DEF HeldInv
<1> QED
  BY <1>1, <1>3, <1>4

(* Every step keeps a reference for every holder of a kontainer that lives. *)
LEMMA HeldStep ==
  ASSUME UseInv, EveryFileCounted, [Next]_vars
  PROVE  HeldInv'
<1>1. ASSUME NEW t \in Threads, CreateKontainer(t) PROVE HeldInv'
  BY <1>1, HeldCreate
<1>2. ASSUME NEW t \in Threads, CreateGetFdFails(t) PROVE HeldInv'
  BY <1>2 DEF CreateGetFdFails, UseInv, HeldInv, AllIdle, Abandoned
<1>3. ASSUME NEW t \in Threads, CreateInitFails(t) PROVE HeldInv'
  BY <1>3 DEF CreateInitFails, UseInv, HeldInv, AllIdle, Abandoned
<1>4. ASSUME NEW t \in Threads, AddBegin(t) PROVE HeldInv'
  <2>1. /\ kkm = "alive" /\ reference_count >= 1
        /\ kontainer_file # "hidden"
    BY <1>4, Sound DEF AddBegin, Enter
  <2> QED
    BY <1>4, <2>1, HeldFrame DEF AddBegin, Enter, UseInv, LockInv, TypeInv, TypeOK
<1>5. ASSUME NEW t \in Threads, AddScanBusy(t) PROVE HeldInv'
  <2>1. /\ kkm = "alive" /\ reference_count >= 1
        /\ kontainer_file # "hidden"
    BY <1>5, Sound DEF AddScanBusy
  <2> QED
    BY <1>5, <2>1, HeldFrame DEF AddScanBusy, UseInv, LockInv, TypeInv, TypeOK
<1>6. ASSUME NEW t \in Threads, AddClaim(t) PROVE HeldInv'
  <2>1. /\ kkm = "alive" /\ reference_count >= 1
        /\ kontainer_file # "hidden"
    BY <1>6, Sound DEF AddClaim
  <2> QED
    BY <1>6, <2>1, HeldFrame DEF AddClaim, UseInv, LockInv, TypeInv, TypeOK
<1>7. ASSUME NEW t \in Threads, AddNoMemory(t) PROVE HeldInv'
  <2>1. /\ kkm = "alive" /\ reference_count >= 1
        /\ kontainer_file # "hidden"
    BY <1>7, Sound DEF AddNoMemory
  <2> QED
    BY <1>7, <2>1, HeldFrame DEF AddNoMemory, UseInv, LockInv, TypeInv, TypeOK
<1>8. ASSUME NEW t \in Threads, AddRunsOff(t) PROVE HeldInv'
  <2>1. /\ kkm = "alive" /\ reference_count >= 1
        /\ kontainer_file # "hidden"
    BY <1>8, Sound DEF AddRunsOff
  <2> QED
    BY <1>8, <2>1, HeldFrame DEF AddRunsOff, UseInv, LockInv, TypeInv, TypeOK
<1>9. ASSUME NEW t \in Threads, AddGetFd(t) PROVE HeldInv'
  <2>1. /\ kkm = "alive" /\ reference_count >= 1
        /\ kontainer_file # "hidden"
    BY <1>9, Sound DEF AddGetFd
  <2>2. \A i \in Slots : file'[i] \in {"open", "closed"}
                           <=> file[i] \in {"open", "closed"}
    BY <1>9
    DEF AddGetFd, UseInv, PagesInv, HolderInv, LockInv, TypeInv, TypeOK
  <2>3. /\ \A u \in Threads \ {t} : pc'[u] = pc[u]
        /\ pc[t] = "add_getfd" /\ pc'[t] = "add_map"
        /\ UNCHANGED objectVars
    BY <1>9 DEF AddGetFd, UseInv, LockInv, TypeInv, TypeOK
  <2> QED
    BY <2>1, <2>2, <2>3, HeldFrame
<1>10. ASSUME NEW t \in Threads, AddGetFdFails(t) PROVE HeldInv'
  <2>1. /\ kkm = "alive" /\ reference_count >= 1
        /\ kontainer_file # "hidden"
    BY <1>10, Sound DEF AddGetFdFails
  <2> QED
    BY <1>10, <2>1, HeldFrame DEF AddGetFdFails, UseInv, LockInv, TypeInv, TypeOK
<1>11. ASSUME NEW t \in Threads, AddMapPages(t) PROVE HeldInv'
  <2>1. /\ kkm = "alive" /\ reference_count >= 1
        /\ kontainer_file # "hidden"
    BY <1>11, Sound DEF AddMapPages
  <2> QED
    BY <1>11, <2>1, HeldFrame DEF AddMapPages, UseInv, LockInv, TypeInv, TypeOK
<1>12. ASSUME NEW t \in Threads, AddMapPagesFails(t) PROVE HeldInv'
  BY <1>12 DEF AddMapPagesFails, EveryFileCounted, Uncounted
<1>13. ASSUME NEW t \in Threads, AddKontextInit(t) PROVE HeldInv'
  <2>1. /\ kkm = "alive" /\ reference_count >= 1
        /\ kontainer_file # "hidden"
    BY <1>13, Sound DEF AddKontextInit
  <2> QED
    BY <1>13, <2>1, HeldFrame DEF AddKontextInit, UseInv, LockInv, TypeInv, TypeOK
<1>14. ASSUME NEW t \in Threads, AddKontextInitFails(t) PROVE HeldInv'
  BY <1>14 DEF AddKontextInitFails, EveryFileCounted, Uncounted
<1>15. ASSUME NEW t \in Threads, AddFinish(t) PROVE HeldInv'
  BY <1>15, HeldAddFinish
<1>16. ASSUME NEW t \in Threads, AddError(t) PROVE HeldInv'
  <2>1. pc[t] = "add_error" /\ LeaveAdd(t) /\ ret_val[t] \notin Slots
    BY <1>16 DEF AddError, UseInv, BackedInv, BackedThread
  <2>2. /\ UNCHANGED <<kkm, reference_count, file>>
        /\ kontainer_file' \in {"none", kontainer_file}
    BY <1>16, <2>1 DEF AddError, LeaveAdd
  <2>3. /\ kkm = "alive" /\ reference_count >= 1
        /\ kontainer_file \in {"open", "closed"}
    BY <2>1, Sound DEF UseInv, KnownInv
  <2> QED
    BY <2>1, <2>2, <2>3, Sound, LeaveFiles, HeldFrame
<1>17. ASSUME NEW t \in Threads, ReleaseFree(t) PROVE HeldInv'
  <2>1. /\ kkm = "alive" /\ reference_count >= 1
        /\ kontainer_file # "hidden"
    BY <1>17, Sound DEF ReleaseFree
  <2> QED
    BY <1>17, <2>1, HeldFrame DEF ReleaseFree, UseInv, LockInv, TypeInv, TypeOK
<1>18. ASSUME NEW t \in Threads, ReleaseUnuse(t) PROVE HeldInv'
  <2>1. /\ kkm = "alive" /\ reference_count >= 1
        /\ kontainer_file # "hidden"
    BY <1>18, Sound DEF ReleaseUnuse
  <2> QED
    BY <1>18, <2>1, HeldFrame DEF ReleaseUnuse, UseInv, LockInv, TypeInv, TypeOK
<1>19. ASSUME NEW t \in Threads, ReleaseFirst(t) PROVE HeldInv'
  <2>1. /\ kkm = "alive" /\ reference_count >= 1
        /\ kontainer_file # "hidden"
    BY <1>19, Sound DEF ReleaseFirst
  <2> QED
    BY <1>19, <2>1, HeldFrame DEF ReleaseFirst, UseInv, LockInv, TypeInv, TypeOK
<1>20. ASSUME NEW t \in Threads, ReleaseCount(t) PROVE HeldInv'
  <2>1. /\ kkm = "alive" /\ reference_count >= 1
        /\ kontainer_file # "hidden"
    BY <1>20, Sound DEF ReleaseCount
  <2> QED
    BY <1>20, <2>1, HeldFrame DEF ReleaseCount, UseInv, LockInv, TypeInv, TypeOK
<1>21. ASSUME NEW t \in Threads, ReleaseDown(t) PROVE HeldInv'
  BY <1>21, HeldDown
<1>22. ASSUME NEW t \in Threads, CloseKontainer(t) PROVE HeldInv'
  BY <1>22, HeldCloseKontainer
<1>23. ASSUME NEW t \in Threads, KontainerRelease(t) PROVE HeldInv'
  BY <1>23, HeldDown
<1>24. ASSUME NEW t \in Threads, RunEnd(t) PROVE HeldInv'
  <2>1. slot[t] \in Slots
    BY <1>24 DEF RunEnd, UseInv, LockInv, TypeInv, SlotOK
  <2> QED
    BY <1>24, <2>1, HeldClose
<1>25. ASSUME NEW t \in Threads, NEW mm \in Mms, NEW vcpu_id \in VcpuIds,
             AddLock(t, mm, vcpu_id)
      PROVE  HeldInv'
  <2>1. /\ kkm = "alive" /\ reference_count >= 1
        /\ kontainer_file # "hidden"
    BY <1>25, Sound DEF AddLock, AddAllowed
  <2> QED
    BY <1>25, <2>1, HeldFrame
    DEF AddLock, AddAllowed, UseInv, LockInv, TypeInv, TypeOK
<1>26. ASSUME NEW t \in Threads, NEW mm \in Mms, NEW vcpu_id \in VcpuIds,
             AddRefused(t, mm, vcpu_id)
      PROVE  HeldInv'
  <2>1. /\ kkm = "alive" /\ reference_count >= 1
        /\ kontainer_file # "hidden"
    BY <1>26, Sound DEF AddRefused
  <2> QED
    BY <1>26, <2>1, HeldFrame DEF AddRefused, UseInv, LockInv, TypeInv, TypeOK
<1>27. ASSUME NEW t \in Threads, NEW i \in Slots, RunBegin(t, i)
      PROVE  HeldInv'
  <2>1. /\ kkm = "alive" /\ reference_count >= 1
        /\ kontainer_file # "hidden"
    BY <1>27, Sound DEF RunBegin, Enter
  <2> QED
    BY <1>27, <2>1, HeldFrame DEF RunBegin, Enter, UseInv, LockInv, TypeInv, TypeOK
<1>28. ASSUME NEW t \in Threads, NEW i \in Slots, Mmap(t, i) PROVE HeldInv'
  <2>1. /\ kkm = "alive" /\ reference_count >= 1
        /\ kontainer_file # "hidden"
    BY <1>28, Sound DEF Mmap
  <2> QED
    BY <1>28, <2>1, HeldFrame DEF Mmap, UseInv, LockInv, TypeInv, TypeOK
<1>29. ASSUME NEW t \in Threads, NEW i \in Slots, Munmap(t, i) PROVE HeldInv'
  BY <1>29, HeldClose
<1>30. ASSUME NEW t \in Threads, NEW i \in Slots, CloseKontext(t, i)
      PROVE  HeldInv'
  BY <1>30, HeldClose
<1>31. ASSUME Kill PROVE HeldInv'
  BY <1>31 DEF Kill, UseInv, HeldInv, AllIdle, Abandoned, Holders,
     Registered, Releasing, KontainerHeld
<1>32. ASSUME UNCHANGED vars PROVE HeldInv'
  BY <1>32 DEF vars, UseInv, HeldInv, AllIdle, Abandoned, Holders,
     Registered, Releasing, KontainerHeld
<1>33. ASSUME NEW t \in Threads, NEW first \in BOOLEAN, SetSaveInfo(t, first)
       PROVE  HeldInv'
  BY <1>33 DEF SetSaveInfo, UseInv, HeldInv, AllIdle, Abandoned, Holders,
     Registered, Releasing, KontainerHeld
<1> QED
  BY <1>1, <1>2, <1>3, <1>4, <1>5, <1>6, <1>7, <1>8, <1>9, <1>10, <1>11,
     <1>12, <1>13, <1>14, <1>15, <1>16, <1>17, <1>18, <1>19, <1>20, <1>21,
     <1>22, <1>23, <1>24, <1>25, <1>26, <1>27, <1>28, <1>29, <1>30, <1>31,
     <1>32, <1>33
  DEF Next, Driver, Request, Close, Exited

(* The invariant holds before a kontainer is created.                      *)
LEMMA InitUse == Init => UseInv
<1> SUFFICES ASSUME Init PROVE UseInv
  OBVIOUS
<1>1. LockInv /\ PagesInv /\ KnownInv
  BY InitPages DEF PInv
<1>2. BackedInv
  BY ConstantsAssumption DEF Init, BackedInv, BackedThread, BackedSlot
<1>3. HeldInv
  BY DEF Init, HeldInv, AllIdle, Abandoned
<1> QED
  BY <1>1, <1>2, <1>3 DEF UseInv

(* Whatever a thread, a file or a mapping reaches is allocated, though     *)
(* descriptors may run out and the kontainer's initialisation may fail.    *)
LEMMA UseSafe == UseInv => NoUseAfterFree
<1> SUFFICES ASSUME UseInv PROVE NoUseAfterFree
  OBVIOUS
<1> USE DEF UseInv
<1>1. kontainer_file # "none" => kkm = "alive"
  BY DEF HeldInv
<1>2. ASSUME NEW t \in Threads, pc[t] # "idle" PROVE kkm = "alive"
  BY <1>2 DEF HeldInv, AllIdle
<1>3. ASSUME NEW i \in Slots, file[i] # "none"
      PROVE  kkm = "alive" /\ allocated[i]
  BY <1>3 DEF HeldInv, Abandoned, KnownInv, PagesInv, PageInv
<1>4. ASSUME NEW t \in Threads, pc[t] = "run" PROVE guest_area[slot[t]]
  BY <1>4
  DEF PagesInv, HolderInv, BackedInv, BackedSlot, LockInv, TypeInv, SlotOK
<1>5. ASSUME NEW i \in Slots, mapped[i] PROVE mmap_area[i]
  BY <1>5 DEF PagesInv, PageInv, BackedInv, BackedSlot
<1>6. ASSUME NEW t \in Threads,
             pc[t] \in {"rel_free", "rel_unuse", "rel_first"}
      PROVE  allocated[slot[t]]
  <2>1. CASE pc[t] = "rel_first"
    BY <2>1 DEF BackedInv, BackedThread
  <2>2. CASE pc[t] \in {"rel_free", "rel_unuse"}
    BY <1>2, <2>2
    DEF PagesInv, HolderInv, Holding, Letting, KnownInv, LockInv, TypeInv,
        SlotOK
  <2> QED
    BY <1>6, <2>1, <2>2
<1> QED
  BY <1>1, <1>2, <1>3, <1>4, <1>5, <1>6 DEF NoUseAfterFree

(* No use after free: whatever a thread, a file or a mapping can still     *)
(* reach is allocated, unless a map page or kkm_kontext_init fails after   *)
(* the descriptor of its kontext is installed.                             *)
THEOREM UseAfterFreeNever ==
  ASSUME EveryFileCounted
  PROVE  Spec => []NoUseAfterFree
<1>1. UseInv /\ [Next]_vars => UseInv'
  <2> SUFFICES ASSUME UseInv, [Next]_vars PROVE UseInv'
    OBVIOUS
  <2>1. BaseInv
    BY Sound
  <2>2. LockInv'
    BY LockStep, TypeStep DEF UseInv, LockInv
  <2>3. PagesInv'
    BY <2>1, HolderStep, PageStep, ApartStep DEF PagesInv
  <2>4. KnownInv'
    BY <2>1, KnownStep
  <2>5. BackedInv'
    BY BackedThreadStep, BackedSlotStep DEF BackedInv
  <2>6. HeldInv'
    BY HeldStep
  <2> QED
    BY <2>2, <2>3, <2>4, <2>5, <2>6 DEF UseInv
<1> QED
  BY InitUse, <1>1, UseSafe, PTL DEF Spec
=============================================================================
