---------------------------- MODULE KkmInitProofs ----------------------------
(***************************************************************************)
(* Theorems about KkmInit, for every number of processes and blocks.       *)
(***************************************************************************)
EXTENDS KkmInit, FiniteSetTheorems, WellFoundedInduction, TLAPS

USE DEF fixed, module, global, kontainer, processVars

-----------------------------------------------------------------------------
(***************************************************************************)
(* The flush.                                                              *)
(***************************************************************************)

(* What the cpu can do is known before anything is flushed: nothing is     *)
(* open before the first step of insmod.                                   *)
FlushInv ==
  /\ cpu.pti
  /\ load = "none" =>
       /\ ~registered /\ ~flushed /\ device = {}
       /\ \A p \in Processes : pc[p] = "none"
  /\ load # "none" => full_flush = (~cpu.pcid \/ ~cpu.invpcid)
  /\ pc \in [Processes -> Pcs] /\ device \subseteq Processes

(* The steps of insmod and rmmod.                                          *)
LEMMA ModuleFlush ==
  ASSUME FlushInv, FlushSupported, Insmod \/ Rmmod
  PROVE  FlushInv' /\ FlushSupported'
<1> USE DEF FlushInv, FlushSupported, LazyFlush
<1>1. CASE Register
  BY <1>1 DEF Register, kkm_check_cpu_support
<1>2. CASE SetOwner
  BY <1>2 DEF SetOwner
<1>3. CASE MmuInit
  BY <1>3 DEF MmuInit
<1>4. CASE IdtInit
  BY <1>4 DEF IdtInit
<1>5. CASE SetObjectId
  BY <1>5 DEF SetObjectId
<1>6. CASE ExitIdt
  BY <1>6 DEF ExitIdt
<1>7. CASE ExitMmu
  BY <1>7 DEF ExitMmu
<1>8. CASE ExitDevice
  BY <1>8 DEF ExitDevice
<1> QED
  BY <1>1, <1>2, <1>3, <1>4, <1>5, <1>6, <1>7, <1>8 DEF Insmod, Rmmod

(* The steps of a process; only the third of a hierarchy's allocations can *)
(* lead to a flush.                                                        *)
LEMMA ProcessFlush ==
  ASSUME FlushInv, FlushSupported, NEW p \in Processes,
         \/ Open(p) \/ CloseDevice(p) \/ Create(p) \/ CreateKontainer(p)
         \/ CloseKontainer(p) \/ AddKontext(p)
  PROVE  FlushInv' /\ FlushSupported'
<1> USE DEF FlushInv, FlushSupported, LazyFlush, Goto, CreateFails, Pcs
<1>1. CASE Open(p) \/ CloseDevice(p) \/ AddKontext(p) \/ CloseKontainer(p)
  BY <1>1 DEF Open, CloseDevice, AddKontext, CloseKontainer
<1>2. CASE Create(p) \/ TakeId(p) \/ CopyPgd(p)
  BY <1>2 DEF Create, TakeId, CopyPgd
<1>3. CASE InitPgd(p) \/ InitP4d(p) \/ InitLow(p)
  BY <1>3 DEF InitPgd, InitP4d, InitLow, InitPart
<1>4. CASE InitPml4(p)
  BY <1>4 DEF InitPml4
<1> QED
  BY <1>1, <1>2, <1>3, <1>4 DEF CreateKontainer

(* The driver executes INVPCID only where the cpu has it, if the kernel has*)
(* page table isolation: without it kkm_check_cpu_support returns before it*)
(* has looked for the instruction.                                         *)
THEOREM FlushCorrect ==
  ASSUME Isolation
  PROVE  Spec => []FlushSupported
<1>1. Init => FlushInv /\ FlushSupported
  BY DEF Init, FlushInv, FlushSupported, Pcs
<1>2. FlushInv /\ FlushSupported /\ [Next]_vars
        => (FlushInv /\ FlushSupported)'
  <2> SUFFICES ASSUME FlushInv, FlushSupported, [Next]_vars
               PROVE  FlushInv' /\ FlushSupported'
    OBVIOUS
  <2>1. CASE UNCHANGED vars
    BY <2>1 DEF vars, FlushInv, FlushSupported
  <2> QED
    BY <2>1, ModuleFlush, ProcessFlush DEF Next
<1> QED
  BY <1>1, <1>2, PTL DEF Spec

-----------------------------------------------------------------------------
(***************************************************************************)
(* Files and ids of a device that is used once insmod has returned.        *)
(***************************************************************************)

(* Something is open only between insmod and rmmod, when kkm_object_id is  *)
(* set and the operations name the module.                                 *)
OpenInv ==
  /\ load \in Loads
  /\ load \notin {"none", "registered", "failed"} => owner
  /\ load # "loaded" => device = {} /\ \A p \in Processes : pc[p] = "none"
  /\ device \subseteq Processes /\ pc \in [Processes -> Pcs]

(* No id that was ever given is higher than the count, and none is given   *)
(* before the count is set.                                                *)
IdInv ==
  /\ object_id \in Nat /\ ids \in Seq(Nat)
  /\ load \in {"none", "registered", "owned", "mmu", "idt"} => ids = <<>>
  /\ \A i \in 1..Len(ids) : ids[i] <= object_id
  /\ IdsUnique

FileInv == OpenInv /\ IdInv /\ ModuleRefsExact

(* No file is open before insmod.                                          *)
LEMMA FileInit == Init => FileInv
<1> SUFFICES ASSUME Init PROVE FileInv
  OBVIOUS
<1>1. OpenInv /\ IdInv
  BY DEF Init, OpenInv, Loads, Pcs, IdInv, IdsUnique
<1>2. HasFile = {} /\ device = {} /\ refs = 0
  BY DEF Init, HasFile
<1>3. ModuleRefsExact
  BY <1>2, FS_EmptySet DEF ModuleRefsExact
<1> QED
  BY <1>1, <1>3 DEF FileInv

(* A step that opens and closes nothing keeps the references exact.        *)
LEMMA RefsSame ==
  ASSUME ModuleRefsExact, UNCHANGED <<refs, device>>, HasFile' = HasFile
  PROVE  ModuleRefsExact'
BY DEF ModuleRefsExact

(* insmod and rmmod.                                                       *)
LEMMA ModuleFiles ==
  ASSUME FileInv, Insmod \/ Rmmod
  PROVE  FileInv'
<1> USE DEF FileInv, OpenInv, Loads
<1>1. /\ UNCHANGED <<refs, device, pc, ids>>
      /\ load' \in {"none", "registered", "owned", "mmu", "idt"}
           => load \in {"none", "registered", "owned", "mmu", "idt"}
      /\ \/ UNCHANGED object_id
         \/ load = "idt" /\ object_id' = 1
  BY DEF Insmod, Rmmod, Register, SetOwner, MmuInit, IdtInit, SetObjectId,
         ExitIdt, ExitMmu, ExitDevice
<1>2. OpenInv'
  <2>1. CASE Register \/ SetOwner
    BY <2>1 DEF Register, SetOwner
  <2>2. CASE MmuInit \/ IdtInit
    BY <2>2 DEF MmuInit, IdtInit
  <2>3. CASE SetObjectId \/ ExitMmu \/ ExitDevice
    BY <2>3 DEF SetObjectId, ExitMmu, ExitDevice
  <2>4. CASE ExitIdt
    <3>1. refs = 0 /\ load' = "exit_mmu" /\ UNCHANGED <<owner, device, pc>>
      BY <2>4 DEF ExitIdt
    <3>2. device = {} /\ HasFile = {}
      <4>1. HasFile \subseteq Processes
        BY DEF HasFile
      <4>2. /\ IsFiniteSet(device) /\ Cardinality(device) \in Nat
            /\ IsFiniteSet(HasFile) /\ Cardinality(HasFile) \in Nat
        BY <4>1, InitAssumption, FS_Subset, FS_CardinalityType
      <4>3. Cardinality(device) = 0 /\ Cardinality(HasFile) = 0
        BY <3>1, <4>2 DEF ModuleRefsExact
      <4> QED
        BY <4>2, <4>3, FS_EmptySet
    <3> QED
      BY <2>4, <3>1, <3>2 DEF ExitIdt, HasFile
  <2> QED
    BY <2>1, <2>2, <2>3, <2>4 DEF Insmod, Rmmod
<1>3. IdInv'
  BY <1>1 DEF IdInv, IdsUnique
<1>4. ModuleRefsExact'
  BY <1>1, RefsSame DEF HasFile
<1> QED
  BY <1>2, <1>3, <1>4

(* open, close and the first and last step of a kontainer change the       *)
(* files; the operations name the module by then.                          *)
LEMMA CountedFiles ==
  ASSUME FileInv, ~EarlyUse, NEW p \in Processes,
         Open(p) \/ CloseDevice(p) \/ Create(p) \/ CloseKontainer(p)
  PROVE  FileInv'
<1> USE DEF FileInv, OpenInv, Loads, Pcs
<1>1. /\ UNCHANGED <<load, owner, object_id, ids>> /\ load = "loaded"
      /\ owner /\ FileOwner
  BY DEF Open, CloseDevice, Create, CloseKontainer, Usable, FileOwner, Goto
<1>2. /\ device' \subseteq Processes /\ pc' \in [Processes -> Pcs]
  BY DEF Open, CloseDevice, Create, CloseKontainer, Goto
<1>3. OpenInv'
  BY <1>1, <1>2
<1>4. IdInv'
  BY <1>1, <1>2 DEF IdInv, IdsUnique
<1>5. /\ IsFiniteSet(device) /\ IsFiniteSet(HasFile)
      /\ Cardinality(device) \in Nat /\ Cardinality(HasFile) \in Nat
  <2>1. HasFile \subseteq Processes
    BY DEF HasFile
  <2> QED
    BY <2>1, InitAssumption, FS_Subset, FS_CardinalityType
<1>6. CASE Open(p)
  <2>1. /\ device' = device \cup {p} /\ p \notin device /\ refs' = refs + 1
        /\ HasFile' = HasFile
    BY <1>1, <1>6 DEF Open, HasFile
  <2>2. Cardinality(device') = Cardinality(device) + 1
    BY <1>5, <2>1, FS_AddElement
  <2> QED
    BY <1>3, <1>4, <1>5, <2>1, <2>2 DEF ModuleRefsExact
<1>7. CASE CloseDevice(p)
  <2>1. /\ device' = device \ {p} /\ p \in device /\ refs' = refs - 1
        /\ HasFile' = HasFile
    BY <1>1, <1>7 DEF CloseDevice, HasFile
  <2>2. Cardinality(device') = Cardinality(device) - 1
    BY <1>5, <2>1, FS_RemoveElement
  <2> QED
    BY <1>3, <1>4, <1>5, <2>1, <2>2 DEF ModuleRefsExact
<1>8. CASE Create(p)
  <2>1. /\ HasFile' = HasFile \cup {p} /\ p \notin HasFile /\ refs' = refs + 1
        /\ UNCHANGED device
    BY <1>1, <1>8 DEF Create, HasFile, Goto
  <2>2. Cardinality(HasFile') = Cardinality(HasFile) + 1
    BY <1>5, <2>1, FS_AddElement
  <2> QED
    BY <1>3, <1>4, <1>5, <2>1, <2>2 DEF ModuleRefsExact
<1>9. CASE CloseKontainer(p)
  <2>1. /\ HasFile' = HasFile \ {p} /\ p \in HasFile /\ refs' = refs - 1
        /\ UNCHANGED device
    BY <1>1, <1>9 DEF CloseKontainer, HasFile
  <2>2. Cardinality(HasFile') = Cardinality(HasFile) - 1
    BY <1>5, <2>1, FS_RemoveElement
  <2> QED
    BY <1>3, <1>4, <1>5, <2>1, <2>2 DEF ModuleRefsExact
<1> QED
  BY <1>6, <1>7, <1>8, <1>9

(* The steps of a create between, and ids for kontexts.                    *)
LEMMA CreateFiles ==
  ASSUME FileInv, NEW p \in Processes, CreateKontainer(p) \/ AddKontext(p)
  PROVE  FileInv'
<1> USE DEF FileInv, OpenInv, Loads, Pcs
<1>1. /\ pc[p] # "none" /\ UNCHANGED <<load, owner, refs, device>>
      /\ \E to \in Pcs \ {"none"} : pc' = [pc EXCEPT ![p] = to]
  <2>1. CASE TakeId(p) \/ CopyPgd(p) \/ AddKontext(p)
    BY <2>1 DEF TakeId, CopyPgd, AddKontext, Goto
  <2>2. CASE InitPgd(p) \/ InitP4d(p) \/ InitLow(p)
    BY <2>2 DEF InitPgd, InitP4d, InitLow, InitPart, CreateFails
  <2>3. CASE InitPml4(p)
    BY <2>3 DEF InitPml4, CreateFails
  <2> QED
    BY <2>1, <2>2, <2>3 DEF CreateKontainer
<1>2. OpenInv' /\ HasFile' = HasFile
  BY <1>1 DEF HasFile
<1>3. ModuleRefsExact'
  BY <1>1, <1>2, RefsSame
<1>4. IdInv'
  <2>1. CASE TakeId(p)
    <3>1. /\ object_id' = object_id + 1 /\ load = "loaded"
          /\ ids' = Append(ids, object_id + 1)
      BY <1>1, <2>1 DEF TakeId, NextId
    <3>2. /\ object_id \in Nat /\ ids \in Seq(Nat)
          /\ \A i \in 1..Len(ids) : ids[i] <= object_id /\ ids[i] \in Nat
      BY DEF IdInv
    <3>3. /\ ids' \in Seq(Nat) /\ Len(ids') = Len(ids) + 1
          /\ \A i \in 1..Len(ids) : ids'[i] = ids[i]
          /\ ids'[Len(ids) + 1] = object_id + 1 /\ Len(ids) \in Nat
      BY <3>1, <3>2
    <3>4. \A i \in 1..Len(ids') : ids'[i] <= object_id'
      BY <3>1, <3>2, <3>3
    <3>5. ASSUME NEW i \in 1..Len(ids'), NEW j \in 1..Len(ids'), i # j
          PROVE  ids'[i] # ids'[j]
      <4>1. CASE i \in 1..Len(ids) /\ j \in 1..Len(ids)
        BY <3>3, <3>5, <4>1 DEF IdInv, IdsUnique
      <4>2. CASE i = Len(ids) + 1 /\ j \in 1..Len(ids)
        <5>1. ids'[i] = object_id + 1 /\ ids'[j] = ids[j]
          BY <3>3, <4>2
        <5>2. ids[j] <= object_id /\ ids[j] \in Nat /\ object_id \in Nat
          BY <3>2, <4>2
        <5> QED
          BY <5>1, <5>2
      <4>3. CASE j = Len(ids) + 1 /\ i \in 1..Len(ids)
        <5>1. ids'[j] = object_id + 1 /\ ids'[i] = ids[i]
          BY <3>3, <4>3
        <5>2. ids[i] <= object_id /\ ids[i] \in Nat /\ object_id \in Nat
          BY <3>2, <4>3
        <5> QED
          BY <5>1, <5>2
      <4>4. /\ i \in 1..Len(ids) \/ i = Len(ids) + 1
            /\ j \in 1..Len(ids) \/ j = Len(ids) + 1
        BY <3>3
      <4> QED
        BY <3>5, <4>1, <4>2, <4>3, <4>4
    <3> QED
      BY <1>1, <3>1, <3>2, <3>3, <3>4, <3>5 DEF IdInv, IdsUnique
  <2>2. CASE AddKontext(p)
    <3>1. object_id' = object_id + 1 /\ UNCHANGED ids
      BY <2>2 DEF AddKontext, NextId
    <3> QED
      BY <1>1, <3>1 DEF IdInv, IdsUnique
  <2>3. CASE \/ InitPgd(p) \/ InitP4d(p) \/ InitLow(p) \/ InitPml4(p)
             \/ CopyPgd(p)
    <3>1. UNCHANGED <<object_id, ids>>
      BY <2>3 DEF InitPgd, InitP4d, InitLow, InitPart, InitPml4, CopyPgd
    <3> QED
      BY <1>1, <3>1 DEF IdInv, IdsUnique
  <2> QED
    BY <2>1, <2>2, <2>3 DEF CreateKontainer
<1> QED
  BY <1>2, <1>3, <1>4

(* The invariant that the next two theorems follow from.                   *)
THEOREM FileInvariant ==
  ASSUME ~EarlyUse
  PROVE  Spec => []FileInv
<1>1. FileInv /\ [Next]_vars => FileInv'
  <2> SUFFICES ASSUME FileInv, [Next]_vars PROVE FileInv'
    OBVIOUS
  <2>1. CASE UNCHANGED vars
    BY <2>1
    DEF vars, FileInv, OpenInv, IdInv, IdsUnique, ModuleRefsExact, HasFile
  <2> QED
    BY <2>1, ModuleFiles, CountedFiles, CreateFiles DEF Next
<1> QED
  BY <1>1, FileInit, PTL DEF Spec

(* The module's references are its open files: rmmod is refused as long as *)
(* there is one, and only then.                                            *)
THEOREM RefsCorrect ==
  ASSUME ~EarlyUse
  PROVE  Spec => []ModuleRefsExact
<1>1. FileInv => ModuleRefsExact
  BY DEF FileInv
<1> QED
  BY <1>1, FileInvariant, PTL

(* atomic64_inc_return on kkm_object_id gives every kontainer an id that no*)
(* other has or had, so that a last_id left behind by a closed kontainer   *)
(* is nobody else's.                                                       *)
THEOREM IdsCorrect ==
  ASSUME ~EarlyUse
  PROVE  Spec => []IdsUnique
<1>1. FileInv => IdsUnique
  BY DEF FileInv, IdInv
<1> QED
  BY <1>1, FileInvariant, PTL

-----------------------------------------------------------------------------
(***************************************************************************)
(* Memory.                                                                 *)
(***************************************************************************)

(* A set of numbers that is not empty has a least one.                     *)
LEMMA LeastNumber ==
  ASSUME NEW T, T \subseteq Nat, T # {}
  PROVE  \E b \in T : \A c \in T : b <= c
<1>1. \E R : /\ IsWellFoundedOn(R, Nat)
             /\ \A m, n \in Nat : m < n => <<m, n>> \in R
  <2>1. \A m, n \in Nat : m < n => <<m, n>> \in OpToRel(<, Nat)
    BY DEF OpToRel
  <2> QED
    BY <2>1, NatLessThanWellFounded, Zenon
<1>2. PICK R : /\ IsWellFoundedOn(R, Nat)
               /\ \A m, n \in Nat : m < n => <<m, n>> \in R
  BY <1>1
<1>3. IsWellFoundedOn(R, Nat)
  BY <1>2
<1>4. PICK b \in T : \A c \in T : ~(<<c, b>> \in R)
  BY <1>3, WFMin
<1>5. \A c \in T : ~(c < b)
  BY <1>2, <1>4, Zenon
<1>6. \A c \in T : b <= c
  BY <1>5
<1> QED
  BY <1>6

(* kkm_mm_allocate_pages takes a free block, if there is one.              *)
LEMMA LowestBlock ==
  ASSUME NEW used, Blocks \ used # {}
  PROVE  kkm_mm_allocate_pages(used) \in Blocks \ used
<1>1. Blocks \ used \subseteq Nat
  BY InitAssumption DEF Blocks
<1>2. \E b \in Blocks \ used : \A c \in Blocks \ used : b <= c
  BY <1>1, LeastNumber
<1> QED
  BY <1>2 DEF kkm_mm_allocate_pages

Levels == {"pud", "pmd", "pt"}

(* kkm_create_pml4 takes three free blocks, all different.                 *)
LEMMA CreatedPml4 ==
  ASSUME NEW used, used \subseteq Blocks, Cardinality(Blocks \ used) >= 3
  PROVE  LET h == kkm_create_pml4(used, 4)
         IN /\ h \in [Levels -> Blocks \ used]
            /\ h.pud # h.pmd /\ h.pud # h.pt /\ h.pmd # h.pt
            /\ Held(h) = {h.pud, h.pmd, h.pt}
<1> DEFINE b1 == kkm_mm_allocate_pages(used)
           b2 == kkm_mm_allocate_pages(used \cup {b1})
           b3 == kkm_mm_allocate_pages(used \cup {b1, b2})
           h == kkm_create_pml4(used, 4)
           S == Blocks \ used
<1>1. IsFiniteSet(S) /\ Cardinality(S) \in Nat /\ Cardinality(S) >= 3
  <2>1. IsFiniteSet(Blocks)
    BY InitAssumption, FS_Interval DEF Blocks
  <2> QED
    BY <2>1, FS_Subset, FS_CardinalityType
<1>2. b1 \in S
  <2>1. S # {}
    BY <1>1, FS_EmptySet
  <2> QED
    BY <2>1, LowestBlock
<1>3. /\ IsFiniteSet(S \ {b1}) /\ Cardinality(S \ {b1}) \in Nat
      /\ Cardinality(S \ {b1}) >= 2
  <2> HIDE DEF S, b1
  <2>1. IsFiniteSet(S \ {b1}) /\ Cardinality(S \ {b1}) = Cardinality(S) - 1
    BY <1>1, <1>2, FS_RemoveElement
  <2> QED
    BY <1>1, <2>1, FS_CardinalityType
<1>4. b2 \in S \ {b1}
  <2>1. Blocks \ (used \cup {b1}) = S \ {b1}
    OBVIOUS
  <2>2. S \ {b1} # {}
    BY <1>3, FS_EmptySet
  <2> QED
    BY <2>1, <2>2, LowestBlock
<1>5. /\ IsFiniteSet((S \ {b1}) \ {b2})
      /\ Cardinality((S \ {b1}) \ {b2}) >= 1
  <2> HIDE DEF S, b1, b2
  <2> QED
    BY <1>3, <1>4, FS_RemoveElement
<1>6. b3 \in S \ {b1, b2}
  <2>1. Blocks \ (used \cup {b1, b2}) = (S \ {b1}) \ {b2}
    OBVIOUS
  <2>2. (S \ {b1}) \ {b2} # {}
    BY <1>5, FS_EmptySet
  <2> QED
    BY <2>1, <2>2, LowestBlock
<1>7. /\ h \in [Levels -> Blocks \ used]
      /\ h.pud = b1 /\ h.pmd = b2 /\ h.pt = b3
  <2> HIDE DEF b1, b2, b3
  <2>1. h = [NoHierarchy EXCEPT !.pud = b1, !.pmd = b2, !.pt = b3]
    BY DEF kkm_create_pml4, b1, b2, b3
  <2> QED
    BY <1>2, <1>4, <1>6, <2>1 DEF NoHierarchy, Levels
<1>8. Held(h) = {h.pud, h.pmd, h.pt}
  <2>1. 0 \notin Blocks
    BY InitAssumption DEF Blocks
  <2> HIDE DEF h
  <2> QED
    BY <1>7, <2>1 DEF Held, Levels
<1> QED
  BY <1>2, <1>4, <1>6, <1>7, <1>8

(* The pointers of a kontainer that is being created are NULL up to the    *)
(* allocation it has come to.                                              *)
StageInv ==
  \A p \in Processes :
    /\ pc[p] \in {"fd", "pgd"} => \A x \in KontainerParts : part[p][x] = 0
    /\ pc[p] = "p4d" => \A x \in KontainerParts \ {"pgd"} : part[p][x] = 0
    /\ pc[p] = "low" =>
         \A x \in KontainerParts \ {"pgd", "p4d"} : part[p][x] = 0
    /\ pc[p] = "pml4" => \A x \in Levels : part[p][x] = 0

KxLoaded == load \in {"mmu", "idt", "loaded", "exit_mmu"}

(* The kx hierarchy and the interrupt table are blocks of their own, from  *)
(* the step of insmod that allocates them to the one of rmmod that frees   *)
(* them, and kontainers lead to the kx hierarchy.                          *)
KxInv ==
  /\ load \in {"none", "registered", "owned"} => Held(kx) = {}
  /\ KxLoaded =>
       /\ kx \in [Levels -> Blocks] /\ Held(kx) = {kx.pud, kx.pmd, kx.pt}
       /\ kx.pud # kx.pmd /\ kx.pud # kx.pt /\ kx.pmd # kx.pt
  /\ IF load \in {"idt", "loaded"} THEN idt \in Blocks \ Held(kx) ELSE idt = 0
  /\ \A p \in Live : kx_entry[p] = kx.pud

(* PagesOwned, of a module that is not broken.                             *)
OwnedInv ==
  /\ \A b \in in_use :
       b \in KxOwned \/ b = idt \/ \E p \in Processes : b \in Owned(p)
  /\ KxOwned \subseteq in_use /\ (idt # 0 => idt \in in_use)
  /\ \A p \in Processes : Owned(p) \subseteq in_use
  /\ 0 \notin in_use
  /\ \A p \in Processes :
       /\ Owned(p) \cap (KxOwned \cup {idt}) = {}
       /\ \A q \in Processes \ {p} : Owned(p) \cap Owned(q) = {}

PageInv ==
  Clean /\ load # "failed" =>
    /\ in_use \subseteq Blocks
    /\ part \in [Processes -> [KontainerParts -> 0..NBlocks]]
    /\ kx_entry \in [Processes -> 0..NBlocks]
    /\ StageInv /\ KxInv /\ OwnedInv

(* No block is in use before insmod.                                       *)
LEMMA PageInit == Init => PageInv
<1> SUFFICES ASSUME Init PROVE PageInv
  OBVIOUS
<1>1. Held(kx) = {}
  BY DEF Init, Held, NoHierarchy
<1>2. StageInv /\ KxInv
  BY <1>1 DEF Init, StageInv, KxInv, KxLoaded, Live
<1>3. OwnedInv
  <2>1. \A p \in Processes : Owned(p) = {}
    BY DEF Init, Owned, Created
  <2> QED
    BY <1>1, <2>1 DEF Init, OwnedInv, KxOwned
<1>4. /\ NoParts \in [KontainerParts -> 0..NBlocks] /\ 0 \in 0..NBlocks
  BY InitAssumption DEF NoParts
<1> QED
  BY <1>2, <1>3, <1>4 DEF Init, PageInv

(* A step of one process that takes free blocks and gives its own back.    *)
LEMMA OwnedStep ==
  ASSUME OwnedInv, NEW p \in Processes,
         \A q \in Processes \ {p} : Owned(q)' = Owned(q),
         UNCHANGED <<load, kx, idt>>,
         Owned(p)' \cap (in_use \ Owned(p)) = {}, 0 \notin Owned(p)',
         in_use' = (in_use \ Owned(p)) \cup Owned(p)'
  PROVE  OwnedInv'
<1>1. KxOwned' = KxOwned
  BY DEF KxOwned, Held
<1>2. \A q \in Processes \ {p} : Owned(q) \cap Owned(p)' = {}
  BY DEF OwnedInv
<1>3. /\ KxOwned \subseteq in_use \ Owned(p)
      /\ idt # 0 => idt \in in_use \ Owned(p)
      /\ \A q \in Processes \ {p} : Owned(q) \subseteq in_use \ Owned(p)
  BY DEF OwnedInv
<1>4. Owned(p)' \cap (KxOwned \cup {idt}) = {}
  BY <1>3
<1>5. \A b \in in_use' :
        b \in KxOwned \/ b = idt \/ \E q \in Processes : b \in Owned(q)'
  BY DEF OwnedInv
<1> QED
  BY <1>1, <1>2, <1>3, <1>4, <1>5 DEF OwnedInv

PageContext == FileInv /\ PageInv /\ Clean /\ load # "failed"

(* A kontainer's pointer that was NULL is to a block.                      *)
LEMMA HeldAdded ==
  ASSUME NEW D, NEW f \in [D -> 0..NBlocks], NEW x \in D, f[x] = 0,
         NEW b \in Blocks
  PROVE  /\ [f EXCEPT ![x] = b] \in [D -> 0..NBlocks]
         /\ Held([f EXCEPT ![x] = b]) = Held(f) \cup {b}
<1> b # 0 /\ b \in 0..NBlocks
  BY InitAssumption DEF Blocks
<1> QED
  BY DEF Held

(* One allocation of kkm_kontainer_init that is not the last: of pgd, p4d, *)
(* and, without a failure, low.                                            *)
LEMMA PartPages ==
  ASSUME PageContext, NEW p \in Processes,
         InitPgd(p) \/ InitP4d(p) \/ InitLow(p)
  PROVE  PageInv'
<1> USE DEF PageContext, CreateFails, Pcs, KontainerParts
<1>1. /\ in_use \subseteq Blocks
      /\ part \in [Processes -> [KontainerParts -> 0..NBlocks]]
      /\ kx_entry \in [Processes -> 0..NBlocks]
      /\ StageInv /\ KxInv /\ OwnedInv /\ pc \in [Processes -> Pcs]
  BY DEF PageInv, FileInv, OpenInv
<1>2. /\ UNCHANGED <<failing, load, kx, idt, kx_entry>>
      /\ pc[p] \in {"pgd", "p4d", "low"}
  BY DEF InitPgd, InitP4d, InitLow, InitPart
<1>3. CASE /\ in_use # Blocks
           /\ LET b == kkm_mm_allocate_pages(in_use)
              IN /\ part' = [part EXCEPT ![p][pc[p]] = b]
                 /\ in_use' = in_use \cup {b}
           /\ pc' = [pc EXCEPT ![p] =
                CASE pc[p] = "pgd" -> IF LevelFive THEN "p4d" ELSE "pml4"
                  [] pc[p] = "p4d" -> "low" [] pc[p] = "low" -> "pml4"]
  <2> DEFINE b == kkm_mm_allocate_pages(in_use)
             x == pc[p]
  <2>1. b \in Blocks \ in_use
    BY <1>1, <1>3, LowestBlock, ZenonT(40)
  <2>2. x \in KontainerParts /\ part[p][x] = 0
    BY <1>1, <1>2 DEF StageInv
  <2> HIDE DEF b
  <2>3. /\ part' = [part EXCEPT ![p][x] = b] /\ in_use' = in_use \cup {b}
        /\ part' \in [Processes -> [KontainerParts -> 0..NBlocks]]
        /\ Held(part'[p]) = Held(part[p]) \cup {b}
        /\ \A q \in Processes \ {p} : part'[q] = part[q]
    <3>1. part' = [part EXCEPT ![p][x] = b] /\ in_use' = in_use \cup {b}
      BY <1>3 DEF b
    <3>2. /\ part' = [part EXCEPT ![p] = [part[p] EXCEPT ![x] = b]]
          /\ part[p] \in [KontainerParts -> 0..NBlocks]
      BY <1>1, <3>1
    <3>3. /\ [part[p] EXCEPT ![x] = b] \in [KontainerParts -> 0..NBlocks]
          /\ Held([part[p] EXCEPT ![x] = b]) = Held(part[p]) \cup {b}
      BY <2>1, <2>2, <3>2, HeldAdded
    <3> QED
      BY <1>1, <3>1, <3>2, <3>3
  <2>4. /\ p \in Created /\ p \in Created'
        /\ Created' = Created /\ Live' = Live
        /\ \A q \in Processes \ {p} : pc'[q] = pc[q]
    BY <1>1, <1>2, <1>3 DEF Created, Live
  <2>5. /\ Owned(p) = Held(part[p]) /\ Owned(p)' = Owned(p) \cup {b}
        /\ \A q \in Processes \ {p} : Owned(q)' = Owned(q)
    BY <2>3, <2>4 DEF Owned, Held
  <2>6. OwnedInv'
    <3>1. 0 \notin Owned(p)' /\ Owned(p) \subseteq in_use
      BY <1>1, <2>1, <2>5, InitAssumption DEF OwnedInv, Blocks
    <3>2. /\ Owned(p)' \cap (in_use \ Owned(p)) = {}
          /\ in_use' = (in_use \ Owned(p)) \cup Owned(p)'
      BY <2>1, <2>3, <2>5, <3>1
    <3> QED
      BY <1>1, <1>2, <2>5, <3>1, <3>2, OwnedStep
  <2>7. StageInv'
    <3>1. \A y \in KontainerParts \ {x} : part'[p][y] = part[p][y]
      BY <1>1, <2>3
    <3>2. CASE x = "pgd"
      BY <1>1, <1>3, <2>3, <2>4, <3>1, <3>2 DEF StageInv, Levels
    <3>3. CASE x = "p4d"
      BY <1>1, <1>3, <2>3, <2>4, <3>1, <3>3 DEF StageInv, Levels
    <3>4. CASE x = "low"
      BY <1>1, <1>3, <2>3, <2>4, <3>1, <3>4 DEF StageInv, Levels
    <3> QED
      BY <1>2, <3>2, <3>3, <3>4
  <2>8. KxInv'
    BY <1>1, <1>2, <2>4 DEF KxInv, KxLoaded
  <2> QED
    BY <1>1, <1>2, <2>1, <2>3, <2>6, <2>7, <2>8 DEF PageInv
<1>4. CASE /\ in_use' = kkm_kontainer_cleanup(in_use, p)
           /\ pc' = [pc EXCEPT ![p] = "broken"] /\ UNCHANGED part
  <2>1. /\ p \in Created /\ p \notin Created' /\ Live' = Live
        /\ \A q \in Processes \ {p} : pc'[q] = pc[q]
    BY <1>1, <1>2, <1>4 DEF Created, Live
  <2>2. /\ Owned(p) = Held(part[p]) /\ Owned(p)' = {}
        /\ \A q \in Processes \ {p} : Owned(q)' = Owned(q)
    BY <1>4, <2>1 DEF Owned, Created, Held
  <2>3. OwnedInv'
    BY <1>1, <1>2, <1>4, <2>2, OwnedStep DEF kkm_kontainer_cleanup
  <2>4. StageInv'
    BY <1>1, <1>4, <2>1 DEF StageInv
  <2>5. KxInv'
    BY <1>1, <1>2, <2>1 DEF KxInv, KxLoaded
  <2> QED
    BY <1>1, <1>2, <1>4, <2>3, <2>4, <2>5
       DEF PageInv, kkm_kontainer_cleanup
<1>5. "low" \notin failing
  BY DEF Clean, CleanFailures
<1>6. CASE InitPgd(p)
  BY <1>3, <1>4, <1>6 DEF InitPgd, InitPart
<1>7. CASE InitP4d(p)
  BY <1>3, <1>4, <1>7 DEF InitP4d, InitPart
<1>8. CASE InitLow(p)
  BY <1>3, <1>5, <1>8 DEF InitLow, InitPart
<1> QED
  BY <1>6, <1>7, <1>8

(* The kontainer's hierarchy, whose allocations do not fail.               *)
LEMMA Pml4Pages ==
  ASSUME PageContext, NEW p \in Processes, InitPml4(p)
  PROVE  PageInv'
<1> USE DEF PageContext, KontainerParts
<1> DEFINE h == kkm_create_pml4(in_use, 4)
<1>1. /\ in_use \subseteq Blocks
      /\ part \in [Processes -> [KontainerParts -> 0..NBlocks]]
      /\ kx_entry \in [Processes -> 0..NBlocks]
      /\ StageInv /\ KxInv /\ OwnedInv /\ pc \in [Processes -> Pcs]
  BY DEF PageInv, FileInv, OpenInv
<1>2. \A f \in 1..4 : (f < 4 => Hierarchy[f] \in failing) => f = 4
  BY DEF Clean, CleanFailures, Hierarchy
<1>3. /\ pc[p] = "pml4" /\ pc' = [pc EXCEPT ![p] = "copy"]
      /\ Cardinality(Blocks \ in_use) >= 3
      /\ in_use' = in_use \cup Held(h)
      /\ part' = [part EXCEPT ![p] = [x \in KontainerParts |->
                    IF x \in DOMAIN h THEN h[x] ELSE part[p][x]]]
      /\ UNCHANGED <<failing, load, kx, idt, kx_entry>>
  <2> HIDE DEF h, KontainerParts
  <2> QED
    BY <1>1, <1>2 DEF InitPml4, h
<1>4. /\ h \in [Levels -> Blocks \ in_use]
      /\ Held(h) = {h.pud, h.pmd, h.pt}
  BY <1>1, <1>3, CreatedPml4
<1> HIDE DEF h
<1>5. /\ part' \in [Processes -> [KontainerParts -> 0..NBlocks]]
      /\ \A q \in Processes \ {p} : part'[q] = part[q]
      /\ Held(part'[p]) = Held(part[p]) \cup Held(h)
      /\ Held(h) \subseteq Blocks \ in_use
  <2>1. 0 \notin Blocks /\ Blocks \subseteq 0..NBlocks
    BY InitAssumption DEF Blocks
  <2>2. \A x \in KontainerParts : part'[p][x] = IF x \in Levels THEN h[x]
                                                               ELSE part[p][x]
    BY <1>1, <1>3, <1>4
  <2>3. \A x \in Levels : part[p][x] = 0 /\ h[x] \in Blocks \ in_use
    BY <1>1, <1>3, <1>4 DEF StageInv
  <2>4. /\ \A q \in Processes \ {p} : part'[q] = part[q]
        /\ DOMAIN part' = Processes /\ DOMAIN part'[p] = KontainerParts
        /\ part' = [q \in Processes |-> part'[q]]
        /\ part'[p] = [x \in KontainerParts |-> part'[p][x]]
    BY <1>1, <1>3
  <2>5. part' \in [Processes -> [KontainerParts -> 0..NBlocks]]
    <3>1. ASSUME NEW x \in KontainerParts PROVE part'[p][x] \in 0..NBlocks
      <4>1. CASE x \in Levels
        BY <2>1, <2>2, <2>3, <4>1
      <4>2. CASE x \notin Levels
        BY <1>1, <2>2, <4>2
      <4> QED
        BY <4>1, <4>2
    <3>2. part'[p] \in [KontainerParts -> 0..NBlocks]
      BY <2>4, <3>1
    <3> QED
      BY <1>1, <2>4, <3>2
  <2>6. DOMAIN part[p] = KontainerParts /\ DOMAIN h = Levels
    BY <1>1, <1>4
  <2>7. Held(part'[p]) = Held(part[p]) \cup Held(h)
    BY <2>1, <2>2, <2>3, <2>4, <2>6 DEF Held, Levels
  <2>8. Held(h) \subseteq Blocks \ in_use
    BY <1>4, <2>3 DEF Levels
  <2> QED
    BY <2>4, <2>5, <2>7, <2>8
<1>6. /\ p \in Created /\ p \in Created' /\ Live' = Live
      /\ \A q \in Processes \ {p} : pc'[q] = pc[q]
  BY <1>1, <1>3 DEF Created, Live, Pcs
<1>7. /\ Owned(p) = Held(part[p]) /\ Owned(p)' = Held(part'[p])
      /\ \A q \in Processes \ {p} : Owned(q)' = Owned(q)
  BY <1>5, <1>6, ZenonT(40) DEF Owned, Created, Held
<1>8. OwnedInv'
  <2>1. 0 \notin Owned(p)' /\ Owned(p) \subseteq in_use
    BY <1>1, <1>5, <1>7, InitAssumption DEF OwnedInv, Blocks
  <2>2. /\ Owned(p)' \cap (in_use \ Owned(p)) = {}
        /\ in_use' = (in_use \ Owned(p)) \cup Owned(p)'
    BY <1>3, <1>5, <1>7, <2>1
  <2> QED
    BY <1>1, <1>3, <1>7, <2>1, <2>2, OwnedStep
<1>9. StageInv'
  BY <1>1, <1>3, <1>5, <1>6 DEF StageInv, Pcs
<1>10. KxInv'
  BY <1>1, <1>3, <1>6 DEF KxInv, KxLoaded
<1> QED
  BY <1>1, <1>3, <1>5, <1>8, <1>9, <1>10 DEF PageInv

(* The other steps of a process allocate nothing.                          *)
LEMMA OtherPages ==
  ASSUME PageContext, NEW p \in Processes,
         \/ Open(p) \/ CloseDevice(p) \/ AddKontext(p) \/ Create(p)
         \/ TakeId(p) \/ CopyPgd(p) \/ CloseKontainer(p)
  PROVE  PageInv'
<1> USE DEF PageContext
<1>1. /\ in_use \subseteq Blocks
      /\ part \in [Processes -> [KontainerParts -> 0..NBlocks]]
      /\ kx_entry \in [Processes -> 0..NBlocks]
      /\ StageInv /\ KxInv /\ OwnedInv /\ pc \in [Processes -> Pcs]
      /\ (\E q \in Processes : pc[q] # "none") => load = "loaded"
  BY DEF PageInv, FileInv, OpenInv
<1>2. CASE Open(p) \/ CloseDevice(p) \/ AddKontext(p)
  <2>1. UNCHANGED <<failing, load, in_use, kx, idt, pc, part, kx_entry>>
    BY <1>2 DEF Open, CloseDevice, AddKontext
  <2>2. /\ Created' = Created /\ Live' = Live /\ KxOwned' = KxOwned
        /\ \A q \in Processes : Owned(q)' = Owned(q)
    BY <2>1 DEF Owned, Created, Live, KxOwned, Held
  <2>3. StageInv' /\ KxInv'
    BY <1>1, <2>1, <2>2 DEF StageInv, KxInv, KxLoaded
  <2>4. OwnedInv'
    BY <1>1, <2>1, <2>2 DEF OwnedInv
  <2> QED
    BY <1>1, <2>1, <2>3, <2>4 DEF PageInv
<1>3. CASE Create(p)
  <2>1. /\ part' = [part EXCEPT ![p] = NoParts] /\ pc[p] = "none"
        /\ pc' = [pc EXCEPT ![p] = "fd"]
        /\ kx_entry' = [kx_entry EXCEPT ![p] = 0]
        /\ UNCHANGED <<failing, load, in_use, kx, idt>>
        /\ NoParts \in [KontainerParts -> 0..NBlocks] /\ 0 \in 0..NBlocks
    BY <1>3, InitAssumption DEF Create, Goto, NoParts
  <2>2. /\ Live' = Live /\ p \notin Live
        /\ p \notin Created /\ p \notin Created'
        /\ \A q \in Processes \ {p} :
             pc'[q] = pc[q] /\ part'[q] = part[q] /\ kx_entry'[q] = kx_entry[q]
    BY <1>1, <2>1 DEF Created, Live
  <2>3. \A q \in Processes : Owned(q)' = Owned(q)
    BY <2>2 DEF Owned, Created, Held
  <2>4. OwnedInv'
    BY <1>1, <2>1, <2>3 DEF OwnedInv, KxOwned, Held
  <2>5. StageInv'
    BY <1>1, <2>1, <2>2 DEF StageInv, NoParts
  <2>6. KxInv'
    BY <1>1, <2>1, <2>2 DEF KxInv, KxLoaded, Live
  <2> QED
    BY <1>1, <2>1, <2>4, <2>5, <2>6 DEF PageInv
<1>4. CASE TakeId(p)
  <2>1. /\ pc[p] = "fd" /\ pc' = [pc EXCEPT ![p] = "pgd"]
        /\ UNCHANGED <<failing, load, in_use, kx, idt, part, kx_entry>>
    BY <1>4 DEF TakeId, Goto
  <2>2. /\ Live' = Live /\ p \notin Created
        /\ \A q \in Processes \ {p} : pc'[q] = pc[q]
    BY <1>1, <2>1 DEF Created, Live
  <2>3. Owned(p) = {} /\ Owned(p)' = {}
    <3>1. Held(part[p]) = {}
      BY <1>1, <2>1 DEF StageInv, Held
    <3> QED
      BY <2>1, <2>2, <3>1 DEF Owned, Held
  <2>4. \A q \in Processes \ {p} : Owned(q)' = Owned(q)
    BY <2>1, <2>2 DEF Owned, Created, Held
  <2>5. OwnedInv'
    <3>1. in_use' = (in_use \ Owned(p)) \cup Owned(p)'
      BY <2>1, <2>3
    <3> QED
      BY <1>1, <2>1, <2>3, <2>4, <3>1, OwnedStep
  <2>6. StageInv' /\ KxInv'
    BY <1>1, <2>1, <2>2 DEF StageInv, KxInv, KxLoaded
  <2> QED
    BY <1>1, <2>1, <2>5, <2>6 DEF PageInv
<1>5. CASE CopyPgd(p)
  <2>1. /\ pc[p] = "copy" /\ pc' = [pc EXCEPT ![p] = "live"]
        /\ kx_entry' = [kx_entry EXCEPT ![p] = kx.pud] /\ load = "loaded"
        /\ UNCHANGED <<failing, load, in_use, kx, idt, part>>
    BY <1>1, <1>5 DEF CopyPgd, Goto
  <2>2. kx.pud \in 0..NBlocks
    BY <1>1, <2>1, InitAssumption DEF KxInv, KxLoaded, Levels, Blocks
  <2>3. /\ Live' = Live \cup {p} /\ Created' = Created
        /\ \A q \in Processes \ {p} :
             pc'[q] = pc[q] /\ kx_entry'[q] = kx_entry[q]
    BY <1>1, <2>1 DEF Created, Live
  <2>4. \A q \in Processes : Owned(q)' = Owned(q)
    BY <2>1, <2>3 DEF Owned, Held
  <2>5. OwnedInv'
    BY <1>1, <2>1, <2>4 DEF OwnedInv, KxOwned, Held
  <2>6. StageInv'
    BY <1>1, <2>1, <2>3 DEF StageInv
  <2>7. KxInv'
    BY <1>1, <2>1, <2>3 DEF KxInv, KxLoaded, Live
  <2> QED
    BY <1>1, <2>1, <2>2, <2>5, <2>6, <2>7 DEF PageInv
<1>6. CASE CloseKontainer(p)
  <2>1. /\ pc[p] \in {"live", "broken"} /\ pc' = [pc EXCEPT ![p] = "none"]
        /\ in_use' = IF pc[p] = "live" THEN in_use \ Held(part[p]) ELSE in_use
        /\ UNCHANGED <<failing, load, kx, idt, part, kx_entry>>
    BY <1>6 DEF CloseKontainer, kkm_kontainer_cleanup
  <2>2. /\ Live' = Live \ {p} /\ p \notin Created'
        /\ \A q \in Processes \ {p} : pc'[q] = pc[q]
        /\ p \in Created <=> pc[p] = "live"
    BY <1>1, <2>1 DEF Created, Live
  <2>3. /\ Owned(p)' = {} /\ in_use' = in_use \ Owned(p)
        /\ \A q \in Processes \ {p} : Owned(q)' = Owned(q)
    BY <2>1, <2>2 DEF Owned, Created, Held
  <2>4. OwnedInv'
    BY <1>1, <2>1, <2>3, OwnedStep
  <2>5. StageInv' /\ KxInv'
    BY <1>1, <2>1, <2>2 DEF StageInv, KxInv, KxLoaded
  <2> QED
    BY <1>1, <2>1, <2>3, <2>4, <2>5 DEF PageInv
<1> QED
  BY <1>2, <1>3, <1>4, <1>5, <1>6

(* insmod and rmmod.  There are no kontainers then.                        *)
LEMMA ModulePages ==
  ASSUME PageContext, NBlocks >= 4, Insmod \/ Rmmod
  PROVE  PageInv'
<1> USE DEF PageContext
<1>1. /\ in_use \subseteq Blocks
      /\ part \in [Processes -> [KontainerParts -> 0..NBlocks]]
      /\ kx_entry \in [Processes -> 0..NBlocks]
      /\ StageInv /\ KxInv /\ OwnedInv /\ pc \in [Processes -> Pcs]
  BY DEF PageInv, FileInv, OpenInv
<1>2. /\ UNCHANGED <<failing, pc, part, kx_entry>> /\ StageInv'
      /\ Live' = Live /\ \A p \in Processes : Owned(p)' = Owned(p)
  <2>1. UNCHANGED <<failing, pc, part, kx_entry>>
    BY DEF Insmod, Rmmod, Register, SetOwner, MmuInit, IdtInit, SetObjectId,
           ExitIdt, ExitMmu, ExitDevice
  <2> QED
    BY <1>1, <2>1 DEF StageInv, Live, Owned, Created, Held
<1>3. 0 \notin Blocks
  BY InitAssumption DEF Blocks
<1>4. ASSUME load' # "failed", Register \/ SetOwner PROVE PageInv'
  <2>1. /\ load \in {"none", "registered"} /\ load' \in {"registered", "owned"}
        /\ UNCHANGED <<in_use, kx, idt>>
    BY <1>4 DEF Register, SetOwner
  <2>2. KxInv' /\ KxOwned' = KxOwned
    BY <1>1, <1>2, <2>1 DEF KxInv, KxLoaded, KxOwned
  <2>3. OwnedInv'
    BY <1>1, <1>2, <2>1, <2>2 DEF OwnedInv
  <2> QED
    BY <1>1, <1>2, <2>1, <2>2, <2>3 DEF PageInv
<1>5. ASSUME load' # "failed", MmuInit PROVE PageInv'
  <2> DEFINE h == kkm_create_pml4(in_use, 4)
  <2>1. /\ load = "owned" /\ load' = "mmu" /\ kx' = h /\ UNCHANGED idt
        /\ in_use' = in_use \cup Held(kx')
    <3> HIDE DEF h
    <3> QED
      BY <1>5 DEF MmuInit, h
  <2>2. /\ in_use = {} /\ \A p \in Processes : pc[p] = "none"
        /\ \A p \in Processes : Owned(p) = {}
    <3>1. \A p \in Processes : pc[p] = "none" /\ Owned(p) = {}
      BY <2>1 DEF FileInv, OpenInv, Owned, Created
    <3>2. KxOwned = {} /\ idt = 0
      BY <1>1, <2>1 DEF KxInv, KxOwned
    <3> QED
      BY <1>1, <3>1, <3>2 DEF OwnedInv
  <2>3. Cardinality(Blocks \ in_use) >= 3
    <3>1. Blocks \ in_use = 1..NBlocks
      BY <2>2 DEF Blocks
    <3>2. Cardinality(1..NBlocks) = NBlocks
      BY InitAssumption, FS_Interval
    <3>3. NBlocks >= 3
      BY InitAssumption
    <3> QED
      BY <3>1, <3>2, <3>3, Zenon
  <2>4. /\ kx' \in [Levels -> Blocks] /\ Held(kx') = {kx'.pud, kx'.pmd, kx'.pt}
        /\ kx'.pud # kx'.pmd /\ kx'.pud # kx'.pt /\ kx'.pmd # kx'.pt
        /\ Held(kx') \subseteq Blocks
    <3> HIDE DEF h
    <3>1. /\ h \in [Levels -> Blocks \ in_use]
          /\ Held(h) = {h.pud, h.pmd, h.pt}
          /\ h.pud # h.pmd /\ h.pud # h.pt /\ h.pmd # h.pt
      BY <1>1, <2>3, CreatedPml4 DEF h
    <3> QED
      BY <2>1, <3>1 DEF Levels
  <2> HIDE DEF h
  <2>5. KxInv'
    BY <1>1, <1>2, <2>1, <2>2, <2>4 DEF KxInv, KxLoaded, Live
  <2>6. OwnedInv'
    <3>1. KxOwned' = Held(kx') /\ in_use' = Held(kx') /\ idt' = 0
      BY <1>1, <2>1, <2>2 DEF KxOwned, KxInv
    <3> QED
      BY <1>2, <1>3, <2>2, <2>4, <3>1 DEF OwnedInv
  <2> QED
    BY <1>1, <1>2, <2>1, <2>2, <2>4, <2>5, <2>6 DEF PageInv
<1>6. ASSUME load' # "failed", IdtInit PROVE PageInv'
  <2> DEFINE b == kkm_mm_allocate_pages(in_use)
  <2>1. /\ load = "mmu" /\ load' = "idt" /\ idt' = b /\ UNCHANGED kx
        /\ in_use' = in_use \cup {b}
    BY <1>6 DEF IdtInit
  <2>2. /\ \A p \in Processes : Owned(p) = {} /\ pc[p] = "none"
        /\ KxOwned = Held(kx) /\ in_use = Held(kx) /\ KxOwned' = KxOwned
    <3>1. \A p \in Processes : pc[p] = "none" /\ Owned(p) = {}
      BY <2>1 DEF FileInv, OpenInv, Owned, Created
    <3>2. KxOwned = Held(kx) /\ idt = 0 /\ KxOwned' = KxOwned
      BY <1>1, <2>1 DEF KxInv, KxOwned
    <3> QED
      BY <1>1, <3>1, <3>2 DEF OwnedInv
  <2>3. b \in Blocks \ in_use
    <3>1. \E c \in {1, 2, 3, 4} : c \notin {kx.pud, kx.pmd, kx.pt}
      OBVIOUS
    <3>2. {1, 2, 3, 4} \subseteq Blocks
      BY InitAssumption DEF Blocks
    <3>3. in_use = {kx.pud, kx.pmd, kx.pt}
      BY <1>1, <2>1, <2>2 DEF KxInv, KxLoaded
    <3>4. Blocks \ in_use # {}
      BY <3>1, <3>2, <3>3
    <3> QED
      BY <3>4, LowestBlock
  <2> HIDE DEF b
  <2>4. KxInv'
    BY <1>1, <1>2, <2>1, <2>2, <2>3 DEF KxInv, KxLoaded
  <2>5. OwnedInv'
    BY <1>1, <1>2, <1>3, <2>1, <2>2, <2>3 DEF OwnedInv
  <2> QED
    BY <1>1, <1>2, <2>1, <2>3, <2>4, <2>5 DEF PageInv
<1>7. ASSUME SetObjectId \/ ExitDevice PROVE PageInv'
  <2>1. /\ \/ load = "idt" /\ load' = "loaded"
           \/ load = "exit_device" /\ load' = "unloaded"
        /\ UNCHANGED <<in_use, kx, idt>>
    BY <1>7 DEF SetObjectId, ExitDevice
  <2>2. KxInv' /\ KxOwned' = KxOwned
    BY <1>1, <1>2, <2>1 DEF KxInv, KxLoaded, KxOwned
  <2>3. OwnedInv'
    BY <1>1, <1>2, <2>1, <2>2 DEF OwnedInv
  <2> QED
    BY <1>1, <1>2, <2>1, <2>2, <2>3 DEF PageInv
<1>8. ASSUME ExitIdt PROVE PageInv'
  <2>1. /\ load = "loaded" /\ load' = "exit_mmu" /\ UNCHANGED kx
        /\ in_use' = in_use \ {idt} /\ idt' = 0
    BY <1>8 DEF ExitIdt
  <2>2. KxInv' /\ KxOwned' = KxOwned /\ idt \notin KxOwned
    BY <1>1, <1>2, <2>1 DEF KxInv, KxLoaded, KxOwned
  <2>3. \A p \in Processes : idt \notin Owned(p)
    BY <1>1 DEF OwnedInv
  <2>4. OwnedInv'
    BY <1>1, <1>2, <2>1, <2>2, <2>3 DEF OwnedInv
  <2> QED
    BY <1>1, <1>2, <2>1, <2>2, <2>4 DEF PageInv
<1>9. ASSUME ExitMmu PROVE PageInv'
  <2>1. /\ load = "exit_mmu" /\ load' = "exit_device" /\ UNCHANGED <<kx, idt>>
        /\ in_use' = in_use \ Held(kx)
    BY <1>9 DEF ExitMmu, kkm_mmu_cleanup, kkm_cleanup_pml4
  <2>2. KxInv' /\ KxOwned' = {} /\ KxOwned = Held(kx) /\ idt = 0
    BY <1>1, <1>2, <2>1 DEF KxInv, KxLoaded, KxOwned
  <2>3. \A p \in Processes : Owned(p) \cap Held(kx) = {}
    BY <1>1, <2>2 DEF OwnedInv
  <2>4. OwnedInv'
    BY <1>1, <1>2, <2>1, <2>2, <2>3 DEF OwnedInv
  <2> QED
    BY <1>1, <1>2, <2>1, <2>2, <2>4 DEF PageInv
<1>10. CASE load' = "failed"
  BY <1>10 DEF PageInv
<1> QED
  BY <1>4, <1>5, <1>6, <1>7, <1>8, <1>9, <1>10 DEF Insmod, Rmmod

(* The invariant that the next two theorems follow from; four blocks are   *)
(* what insmod takes.                                                      *)
THEOREM PageInvariant ==
  ASSUME ~EarlyUse, NBlocks >= 4
  PROVE  Spec => []PageInv
<1>1. FileInv /\ PageInv /\ [Next]_vars => PageInv'
  <2> SUFFICES ASSUME FileInv, PageInv, [Next]_vars, Clean', load' # "failed"
               PROVE  PageInv'
    BY DEF PageInv
  <2>1. CASE UNCHANGED vars
    <3>1. /\ Clean /\ load # "failed" /\ KxOwned' = KxOwned
          /\ Live' = Live /\ \A p \in Processes : Owned(p)' = Owned(p)
      BY <2>1 DEF vars, Clean, KxOwned, Owned, Created, Live, Held
    <3>2. StageInv' /\ KxInv' /\ OwnedInv'
      <4>1. StageInv /\ KxInv /\ OwnedInv
        BY <3>1 DEF PageInv
      <4>2. StageInv'
        BY <2>1, <4>1 DEF vars, StageInv
      <4>3. KxInv'
        BY <2>1, <3>1, <4>1 DEF vars, KxInv, KxLoaded
      <4>4. OwnedInv'
        BY <2>1, <3>1, <4>1 DEF vars, OwnedInv
      <4> QED
        BY <4>2, <4>3, <4>4
    <3> QED
      BY <2>1, <3>1, <3>2 DEF vars, PageInv
  <2>2. CASE Next
    <3>1. Clean
      BY <2>2 DEF Next, Insmod, Rmmod, Register, SetOwner, MmuInit, IdtInit,
         SetObjectId, ExitIdt, ExitMmu, ExitDevice, Open, CloseDevice, Create,
         CreateKontainer, TakeId, InitPgd, InitP4d, InitLow, InitPart,
         InitPml4, CopyPgd, CloseKontainer, AddKontext, Clean
    <3>2. load # "failed"
      BY <2>2 DEF Next, Insmod, Rmmod, Register, SetOwner, MmuInit, IdtInit,
         SetObjectId, ExitIdt, ExitMmu, ExitDevice, Open, CloseDevice, Create,
         CreateKontainer, TakeId, InitPgd, InitP4d, InitLow, InitPart,
         InitPml4, CopyPgd, CloseKontainer, AddKontext, Usable, Inserting
    <3> QED
      BY <2>2, <3>1, <3>2, ModulePages, PartPages, Pml4Pages, OtherPages
         DEF Next, CreateKontainer, PageContext
  <2> QED
    BY <2>1, <2>2
<1> QED
  BY <1>1, PageInit, FileInvariant, PTL DEF Spec

(* With failures that the driver cleans up after, every block is freed     *)
(* once: nothing leaks, nothing is shared, and rmmod leaves nothing.       *)
THEOREM PagesCorrect ==
  ASSUME ~EarlyUse, NBlocks >= 4
  PROVE  Spec => []PagesOwned
<1>1. PageInv => PagesOwned
  <2> SUFFICES ASSUME PageInv, Clean, load # "failed"
               PROVE  /\ in_use = (UNION {Owned(p) : p \in Processes})
                                    \cup KxOwned \cup ({idt} \ {0})
                      /\ OwnedInv
    BY DEF PagesOwned, OwnedInv
  <2>1. OwnedInv
    BY DEF PageInv
  <2>2. \A b : b \in in_use <=>
          b \in KxOwned \/ b \in {idt} \ {0}
            \/ \E p \in Processes : b \in Owned(p)
    BY <2>1 DEF OwnedInv
  <2> QED
    BY <2>1, <2>2
<1> QED
  BY <1>1, PageInvariant, PTL

(* With such failures the hierarchy that kontainers' page tables lead to is*)
(* allocated as long as there is one of them.                              *)
THEOREM KxCorrect ==
  ASSUME ~EarlyUse, NBlocks >= 4
  PROVE  Spec => []KxIntact
<1>1. FileInv /\ PageInv => KxIntact
  <2> SUFFICES ASSUME FileInv, PageInv, Clean, NEW p \in Live
               PROVE  /\ Loaded /\ kx_entry[p] = kx.pud
                      /\ Cardinality(Held(kx) \cap in_use) = 3
    BY DEF KxIntact
  <2>1. load = "loaded"
    BY DEF FileInv, OpenInv, Live
  <2>2. /\ KxInv /\ OwnedInv
    BY <2>1 DEF PageInv
  <2>3. Held(kx) \cap in_use = {kx.pud, kx.pmd, kx.pt}
    BY <2>1, <2>2 DEF KxInv, KxLoaded, OwnedInv, KxOwned
  <2>4. /\ IsFiniteSet({kx.pud}) /\ Cardinality({kx.pud}) = 1
    BY FS_Singleton
  <2>5. /\ IsFiniteSet({kx.pud} \cup {kx.pmd})
        /\ Cardinality({kx.pud} \cup {kx.pmd}) = 2
    <3>1. kx.pmd \notin {kx.pud}
      BY <2>1, <2>2 DEF KxInv, KxLoaded
    <3> QED
      BY <2>4, <3>1, FS_AddElement
  <2>6. Cardinality(({kx.pud} \cup {kx.pmd}) \cup {kx.pt}) = 3
    <3>1. kx.pt \notin {kx.pud} \cup {kx.pmd}
      BY <2>1, <2>2 DEF KxInv, KxLoaded
    <3> QED
      BY <2>5, <3>1, FS_AddElement
  <2>7. ({kx.pud} \cup {kx.pmd}) \cup {kx.pt} = {kx.pud, kx.pmd, kx.pt}
    OBVIOUS
  <2> QED
    BY <2>1, <2>2, <2>3, <2>6, <2>7 DEF Loaded, KxInv
<1> QED
  BY <1>1, FileInvariant, PageInvariant, PTL

-----------------------------------------------------------------------------
(***************************************************************************)
(* Types, whatever fails.                                                  *)
(***************************************************************************)

(* Nothing is allocated before kkm_mmu_init, and no more than three pages  *)
(* before kkm_idt_init, so that these find a page.                         *)
EmptyInv ==
  /\ load \in {"none", "registered", "owned"} => in_use = {}
  /\ load = "mmu" => in_use \subseteq {kx.pud, kx.pmd, kx.pt}

TInv == TypeOK /\ EmptyInv

(* kkm_create_pml4, whichever page it fails at, when nothing is allocated. *)
LEMMA FirstPml4 ==
  ASSUME NBlocks >= 4, NEW fails \in 1..4
  PROVE  LET h == kkm_create_pml4({}, fails)
         IN /\ h \in [Levels -> 0..NBlocks]
            /\ fails = 4 => /\ Held(h) \subseteq Blocks
                            /\ Held(h) \subseteq {h.pud, h.pmd, h.pt}
<1> DEFINE b1 == kkm_mm_allocate_pages({})
           b2 == kkm_mm_allocate_pages({} \cup {b1})
           b3 == kkm_mm_allocate_pages({} \cup {b1, b2})
           h == kkm_create_pml4({}, fails)
<1>1. {1, 2, 3, 4} \subseteq Blocks
  BY InitAssumption DEF Blocks
<1>2. b1 \in Blocks
  <2>1. Blocks \ {} # {}
    BY <1>1
  <2> QED
    BY <2>1, LowestBlock
<1>3. b2 \in Blocks
  <2> HIDE DEF b1
  <2>1. Blocks \ ({} \cup {b1}) # {}
    BY <1>1
  <2> QED
    BY <2>1, LowestBlock
<1>4. b3 \in Blocks
  <2> HIDE DEF b1, b2
  <2>1. Blocks \ ({} \cup {b1, b2}) # {}
    BY <1>1
  <2> QED
    BY <2>1, LowestBlock
<1>5. h = [NoHierarchy EXCEPT !.pud = IF fails > 1 THEN b1 ELSE 0,
                              !.pmd = IF fails > 2 THEN b2 ELSE 0,
                              !.pt  = IF fails > 3 THEN b3 ELSE 0]
  BY DEF kkm_create_pml4
<1> HIDE DEF b1, b2, b3, h
<1>6. /\ (IF fails > 1 THEN b1 ELSE 0) \in 0..NBlocks
      /\ (IF fails > 2 THEN b2 ELSE 0) \in 0..NBlocks
      /\ (IF fails > 3 THEN b3 ELSE 0) \in 0..NBlocks
      /\ 0 \in 0..NBlocks
  BY <1>2, <1>3, <1>4, InitAssumption DEF Blocks
<1>7. /\ h \in [Levels -> 0..NBlocks]
      /\ h.pud = (IF fails > 1 THEN b1 ELSE 0)
      /\ h.pmd = (IF fails > 2 THEN b2 ELSE 0)
      /\ h.pt = (IF fails > 3 THEN b3 ELSE 0)
  BY <1>5, <1>6 DEF NoHierarchy, Levels
<1>8. ASSUME fails = 4
      PROVE  Held(h) \subseteq Blocks /\ Held(h) \subseteq {h.pud, h.pmd, h.pt}
  BY <1>2, <1>3, <1>4, <1>7, <1>8 DEF Held, Levels
<1> QED
  BY <1>7, <1>8 DEF h

(* insmod and rmmod.                                                       *)
LEMMA ModuleTypes ==
  ASSUME TInv, NBlocks >= 4, MaxId >= 1, Insmod \/ Rmmod
  PROVE  TInv'
<1> USE DEF TInv, EmptyInv, TypeOK, Loads
<1>1. CASE Register
  BY <1>1 DEF Register, kkm_check_cpu_support
<1>2. CASE SetOwner
  BY <1>2 DEF SetOwner
<1>3. CASE MmuInit
  <2>2. in_use = {}
    BY <1>3 DEF MmuInit
  <2>0. \E fails \in 1..4 :
          /\ kx' = kkm_create_pml4(in_use, fails)
          /\ in_use' = IF fails = 4 THEN in_use \cup Held(kx') ELSE in_use
          /\ flushed' = (flushed \/ (fails < 4 /\ LazyFlush))
          /\ load' = IF fails = 4 THEN "mmu" ELSE "failed"
    BY <1>3 DEF MmuInit
  <2>1. PICK fails \in 1..4 :
          /\ kx' = kkm_create_pml4({}, fails)
          /\ in_use' = IF fails = 4 THEN in_use \cup Held(kx') ELSE in_use
          /\ flushed' = (flushed \/ (fails < 4 /\ LazyFlush))
          /\ load' = IF fails = 4 THEN "mmu" ELSE "failed"
    BY <2>0, <2>2
  <2>3. /\ kx' \in [Levels -> 0..NBlocks]
        /\ fails = 4 => /\ Held(kx') \subseteq Blocks
                        /\ Held(kx') \subseteq {kx'.pud, kx'.pmd, kx'.pt}
    BY <2>1, FirstPml4
  <2>4. /\ in_use' \subseteq Blocks /\ load' \in {"mmu", "failed"}
        /\ load' = "mmu" => in_use' \subseteq {kx'.pud, kx'.pmd, kx'.pt}
        /\ flushed' \in BOOLEAN
    BY <2>1, <2>2, <2>3
  <2>5. UNCHANGED <<fixed, supported, full_flush, registered, owner, refs, idt,
                    object_id, processVars>>
    BY <1>3 DEF MmuInit
  <2> QED
    BY <2>3, <2>4, <2>5 DEF Levels
<1>4. CASE IdtInit
  <2>1. Blocks \ in_use # {}
    <3>1. {1, 2, 3, 4} \subseteq Blocks
      BY InitAssumption DEF Blocks
    <3>2. in_use \subseteq {kx.pud, kx.pmd, kx.pt}
      BY <1>4 DEF IdtInit
    <3>3. \E b \in {1, 2, 3, 4} : b \notin {kx.pud, kx.pmd, kx.pt}
      <4> DEFINE x == kx.pud
                 y == kx.pmd
                 z == kx.pt
      <4> HIDE DEF x, y, z, TInv
      <4>1. \E b \in {1, 2, 3, 4} : b # x /\ b # y /\ b # z
        OBVIOUS
      <4> USE DEF x, y, z
      <4> QED
        BY <4>1
    <3> QED
      BY <3>1, <3>2, <3>3, Zenon
  <2>2. kkm_mm_allocate_pages(in_use) \in Blocks
    BY <2>1, LowestBlock
  <2>3. Blocks \subseteq 0..NBlocks
    BY InitAssumption DEF Blocks
  <2> QED
    BY <1>4, <2>2, <2>3 DEF IdtInit
<1>5. CASE SetObjectId
  <2>1. 1 \in 0..MaxId
    BY InitAssumption
  <2> QED
    BY <1>5, <2>1 DEF SetObjectId
<1>6. CASE ExitIdt
  <2>1. 0 \in 0..NBlocks
    BY InitAssumption
  <2> QED
    BY <1>6, <2>1 DEF ExitIdt
<1>7. CASE ExitMmu
  BY <1>7 DEF ExitMmu, kkm_mmu_cleanup, kkm_cleanup_pml4
<1>8. CASE ExitDevice
  BY <1>8 DEF ExitDevice
<1> QED
  BY <1>1, <1>2, <1>3, <1>4, <1>5, <1>6, <1>7, <1>8 DEF Insmod, Rmmod

(* The steps of a process, once insmod has returned.                       *)
LEMMA ProcessTypes ==
  ASSUME TInv, FileInv, NEW p \in Processes, ~EarlyUse,
         \/ Open(p) \/ CloseDevice(p) \/ Create(p) \/ CreateKontainer(p)
         \/ CloseKontainer(p) \/ AddKontext(p)
  PROVE  TInv'
<1>1. load = "loaded" /\ UNCHANGED <<module, kx, idt>>
  BY DEF FileInv, OpenInv, Open, Usable, CloseDevice, Create, CreateKontainer,
         CloseKontainer, AddKontext, TakeId, InitPgd, InitP4d, InitLow,
         InitPart, InitPml4, CopyPgd, Goto, global
<1> SUFFICES /\ refs' \in Int /\ in_use' \subseteq Blocks
             /\ object_id' \in 0..MaxId /\ flushed' \in BOOLEAN
             /\ device' \subseteq Processes /\ pc' \in [Processes -> Pcs]
             /\ ids' \in Seq(0..MaxId)
             /\ part' \in [Processes -> [KontainerParts -> 0..NBlocks]]
             /\ kx_entry' \in [Processes -> 0..NBlocks]
  BY <1>1 DEF TInv, TypeOK, EmptyInv
<1> USE DEF TInv, TypeOK, Pcs, Goto, global
<1>2. CASE Open(p) \/ CloseDevice(p)
  BY <1>2 DEF Open, CloseDevice
<1>3. CASE Create(p)
  <2>1. 0 \in 0..NBlocks
    BY InitAssumption
  <2> QED
    BY <1>3, <2>1 DEF Create, NoParts
<1>4. CASE TakeId(p) \/ AddKontext(p)
  <2>1. NextId \in 0..MaxId
    BY <1>4, InitAssumption DEF TakeId, AddKontext, NextId
  <2>2. CASE TakeId(p)
    <3>1. ids' \in Seq(0..MaxId) /\ object_id' \in 0..MaxId
      BY <2>1, <2>2 DEF TakeId
    <3> QED
      BY <2>2, <3>1 DEF TakeId
  <2>3. CASE AddKontext(p)
    BY <2>1, <2>3 DEF AddKontext
  <2> QED
    BY <1>4, <2>2, <2>3
<1>5. ASSUME NEW x \in {"pgd", "p4d", "low"}, NEW to \in Pcs, NEW used,
             used \subseteq Blocks, InitPart(p, x, to, used)
      PROVE  /\ part' \in [Processes -> [KontainerParts -> 0..NBlocks]]
             /\ in_use' \subseteq Blocks /\ pc' \in [Processes -> Pcs]
  <2>1. CASE /\ in_use # Blocks
             /\ part' = [part EXCEPT ![p][x] = kkm_mm_allocate_pages(in_use)]
             /\ in_use' = in_use \cup {kkm_mm_allocate_pages(in_use)}
             /\ pc' = [pc EXCEPT ![p] = to]
    <3>1. Blocks \ in_use # {}
      BY <2>1
    <3>2. kkm_mm_allocate_pages(in_use) \in Blocks
      BY <3>1, LowestBlock
    <3>3. Blocks \subseteq 0..NBlocks
      BY InitAssumption DEF Blocks
    <3> QED
      BY <2>1, <3>2, <3>3 DEF KontainerParts
  <2>2. CASE in_use' = used /\ CreateFails(p) /\ UNCHANGED part
    BY <1>5, <2>2 DEF CreateFails
  <2> QED
    BY <1>5, <2>1, <2>2 DEF InitPart
<1>6. CASE InitPgd(p) \/ InitP4d(p) \/ InitLow(p)
  <2>1. UNCHANGED <<refs, object_id, flushed, device, ids, kx_entry>>
    BY <1>6 DEF InitPgd, InitP4d, InitLow, InitPart
  <2>2. /\ kkm_kontainer_cleanup(in_use, p) \subseteq Blocks
        /\ (IF LevelFive THEN "p4d" ELSE "pml4") \in Pcs
    BY DEF kkm_kontainer_cleanup
  <2> QED
    BY <1>5, <1>6, <2>1, <2>2 DEF InitPgd, InitP4d, InitLow
<1>7. CASE InitPml4(p)
  <2>1. PICK fails \in 1..4 :
          LET h == kkm_create_pml4(in_use, fails)
          IN /\ Cardinality(Blocks \ in_use) >= fails - 1
             /\ IF fails = 4
                  THEN /\ part' = [part EXCEPT ![p] =
                            [x \in KontainerParts |->
                               IF x \in DOMAIN h THEN h[x] ELSE @[x]]]
                       /\ in_use' = in_use \cup Held(h)
                       /\ pc' = [pc EXCEPT ![p] = "copy"]
                  ELSE /\ in_use' = kkm_kontainer_cleanup(
                                      kkm_mmu_cleanup(in_use), p)
                       /\ CreateFails(p) /\ UNCHANGED part
             /\ flushed' = (flushed \/ (fails < 4 /\ LazyFlush))
    BY <1>7 DEF InitPml4
  <2>2. UNCHANGED <<refs, object_id, device, ids, kx_entry>>
    BY <1>7 DEF InitPml4
  <2>3. CASE fails = 4
    <3> DEFINE h == kkm_create_pml4(in_use, 4)
    <3>1. /\ h \in [Levels -> Blocks \ in_use]
          /\ Held(h) = {h.pud, h.pmd, h.pt}
      <4>1. in_use \subseteq Blocks
        OBVIOUS
      <4>2. Cardinality(Blocks \ in_use) >= 3
        BY <2>1, <2>3
      <4> HIDE DEF TInv, TypeOK
      <4> QED
        BY <4>1, <4>2, CreatedPml4
    <3>2. /\ part' = [part EXCEPT ![p] =
                        [x \in KontainerParts |->
                           IF x \in DOMAIN h THEN h[x] ELSE part[p][x]]]
          /\ in_use' = in_use \cup Held(h)
          /\ pc' = [pc EXCEPT ![p] = "copy"] /\ flushed' = flushed
      BY <2>1, <2>3
    <3> HIDE DEF h
    <3>3. Blocks \subseteq 0..NBlocks
      BY InitAssumption DEF Blocks
    <3>4. \A x \in KontainerParts :
            (IF x \in DOMAIN h THEN h[x] ELSE part[p][x]) \in 0..NBlocks
      <4>1. part[p] \in [KontainerParts -> 0..NBlocks]
        OBVIOUS
      <4>2. DOMAIN h = Levels /\ \A x \in Levels : h[x] \in 0..NBlocks
        BY <3>1, <3>3
      <4> QED
        BY <4>1, <4>2
    <3>5. part' \in [Processes -> [KontainerParts -> 0..NBlocks]]
      BY <3>2, <3>4
    <3>6. in_use' \subseteq Blocks
      BY <3>1, <3>2 DEF Levels
    <3> QED
      BY <2>2, <3>2, <3>5, <3>6
  <2>4. CASE fails # 4
    BY <2>1, <2>2, <2>4
    DEF CreateFails, kkm_kontainer_cleanup, kkm_mmu_cleanup, kkm_cleanup_pml4
  <2> QED
    BY <2>3, <2>4
<1>8. CASE CopyPgd(p)
  <2>1. kx.pud \in 0..NBlocks
    OBVIOUS
  <2> QED
    BY <1>8, <2>1 DEF CopyPgd
<1>9. CASE CloseKontainer(p)
  BY <1>9 DEF CloseKontainer, kkm_kontainer_cleanup
<1> QED
  BY <1>2, <1>3, <1>4, <1>6, <1>7, <1>8, <1>9 DEF CreateKontainer

(* The driver's state has its types, through every failure and its cleanup *)
(* (kkm_mmu_init, kkm_idt_init, kkm_kontainer_init): a page that is taken  *)
(* or given back is one of memory's, for any number of processes.          *)
THEOREM InitTypeCorrect ==
  ASSUME ~EarlyUse, NBlocks >= 4, MaxId >= 1
  PROVE  Spec => []TypeOK
<1>1. Init => TInv
  <2> SUFFICES ASSUME Init PROVE TInv
    OBVIOUS
  <2>1. 0 \in 0..NBlocks /\ 0 \in 0..MaxId
    BY InitAssumption
  <2>2. /\ kx \in [{"pud", "pmd", "pt"} -> 0..NBlocks]
        /\ part \in [Processes -> [KontainerParts -> 0..NBlocks]]
        /\ ids \in Seq(0..MaxId)
        /\ kx_entry \in [Processes -> 0..NBlocks]
        /\ pc \in [Processes -> Pcs]
    BY <2>1 DEF Init, NoHierarchy, NoParts, Pcs
  <2>3. /\ refs \in Int /\ in_use \subseteq Blocks /\ idt \in 0..NBlocks
        /\ object_id \in 0..MaxId /\ flushed \in BOOLEAN
        /\ device \subseteq Processes
    <3>1. /\ refs = 0 /\ in_use = {} /\ idt = 0 /\ object_id = 0
          /\ flushed = FALSE /\ device = {}
      BY DEF Init
    <3>2. flushed \in BOOLEAN
      BY <3>1
    <3>3. in_use \subseteq Blocks /\ device \subseteq Processes
      BY <3>1
    <3>4. refs \in Int
      BY <3>1
    <3>5. idt \in 0..NBlocks /\ object_id \in 0..MaxId
      BY <2>1, <3>1, Zenon
    <3> QED
      BY <3>2, <3>3, <3>4, <3>5
  <2>4. /\ failing \in FailSets
        /\ cpu \in [pti : BOOLEAN, pcid : BOOLEAN, invpcid : BOOLEAN]
        /\ supported \in BOOLEAN /\ full_flush \in BOOLEAN
        /\ load \in Loads /\ registered \in BOOLEAN /\ owner \in BOOLEAN
        /\ EmptyInv
    BY DEF Init, EmptyInv, Loads
  <2> QED
    BY <2>2, <2>3, <2>4 DEF TInv, TypeOK
<1>2. FileInv /\ TInv /\ [Next]_vars => TInv'
  <2> SUFFICES ASSUME FileInv, TInv, [Next]_vars PROVE TInv'
    OBVIOUS
  <2>1. CASE UNCHANGED vars
    BY <2>1 DEF vars, global, TInv, TypeOK, EmptyInv
  <2> QED
    BY <2>1, ModuleTypes, ProcessTypes DEF Next
<1>3. TInv => TypeOK
  BY DEF TInv
<1> QED
  BY <1>1, <1>2, <1>3, FileInvariant, PTL DEF Spec
=============================================================================
