------------------------------- MODULE KkmInit -------------------------------
(***************************************************************************)
(* The driver from insmod to rmmod: kkm_init and kkm_exit (kkm_main.c), the*)
(* page tables and the interrupt table they allocate (kkm_mmu.c,           *)
(* kkm_idt.c), and, beside them, processes that open /dev/kkm, create a    *)
(* kontainer and close both.  A kontainer's file is the kontainer here;    *)
(* its kontexts and their references are KkmLifecycle's.                   *)
(*                                                                         *)
(* Memory is a pool of blocks, one for each allocation; the lowest free one*)
(* is taken, so that what is freed is soon somebody else's.                *)
(***************************************************************************)
EXTENDS Integers, FiniteSets, Sequences

CONSTANTS
  Processes,   (* that use /dev/kkm                                        *)
  NBlocks,     (* blocks of memory                                         *)
  FailSets,    (* sets of allocations and calls that may fail              *)
  EarlyUse,    (* /dev/kkm is used while insmod still runs                 *)
  LevelFive,   (* pgtable_l5_enabled()                                     *)
  Isolation,   (* CONFIG_PAGE_TABLE_ISOLATION is known to be there         *)
  MaxId        (* bound of kkm_object_id                                   *)

Blocks == 1..NBlocks

(* What a kontainer allocates, in this order; the kx hierarchy is the last *)
(* three of its own, and the interrupt table one block.                    *)
Hierarchy == <<"pud", "pmd", "pt">>
KontainerParts == {"pgd", "p4d", "low", "pud", "pmd", "pt"}

ASSUME InitAssumption ==
  /\ IsFiniteSet(Processes)
  /\ NBlocks \in Nat \ {0} /\ MaxId \in Nat
  /\ FailSets \subseteq SUBSET (KontainerParts \cup {"register", "kx", "idt"})
  /\ EarlyUse \in BOOLEAN /\ LevelFive \in BOOLEAN /\ Isolation \in BOOLEAN

VARIABLES
  failing,     (* what may fail this time                                  *)
  cpu,         (* what the kernel and the cpu have: pti, pcid, invpcid     *)
  supported,   (* kkm_cpu_supported                                        *)
  full_flush,  (* kkm_cpu_full_tlb_flush                                   *)
  load,        (* where insmod or rmmod is                                 *)
  registered,  (* /dev/kkm is there                                        *)
  owner,       (* the file operations name the module                      *)
  refs,        (* the module's reference count, of files alone             *)
  in_use,      (* the blocks that are allocated                            *)
  kx,          (* kkm_mmu_kx: the blocks of pud, pmd and pt, 0 for NULL    *)
  idt,         (* kkm_idt.idt_entry.idt                                    *)
  object_id,   (* kkm_object_id                                            *)
  flushed,     (* the instruction INVPCID has been executed                *)
  device,      (* the processes with an open file of /dev/kkm              *)
  pc,          (* where a process is                                       *)
  ids,         (* kkm->id of every kontainer, in the order of creation;    *)
               (* the last_id of a cpu may be any of them                  *)
  part,        (* the blocks of a process's kontainer                      *)
  kx_entry     (* the kx entry of its pgd: the block of a pud              *)

fixed == <<failing, cpu>>
module == <<fixed, supported, full_flush, load, registered, owner>>
global == <<kx, idt, object_id>>
kontainer == <<ids, part, kx_entry>>
vars == <<module, refs, in_use, global, flushed, device, pc, kontainer>>

Loads == {"none", "registered", "owned", "mmu", "idt", "loaded", "failed",
          "exit_idt", "exit_mmu", "exit_device", "unloaded"}
Pcs == {"none", "fd", "pgd", "p4d", "low", "pml4", "copy", "live", "broken"}

TypeOK ==
  /\ failing \in FailSets
  /\ cpu \in [pti : BOOLEAN, pcid : BOOLEAN, invpcid : BOOLEAN]
  /\ supported \in BOOLEAN /\ full_flush \in BOOLEAN
  /\ load \in Loads /\ registered \in BOOLEAN /\ owner \in BOOLEAN
  /\ refs \in Int
  /\ in_use \subseteq Blocks
  /\ kx \in [{"pud", "pmd", "pt"} -> 0..NBlocks] /\ idt \in 0..NBlocks
  /\ object_id \in 0..MaxId
  /\ flushed \in BOOLEAN
  /\ device \subseteq Processes
  /\ pc \in [Processes -> Pcs]
  /\ ids \in Seq(0..MaxId)
  /\ part \in [Processes -> [KontainerParts -> 0..NBlocks]]
  /\ kx_entry \in [Processes -> 0..NBlocks]

NoParts == [x \in KontainerParts |-> 0]
NoHierarchy == [x \in {"pud", "pmd", "pt"} |-> 0]

Init ==
  /\ failing \in FailSets
  /\ cpu \in [pti : BOOLEAN, pcid : BOOLEAN, invpcid : BOOLEAN]
  /\ Isolation => cpu.pti
  /\ supported = FALSE /\ full_flush = FALSE
  /\ load = "none" /\ registered = FALSE /\ owner = FALSE
  /\ refs = 0 /\ in_use = {}
  /\ kx = NoHierarchy /\ idt = 0 /\ object_id = 0 /\ flushed = FALSE
  /\ device = {}
  /\ pc = [p \in Processes |-> "none"]
  /\ ids = <<>>
  /\ part = [p \in Processes |-> NoParts]
  /\ kx_entry = [p \in Processes |-> 0]

-----------------------------------------------------------------------------
(***************************************************************************)
(* Memory                                                                  *)
(***************************************************************************)

(* kkm_mm_allocate_pages: the block taken when the blocks used are taken.  *)
kkm_mm_allocate_pages(used) ==
  CHOOSE b \in Blocks \ used : \A c \in Blocks \ used : b <= c

(* kkm_create_pml4 allocates the three pages one after the other; with     *)
(* fails # 4 the allocation of that number fails and the rest stay NULL.   *)
kkm_create_pml4(used, fails) ==
  LET b1 == kkm_mm_allocate_pages(used)
      b2 == kkm_mm_allocate_pages(used \cup {b1})
      b3 == kkm_mm_allocate_pages(used \cup {b1, b2})
  IN [NoHierarchy EXCEPT !.pud = IF fails > 1 THEN b1 ELSE 0,
                         !.pmd = IF fails > 2 THEN b2 ELSE 0,
                         !.pt  = IF fails > 3 THEN b3 ELSE 0]

Held(blocks) == {blocks[x] : x \in DOMAIN blocks} \ {0}

(* kkm_cleanup_pml4 of the hierarchy h leaves the pointers as they are.    *)
kkm_cleanup_pml4(used, h) == used \ Held(h)

(* kkm_mmu_cleanup: the INVPCID of kkm_mmu_flush_tlb, and the kx hierarchy.*)
kkm_mmu_cleanup(used) == kkm_cleanup_pml4(used, kx)

(* Where INVPCID may be executed.                                          *)
LazyFlush == ~full_flush

-----------------------------------------------------------------------------
(***************************************************************************)
(* insmod: kkm_init.  What returns an error leaves the module to the       *)
(* kernel, which frees it whoever uses it.                                 *)
(***************************************************************************)

processVars == <<device, pc, kontainer>>

(* Mutant: the cpu's INVPCID is not asked for.                             *)
kkm_check_cpu_supportPcid ==
  /\ supported' = cpu.pti
  /\ full_flush' = (cpu.pti /\ ~cpu.pcid)

(* kkm_check_cpu_support, on cpus with XSAVE; it returns early without page*)
(* table isolation.                                                        *)
kkm_check_cpu_support ==
  /\ supported' = cpu.pti
  /\ full_flush' = (cpu.pti /\ (~cpu.pcid \/ ~cpu.invpcid))

Register ==
  /\ load = "none"
  /\ kkm_check_cpu_support
  /\ \/ load' = "registered" /\ registered' = TRUE
     \/ /\ "register" \in failing
        /\ load' = "failed" /\ UNCHANGED registered
  /\ UNCHANGED <<fixed, owner, refs, in_use, global, flushed, processVars>>

SetOwner ==
  /\ load = "registered"
  /\ load' = "owned" /\ owner' = TRUE
  /\ UNCHANGED <<fixed, supported, full_flush, registered, refs, in_use,
                 global, flushed, processVars>>

(* kkm_mmu_init; kkm_create_pml4 cleans up the hierarchy when it fails.    *)
MmuInit ==
  /\ load = "owned"
  /\ \E fails \in IF "kx" \in failing THEN 1..4 ELSE {4} :
       /\ kx' = kkm_create_pml4(in_use, fails)
       /\ in_use' = IF fails = 4 THEN in_use \cup Held(kx') ELSE in_use
       /\ flushed' = (flushed \/ (fails < 4 /\ LazyFlush))
       /\ load' = IF fails = 4 THEN "mmu" ELSE "failed"
  /\ UNCHANGED <<fixed, supported, full_flush, registered, owner, refs, idt,
                 object_id, processVars>>

(* kkm_idt_init                                                            *)
IdtInit ==
  /\ load = "mmu"
  /\ \/ /\ idt' = kkm_mm_allocate_pages(in_use)
        /\ in_use' = in_use \cup {idt'}
        /\ load' = "idt"
     \/ /\ "idt" \in failing
        /\ load' = "failed" /\ UNCHANGED <<idt, in_use>>
  /\ UNCHANGED <<fixed, supported, full_flush, registered, owner, refs, kx,
                 object_id, flushed, processVars>>

SetObjectId ==
  /\ load = "idt"
  /\ object_id' = 1 /\ load' = "loaded"
  /\ UNCHANGED <<fixed, supported, full_flush, registered, owner, refs, in_use,
                 kx, idt, flushed, processVars>>

(***************************************************************************)
(* rmmod: kkm_exit.  The kernel refuses it while a file is open, and opens *)
(* no file once it has begun.                                              *)
(***************************************************************************)
ExitIdt ==
  /\ load = "loaded" /\ refs = 0
  /\ in_use' = in_use \ {idt} /\ idt' = 0 /\ load' = "exit_mmu"
  /\ UNCHANGED <<fixed, supported, full_flush, registered, owner, refs, kx,
                 object_id, flushed, processVars>>

ExitMmu ==
  /\ load = "exit_mmu"
  /\ in_use' = kkm_mmu_cleanup(in_use)
  /\ flushed' = (flushed \/ LazyFlush)
  /\ load' = "exit_device"
  /\ UNCHANGED <<fixed, supported, full_flush, registered, owner, refs, global,
                 processVars>>

ExitDevice ==
  /\ load = "exit_device"
  /\ registered' = FALSE /\ load' = "unloaded"
  /\ UNCHANGED <<fixed, supported, full_flush, owner, refs, in_use, global,
                 flushed, processVars>>

-----------------------------------------------------------------------------
(***************************************************************************)
(* Processes                                                               *)
(***************************************************************************)

(* Mutant: the operations never name the module.                           *)
FileOwnerUnset == FALSE

(* A file takes and drops a reference on the module its operations name.   *)
FileOwner == owner

Inserting == load \in {"registered", "owned", "mmu", "idt"}
Usable == load = "loaded" \/ (EarlyUse /\ Inserting)

Open(p) ==
  /\ registered /\ Usable /\ p \notin device
  /\ device' = device \cup {p}
  /\ refs' = IF FileOwner THEN refs + 1 ELSE refs
  /\ UNCHANGED <<module, in_use, global, flushed, pc, kontainer>>

CloseDevice(p) ==
  /\ p \in device /\ pc[p] \in {"none", "live", "broken"}
  /\ load # "failed"
  /\ device' = device \ {p}
  /\ refs' = IF FileOwner THEN refs - 1 ELSE refs
  /\ UNCHANGED <<module, in_use, global, flushed, pc, kontainer>>

Goto(p, from, to) == pc[p] = from /\ pc' = [pc EXCEPT ![p] = to]

(* KKM_CREATE_KONTAINER, which only a supported cpu lets through; its file *)
(* is installed, and the kontainer gets its id.                            *)
Create(p) ==
  /\ p \in device /\ load # "failed" /\ supported
  /\ Goto(p, "none", "fd")
  /\ refs' = IF FileOwner THEN refs + 1 ELSE refs
  /\ part' = [part EXCEPT ![p] = NoParts]
  /\ kx_entry' = [kx_entry EXCEPT ![p] = 0]
  /\ UNCHANGED <<module, in_use, global, flushed, device, ids>>

(* Mutant: the count is read and not incremented.                          *)
NextIdRead == object_id

(* atomic64_inc_return                                                     *)
NextId == object_id + 1

TakeId(p) ==
  /\ object_id < MaxId /\ load # "failed"
  /\ Goto(p, "fd", "pgd")
  /\ object_id' = NextId
  /\ ids' = Append(ids, NextId)
  /\ UNCHANGED <<module, refs, in_use, kx, idt, flushed, device, part,
                 kx_entry>>

(* Mutant: the pages of the fifth level are not freed.                     *)
kkm_kontainer_cleanupFour(used, p) ==
  used \ {part[p][x] : x \in KontainerParts \ {"p4d"}}

(* kkm_kontainer_cleanup                                                   *)
kkm_kontainer_cleanup(used, p) == used \ Held(part[p])

CreateFails(p) == pc' = [pc EXCEPT ![p] = "broken"]

(* One allocation of kkm_kontainer_init; used is what its failure leaves.  *)
InitPart(p, x, to, used) ==
  /\ pc[p] = x /\ load # "failed"
  /\ LET b == kkm_mm_allocate_pages(in_use)
     IN \/ /\ in_use # Blocks
           /\ part' = [part EXCEPT ![p][x] = b]
           /\ in_use' = in_use \cup {b}
           /\ pc' = [pc EXCEPT ![p] = to]
        \/ /\ x \in failing
           /\ in_use' = used
           /\ CreateFails(p) /\ UNCHANGED part
  /\ UNCHANGED <<module, refs, global, flushed, device, ids, kx_entry>>

InitPgd(p) ==
  InitPart(p, "pgd", IF LevelFive THEN "p4d" ELSE "pml4",
           kkm_kontainer_cleanup(in_use, p))

InitP4d(p) == InitPart(p, "p4d", "low", kkm_kontainer_cleanup(in_use, p))

(* This failure returns without the cleanup.                               *)
InitLow(p) == InitPart(p, "low", "pml4", in_use)

(* Mutant: the kontainer's hierarchy gets the kx hierarchy's pages.        *)
InitPml4Shared(p) ==
  /\ Goto(p, "pml4", "copy") /\ load # "failed"
  /\ part' = [part EXCEPT ![p] =
                [x \in KontainerParts |-> IF x \in DOMAIN kx THEN kx[x]
                                                             ELSE @[x]]]
  /\ UNCHANGED <<module, refs, in_use, global, flushed, device, ids, kx_entry>>

(* A failure of kkm_create_pml4 calls kkm_mmu_cleanup, then comes          *)
(* kkm_kontainer_cleanup.                                                  *)
InitPml4(p) ==
  /\ pc[p] = "pml4" /\ load # "failed"
  /\ \E fails \in {f \in 1..4 : f < 4 => Hierarchy[f] \in failing} :
       LET h == kkm_create_pml4(in_use, fails)
       IN /\ Cardinality(Blocks \ in_use) >= fails - 1
          /\ IF fails = 4
               THEN /\ part' = [part EXCEPT ![p] =
                         [x \in KontainerParts |->
                            IF x \in DOMAIN h THEN h[x] ELSE @[x]]]
                    /\ in_use' = in_use \cup Held(h)
                    /\ pc' = [pc EXCEPT ![p] = "copy"]
               ELSE /\ in_use' = kkm_kontainer_cleanup(
                                   kkm_mmu_cleanup(in_use), p)
                    /\ CreateFails(p) /\ UNCHANGED part
          /\ flushed' = (flushed \/ (fails < 4 /\ LazyFlush))
  /\ UNCHANGED <<module, refs, global, device, ids, kx_entry>>

(* kkm_mmu_copy_kernel_pgd; the reference count is set.                    *)
CopyPgd(p) ==
  /\ Goto(p, "copy", "live") /\ load # "failed"
  /\ kx_entry' = [kx_entry EXCEPT ![p] = kx.pud]
  /\ UNCHANGED <<module, refs, in_use, global, flushed, device, ids, part>>

(* The last reference to a kontainer goes with its file; one that is broken*)
(* never had a reference and is not destroyed.                             *)
CloseKontainer(p) ==
  /\ pc[p] \in {"live", "broken"} /\ load # "failed"
  /\ pc' = [pc EXCEPT ![p] = "none"]
  /\ in_use' = IF pc[p] = "live" THEN kkm_kontainer_cleanup(in_use, p)
                                 ELSE in_use
  /\ refs' = IF FileOwner THEN refs - 1 ELSE refs
  /\ UNCHANGED <<module, global, flushed, device, kontainer>>

(* KKM_ADD_EXECUTION_CONTEXT takes an id of the same count.                *)
AddKontext(p) ==
  /\ pc[p] = "live" /\ object_id < MaxId /\ load # "failed"
  /\ object_id' = NextId
  /\ UNCHANGED <<module, refs, in_use, kx, idt, flushed, device, pc,
                 kontainer>>

-----------------------------------------------------------------------------
Insmod == Register \/ SetOwner \/ MmuInit \/ IdtInit \/ SetObjectId
Rmmod == ExitIdt \/ ExitMmu \/ ExitDevice
CreateKontainer(p) ==
  \/ TakeId(p) \/ InitPgd(p) \/ InitP4d(p) \/ InitLow(p) \/ InitPml4(p)
  \/ CopyPgd(p)

Next ==
  \/ Insmod \/ Rmmod
  \/ \E p \in Processes :
       \/ Open(p) \/ CloseDevice(p) \/ Create(p) \/ CreateKontainer(p)
       \/ CloseKontainer(p) \/ AddKontext(p)

Spec == Init /\ [][Next]_vars

-----------------------------------------------------------------------------
(***************************************************************************)
(* Properties                                                              *)
(***************************************************************************)

Loaded == load = "loaded"
Live == {p \in Processes : pc[p] = "live"}
Created == {p \in Processes : pc[p] \notin {"none", "fd", "broken"}}
HasFile == {p \in Processes : pc[p] # "none"}

(* The module cannot be unloaded under an open file, and can be once all   *)
(* are closed: its references are its files.                               *)
ModuleRefsExact == refs = Cardinality(device) + Cardinality(HasFile)

(* The failures after which the driver gives back what it had allocated,   *)
(* and nothing else; insmod's need no cleanup of the kontainers.           *)
CleanFailures == {"register", "kx", "idt", "pgd", "p4d"}
Clean == failing \subseteq CleanFailures

(* The hierarchy that every kontainer's page tables lead to is the kx      *)
(* hierarchy, allocated as long as a kontainer lives.                      *)
KxIntact ==
  Clean =>
    \A p \in Live :
      Loaded /\ kx_entry[p] = kx.pud /\ Cardinality(Held(kx) \cap in_use) = 3

(* Every block in use is reached by one pointer that will free it once:    *)
(* nothing leaks, and after rmmod, which is to clean up everything         *)
(* (kkm_main.c:975), nothing is left.  An insmod that fails cleans up      *)
(* nothing.                                                                *)
Owned(p) == IF p \in Created THEN Held(part[p]) ELSE {}
KxOwned == IF load \in {"exit_device", "unloaded"} THEN {} ELSE Held(kx)
PagesOwned ==
  Clean /\ load # "failed" =>
    /\ in_use = (UNION {Owned(p) : p \in Processes}) \cup KxOwned
                  \cup ({idt} \ {0})
    /\ \A p \in Processes :
         /\ Owned(p) \cap (KxOwned \cup {idt}) = {}
         /\ \A q \in Processes \ {p} : Owned(p) \cap Owned(q) = {}

(* Each kontainer has a globally unique id for the run time of the driver  *)
(* (docs/kkm-lazy-tlb-flush.odt).  No id comes again after its kontainer   *)
(* is closed: the lazy flush compares kkm->id with the last_id of a cpu's  *)
(* interrupt table, which stays when the kontainer goes.                   *)
IdsUnique ==
  \A i, j \in 1..Len(ids) : i # j => ids[i] # ids[j]

(* INVPCID, on a PCID that is not zero, is executed only on a cpu that has *)
(* both: a cpu without INVPCID uses the full flush (kkm_main.c:892).       *)
FlushSupported == flushed => cpu.invpcid /\ cpu.pcid
=============================================================================
