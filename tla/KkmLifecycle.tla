---------------------------- MODULE KkmLifecycle ----------------------------
(***************************************************************************)
(* Life of one kontainer (struct kkm) and of its kontexts: creation,       *)
(* KKM_ADD_EXECUTION_CONTEXT, use of a kontext through its file, close and *)
(* release, reference counting and the destruction of the kontainer        *)
(* (kkm_main.c, with kkm_kontext_init/cleanup and kkm_kontainer_init).     *)
(*                                                                         *)
(* A kontext lives in a slot of kkm->kontext[].  Slots are numbered from 1 *)
(* and the file descriptor of slot i is the number i: 0 is a descriptor    *)
(* that is not a kontext, negative numbers are errnos.                     *)
(*                                                                         *)
(* A file is released by whoever drops its last reference: its descriptor, *)
(* a mapping of it, or a system call in progress on it.  kontext_lock      *)
(* covers the whole of KKM_ADD_EXECUTION_CONTEXT, but of the release only  *)
(* the decrement of kontext_count.                                         *)
(***************************************************************************)
EXTENDS Integers, FiniteSets

CONSTANTS
  Threads,      (* threads of the monitor process                          *)
  MaxContexts,  (* KKM_MAX_CONTEXTS                                        *)
  CountMod,     (* 2^32, the values of the uint32_t kontext_count          *)
  Failures,     (* allocations that may fail, a subset of FailureSites     *)
  FirstElsewhere, (* the monitor restores the first thread's save info on  *)
                  (* a kontext that was not made as the first thread       *)
  NoThread      (* kontext_lock is free                                    *)

FailureSites ==
  {"getfd_kontainer", "kontainer_init",
   "kzalloc", "getfd", "map_page", "kontext_init"}

ASSUME ConstantsAssumption ==
  /\ MaxContexts \in Nat \ {0}
  /\ CountMod \in Nat /\ CountMod > MaxContexts
  /\ Failures \subseteq FailureSites
  /\ FirstElsewhere \in BOOLEAN
  /\ IsFiniteSet(Threads) /\ NoThread \notin Threads

Slots == 1..MaxContexts
EINVAL == -22
ENOMEM == -12

VARIABLES
  kkm,              (* the kontainer object: none, alive, freed, leaked    *)
  kontainer_file,   (* the kontainer's file                                *)
  reference_count,  (* kkm->reference_count                                *)
  kontext_count,    (* kkm->kontext_count                                  *)
  kontext_lock,     (* holder of kkm->kontext_lock                         *)
  allocated,        (* kkm->kontext[i] # NULL                              *)
  used,             (* kontext[i]->used                                    *)
  first_thread,     (* kontext[i]->first_thread                            *)
  made_first,       (* the kontext of slot i was made as the first thread  *)
  guest_area,       (* guest area and xsave pages of slot i are allocated  *)
  mmap_area,        (* pages shared with the monitor are allocated         *)
  file,             (* the file of the kontext in slot i                   *)
  mapped,           (* the monitor maps the shared pages of slot i         *)
  pc,               (* where in the driver a thread is                     *)
  slot,             (* the slot a thread works on, 0 if none               *)
  ret_val,          (* ret_val of kkm_add_execution_kontext                *)
  killed            (* the monitor process is exiting                      *)

objectVars == <<kkm, kontainer_file, reference_count>>
slotVars ==
  <<allocated, used, first_thread, made_first, guest_area, mmap_area>>
fileVars == <<file, mapped>>
threadVars == <<pc, slot, ret_val>>
vars == <<objectVars, kontext_count, kontext_lock, slotVars, fileVars,
          threadVars, killed>>

(***************************************************************************)
(* A file is "hidden" from the descriptor's installation to the return of  *)
(* its number to the monitor, "open" while the monitor can use the number, *)
(* "closed" when the descriptor is gone but a mapping or a call in         *)
(* progress keeps the file, and "none" before and from its release on.     *)
(***************************************************************************)
FileStates == {"none", "hidden", "open", "closed"}

AddPcs == {"add_lock", "add_scan", "add_getfd", "add_map", "add_init",
           "add_finish", "add_error", "oops"}
ReleasePcs == {"rel_free", "rel_unuse", "rel_first", "rel_count", "rel_down"}
Pcs == {"idle", "run", "kontainer_release"} \cup AddPcs \cup ReleasePcs

TypeOK ==
  /\ kkm \in {"none", "alive", "freed", "leaked"}
  /\ kontainer_file \in FileStates
  /\ reference_count \in Int
  /\ kontext_count \in 0..(CountMod - 1)
  /\ kontext_lock \in Threads \cup {NoThread}
  /\ allocated \in [Slots -> BOOLEAN]
  /\ used \in [Slots -> BOOLEAN]
  /\ first_thread \in [Slots -> BOOLEAN]
  /\ made_first \in [Slots -> BOOLEAN]
  /\ guest_area \in [Slots -> BOOLEAN]
  /\ mmap_area \in [Slots -> BOOLEAN]
  /\ file \in [Slots -> FileStates]
  /\ mapped \in [Slots -> BOOLEAN]
  /\ pc \in [Threads -> Pcs]
  /\ slot \in [Threads -> 0..(MaxContexts + 1)]
  /\ ret_val \in [Threads -> Slots \cup {0, EINVAL, ENOMEM}]
  /\ killed \in BOOLEAN

Init ==
  /\ kkm = "none"
  /\ kontainer_file = "none"
  /\ reference_count = 0
  /\ kontext_count = 0
  /\ kontext_lock = NoThread
  /\ allocated = [i \in Slots |-> FALSE]
  /\ used = [i \in Slots |-> FALSE]
  /\ first_thread = [i \in Slots |-> FALSE]
  /\ made_first = [i \in Slots |-> FALSE]
  /\ guest_area = [i \in Slots |-> FALSE]
  /\ mmap_area = [i \in Slots |-> FALSE]
  /\ file = [i \in Slots |-> "none"]
  /\ mapped = [i \in Slots |-> FALSE]
  /\ pc = [t \in Threads |-> "idle"]
  /\ slot = [t \in Threads |-> 0]
  /\ ret_val = [t \in Threads |-> 0]
  /\ killed = FALSE

-----------------------------------------------------------------------------
(* The kernel's refcount_t: zero is final, a count that leaves the normal  *)
(* range saturates and never reaches zero again.                           *)
Saturated == -1
RefInc(count) == IF count <= 0 THEN Saturated ELSE count + 1
RefDec(count) == IF count <= 0 THEN Saturated ELSE count - 1

(* kontext_count++ and kontext_count-- on a uint32_t.                      *)
CountInc(count) == IF count = CountMod - 1 THEN 0 ELSE count + 1
CountDec(count) == IF count = 0 THEN CountMod - 1 ELSE count - 1

AllIdle == \A t \in Threads : pc[t] = "idle"

Goto(t, from, to) ==
  /\ pc[t] = from
  /\ pc' = [pc EXCEPT ![t] = to]

(* A system call of thread t begins.                                       *)
Enter(t, to) == ~killed /\ Goto(t, "idle", to)

-----------------------------------------------------------------------------
(***************************************************************************)
(* Reference counting and destruction                                      *)
(***************************************************************************)

(* Mutant: the kontainer is freed with one holder left.                    *)
kkm_reference_count_downEarly ==
  /\ reference_count' = RefDec(reference_count)
  /\ IF reference_count' <= 1
       THEN kkm' = "freed" /\ allocated' = [i \in Slots |-> FALSE]
       ELSE UNCHANGED <<kkm, allocated>>

(* kkm_reference_count_down: the last reference frees the slots that are   *)
(* allocated, the kontainer's page tables and the kontainer itself.        *)
kkm_reference_count_down ==
  /\ reference_count' = RefDec(reference_count)
  /\ IF reference_count' = 0
       THEN kkm' = "freed" /\ allocated' = [i \in Slots |-> FALSE]
       ELSE UNCHANGED <<kkm, allocated>>

-----------------------------------------------------------------------------
(***************************************************************************)
(* KKM_CREATE_KONTAINER.  No other thread knows the descriptor before the  *)
(* call returns, so each outcome is one step.                              *)
(***************************************************************************)
CreateKontainer(t) ==
  /\ ~killed /\ pc[t] = "idle" /\ kkm = "none"
  /\ kkm' = "alive"
  /\ kontainer_file' = "open"
  /\ reference_count' = 1
  /\ UNCHANGED <<kontext_count, kontext_lock, slotVars, fileVars, threadVars,
                 killed>>

(* No descriptor: the error path does not free the kontainer.              *)
CreateGetFdFails(t) ==
  /\ "getfd_kontainer" \in Failures
  /\ ~killed /\ pc[t] = "idle" /\ kkm = "none"
  /\ kkm' = "leaked"
  /\ UNCHANGED <<kontainer_file, reference_count, kontext_count, kontext_lock,
                 slotVars, fileVars, threadVars, killed>>

(* kkm_kontainer_init or kkm_mmu_copy_kernel_pgd fails after the           *)
(* descriptor is installed and before the reference count is set.          *)
CreateInitFails(t) ==
  /\ "kontainer_init" \in Failures
  /\ ~killed /\ pc[t] = "idle" /\ kkm = "none"
  /\ kkm' = "alive"
  /\ kontainer_file' = "hidden"
  /\ UNCHANGED <<reference_count, kontext_count, kontext_lock, slotVars,
                 fileVars, threadVars, killed>>

-----------------------------------------------------------------------------
(***************************************************************************)
(* KKM_ADD_EXECUTION_CONTEXT (kkm_add_execution_kontext)                   *)
(***************************************************************************)

(* The ioctl holds a reference on the kontainer's file until it returns.   *)
AddBegin(t) ==
  /\ kontainer_file = "open"
  /\ Enter(t, "add_lock")
  /\ UNCHANGED <<objectVars, kontext_count, kontext_lock, slotVars, fileVars,
                 slot, ret_val, killed>>

(* The three checks made under the lock.  mm says whether the caller runs  *)
(* on the address space that created the kontainer.                        *)
Mms == {"creator", "other"}
VcpuIds == {0, MaxContexts}

(* Mutant: the count is compared with <=.                                  *)
AddAllowedOneMore(mm, vcpu_id) ==
  mm = "creator" /\ vcpu_id < MaxContexts /\ kontext_count <= MaxContexts

AddAllowed(mm, vcpu_id) ==
  mm = "creator" /\ vcpu_id < MaxContexts /\ kontext_count < MaxContexts

AddLock(t, mm, vcpu_id) ==
  /\ kontext_lock = NoThread
  /\ AddAllowed(mm, vcpu_id)
  /\ Goto(t, "add_lock", "add_scan")
  /\ kontext_lock' = t
  /\ slot' = [slot EXCEPT ![t] = 1]
  /\ UNCHANGED <<objectVars, kontext_count, slotVars, fileVars, ret_val,
                 killed>>

AddRefused(t, mm, vcpu_id) ==
  /\ kontext_lock = NoThread
  /\ ~AddAllowed(mm, vcpu_id)
  /\ Goto(t, "add_lock", "add_error")
  /\ kontext_lock' = t
  /\ ret_val' = [ret_val EXCEPT ![t] = EINVAL]
  /\ UNCHANGED <<objectVars, kontext_count, slotVars, fileVars, slot, killed>>

(* Mutant: the search steps over a slot.                                   *)
AddScanBusySkips(t) ==
  LET i == slot[t] IN
  /\ pc[t] = "add_scan"
  /\ i \in Slots /\ allocated[i] /\ used[i]
  /\ slot' = [slot EXCEPT ![t] = i + 2]
  /\ UNCHANGED <<objectVars, kontext_count, kontext_lock, slotVars, fileVars,
                 pc, ret_val, killed>>

(* One round of the slot search.  It reads used without the lock that the  *)
(* release would need to change it, so a slot may become free behind it.   *)
AddScanBusy(t) ==
  LET i == slot[t] IN
  /\ pc[t] = "add_scan"
  /\ i \in Slots /\ allocated[i] /\ used[i]
  /\ slot' = [slot EXCEPT ![t] = i + 1]
  /\ UNCHANGED <<objectVars, kontext_count, kontext_lock, slotVars, fileVars,
                 pc, ret_val, killed>>

(* Mutant: first means that no slot is used, not that none is counted.     *)
AddClaimFirstUnused(t) ==
  LET i == slot[t] IN
  /\ i \in Slots /\ (allocated[i] => ~used[i])
  /\ Goto(t, "add_scan", "add_getfd")
  /\ allocated' = [allocated EXCEPT ![i] = TRUE]
  /\ used' = [used EXCEPT ![i] = TRUE]
  /\ first_thread' = [first_thread EXCEPT ![i] = \A j \in Slots : ~used[j]]
  /\ made_first' = [made_first EXCEPT ![i] = \A j \in Slots : ~used[j]]
  /\ UNCHANGED <<objectVars, kontext_count, kontext_lock, guest_area,
                 mmap_area, fileVars, slot, ret_val, killed>>

(* The search stops at a slot and claims it.                               *)
AddClaim(t) ==
  LET i == slot[t] IN
  /\ i \in Slots /\ (allocated[i] => ~used[i])
  /\ Goto(t, "add_scan", "add_getfd")
  /\ allocated' = [allocated EXCEPT ![i] = TRUE]
  /\ used' = [used EXCEPT ![i] = TRUE]
  /\ first_thread' = [first_thread EXCEPT ![i] = (kontext_count = 0)]
  /\ made_first' = [made_first EXCEPT ![i] = (kontext_count = 0)]
  /\ UNCHANGED <<objectVars, kontext_count, kontext_lock, guest_area,
                 mmap_area, fileVars, slot, ret_val, killed>>

(* kzalloc of the slot fails.                                              *)
AddNoMemory(t) ==
  /\ "kzalloc" \in Failures
  /\ slot[t] \in Slots /\ ~allocated[slot[t]]
  /\ Goto(t, "add_scan", "add_error")
  /\ ret_val' = [ret_val EXCEPT ![t] = ENOMEM]
  /\ UNCHANGED <<objectVars, kontext_count, kontext_lock, slotVars, fileVars,
                 slot, killed>>

(* The search runs off the table: kontext[KKM_MAX_CONTEXTS] is the first   *)
(* word of pf_lock, NULL while no page fault is handled, and dereferencing *)
(* it kills the thread with kontext_lock held.                             *)
AddRunsOff(t) ==
  /\ slot[t] \notin Slots
  /\ Goto(t, "add_scan", "oops")
  /\ UNCHANGED <<objectVars, kontext_count, kontext_lock, slotVars, fileVars,
                 slot, ret_val, killed>>

(* anon_inode_getfd installs the descriptor: close() works on it from now  *)
(* on, though the monitor does not have its number yet.                    *)
AddGetFd(t) ==
  /\ Goto(t, "add_getfd", "add_map")
  /\ file' = [file EXCEPT ![slot[t]] = "hidden"]
  /\ ret_val' = [ret_val EXCEPT ![t] = slot[t]]
  /\ UNCHANGED <<objectVars, kontext_count, kontext_lock, slotVars, mapped,
                 slot, killed>>

(* Its failure is not an error for the code: ret_val stays 0.              *)
AddGetFdFails(t) ==
  /\ "getfd" \in Failures
  /\ Goto(t, "add_getfd", "add_map")
  /\ UNCHANGED <<objectVars, kontext_count, kontext_lock, slotVars, fileVars,
                 slot, ret_val, killed>>

AddMapPages(t) ==
  /\ Goto(t, "add_map", "add_init")
  /\ mmap_area' = [mmap_area EXCEPT ![slot[t]] = TRUE]
  /\ UNCHANGED <<objectVars, kontext_count, kontext_lock, allocated, used,
                 first_thread, made_first, guest_area, fileVars, slot, ret_val,
                 killed>>

(* The first page may have been allocated before the second one fails.     *)
AddMapPagesFails(t) ==
  /\ "map_page" \in Failures
  /\ Goto(t, "add_map", "add_error")
  /\ \E some \in BOOLEAN :
       mmap_area' = [mmap_area EXCEPT ![slot[t]] = some]
  /\ ret_val' = [ret_val EXCEPT ![t] = ENOMEM]
  /\ UNCHANGED <<objectVars, kontext_count, kontext_lock, allocated, used,
                 first_thread, made_first, guest_area, fileVars, slot, killed>>

(* kkm_kontext_init: guest area and xsave area, both or (after its own     *)
(* cleanup) neither; a failure leaves ret_val alone.                       *)
AddKontextInit(t) ==
  /\ Goto(t, "add_init", "add_finish")
  /\ guest_area' = [guest_area EXCEPT ![slot[t]] = TRUE]
  /\ UNCHANGED <<objectVars, kontext_count, kontext_lock, allocated, used,
                 first_thread, made_first, mmap_area, fileVars, slot, ret_val,
                 killed>>

AddKontextInitFails(t) ==
  /\ "kontext_init" \in Failures
  /\ Goto(t, "add_init", "add_error")
  /\ UNCHANGED <<objectVars, kontext_count, kontext_lock, slotVars, fileVars,
                 slot, ret_val, killed>>

(* mutex_unlock and the return to the monitor, which learns the number of  *)
(* the descriptor when there is one in ret_val.  The ioctl's reference on  *)
(* the kontainer's file is dropped and may be the last one.                *)
LeaveAdd(t) ==
  LET last == /\ kontainer_file = "closed"
              /\ \A u \in Threads \ {t} : pc[u] \notin AddPcs
      fd == ret_val[t]
  IN
  /\ kontext_lock' = NoThread
  /\ file' = IF fd \in Slots THEN [file EXCEPT ![fd] = "open"] ELSE file
  /\ ret_val' = [ret_val EXCEPT ![t] = 0]
  /\ slot' = [slot EXCEPT ![t] = 0]
  /\ pc' = [pc EXCEPT ![t] = IF last THEN "kontainer_release" ELSE "idle"]
  /\ kontainer_file' = IF last THEN "none" ELSE kontainer_file

(* Mutants: no reference is taken; the kontext is not counted.             *)
AddFinishNoRef(t) ==
  /\ pc[t] = "add_finish"
  /\ kontext_count' = CountInc(kontext_count)
  /\ LeaveAdd(t)
  /\ UNCHANGED <<kkm, reference_count, slotVars, mapped, killed>>

AddFinishNoCount(t) ==
  /\ pc[t] = "add_finish"
  /\ reference_count' = RefInc(reference_count)
  /\ LeaveAdd(t)
  /\ UNCHANGED <<kkm, kontext_count, slotVars, mapped, killed>>

AddFinish(t) ==
  /\ pc[t] = "add_finish"
  /\ reference_count' = RefInc(reference_count)
  /\ kontext_count' = CountInc(kontext_count)
  /\ LeaveAdd(t)
  /\ UNCHANGED <<kkm, slotVars, mapped, killed>>

(* Mutant: the error path returns without mutex_unlock.                    *)
AddErrorKeepsLock(t) ==
  /\ Goto(t, "add_error", "idle")
  /\ ret_val' = [ret_val EXCEPT ![t] = 0]
  /\ slot' = [slot EXCEPT ![t] = 0]
  /\ UNCHANGED <<objectVars, kontext_count, kontext_lock, slotVars, fileVars,
                 killed>>

AddError(t) ==
  /\ pc[t] = "add_error"
  /\ LeaveAdd(t)
  /\ UNCHANGED <<kkm, reference_count, kontext_count, slotVars, mapped,
                 killed>>

-----------------------------------------------------------------------------
(***************************************************************************)
(* Use of a kontext through its descriptor                                 *)
(***************************************************************************)
Running(i) == \E t \in Threads : pc[t] = "run" /\ slot[t] = i

(* Thread t, now in state pc[t], drops a reference on the file of slot i   *)
(* that leaves the file in state rest: the last one starts the release.    *)
DropKontextRef(t, i, rest, stillUsed) ==
  IF rest = "closed" /\ ~stillUsed
    THEN /\ file' = [file EXCEPT ![i] = "none"]
         /\ pc' = [pc EXCEPT ![t] = "rel_free"]
         /\ slot' = [slot EXCEPT ![t] = i]
    ELSE /\ file' = [file EXCEPT ![i] = rest]
         /\ pc' = [pc EXCEPT ![t] = "idle"]
         /\ slot' = [slot EXCEPT ![t] = 0]

(* Any ioctl on a kontext, KKM_RUN the longest one.  Nothing stops two     *)
(* threads from being in one at the same time.  Only KKM_KONTEXT_SET_SAVE_ *)
(* INFO changes what is modelled here, in a step of its own.               *)
RunBegin(t, i) ==
  /\ file[i] = "open"
  /\ Enter(t, "run")
  /\ slot' = [slot EXCEPT ![t] = i]
  /\ UNCHANGED <<objectVars, kontext_count, kontext_lock, slotVars, fileVars,
                 ret_val, killed>>

(* KKM_KONTEXT_SET_SAVE_INFO writes the first_thread of the monitor's      *)
(* argument, in whatever kontext it is given.  The monitor is taken to     *)
(* restore TRUE only where the kontext was made as the first thread, in    *)
(* this process or in the one the information was saved in.  A call writes *)
(* once; one that writes again stands for several in a row.                *)
SetSaveInfo(t, first) ==
  LET i == slot[t] IN
  /\ pc[t] = "run"
  /\ first => made_first[i] \/ FirstElsewhere
  /\ first_thread' = [first_thread EXCEPT ![i] = first]
  /\ UNCHANGED <<objectVars, kontext_count, kontext_lock, allocated, used,
                 made_first, guest_area, mmap_area, fileVars, threadVars,
                 killed>>

RunEnd(t) ==
  LET i == slot[t]
      others == \E u \in Threads \ {t} : pc[u] = "run" /\ slot[u] = i
  IN
  /\ pc[t] = "run"
  /\ DropKontextRef(t, i, file[i], mapped[i] \/ others)
  /\ UNCHANGED <<objectVars, kontext_count, kontext_lock, slotVars, mapped,
                 ret_val, killed>>

(* kkm_execution_kontext_mmap; the mapping references the file.            *)
Mmap(t, i) ==
  /\ ~killed /\ pc[t] = "idle"
  /\ file[i] = "open" /\ ~mapped[i]
  /\ mapped' = [mapped EXCEPT ![i] = TRUE]
  /\ UNCHANGED <<objectVars, kontext_count, kontext_lock, slotVars, file,
                 threadVars, killed>>

(* munmap, or the exit of the process.                                     *)
Munmap(t, i) ==
  /\ pc[t] = "idle" /\ mapped[i]
  /\ killed => AllIdle
  /\ mapped' = [mapped EXCEPT ![i] = FALSE]
  /\ DropKontextRef(t, i, file[i], Running(i))
  /\ UNCHANGED <<objectVars, kontext_count, kontext_lock, slotVars, ret_val,
                 killed>>

(* The monitor closes a descriptor whose number it has; the exit of the    *)
(* process, once every thread has left the driver, closes the others too.  *)
Closable(state) ==
  \/ state = "open" /\ (killed => AllIdle)
  \/ state = "hidden" /\ killed /\ AllIdle

CloseKontext(t, i) ==
  /\ pc[t] = "idle" /\ Closable(file[i])
  /\ DropKontextRef(t, i, "closed", mapped[i] \/ Running(i))
  /\ UNCHANGED <<objectVars, kontext_count, kontext_lock, slotVars, mapped,
                 ret_val, killed>>

-----------------------------------------------------------------------------
(***************************************************************************)
(* kkm_execution_kontext_release                                           *)
(***************************************************************************)

(* Mutant: the pages shared with the monitor are forgotten.                *)
ReleaseFreeNoMap(t) ==
  /\ Goto(t, "rel_free", "rel_unuse")
  /\ guest_area' = [guest_area EXCEPT ![slot[t]] = FALSE]
  /\ UNCHANGED <<objectVars, kontext_count, kontext_lock, allocated, used,
                 first_thread, made_first, mmap_area, fileVars, slot, ret_val,
                 killed>>

(* kkm_kontext_cleanup and the pages shared with the monitor.              *)
ReleaseFree(t) ==
  /\ Goto(t, "rel_free", "rel_unuse")
  /\ guest_area' = [guest_area EXCEPT ![slot[t]] = FALSE]
  /\ mmap_area' = [mmap_area EXCEPT ![slot[t]] = FALSE]
  /\ UNCHANGED <<objectVars, kontext_count, kontext_lock, allocated, used,
                 first_thread, made_first, fileVars, slot, ret_val, killed>>

(* used = false, without kontext_lock: the slot can be claimed at once.    *)
ReleaseUnuse(t) ==
  /\ Goto(t, "rel_unuse", "rel_first")
  /\ used' = [used EXCEPT ![slot[t]] = FALSE]
  /\ UNCHANGED <<objectVars, kontext_count, kontext_lock, allocated,
                 first_thread, made_first, guest_area, mmap_area, fileVars,
                 slot, ret_val, killed>>

(* first_thread = false, in a slot that may have a new owner.              *)
ReleaseFirst(t) ==
  /\ Goto(t, "rel_first", "rel_count")
  /\ first_thread' = [first_thread EXCEPT ![slot[t]] = FALSE]
  /\ UNCHANGED <<objectVars, kontext_count, kontext_lock, allocated, used,
                 made_first, guest_area, mmap_area, fileVars, slot, ret_val,
                 killed>>

(* mutex_lock, kontext_count--, mutex_unlock.                              *)
ReleaseCount(t) ==
  /\ kontext_lock = NoThread
  /\ Goto(t, "rel_count", "rel_down")
  /\ kontext_count' = CountDec(kontext_count)
  /\ UNCHANGED <<objectVars, kontext_lock, slotVars, fileVars, slot, ret_val,
                 killed>>

ReleaseDown(t) ==
  /\ Goto(t, "rel_down", "idle")
  /\ kkm_reference_count_down
  /\ slot' = [slot EXCEPT ![t] = 0]
  /\ UNCHANGED <<kontainer_file, kontext_count, kontext_lock, used,
                 first_thread, made_first, guest_area, mmap_area, fileVars,
                 ret_val, killed>>

-----------------------------------------------------------------------------
(* The kontainer's file: close, and kkm_kontainer_release.                 *)
CloseKontainer(t) ==
  LET busy == \E u \in Threads : pc[u] \in AddPcs IN
  /\ pc[t] = "idle" /\ Closable(kontainer_file)
  /\ kontainer_file' = IF busy THEN "closed" ELSE "none"
  /\ pc' = [pc EXCEPT ![t] = IF busy THEN "idle" ELSE "kontainer_release"]
  /\ UNCHANGED <<kkm, reference_count, kontext_count, kontext_lock, slotVars,
                 fileVars, slot, ret_val, killed>>

(* Mutant: the kontainer's file does not give its reference back.          *)
KontainerReleaseKeepsRef(t) ==
  /\ Goto(t, "kontainer_release", "idle")
  /\ UNCHANGED <<objectVars, kontext_count, kontext_lock, slotVars, fileVars,
                 slot, ret_val, killed>>

KontainerRelease(t) ==
  /\ Goto(t, "kontainer_release", "idle")
  /\ kkm_reference_count_down
  /\ UNCHANGED <<kontainer_file, kontext_count, kontext_lock, used,
                 first_thread, made_first, guest_area, mmap_area, fileVars,
                 slot, ret_val, killed>>

(* A fatal signal: no thread begins a system call any more.                *)
Kill ==
  /\ ~killed
  /\ killed' = TRUE
  /\ UNCHANGED <<objectVars, kontext_count, kontext_lock, slotVars, fileVars,
                 threadVars>>

(* The process is gone; the model stops here and nowhere else.             *)
Exited ==
  /\ killed /\ AllIdle
  /\ kontainer_file = "none"
  /\ \A i \in Slots : file[i] = "none"
  /\ UNCHANGED vars

-----------------------------------------------------------------------------
(* The steps of a system call that has begun.                              *)
Driver(t) ==
  \/ \E mm \in Mms, vcpu_id \in VcpuIds :
       AddLock(t, mm, vcpu_id) \/ AddRefused(t, mm, vcpu_id)
  \/ AddScanBusy(t) \/ AddClaim(t) \/ AddNoMemory(t) \/ AddRunsOff(t)
  \/ AddGetFd(t) \/ AddGetFdFails(t)
  \/ AddMapPages(t) \/ AddMapPagesFails(t)
  \/ AddKontextInit(t) \/ AddKontextInitFails(t)
  \/ AddFinish(t) \/ AddError(t)
  \/ ReleaseFree(t) \/ ReleaseUnuse(t) \/ ReleaseFirst(t)
  \/ ReleaseCount(t) \/ ReleaseDown(t)
  \/ KontainerRelease(t)

Close(t) ==
  \/ CloseKontainer(t)
  \/ \E i \in Slots : CloseKontext(t, i) \/ Munmap(t, i)

(* What the monitor may ask for, in any order.                             *)
Request(t) ==
  \/ CreateKontainer(t) \/ CreateGetFdFails(t) \/ CreateInitFails(t)
  \/ AddBegin(t)
  \/ \E i \in Slots : RunBegin(t, i) \/ Mmap(t, i)

Next ==
  \/ \E t \in Threads :
       \/ Driver(t) \/ Request(t) \/ RunEnd(t) \/ Close(t)
       \/ \E first \in BOOLEAN : SetSaveInfo(t, first)
  \/ Kill
  \/ Exited

Spec == Init /\ [][Next]_vars

(***************************************************************************)
(* Fairness.  A thread in the driver is scheduled until its call returns;  *)
(* a mutex is handed to a waiter that has waited long enough, so a thread  *)
(* that waits for kontext_lock is not passed over for ever.  Once the      *)
(* process is killed the pending signal ends KKM_RUN and the exit closes   *)
(* what is open.  Nothing forces the monitor to make or to end a call.     *)
(***************************************************************************)
Fairness ==
  /\ \A t \in Threads :
       /\ SF_vars(Driver(t))
       /\ WF_vars(killed /\ RunEnd(t))
       /\ WF_vars(killed /\ Close(t))

FairSpec == Spec /\ Fairness

-----------------------------------------------------------------------------
(***************************************************************************)
(* Properties                                                              *)
(***************************************************************************)

(* Slots whose kontext the kontainer has counted, threads that release one *)
(* and still hold its reference, and those that have not uncounted it yet. *)
Registered == {i \in Slots : file[i] \in {"open", "closed"}}
Releasing == {t \in Threads : pc[t] \in ReleasePcs}
StillCounted == {t \in Threads : pc[t] \in ReleasePcs \ {"rel_down"}}
KontainerHeld ==
  kontainer_file # "none" \/ \E t \in Threads : pc[t] = "kontainer_release"

(* reference_count is one for the kontainer's file and one for every       *)
(* kontext, to the end of its release; kkm_destroy_app runs exactly when   *)
(* the last of them is gone.                                               *)
RefcountExact ==
  /\ reference_count = Cardinality(Registered) + Cardinality(Releasing)
                         + (IF KontainerHeld THEN 1 ELSE 0)
  /\ kkm \in {"none", "freed"} <=> reference_count = 0

(* kontext_count counts the kontexts that exist and those whose release    *)
(* has not taken kontext_lock yet, and never passes KKM_MAX_CONTEXTS.      *)
KontextCountExact ==
  /\ kontext_count = Cardinality(Registered) + Cardinality(StillCounted)
  /\ kontext_count <= MaxContexts

(* Whatever a thread or a file can still reach is allocated: the kontainer *)
(* and the slot behind a file, the guest area of a kontext that runs, the  *)
(* pages of a mapping, the slot a release still writes to.                 *)
NoUseAfterFree ==
  /\ kontainer_file # "none" => kkm = "alive"
  /\ \A t \in Threads : pc[t] # "idle" => kkm = "alive"
  /\ \A i \in Slots : file[i] # "none" => kkm = "alive" /\ allocated[i]
  /\ \A t \in Threads : pc[t] = "run" => guest_area[slot[t]]
  /\ \A i \in Slots : mapped[i] => mmap_area[i]
  /\ \A t \in Threads :
       pc[t] \in {"rel_free", "rel_unuse", "rel_first"} => allocated[slot[t]]

(* The count check of kkm_add_execution_kontext guarantees that its search *)
(* ends at a slot, although releases change used behind its back: the      *)
(* search has no check of its own for i == KKM_MAX_CONTEXTS.               *)
SearchFindsSlot == \A t \in Threads : pc[t] = "add_scan" => slot[t] \in Slots

(* At most one live kontext is the kontainer's first thread, the one whose *)
(* stack pointer KKM_RUN leaves alone on its first entry, whatever the     *)
(* monitor restores with KKM_KONTEXT_SET_SAVE_INFO on the kontexts it may. *)
OneFirstThread ==
  \A i, j \in Slots :
    /\ file[i] # "none" /\ first_thread[i]
    /\ file[j] # "none" /\ first_thread[j]
    => i = j

(* A release clears first_thread after giving up the slot, yet never in a  *)
(* kontext that has meanwhile been created there as the first thread: a    *)
(* live kontext ceases to be the first thread only by the monitor's word.  *)
FirstThreadKept ==
  [][\A i \in Slots :
       first_thread[i] /\ file[i] # "none" /\ file'[i] # "none"
         => \/ first_thread'[i]
            \/ \E t \in Threads : slot[t] = i /\ SetSaveInfo(t, FALSE)]_vars

(* A slot that can be claimed again owns no pages, so that a new kontext   *)
(* never overwrites a pointer to pages that are still allocated.           *)
UnusedSlotOwnsNoPages ==
  \A i \in Slots : ~used[i] => ~guest_area[i] /\ ~mmap_area[i]

(* kkm_destroy_app frees the slots without looking into them: the pages of *)
(* every kontext must be gone by then.                                     *)
ReclaimComplete ==
  kkm = "freed" => \A i \in Slots : ~guest_area[i] /\ ~mmap_area[i]

(* kontext_lock is held exactly during the locked part of an add, on every *)
(* error path as well.                                                     *)
LockDiscipline ==
  \A t \in Threads :
    pc[t] \in AddPcs \ {"add_lock"} <=> kontext_lock = t

(* What a descriptor or a kontainer that could not be made leaves behind   *)
(* for good: a kontainer without a file or a reference, a kontext without  *)
(* a file.                                                                 *)
Orphaned ==
  \/ kkm = "leaked" \/ reference_count = Saturated
  \/ AllIdle /\ \E i \in Slots : used[i] /\ file[i] = "none"

(* Once the monitor is killed its kontainer is freed, whatever the threads *)
(* were doing: no reference is left behind but those that had no file to   *)
(* begin with.                                                             *)
ExitReclaims == killed ~> kkm \in {"none", "freed"} \/ Orphaned

(* Every KKM_ADD_EXECUTION_CONTEXT returns: no error path keeps the lock   *)
(* and no wait for it is endless.                                          *)
AddReturns ==
  \A t \in Threads : pc[t] = "add_lock" ~> pc[t] \notin AddPcs

(* The kontainer keeps the promise of KkmHandles: added kontexts, releases *)
(* under way and the reference count together free it with the last holder *)
(* and never before.                                                       *)
Handles == INSTANCE KkmHandles WITH
  Capacity <- MaxContexts,
  object <- kkm,
  owner <- KontainerHeld,
  kontexts <- Cardinality(Registered) + Cardinality(StillCounted),
  leaving <- Cardinality({t \in Threads : pc[t] = "rel_down"})

ImplementsHandles == Handles!Spec

(* A return value that is not negative is the descriptor of a kontext that *)
(* can run: what the users of KKM_ADD_EXECUTION_CONTEXT take it for.       *)
AddReturnsKontext ==
  [][\A t \in Threads :
       pc[t] \in {"add_finish", "add_error"} /\ pc'[t] # pc[t]
         /\ ret_val[t] >= 0
       => /\ ret_val[t] \in Slots
          /\ file'[ret_val[t]] = "open" /\ guest_area[ret_val[t]]]_vars
=============================================================================
