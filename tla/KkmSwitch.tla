------------------------------ MODULE KkmSwitch ------------------------------
(***************************************************************************)
(* The world switch: what a cpu's registers hold while threads of monitors *)
(* and the payloads of their kontexts take turns on it                     *)
(* (kkm_kontext_switch_kernel, kkm_guest_kernel_start_payload,             *)
(* kkm_switch_to_host_kernel in kkm_kontext.c, kkm_guest_entry.S,          *)
(* kkm_guest_exit.S), the interrupts that are forwarded, and the           *)
(* translations the cpu keeps.  KKM_RUN's calls and exits are KkmRun's.    *)
(*                                                                         *)
(* A register's value is named for whom it belongs to: a thread, a kontext,*)
(* a cpu, or the kernel (Native) or the driver (Guest).  The steps between *)
(* disabling and enabling interrupts are separate only because other cpus  *)
(* work on the same kontext; their own cpu sees none of them.              *)
(*                                                                         *)
(* A kontainer's memory is one page; tlb[c] has the kontainers whose page  *)
(* the cpu c has a translation of, under the driver's process context ids. *)
(***************************************************************************)
EXTENDS Integers, FiniteSets

CONSTANTS
  Cpus, Threads, Kontexts, Kontainers,
  KontextOf,    (* the kontext a thread runs, in [Threads -> Kontexts]     *)
  Belongings,   (* what kontext->kkm may be, in [Kontexts -> Kontainers]   *)
  Native, Guest, None,
  Preemptible,  (* the kernel may preempt a thread in the driver           *)
  Debugged,     (* the kontexts whose monitor uses KKM_SET_DEBUG           *)
  FpuUsed,      (* the kontexts whose monitor uses KKM_SET_FPU             *)
  DebugAnyTime, (* KKM_SET_DEBUG while the kontext runs                    *)
  FpuBeforeRun  (* KKM_SET_FPU before the first KKM_RUN                    *)

ASSUME SwitchAssumption ==
  /\ KontextOf \in [Threads -> Kontexts]
  /\ Belongings \subseteq [Kontexts -> Kontainers]
  /\ Debugged \subseteq Kontexts /\ FpuUsed \subseteq Kontexts
  /\ None \notin Threads
  /\ \A b \in {Preemptible, DebugAnyTime, FpuBeforeRun} : b \in BOOLEAN

VARIABLES
  kkm,          (* kontext->kkm                                            *)
  runs,         (* the thread on a cpu                                     *)
  regs,         (* the registers of a cpu                                  *)
  pc,           (* where a thread is                                       *)
  intr,         (* ga->intr_no: why the payload was left                   *)
  saved,        (* what a kontext and its guest area keep for the way back *)
  ga_cpu,       (* ga->cpu                                                 *)
  last_id,      (* kkm_idt.desc_entries[cpu].last_id, a kontainer          *)
  payload_xsave,(* the payload's xstate in memory                          *)
  valid_xsave,  (* valid_payload_xsave_area                                *)
  fpu_set,      (* the monitor has set the payload's xstate                *)
  ga_debug,     (* ga->debug.registers                                     *)
  debug_set,    (* debug_registers_set                                     *)
  mapped,       (* a kontainer's page is in its page tables                *)
  tlb,          (* the translations of a cpu                               *)
  requests,     (* the threads that wait for a cpu to flush                *)
  in_service    (* the cpu's interrupt controller awaits the end of one    *)

kontextVars == <<intr, saved, ga_cpu>>
xstateVars == <<payload_xsave, valid_xsave, fpu_set>>
debugVars == <<ga_debug, debug_set>>
ipiVars == <<requests, in_service>>
vars == <<kkm, runs, regs, pc, kontextVars, last_id, xstateVars, debugVars,
          mapped, tlb, ipiVars>>

Owners == Threads \cup Kontexts \cup Cpus \cup {Native, Guest, None}
Registers == {"space", "idt", "lstar", "sp0", "segments", "stack", "xstate",
              "debug"}
Saved == {"space", "segments", "stack", "sp0", "xstate", "debug"}
Pcs == {"monitor", "begin", "prepared", "saved", "payload", "trapped",
        "restored", "process", "unmapping"}

TypeOK ==
  /\ kkm \in [Kontexts -> Kontainers]
  /\ runs \in [Cpus -> Threads \cup {None}]
  /\ regs \in [Cpus -> [Registers -> Owners]]
  /\ pc \in [Threads -> Pcs]
  /\ intr \in [Kontexts -> {"none", "exit", "ipi", "timer"}]
  /\ saved \in [Kontexts -> [Saved -> Owners]]
  /\ ga_cpu \in [Kontexts -> Cpus \cup {None}]
  /\ last_id \in [Cpus -> Kontainers \cup {None}]
  /\ payload_xsave \in [Kontexts -> Owners]
  /\ valid_xsave \in [Kontexts -> BOOLEAN]
  /\ fpu_set \in [Kontexts -> BOOLEAN]
  /\ ga_debug \in [Kontexts -> Owners]
  /\ debug_set \in [Kontexts -> BOOLEAN]
  /\ mapped \in [Kontainers -> BOOLEAN]
  /\ tlb \in [Cpus -> SUBSET Kontainers]
  /\ requests \in [Cpus -> SUBSET Threads]
  /\ in_service \in [Cpus -> BOOLEAN]

(* The registers of cpu c when thread t runs outside the switch.           *)
NativeRegs(c, t) ==
  [space |-> t, idt |-> Native, lstar |-> Native, sp0 |-> c, segments |-> t,
   stack |-> t, xstate |-> t, debug |-> t]

Init ==
  /\ kkm \in Belongings
  /\ runs = [c \in Cpus |-> None]
  /\ regs = [c \in Cpus |-> NativeRegs(c, None)]
  /\ pc = [t \in Threads |-> "monitor"]
  /\ intr = [k \in Kontexts |-> "none"]
  /\ saved = [k \in Kontexts |-> [r \in Saved |-> None]]
  /\ ga_cpu = [k \in Kontexts |-> None]
  /\ last_id = [c \in Cpus |-> None]
  /\ payload_xsave = [k \in Kontexts |-> None]
  /\ valid_xsave = [k \in Kontexts |-> FALSE]
  /\ fpu_set = [k \in Kontexts |-> FALSE]
  /\ ga_debug = [k \in Kontexts |-> None]
  /\ debug_set = [k \in Kontexts |-> FALSE]
  /\ mapped = [m \in Kontainers |-> TRUE]
  /\ tlb = [c \in Cpus |-> {}]
  /\ requests = [c \in Cpus |-> {}]
  /\ in_service = [c \in Cpus |-> FALSE]

Kkm(t) == kkm[KontextOf[t]]

(* Thread t, on cpu c, goes on.                                            *)
Step(c, t, from, to) ==
  /\ runs[c] = t /\ pc[t] = from
  /\ pc' = [pc EXCEPT ![t] = to]

-----------------------------------------------------------------------------
(***************************************************************************)
(* The kernel's scheduler and its interrupt controllers                    *)
(***************************************************************************)

(* A kernel that does not preempt takes a thread off its cpu only where the*)
(* driver sleeps, at the end of a round; one that does, wherever the driver*)
(* is not between get_cpu and put_cpu.                                     *)
Leavable ==
  {"monitor", "begin"} \cup
    IF Preemptible THEN {"process", "unmapping"} ELSE {}

MayLeave(t) == t # None => pc[t] \in Leavable

(* The switch to another thread, which sets what is the thread's own.      *)
Schedule(c, t) ==
  /\ MayLeave(runs[c]) /\ runs[c] # t
  /\ \A d \in Cpus : runs[d] # t
  /\ runs' = [runs EXCEPT ![c] = t]
  /\ regs' = [regs EXCEPT ![c] = [@ EXCEPT !.space = t, !.segments = t,
                                    !.stack = t, !.xstate = t, !.debug = t]]
  /\ UNCHANGED <<kkm, pc, kontextVars, last_id, xstateVars, debugVars, mapped,
                 tlb, ipiVars>>

Pending(c) == requests[c] # {} /\ ~in_service[c]
Enabled(c) ==
  runs[c] # None =>
    pc[runs[c]] \in {"monitor", "begin", "process", "unmapping"}

(* The handler serves what waits for its own cpu, and tells its own        *)
(* interrupt controller.                                                   *)
Handler(c) ==
  /\ requests' = [requests EXCEPT ![c] = {}]
  /\ in_service' = [in_service EXCEPT ![c] = FALSE]

KernelTakesIpi(c) ==
  /\ Pending(c) /\ Enabled(c) /\ Handler(c)
  /\ UNCHANGED <<kkm, runs, regs, pc, kontextVars, last_id, xstateVars,
                 debugVars, mapped, tlb>>

(* munmap: the page is gone, and every cpu that runs a thread of the same  *)
(* address space is told to flush; then mmap again.                        *)
Unmap(c, t) ==
  /\ mapped[Kkm(t)]
  /\ Step(c, t, "monitor", "unmapping")
  /\ mapped' = [mapped EXCEPT ![Kkm(t)] = FALSE]
  /\ requests' = [d \in Cpus |->
       IF d # c /\ runs[d] # None /\ Kkm(runs[d]) = Kkm(t)
         THEN requests[d] \cup {t} ELSE requests[d]]
  /\ UNCHANGED <<kkm, runs, regs, kontextVars, last_id, xstateVars, debugVars,
                 tlb, in_service>>

UnmapDone(c, t) ==
  /\ \A d \in Cpus : t \notin requests[d]
  /\ Step(c, t, "unmapping", "monitor")
  /\ UNCHANGED <<kkm, runs, regs, kontextVars, last_id, xstateVars, debugVars,
                 mapped, tlb, ipiVars>>

Remap(c, t) ==
  /\ runs[c] = t /\ pc[t] = "monitor" /\ ~mapped[Kkm(t)]
  /\ \A u \in Threads : Kkm(u) = Kkm(t) => pc[u] # "unmapping"
  /\ mapped' = [mapped EXCEPT ![Kkm(t)] = TRUE]
  /\ UNCHANGED <<kkm, runs, regs, pc, kontextVars, last_id, xstateVars,
                 debugVars, tlb, ipiVars>>

-----------------------------------------------------------------------------
(***************************************************************************)
(* KKM_SET_DEBUG, KKM_SET_FPU, KKM_KONTEXT_REUSE                           *)
(***************************************************************************)

Running(k) ==
  \E t \in Threads : KontextOf[t] = k /\ pc[t] \notin {"monitor", "unmapping"}

SetDebug(k) ==
  /\ k \in Debugged /\ ~debug_set[k] /\ (DebugAnyTime \/ ~Running(k))
  /\ ga_debug' = [ga_debug EXCEPT ![k] = k]
  /\ debug_set' = [debug_set EXCEPT ![k] = TRUE]
  /\ UNCHANGED <<kkm, runs, regs, pc, kontextVars, last_id, xstateVars, mapped,
                 tlb, ipiVars>>

(* The xstate is converted into the payload's save area; whether that is   *)
(* valid stays as it is.                                                   *)
SetFpu(k) ==
  /\ k \in FpuUsed /\ ~fpu_set[k] /\ ~Running(k)
  /\ FpuBeforeRun \/ valid_xsave[k]
  /\ payload_xsave' = [payload_xsave EXCEPT ![k] = k]
  /\ fpu_set' = [fpu_set EXCEPT ![k] = TRUE]
  /\ UNCHANGED <<kkm, runs, regs, pc, kontextVars, last_id, valid_xsave,
                 debugVars, mapped, tlb, ipiVars>>

Reuse(k) ==
  /\ debug_set[k] /\ ~Running(k)
  /\ debug_set' = [debug_set EXCEPT ![k] = FALSE]
  /\ UNCHANGED <<kkm, runs, regs, pc, kontextVars, last_id, xstateVars,
                 ga_debug, mapped, tlb, ipiVars>>

-----------------------------------------------------------------------------
(***************************************************************************)
(* To the payload                                                          *)
(***************************************************************************)

(* Mutant: only the migration of the kontext is looked at.                 *)
LazyFlushMigrated(c, k) == ga_cpu[k] # c

(* Whether the translations of this cpu may be another kontainer's, or     *)
(* older than the kontext's run elsewhere.                                 *)
LazyFlush(c, k) == ga_cpu[k] # c \/ last_id[c] # kkm[k]

(* The id of the kontainer, not of the kontext.                            *)
LastId(k) == kkm[k]

Begin(c, t) ==
  /\ Step(c, t, "monitor", "begin")
  /\ UNCHANGED <<kkm, runs, regs, kontextVars, last_id, xstateVars, debugVars,
                 mapped, tlb, ipiVars>>

(* A signal is pending.                                                    *)
Interrupted(c, t) ==
  /\ Step(c, t, "begin", "monitor")
  /\ UNCHANGED <<kkm, runs, regs, kontextVars, last_id, xstateVars, debugVars,
                 mapped, tlb, ipiVars>>

(* Interrupts are disabled; the lazy flush is decided.                     *)
Prepare(c, t) ==
  LET k == KontextOf[t]
  IN /\ Step(c, t, "begin", "prepared")
     /\ tlb' = IF LazyFlush(c, k) THEN [tlb EXCEPT ![c] = {}] ELSE tlb
     /\ ga_cpu' = [ga_cpu EXCEPT ![k] = c]
     /\ last_id' = [last_id EXCEPT ![c] = LastId(k)]
     /\ UNCHANGED <<kkm, runs, regs, intr, saved, xstateVars,
                    debugVars, mapped, ipiVars>>

(* The registers of the thread are saved, the payload's xstate loaded.     *)
Save(c, t) ==
  LET k == KontextOf[t]
  IN /\ Step(c, t, "prepared", "saved")
     /\ saved' = [saved EXCEPT ![k] = [@ EXCEPT
          !.space = regs[c].space, !.segments = regs[c].segments,
          !.stack = regs[c].stack, !.xstate = regs[c].xstate,
          !.debug = IF debug_set[k] THEN regs[c].debug
                                     ELSE saved[k].debug]]
     /\ regs' = IF valid_xsave[k]
                  THEN [regs EXCEPT ![c].xstate = payload_xsave[k]] ELSE regs
     /\ UNCHANGED <<kkm, runs, intr, ga_cpu, last_id, xstateVars,
                    debugVars, mapped, tlb, ipiVars>>

(* Mutant: cr3 is loaded with bit 63, which keeps the translations.        *)
LoadedKept(c) == tlb[c]

(* The translations that are left when cr3 is loaded without bit 63.       *)
Loaded(c) == {}

(* The payload's registers are loaded.                                     *)
StartPayload(c, t) ==
  LET k == KontextOf[t]
  IN /\ Step(c, t, "saved", "payload")
     /\ saved' = [saved EXCEPT ![k].sp0 = regs[c].sp0]
     /\ regs' = [regs EXCEPT ![c] = [@ EXCEPT
          !.space = k, !.segments = k, !.stack = k, !.sp0 = k,
          !.idt = Guest, !.lstar = Guest,
          !.debug = IF debug_set[k] THEN ga_debug[k] ELSE regs[c].debug]]
     /\ tlb' = [tlb EXCEPT ![c] = Loaded(c)]
     /\ UNCHANGED <<kkm, runs, intr, ga_cpu, last_id, xstateVars,
                    debugVars, mapped, ipiVars>>

-----------------------------------------------------------------------------
(***************************************************************************)
(* The payload, and back                                                   *)
(***************************************************************************)

Touch(c, t) ==
  /\ runs[c] = t /\ pc[t] = "payload" /\ mapped[Kkm(t)]
  /\ tlb' = [tlb EXCEPT ![c] = @ \cup {Kkm(t)}]
  /\ UNCHANGED <<kkm, runs, regs, pc, kontextVars, last_id, xstateVars,
                 debugVars, mapped, ipiVars>>

(* The interrupt reaches the guest area that sp0 points to; the payload's  *)
(* xstate is by now its own.                                               *)
Trap(c, t, i) ==
  LET k == regs[c].sp0
  IN /\ Step(c, t, "payload", "trapped")
     /\ i = "ipi" => Pending(c)
     /\ intr' = [intr EXCEPT ![k] = i]
     /\ in_service' = IF i = "ipi" THEN [in_service EXCEPT ![c] = TRUE]
                                   ELSE in_service
     /\ regs' = [regs EXCEPT ![c].xstate = k]
     /\ UNCHANGED <<kkm, runs, saved, ga_cpu, last_id, xstateVars, debugVars,
                    mapped, tlb, requests>>

(* Mutant: the LSTAR register keeps the driver's entry.                    *)
RestoredRegsSyscall(c, k) ==
  [regs[c] EXCEPT
     !.space = saved[k].space, !.segments = saved[k].segments,
     !.stack = saved[k].stack, !.sp0 = saved[k].sp0, !.idt = Native]

(* The registers that kkm_switch_to_host_kernel restores.                  *)
RestoredRegs(c, k) ==
  [regs[c] EXCEPT
     !.space = saved[k].space, !.segments = saved[k].segments,
     !.stack = saved[k].stack, !.sp0 = saved[k].sp0,
     !.idt = Native, !.lstar = Native]

SwitchToHost(c, t) ==
  LET k == regs[c].sp0
  IN /\ Step(c, t, "trapped", "restored")
     /\ ga_debug' = IF debug_set[k]
                      THEN [ga_debug EXCEPT ![k] = regs[c].debug] ELSE ga_debug
     /\ regs' = [regs EXCEPT ![c] = RestoredRegs(c, k)]
     /\ UNCHANGED <<kkm, runs, kontextVars, last_id, xstateVars, debug_set,
                    mapped, tlb, ipiVars>>

(* Mutant: the thread's xstate is restored before the payload's is saved.  *)
PayloadXstateLate(c, k) == saved[k].xstate

PayloadXstate(c, k) == regs[c].xstate

RestoredDebug(c, k) == IF debug_set[k] THEN saved[k].debug ELSE regs[c].debug

(* Back on the thread's stack; then interrupts are enabled.                *)
Restore(c, t) ==
  LET k == KontextOf[t]
  IN /\ Step(c, t, "restored", "process")
     /\ payload_xsave' = [payload_xsave EXCEPT ![k] = PayloadXstate(c, k)]
     /\ valid_xsave' = [valid_xsave EXCEPT ![k] = TRUE]
     /\ regs' = [regs EXCEPT ![c] = [@ EXCEPT !.debug = RestoredDebug(c, k),
                                              !.xstate = saved[k].xstate]]
     /\ UNCHANGED <<kkm, runs, kontextVars, last_id, fpu_set, debugVars,
                    mapped, tlb, ipiVars>>

(* Mutant: the interrupt is not forwarded.                                 *)
ForwardedNot(i) == FALSE

(* The vectors whose handler kkm_forward_intr calls.                       *)
Forwarded(i) == i # "exit"

(* kkm_process_intr: the handler runs on the cpu the thread is on; a timer *)
(* interrupt calls schedule().                                             *)
Process(c, t) ==
  LET i == intr[KontextOf[t]]
  IN /\ Step(c, t, "process", IF i = "exit" THEN "monitor" ELSE "begin")
     /\ IF Forwarded(i) /\ i = "ipi" THEN Handler(c) ELSE UNCHANGED ipiVars
     /\ UNCHANGED <<kkm, runs, regs, kontextVars, last_id, xstateVars,
                    debugVars, mapped, tlb>>

-----------------------------------------------------------------------------
SwitchKernel(c, t) ==
  \/ Prepare(c, t) \/ Save(c, t) \/ StartPayload(c, t)
  \/ SwitchToHost(c, t) \/ Restore(c, t) \/ Process(c, t)

Next ==
  \/ \E c \in Cpus, t \in Threads :
       \/ Schedule(c, t)
       \/ Unmap(c, t) \/ UnmapDone(c, t) \/ Remap(c, t)
       \/ Begin(c, t) \/ Interrupted(c, t)
       \/ SwitchKernel(c, t) \/ Touch(c, t)
       \/ \E i \in {"exit", "ipi", "timer"} : Trap(c, t, i)
  \/ \E c \in Cpus : KernelTakesIpi(c)
  \/ \E k \in Kontexts : SetDebug(k) \/ SetFpu(k) \/ Reuse(k)

Spec == Init /\ [][Next]_vars

(* A running thread goes on; an interrupt is taken when it can be, which in*)
(* the kernel is whenever interrupts are enabled again, however briefly.   *)
Fairness ==
  /\ \A c \in Cpus, t \in Threads :
       /\ WF_vars(Save(c, t)) /\ WF_vars(StartPayload(c, t))
       /\ WF_vars(Trap(c, t, "ipi"))
       /\ WF_vars(SwitchToHost(c, t)) /\ WF_vars(Restore(c, t))
       /\ WF_vars(Process(c, t)) /\ WF_vars(UnmapDone(c, t))
  /\ \A c \in Cpus : SF_vars(KernelTakesIpi(c))

FairSpec == Spec /\ Fairness

-----------------------------------------------------------------------------
(***************************************************************************)
(* Properties                                                              *)
(***************************************************************************)

Inside == {"prepared", "saved", "payload", "trapped", "restored"}

(* What is saved during the switch to the guest kernel is restored during  *)
(* the switch back (kkm.h:105): out of the switch a thread finds its own   *)
(* registers, whatever ran on its cpu and wherever its kontext has been.   *)
NativeRestored ==
  \A c \in Cpus :
    runs[c] # None /\ pc[runs[c]] \notin Inside =>
      regs[c] = NativeRegs(c, runs[c])

(* A payload runs in its own address space, on its own exits, with the     *)
(* xstate and the debug registers that are its own: what it left on another*)
(* cpu or what the monitor has set.                                        *)
PayloadOwn ==
  \A c \in Cpus :
    LET t == runs[c]  k == KontextOf[t]
    IN t # None /\ pc[t] = "payload" =>
         /\ regs[c].space = k /\ regs[c].segments = k /\ regs[c].sp0 = k
         /\ regs[c].idt = Guest /\ regs[c].lstar = Guest
         /\ valid_xsave[k] \/ fpu_set[k] => regs[c].xstate = k
         /\ debug_set[k] => regs[c].debug = k

(* Once the lazy flush has been decided, the cpu has no translation of     *)
(* another kontainer's: every one of them has the same context ids, so the *)
(* payload would use it.                                                   *)
TlbOwn ==
  \A c \in Cpus :
    LET t == runs[c]
    IN t # None /\ pc[t] \in Inside \ {"restored"} => tlb[c] \subseteq {Kkm(t)}

(* Once munmap has returned, no payload reaches the memory: its cpus have  *)
(* left it, and lost the translation on the way back.                      *)
TlbCurrent ==
  \A c \in Cpus :
    LET t == runs[c]
    IN t # None /\ pc[t] = "payload" /\ Kkm(t) \in tlb[c] =>
         \/ mapped[Kkm(t)]
         \/ \E u \in Threads : Kkm(u) = Kkm(t) /\ pc[u] = "unmapping"

(* A munmap that waits for cpus in payloads ends: the interrupt they take  *)
(* there is forwarded to the handler.                                      *)
UnmapEnds ==
  \A t \in Threads : pc[t] = "unmapping" ~> pc[t] = "monitor"
=============================================================================
