------------------------------- MODULE KkmRun -------------------------------
(***************************************************************************)
(* KKM_RUN on one kontext: the loop of kkm_kontext_switch_kernel, the      *)
(* processing of what made the payload exit (kkm_process_intr and below),  *)
(* and the driver state that the monitor saves and restores around signal  *)
(* handlers and invalidates when it reuses a kontext (kkm_kontext.c).      *)
(*                                                                         *)
(* The payload's stack is a range of addresses, its registers are the      *)
(* stack pointer and two more.  A system call puts a record (hc_args) on   *)
(* the payload's stack, below a redzone, where the monitor writes the      *)
(* answer; the next KKM_RUN takes both off again.                          *)
(*                                                                         *)
(* From the payload's trap to the end of its processing only the kontext's *)
(* own thread uses what is modelled here, so both are one action.          *)
(***************************************************************************)
EXTENDS Integers, Sequences

CONSTANTS
  Values,       (* values of a general register                            *)
  Zero,         (* 0, one of them                                          *)
  Faults,       (* (address, error code) of the payload's page faults      *)
  NoFault,      (* prev_trap_no is no page fault                           *)
  StackTop,     (* the payload's stack is 0 .. StackTop                    *)
  Depth,        (* bound: the words of it a function of the payload uses   *)
  Redzone,      (* KKM_ABI_REDZONE                                         *)
  HcArgs,       (* sizeof(struct kkm_hc_args)                              *)
  ExcFrame,     (* sizeof(struct kkm_intr_stack_no_error_code)             *)
  MaxRepeat,    (* KKM_MAX_REPEAT_TRAP                                     *)
  MaxHandlers,  (* bound: signal handlers running inside each other        *)
  ReuseFirst,   (* the monitor reuses the kontext of the first thread      *)
  HandlerFirst  (* the monitor runs a handler before a thread's first run  *)

ASSUME RunAssumption ==
  /\ Zero \in Values /\ NoFault \notin Faults
  /\ StackTop \in Nat /\ Depth \in Nat
  /\ Redzone \in Nat \ {0} /\ HcArgs \in Nat \ {0} /\ ExcFrame \in Nat \ {0}
  /\ MaxRepeat \in Nat /\ MaxHandlers \in Nat
  /\ ReuseFirst \in BOOLEAN /\ HandlerFirst \in BOOLEAN

Addrs == 0..StackTop
Unset == -1
Frame == Redzone + HcArgs
TrapNo == 0               \* ga->intr_no of an exception, X86_TRAP_DE

VARIABLES
  pc,                   (* where the kontext's thread is: begin and        *)
                        (* payload are in KKM_RUN; torn is in the monitor  *)
                        (* with a stack that could not take a record       *)
  regs,                 (* ga->regs                                        *)
  kontext,              (* the fields of kkm_save_info                     *)
  mem,                  (* hc_args.ret_val of the record at an address     *)
  exit_reason,          (* kkm_run->exit_reason                            *)
  ret_val,              (* what the last KKM_RUN returned                  *)
  prev_fault,           (* prev_trap_addr, prev_error_code of a page fault *)
  trap_repeat_counter,
  signal_pending,       (* for a thread in KKM_RUN                         *)
  saved,                (* what the monitor saved for signal handlers      *)
  cloned                (* the monitor set up regs for a thread that a     *)
                        (* system call cloned and that has not run yet     *)

repeat == <<prev_fault, trap_repeat_counter>>
vars == <<pc, regs, kontext, mem, exit_reason, ret_val, repeat,
          signal_pending, saved, cloned>>

RegisterSet ==
  [rsp : Int, rax : Values \cup Int, rbx : Values \cup Int]

KontextSet ==
  [syscall_pending : BOOLEAN, ret_val_mva : Addrs \cup {Unset},
   exception_posted : BOOLEAN,
   exception_saved_rax : Values \cup {Unset},
   exception_saved_rbx : Values \cup {Unset},
   new_thread : BOOLEAN, first_thread : BOOLEAN,
   reason : {"unknown", "hypercall", "syscall"}]

SavedSet == [regs : RegisterSet, kontext : KontextSet, cloned : BOOLEAN]

TypeOK ==
  /\ pc \in {"new", "reused", "ended", "monitor", "torn", "begin", "payload"}
  /\ regs \in RegisterSet
  /\ kontext \in KontextSet
  /\ mem \in [Addrs -> Values]
  /\ exit_reason \in {"unknown", "io", "debug", "intr"}
  /\ ret_val \in {"none", "ok", "EINTR", "EFAULT"}
  /\ prev_fault \in Faults \cup {NoFault}
  /\ trap_repeat_counter \in -1..(MaxRepeat + 1)
  /\ signal_pending \in BOOLEAN
  /\ saved \in Seq(SavedSet)
  /\ cloned \in BOOLEAN

(* What kkm_kontext_init, GET_SAVE_INFO and KKM_KONTEXT_REUSE leave of the *)
(* state of a call or an exception in progress.                            *)
Cleared(k) ==
  [k EXCEPT !.syscall_pending = FALSE, !.ret_val_mva = Unset,
            !.exception_posted = FALSE, !.exception_saved_rax = Unset,
            !.exception_saved_rbx = Unset]

Init ==
  /\ pc = "new"
  /\ regs = [rsp |-> StackTop, rax |-> Zero, rbx |-> Zero]
  /\ \E first \in BOOLEAN :
       kontext = [syscall_pending |-> FALSE, ret_val_mva |-> Unset,
                  exception_posted |-> FALSE, exception_saved_rax |-> Unset,
                  exception_saved_rbx |-> Unset, new_thread |-> TRUE,
                  first_thread |-> first, reason |-> "unknown"]
  /\ mem = [a \in Addrs |-> Zero]
  /\ exit_reason = "unknown" /\ ret_val = "none"
  /\ prev_fault = NoFault /\ trap_repeat_counter = -1
  /\ signal_pending = FALSE
  /\ saved = <<>> /\ cloned = FALSE

-----------------------------------------------------------------------------
(***************************************************************************)
(* KKM_RUN up to its loop                                                  *)
(***************************************************************************)

(* A thread in the monitor may find immediate_exit set in the run page at  *)
(* any time: the monitor's other threads set it.                           *)
RunImmediateExit ==
  /\ pc = "monitor"
  /\ ret_val' = "EINTR"
  /\ UNCHANGED <<pc, regs, kontext, mem, exit_reason, repeat, signal_pending,
                 saved, cloned>>

(* Mutant: every run after a system call moves the stack pointer.          *)
CloneAdjustedAlways(r, k) ==
  IF ~k.first_thread /\ k.reason = "syscall"
    THEN [r EXCEPT !.rsp = @ + HcArgs + Redzone] ELSE r

(* Mutant: a thread cloned by a hypercall, which has no record, too.       *)
CloneAdjustedHypercall(r, k) ==
  IF k.new_thread /\ ~k.first_thread
    THEN [r EXCEPT !.rsp = @ + HcArgs + Redzone] ELSE r

(* A thread started by a system call has its parent's stack pointer, which *)
(* is below the record of the parent's call.                               *)
CloneAdjusted(r, k) ==
  IF k.new_thread /\ ~k.first_thread /\ k.reason = "syscall"
    THEN [r EXCEPT !.rsp = @ + HcArgs + Redzone] ELSE r

(* Mutant: the redzone is not given back.                                  *)
RedzoneKept(r, k) ==
  IF k.syscall_pending
    THEN [r EXCEPT !.rax = mem[k.ret_val_mva], !.rsp = @ + HcArgs] ELSE r

(* kkm_kontext_handle_syscall_response                                     *)
SyscallAnswered(r, k) ==
  IF k.syscall_pending
    THEN [r EXCEPT !.rax = mem[k.ret_val_mva],
                   !.rsp = @ + HcArgs + Redzone] ELSE r

ExceptionUndone(r, k) ==
  IF k.exception_posted
    THEN [r EXCEPT !.rax = k.exception_saved_rax,
                   !.rbx = k.exception_saved_rbx] ELSE r

(* Mutant: registers of an exception are put back again by later runs.     *)
ExceptionStaysPosted ==
  /\ pc = "monitor"
  /\ pc' = "begin" /\ ret_val' = "none"
  /\ regs' = ExceptionUndone(SyscallAnswered(CloneAdjusted(regs, kontext),
                                             kontext), kontext)
  /\ mem' = [a \in Addrs |-> IF kontext.syscall_pending
                                  /\ a = kontext.ret_val_mva
                               THEN Zero ELSE mem[a]]
  /\ kontext' = [kontext EXCEPT !.syscall_pending = FALSE,
                                !.ret_val_mva = Unset, !.new_thread = FALSE]
  /\ prev_fault' = NoFault /\ trap_repeat_counter' = -1
  /\ cloned' = FALSE
  /\ UNCHANGED <<exit_reason, signal_pending, saved>>

(* The words of a record that is taken off count as Zero again: nobody     *)
(* reads them before the next record overwrites them.                      *)
RunEnter ==
  /\ pc = "monitor"
  /\ pc' = "begin" /\ ret_val' = "none"
  /\ regs' = ExceptionUndone(SyscallAnswered(CloneAdjusted(regs, kontext),
                                             kontext), kontext)
  /\ mem' = [a \in Addrs |-> IF kontext.syscall_pending
                                  /\ a = kontext.ret_val_mva
                               THEN Zero ELSE mem[a]]
  /\ kontext' = [Cleared(kontext) EXCEPT !.new_thread = FALSE]
  /\ prev_fault' = NoFault /\ trap_repeat_counter' = -1
  /\ cloned' = FALSE
  /\ UNCHANGED <<exit_reason, signal_pending, saved>>

(* The answer cannot be read: the call stays pending.                      *)
RunResponseFaults ==
  /\ pc = "monitor" /\ kontext.syscall_pending
  /\ regs' = CloneAdjusted(regs, kontext)
  /\ kontext' = [kontext EXCEPT !.new_thread = FALSE]
  /\ cloned' = FALSE
  /\ ret_val' = "EFAULT"
  /\ UNCHANGED <<pc, mem, exit_reason, repeat, signal_pending, saved>>

(* Back to the monitor.  A pending signal is taken on the way.             *)
Exit(ret, reason) ==
  /\ pc' = "monitor" /\ ret_val' = ret /\ exit_reason' = reason
  /\ signal_pending' = FALSE

(* begin: the loop, once before each entry to the payload.                 *)
SignalSeen ==
  /\ pc = "begin" /\ signal_pending
  /\ Exit("EINTR", "intr")
  /\ UNCHANGED <<regs, kontext, mem, repeat, saved, cloned>>

(* Mutant: signals are looked at before the loop only.                     *)
SignalMissed ==
  /\ pc = "begin"
  /\ pc' = "payload"
  /\ UNCHANGED <<regs, kontext, mem, exit_reason, ret_val, repeat,
                 signal_pending, saved, cloned>>

EnterPayload ==
  /\ pc = "begin" /\ ~signal_pending
  /\ pc' = "payload"
  /\ UNCHANGED <<regs, kontext, mem, exit_reason, ret_val, repeat,
                 signal_pending, saved, cloned>>

-----------------------------------------------------------------------------
(***************************************************************************)
(* The payload, and kkm_process_intr, which sets exit_reason to unknown    *)
(* and lets a handler for the trap set it again                            *)
(***************************************************************************)

(* The payload runs below where it, or its handler, was started.           *)
Base == IF saved = <<>> THEN StackTop ELSE saved[Len(saved)].regs.rsp - 1

Compute ==
  /\ pc = "payload"
  /\ \E sp \in (Base - Depth)..Base, a \in Values :
       regs' = [rsp |-> sp, rax |-> a, rbx |-> Zero]
  /\ UNCHANGED <<pc, kontext, mem, exit_reason, ret_val, repeat,
                 signal_pending, saved, cloned>>

(* Mutant: the address of the answer is taken before the record is made.   *)
AnswerAddressEarly ==
  LET gva == regs.rsp - Redzone - HcArgs IN
  /\ pc = "payload" /\ gva \in Addrs
  /\ regs' = [regs EXCEPT !.rsp = gva, !.rax = gva]
  /\ mem' = [mem EXCEPT ![gva] = Zero]
  /\ kontext' = [kontext EXCEPT !.syscall_pending = TRUE,
                                !.ret_val_mva = gva + HcArgs,
                                !.reason = "syscall"]
  /\ Exit("ok", "io")
  /\ UNCHANGED <<repeat, saved, cloned>>

(* kkm_process_syscall: the record is below the redzone.                   *)
ProcessSyscall ==
  LET gva == regs.rsp - Redzone - HcArgs IN
  /\ pc = "payload" /\ gva \in Addrs
  /\ regs' = [regs EXCEPT !.rsp = gva, !.rax = gva]
  /\ mem' = [mem EXCEPT ![gva] = Zero]
  /\ kontext' = [kontext EXCEPT !.syscall_pending = TRUE,
                                !.ret_val_mva = gva, !.reason = "syscall"]
  /\ Exit("ok", "io")
  /\ UNCHANGED <<repeat, saved, cloned>>

(* A translation or a copy fails after rsp is moved and the request is     *)
(* set up.                                                                 *)
ProcessSyscallFaults ==
  /\ pc = "payload"
  /\ pc' = "torn" /\ ret_val' = "EFAULT" /\ exit_reason' = "io"
  /\ signal_pending' = FALSE
  /\ regs' = [regs EXCEPT !.rsp = @ - Redzone - HcArgs]
  /\ kontext' = [kontext EXCEPT !.reason = "syscall"]
  /\ UNCHANGED <<mem, repeat, saved, cloned>>

(* Mutant: rbx is saved after it has got the number of the exception.      *)
SavedLate ==
  LET gva == regs.rsp - ExcFrame IN
  /\ pc = "payload" /\ gva \in Addrs
  /\ regs' = [rsp |-> gva, rax |-> gva, rbx |-> TrapNo]
  /\ mem' = [mem EXCEPT ![gva] = Zero]
  /\ kontext' = [kontext EXCEPT !.exception_posted = TRUE,
                                !.exception_saved_rax = regs.rax,
                                !.exception_saved_rbx = TrapNo,
                                !.reason = "unknown"]
  /\ Exit("ok", "io")
  /\ UNCHANGED <<repeat, saved, cloned>>

(* kkm_process_common_with_error and _without_error: the record of the     *)
(* exception has no redzone and overwrites what was on the stack.          *)
ProcessException ==
  LET gva == regs.rsp - ExcFrame IN
  /\ pc = "payload" /\ gva \in Addrs
  /\ regs' = [rsp |-> gva, rax |-> gva, rbx |-> TrapNo]
  /\ mem' = [mem EXCEPT ![gva] = Zero]
  /\ kontext' = [kontext EXCEPT !.exception_posted = TRUE,
                                !.exception_saved_rax = regs.rax,
                                !.exception_saved_rbx = regs.rbx,
                                !.reason = "unknown"]
  /\ Exit("ok", "io")
  /\ UNCHANGED <<repeat, saved, cloned>>

ProcessExceptionFaults ==
  /\ pc = "payload"
  /\ pc' = "torn" /\ ret_val' = "EFAULT" /\ exit_reason' = "unknown"
  /\ signal_pending' = FALSE
  /\ regs' = [regs EXCEPT !.rsp = @ - ExcFrame]
  /\ UNCHANGED <<kontext, mem, repeat, saved, cloned>>

(* kkm_process_general_protection: an OUT instruction is a hypercall.      *)
ProcessOut ==
  /\ pc = "payload"
  /\ kontext' = [kontext EXCEPT !.reason = "hypercall"]
  /\ Exit("ok", "io")
  /\ UNCHANGED <<regs, mem, repeat, saved, cloned>>

(* Any other protection fault, a page fault whose address cannot be        *)
(* translated or touched: the monitor gets EFAULT, nothing is changed.     *)
ProcessFails ==
  /\ pc = "payload"
  /\ Exit("EFAULT", "unknown")
  /\ UNCHANGED <<regs, kontext, mem, repeat, saved, cloned>>

ProcessDebug ==
  /\ pc = "payload"
  /\ Exit("ok", "debug")
  /\ UNCHANGED <<regs, kontext, mem, repeat, saved, cloned>>

(* An NMI is not forwarded, a page fault of the guest kernel not resolved: *)
(* KKM_RUN succeeds with exit reason unknown.                              *)
ProcessNothing ==
  /\ pc = "payload"
  /\ Exit("ok", "unknown")
  /\ UNCHANGED <<regs, kontext, mem, repeat, saved, cloned>>

(* A page fault is resolved in the monitor's page tables and the payload   *)
(* runs again, unless it is the same fault too often.                      *)
Repeated(fault) == prev_fault # NoFault /\ prev_fault = fault
TooOften(fault) == Repeated(fault) /\ trap_repeat_counter + 1 > MaxRepeat

(* Mutant: the counter starts again with each fault.                       *)
CounterForgotten(fault) ==
  /\ pc = "payload" /\ ~TooOften(fault)
  /\ pc' = "begin" /\ exit_reason' = "unknown"
  /\ prev_fault' = fault /\ trap_repeat_counter' = 0
  /\ UNCHANGED <<regs, kontext, mem, ret_val, signal_pending, saved, cloned>>

PageFaultDone(fault) ==
  /\ pc = "payload" /\ ~TooOften(fault)
  /\ pc' = "begin" /\ exit_reason' = "unknown"
  /\ prev_fault' = fault
  /\ trap_repeat_counter' = IF Repeated(fault) THEN trap_repeat_counter + 1
                            ELSE 0
  /\ UNCHANGED <<regs, kontext, mem, ret_val, signal_pending, saved, cloned>>

PageFaultGivesUp(fault) ==
  /\ pc = "payload" /\ TooOften(fault)
  /\ Exit("EFAULT", "unknown")
  /\ trap_repeat_counter' = trap_repeat_counter + 1
  /\ UNCHANGED <<regs, kontext, mem, prev_fault, saved, cloned>>

PageFault(fault) == PageFaultDone(fault) \/ PageFaultGivesUp(fault)

(* An interrupt of the host is forwarded to it, and the payload runs again *)
(* with no memory of an earlier page fault.                                *)
ForwardInterrupt ==
  /\ pc = "payload"
  /\ pc' = "begin" /\ exit_reason' = "unknown"
  /\ prev_fault' = NoFault /\ trap_repeat_counter' = 0
  /\ UNCHANGED <<regs, kontext, mem, ret_val, signal_pending, saved, cloned>>

-----------------------------------------------------------------------------
(***************************************************************************)
(* The monitor between two KKM_RUNs                                        *)
(***************************************************************************)

(* A new thread: the kontainer's first one, or one cloned by a system call *)
(* or a hypercall of another thread, whose registers it gets.              *)
StartThread(origin) ==
  /\ pc \in {"new", "reused"}
  /\ origin = "unknown" <=> pc = "new" /\ kontext.first_thread
  /\ pc' = "monitor" /\ ret_val' = "none"
  /\ regs' = [rsp |-> IF origin = "syscall" THEN StackTop - Frame
                      ELSE StackTop,
              rax |-> Zero, rbx |-> Zero]
  /\ kontext' = [kontext EXCEPT !.reason = origin]
  /\ cloned' = (origin = "syscall")
  /\ UNCHANGED <<mem, exit_reason, repeat, signal_pending, saved>>

(* The answer to a system call is written to its record.                   *)
Answer ==
  /\ pc = "monitor" /\ kontext.syscall_pending
  /\ \E v \in Values : mem' = [mem EXCEPT ![kontext.ret_val_mva] = v]
  /\ UNCHANGED <<pc, regs, kontext, exit_reason, ret_val, repeat,
                 signal_pending, saved, cloned>>

(* Mutant: GET_SAVE_INFO leaves what it saves in place.                    *)
SavedNotCleared ==
  /\ pc = "monitor" /\ Len(saved) < MaxHandlers
  /\ kontext.new_thread => HandlerFirst
  /\ saved' = Append(saved, [regs |-> regs, kontext |-> kontext,
                             cloned |-> cloned])
  /\ regs' = [rsp |-> regs.rsp - 1, rax |-> Zero, rbx |-> Zero]
  /\ cloned' = FALSE /\ ret_val' = "none"
  /\ UNCHANGED <<pc, kontext, mem, exit_reason, repeat, signal_pending>>

(* GET_REGS and GET_SAVE_INFO, then SET_REGS for a signal handler.         *)
StartHandler ==
  /\ pc = "monitor" /\ Len(saved) < MaxHandlers
  /\ kontext.new_thread => HandlerFirst
  /\ saved' = Append(saved, [regs |-> regs, kontext |-> kontext,
                             cloned |-> cloned])
  /\ kontext' = Cleared(kontext)
  /\ regs' = [rsp |-> regs.rsp - 1, rax |-> Zero, rbx |-> Zero]
  /\ cloned' = FALSE /\ ret_val' = "none"
  /\ UNCHANGED <<pc, mem, exit_reason, repeat, signal_pending>>

(* The handler's last call: SET_REGS and SET_SAVE_INFO.                    *)
EndHandler ==
  /\ pc = "monitor" /\ ret_val = "ok" /\ exit_reason = "io"
  /\ saved # <<>>
  /\ LET last == saved[Len(saved)] IN
       /\ regs' = last.regs /\ kontext' = last.kontext
       /\ cloned' = last.cloned
  /\ saved' = SubSeq(saved, 1, Len(saved) - 1)
  /\ ret_val' = "none"
  /\ UNCHANGED <<pc, mem, exit_reason, repeat, signal_pending>>

(* The thread ends, and its kontext waits for another one                  *)
(* (KKM_KONTEXT_REUSE), or is closed.                                      *)
EndThread ==
  /\ pc \in {"monitor", "torn"}
  /\ kontext.first_thread => ReuseFirst
  /\ pc' = "reused" /\ ret_val' = "none"
  /\ kontext' = Cleared([kontext EXCEPT !.new_thread = TRUE])
  /\ mem' = [a \in Addrs |-> Zero]
  /\ saved' = <<>> /\ cloned' = FALSE
  /\ UNCHANGED <<regs, exit_reason, repeat, signal_pending>>

CloseThread ==
  /\ pc \in {"monitor", "torn"}
  /\ pc' = "ended" /\ saved' = <<>>
  /\ UNCHANGED <<regs, kontext, mem, exit_reason, ret_val, repeat,
                 signal_pending, cloned>>

Closed == pc = "ended" /\ UNCHANGED vars

(* A signal for a thread that is in KKM_RUN, at any time of it.            *)
Signal ==
  /\ pc \in {"begin", "payload"} /\ ~signal_pending
  /\ signal_pending' = TRUE
  /\ UNCHANGED <<pc, regs, kontext, mem, exit_reason, ret_val, repeat, saved,
                 cloned>>

-----------------------------------------------------------------------------
Process ==
  \/ ProcessSyscall \/ ProcessSyscallFaults
  \/ ProcessException \/ ProcessExceptionFaults
  \/ ProcessOut \/ ProcessFails \/ ProcessDebug \/ ProcessNothing
  \/ (\E fault \in Faults : PageFault(fault)) \/ ForwardInterrupt

Monitor ==
  \/ \E origin \in {"unknown", "syscall", "hypercall"} : StartThread(origin)
  \/ RunImmediateExit \/ RunEnter \/ RunResponseFaults
  \/ Answer \/ StartHandler \/ EndHandler
  \/ EndThread \/ CloseThread \/ Closed \/ Signal

Next == SignalSeen \/ EnterPayload \/ Compute \/ Process \/ Monitor

Spec == Init /\ [][Next]_vars

(* Fairness: a thread in the kernel is scheduled, and the timer interrupts *)
(* whatever the payload does.                                              *)
Fairness ==
  /\ WF_vars(SignalSeen \/ EnterPayload)
  /\ WF_vars(ForwardInterrupt)

FairSpec == Spec /\ Fairness

-----------------------------------------------------------------------------
(***************************************************************************)
(* Properties                                                              *)
(***************************************************************************)

(* The registers the payload believes it has, given what is on its stack   *)
(* and in the kontext: a record still to be taken off, an answer still to  *)
(* be read, registers an exception replaced.                               *)
Logical(r, k, c) ==
  [rsp |-> r.rsp + (IF c THEN Frame ELSE 0)
                 + (IF k.syscall_pending THEN Frame ELSE 0),
   rax |-> IF k.exception_posted THEN k.exception_saved_rax
           ELSE IF k.syscall_pending THEN mem[k.ret_val_mva] ELSE r.rax,
   rbx |-> IF k.exception_posted THEN k.exception_saved_rbx ELSE r.rbx]

StoppedMode(k) == IF k.syscall_pending THEN "calling" ELSE "stopped"

Mode ==
  CASE pc \in {"new", "reused", "ended"} -> "none"
    [] pc = "torn" -> "lost"
    [] pc = "monitor" -> StoppedMode(kontext)
    [] OTHER -> "running"

(* KKM_RUN keeps the promise of KkmPayload: a payload thread sees its      *)
(* system calls answered once, its stack pointer and registers restored,   *)
(* whatever signals, handlers, retries and faults come between.            *)
PayloadView == INSTANCE KkmPayload WITH
  mode <- Mode,
  regs <- Logical(regs, kontext, cloned),
  saved <- [i \in 1..Len(saved) |->
              [mode |-> StoppedMode(saved[i].kontext),
               regs |-> Logical(saved[i].regs, saved[i].kontext,
                                saved[i].cloned)]]

ImplementsPayload == PayloadView!Spec

(* Nothing that the payload may still need is pending while it runs: a     *)
(* trap never overwrites a call or an exception in progress.               *)
NothingPendingInside ==
  pc \in {"begin", "payload"} =>
    ~kontext.syscall_pending /\ ~kontext.exception_posted
      /\ ~kontext.new_thread

(* What a successful KKM_RUN reports agrees with what the next one will    *)
(* undo: the record of the call is at the top of the stack, and nothing is *)
(* undone that was not reported.                                           *)
ExitAgrees ==
  pc = "monitor" /\ ret_val = "ok" =>
    /\ kontext.syscall_pending <=>
         exit_reason = "io" /\ kontext.reason = "syscall"
    /\ kontext.exception_posted <=>
         exit_reason = "io" /\ kontext.reason = "unknown"
    /\ kontext.syscall_pending => kontext.ret_val_mva = regs.rsp

(* The record of a call that a handler interrupted is above everything the *)
(* handler and its own calls put on the stack.                             *)
RecordsApart ==
  \A i \in 1..Len(saved) :
    saved[i].kontext.syscall_pending =>
      /\ saved[i].kontext.ret_val_mva > regs.rsp
      /\ kontext.syscall_pending =>
           saved[i].kontext.ret_val_mva > kontext.ret_val_mva

(* A signal gets the thread out of KKM_RUN, in whatever part of it, even   *)
(* from a payload that never leaves by itself.                             *)
SignalEndsRun == signal_pending ~> pc \notin {"begin", "payload"}

(* A payload that does nothing but fault at one address, however often the *)
(* fault is resolved, comes back to the monitor.                           *)
FaultLoopEnds ==
  \A fault \in Faults :
    (<>[][pc = "payload" /\ pc' # "payload" => PageFault(fault)]_vars)
      => []<>(pc \notin {"begin", "payload"})

(* "new thread, adjust stack if this is started by clone": the stack       *)
(* pointer is moved over the parent's record for such a thread only.       *)
CloneAdjustExact ==
  [][pc = "monitor" /\ pc' = "begin" =>
       regs'.rsp = regs.rsp + (IF cloned THEN Frame ELSE 0)
                     + (IF kontext.syscall_pending THEN Frame ELSE 0)]_vars
=============================================================================
