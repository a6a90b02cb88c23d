----------------------------- MODULE KkmPayload -----------------------------
(***************************************************************************)
(* What KKM_RUN promises to a payload thread and to the monitor about it,  *)
(* without kontext, guest area or hypercall frame.  The thread has its     *)
(* registers.  Only the thread changes them while it runs; while it is     *)
(* stopped they keep their values, but for the answer to its system call   *)
(* and the stack space of an exception record.  A signal handler borrows   *)
(* the thread and gives it back as it was.                                 *)
(***************************************************************************)
EXTENDS Integers, Sequences

CONSTANTS
  Values,     (* values of a general register                              *)
  Zero,       (* the answer to a call that nobody answered                 *)
  ExcFrame    (* stack space of an exception record                        *)

VARIABLES
  mode,       (* none, stopped, calling, running, lost                     *)
  regs,       (* the thread's registers, as the thread sees them           *)
  saved       (* threads interrupted by a signal handler, innermost last   *)

vars == <<mode, regs, saved>>

Registers == [rsp : Int, rax : Values, rbx : Values]

Init == mode = "none" /\ regs \in Registers /\ saved = <<>>

Start ==
  /\ mode = "none"
  /\ mode' = "stopped" /\ regs' \in Registers /\ saved' = <<>>

Resume ==
  /\ mode \in {"stopped", "calling"}
  /\ mode' = "running" /\ UNCHANGED <<regs, saved>>

Compute ==
  /\ mode = "running"
  /\ regs' \in Registers /\ UNCHANGED <<mode, saved>>

(* A system call: rax holds the answer from now on.                        *)
Call ==
  /\ mode = "running"
  /\ mode' = "calling" /\ regs' = [regs EXCEPT !.rax = Zero]
  /\ UNCHANGED saved

Answer ==
  /\ mode = "calling"
  /\ \E v \in Values : regs' = [regs EXCEPT !.rax = v]
  /\ UNCHANGED <<mode, saved>>

(* A signal, an OUT instruction, a debug stop or a fault of the thread.    *)
Interrupt ==
  /\ mode = "running"
  /\ mode' = "stopped" /\ UNCHANGED <<regs, saved>>

Exception ==
  /\ mode = "running"
  /\ mode' = "stopped" /\ regs' = [regs EXCEPT !.rsp = @ - ExcFrame]
  /\ UNCHANGED saved

(* Its stack cannot take the record of a call or an exception: the thread  *)
(* has no future but to end.                                               *)
Lose ==
  /\ mode = "running"
  /\ mode' = "lost" /\ UNCHANGED saved

StartHandler ==
  /\ mode \in {"stopped", "calling"}
  /\ saved' = Append(saved, [mode |-> mode, regs |-> regs])
  /\ mode' = "stopped"
  /\ regs' \in Registers /\ regs'.rsp < regs.rsp

EndHandler ==
  /\ mode \in {"stopped", "calling"} /\ saved # <<>>
  /\ mode' = saved[Len(saved)].mode
  /\ regs' = saved[Len(saved)].regs
  /\ saved' = SubSeq(saved, 1, Len(saved) - 1)

End ==
  /\ mode \in {"stopped", "calling", "lost"}
  /\ mode' = "none" /\ saved' = <<>>

Next ==
  \/ Start \/ Resume \/ Compute \/ Call \/ Answer \/ Interrupt \/ Exception
  \/ Lose \/ StartHandler \/ EndHandler \/ End

Spec == Init /\ [][Next]_vars
=============================================================================
