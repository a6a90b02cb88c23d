------------------------------ MODULE KkmVectors ------------------------------
(***************************************************************************)
(* From an event in the payload to the code that serves it: the driver's   *)
(* interrupt table (kkm_idt_descr_init in kkm_idt.c, kkm_intr_table.c), the*)
(* stubs and the common entry (kkm_guest_exit.S), the choice of the handler*)
(* (kkm_process_intr in kkm_kontext.c) and the forwarding (kkm_intr.S).    *)
(*                                                                         *)
(* The stack is a sequence, its top first, of words named for what they    *)
(* are; a number in a word is what the code looks at.                      *)
(***************************************************************************)
EXTENDS Integers, Sequences

CONSTANT Vectors   (* the vectors of the events, out of AllVectors         *)

AllVectors == 0..255
ASSUME VectorsAssumption == Vectors \subseteq AllVectors

DE == 0    DB == 1    NMI == 2   BP == 3   OF == 4   BR == 5   UD == 6
NM == 7    DF == 8    OLD_MF == 9
TS == 10   NP == 11   SS == 12   GP == 13  PF == 14
SPURIOUS == 15        MF == 16   AC == 17  MC == 18  XF == 19
VC == 29   SE == 30
KKM_INTR_SYSCALL == 511

VARIABLES
  event,   (* what happens: its kind, its vector and where                 *)
  stack,   (* the stack that sp0 points to                                 *)
  gs,      (* whose gs base is active                                      *)
  trap,    (* ga->trap_info and ga->intr_no                                *)
  served,  (* by whom: a handler of the driver or the host's, and which    *)
  pc

vars == <<event, stack, gs, trap, served, pc>>

Kinds == {"exception", "interrupt", "int", "syscall"}
Words == {"number", "error", "none", "rip", "cs", "rflags", "rsp", "ss"}
Word(w, n) == [word |-> w, value |-> n]
Fields == {"intr_no", "error", "rip", "cs", "rflags", "rsp", "ss"}
Handlers == {"none", "page_fault", "general_protection", "debug",
             "breakpoint", "nmi", "syscall", "with_error", "without_error",
             "forward"}

Events ==
  [kind : Kinds, vector : AllVectors, level : {0, 3}, swapped : BOOLEAN,
   low : 0..3]

TypeOK ==
  /\ event \in Events
  /\ \A i \in DOMAIN stack :
       stack[i].word \in Words /\ stack[i].value \in -1..KKM_INTR_SYSCALL
  /\ gs \in {"payload", "kernel"}
  /\ \A f \in DOMAIN trap : trap[f].word \in Words
  /\ served.by \in Handlers /\ served.vector \in AllVectors \cup {-1}
  /\ pc \in {"payload", "entry", "common", "host", "served"}

-----------------------------------------------------------------------------
(***************************************************************************)
(* The processor                                                           *)
(***************************************************************************)

(* The vectors with which it pushes an error code, if it raises them.      *)
PushesError == {DF, TS, NP, SS, GP, PF, AC, 21, VC, SE}

(* rip carries its low bits, cs the privilege level.                       *)
Frame(level, low) ==
  <<Word("rip", low), Word("cs", level), Word("rflags", 0), Word("rsp", 0),
    Word("ss", 0)>>

-----------------------------------------------------------------------------
(***************************************************************************)
(* The driver's tables                                                     *)
(***************************************************************************)

(* kkm_intr_entry_<n>: a stub that pushes -1 and the number n, and one that*)
(* pushes only the number.                                                 *)
StubNoError(n) == <<Word("number", n), Word("none", -1)>>
StubError(n) == <<Word("number", n)>>

(* intr_function_pointers as compiled.                                     *)
CompiledPointers == [v \in AllVectors |-> StubNoError(v)]

(* Mutant: the alignment check keeps the stub of the others.               *)
ReplacedNoAlignment == {DF, TS, NP, SS, GP, PF, SE}

(* The "non standard handlers" that kkm_idt_descr_init replaces.           *)
Replaced == {DF, TS, NP, SS, GP, PF, AC, SE}

intr_function_pointers ==
  [v \in AllVectors |-> IF v \in Replaced THEN StubError(v)
                                          ELSE CompiledPointers[v]]

(* Mutant: the gates of all exceptions can be called by the payload.       *)
GateLevelOpen(v) == IF v < 32 THEN 3 ELSE 0

(* The least privileged level whose int instruction may use the gate.      *)
GateLevel(v) == IF v \in {BP, OF} THEN 3 ELSE 0

(* kkm_forward_intr_<n> executes int n.                                    *)
intr_forward_pointers == [v \in AllVectors |-> v]

-----------------------------------------------------------------------------
(***************************************************************************)
(* Events                                                                  *)
(***************************************************************************)

(* An event of the payload; its number is 0 for a system call.             *)
OfPayload(kind, n, low) ==
  [kind |-> kind, vector |-> n, level |-> 3, swapped |-> TRUE, low |-> low]

Init ==
  /\ event = OfPayload("exception", DE, 0)
  /\ stack = <<>>
  /\ gs = "payload"
  /\ trap = [f \in Fields |-> Word("none", -1)]
  /\ served = [by |-> "none", vector |-> -1]
  /\ pc = "payload"

(* What the payload's instruction int n raises.                            *)
IntVector(n) == IF GateLevel(n) = 3 THEN n ELSE GP

(* An exception, of the payload (level 3) or of the guest kernel (level 0),*)
(* which runs with interrupts disabled, or an interrupt.  The return to the*)
(* payload swaps gs (kkm_guest_entry.S:267) before its iretq (:272): what  *)
(* the iretq raises, or comes with it, is an event of the guest kernel     *)
(* that finds gs swapped already.                                          *)
Deliver(kind, v, level, swapped, low) ==
  /\ pc = "payload"
  /\ level = 3 => swapped
  /\ kind = "interrupt" => v >= 32 /\ level = 3
  /\ kind = "exception" => v < 32
  /\ kind = "int" => level = 3
  /\ LET n == IF kind = "int" THEN IntVector(v) ELSE v
         error == IF n \in PushesError /\ kind # "interrupt"
                    THEN <<Word("error", 0)>> ELSE <<>>
     IN /\ event' = [kind |-> kind, vector |-> n, level |-> level,
                     swapped |-> swapped, low |-> low]
        /\ stack' = error \o Frame(level, low)
  /\ gs' = IF swapped THEN "payload" ELSE "kernel"
  /\ pc' = "entry"
  /\ UNCHANGED <<trap, served>>

Stub ==
  /\ pc = "entry"
  /\ stack' = intr_function_pointers[event.vector] \o stack
  /\ pc' = "common"
  /\ UNCHANGED <<event, gs, trap, served>>

(* testb $0x3, 0x18(%rsp)                                                  *)
LevelWord == stack[4]

Swapgs == IF gs = "payload" THEN "kernel" ELSE "payload"

SaveTrap ==
  trap' = [f \in Fields |->
             CASE f = "intr_no" -> stack[1] [] f = "error"  -> stack[2]
               [] f = "rip"     -> stack[3] [] f = "cs"     -> stack[4]
               [] f = "rflags"  -> stack[5] [] f = "rsp"    -> stack[6]
               [] f = "ss"      -> stack[7]]

(* kkm_intr_entry_asm, and on to the host kernel.                          *)
Common ==
  /\ pc = "common"
  /\ gs' = IF LevelWord.value % 4 # 0 THEN Swapgs ELSE gs
  /\ SaveTrap
  /\ pc' = "host"
  /\ UNCHANGED <<event, stack, served>>

(* kkm_syscall_entry_asm makes up a frame, and enters behind the test.     *)
Syscall(low) ==
  /\ pc = "payload"
  /\ event' = OfPayload("syscall", 0, low)
  /\ stack' = StubNoError(KKM_INTR_SYSCALL) \o Frame(3, low)
  /\ gs' = "kernel"
  /\ trap' = [f \in Fields |->
       CASE f = "intr_no" -> Word("number", KKM_INTR_SYSCALL)
         [] f = "error"   -> Word("none", -1)
         [] f = "rip"     -> Word("rip", low) [] f = "cs"  -> Word("cs", 3)
         [] f = "rflags"  -> Word("rflags", 0) [] f = "rsp" -> Word("rsp", 0)
         [] f = "ss"      -> Word("ss", 0)]
  /\ pc' = "host"
  /\ UNCHANGED served

(* The switch of kkm_process_intr.                                         *)
WithError == {DF, TS, NP, SS, AC, SE}
WithoutError == {DE, OF, BR, UD, NM, OLD_MF, SPURIOUS, MF, MC, XF, VC}

HandlerOf(n) ==
  CASE n = PF  -> "page_fault"   [] n = GP -> "general_protection"
    [] n = DB  -> "debug"        [] n = BP -> "breakpoint"
    [] n = NMI -> "nmi"          [] n = KKM_INTR_SYSCALL -> "syscall"
    [] n \in WithError -> "with_error"
    [] n \in WithoutError -> "without_error"
    [] OTHER   -> "forward"

kkm_process_intr ==
  LET n == trap["intr_no"].value
  IN /\ pc = "host"
     /\ served' = [by |-> HandlerOf(n),
                   vector |-> IF HandlerOf(n) = "forward"
                                THEN intr_forward_pointers[n] ELSE -1]
     /\ pc' = "served"
     /\ UNCHANGED <<event, stack, gs, trap>>

(* The stack is left, the payload goes on.                                 *)
Resume ==
  /\ pc = "served"
  /\ pc' = "payload" /\ stack' = <<>> /\ gs' = "payload"
  /\ trap' = [f \in Fields |-> Word("none", -1)]
  /\ served' = [by |-> "none", vector |-> -1]
  /\ event' = OfPayload("exception", DE, 0)

Next ==
  \/ \E kind \in {"exception", "interrupt", "int"}, v \in Vectors,
        level \in {0, 3}, swapped \in BOOLEAN, low \in 0..3 :
       Deliver(kind, v, level, swapped, low)
  \/ \E low \in 0..3 : Syscall(low)
  \/ Stub \/ Common \/ kkm_process_intr \/ Resume

Spec == Init /\ [][Next]_vars

-----------------------------------------------------------------------------
(***************************************************************************)
(* Properties                                                              *)
(***************************************************************************)

Arrived == pc \in {"host", "served"}
HasError == event.kind # "interrupt" /\ event.vector \in PushesError

(* The fields of the trap are what the cpu has pushed.                     *)
FrameRight ==
  /\ \A f \in Fields \ {"intr_no", "error"} : trap[f].word = f
  /\ trap["error"].word = IF event.kind # "syscall" /\ HasError
                            THEN "error" ELSE "none"
  /\ trap["intr_no"] =
       Word("number", IF event.kind = "syscall" THEN KKM_INTR_SYSCALL
                                                ELSE event.vector)

(* The event came between the swapgs of the return and the payload: a fault*)
(* of the iretq itself, for a rip the monitor has set, or an NMI there.    *)
AtReturn == event.level = 0 /\ event.swapped

(* What the driver takes for the trap's registers, its number and its      *)
(* optional error code (kkm_kontext.h:76) are those the cpu has pushed,    *)
(* wherever the event came from: every vector's stub fits the frame that   *)
(* comes with the vector.  And the host kernel runs on its own gs base,    *)
(* unless the event came at the return: the entry decides by the cs of the *)
(* frame (kkm_guest_exit.S:2607), which is the guest kernel's there, and   *)
(* leaves gs swapped.                                                      *)
EntryRight == Arrived => FrameRight /\ (~AtReturn => gs = "kernel")

(* The host's handler is called for the interrupt that came, never for an  *)
(* exception that pushes an error code, which int does not; an exception is*)
(* passed on with an error code only if it has one; int 3 alone is a       *)
(* breakpoint, and no int instruction of the payload reaches the host.     *)
ServedRight ==
  pc = "served" =>
    /\ served.by = "forward" =>
         served.vector = event.vector /\ ~HasError /\ event.kind # "int"
    /\ event.kind = "interrupt" => served.by = "forward"
    /\ served.by = "with_error" => HasError
    /\ served.by = "without_error" => ~HasError
    /\ event.kind = "int" =>
         served.by \in {"breakpoint", "without_error", "general_protection"}
=============================================================================
