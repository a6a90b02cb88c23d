--------------------------- MODULE KkmSwitchProofs ---------------------------
(***************************************************************************)
(* Theorems about KkmSwitch, for every number of cpus, threads, kontexts   *)
(* and kontainers.                                                         *)
(***************************************************************************)
EXTENDS KkmSwitch, TLAPS

USE DEF kontextVars, xstateVars, debugVars, ipiVars

Guests == {"payload", "trapped"}

(* A thread is on one cpu, and on one while it is inside the switch, which *)
(* disables interrupts and preemption.                                     *)
CpuInv ==
  /\ \A c, d \in Cpus : runs[c] = runs[d] /\ runs[c] # None => c = d
  /\ \A t \in Threads : pc[t] \in Inside => \E c \in Cpus : runs[c] = t

(* In the payload, sp0 points to the kontext's guest area.                 *)
Sp0Inv ==
  \A c \in Cpus :
    runs[c] # None /\ pc[runs[c]] \in Guests =>
      regs[c].sp0 = KontextOf[runs[c]]

TInv == TypeOK /\ CpuInv /\ Sp0Inv

-----------------------------------------------------------------------------
(* No thread runs on any cpu.                                              *)
LEMMA TypeInit == Init => TInv
<1> SUFFICES ASSUME Init PROVE TInv
  OBVIOUS
<1> USE SwitchAssumption DEF Init
<1>1. ASSUME NEW c \in Cpus
      PROVE  regs[c] = NativeRegs(c, None)
             /\ NativeRegs(c, None) \in [Registers -> Owners]
  BY DEF NativeRegs, Registers, Owners
<1>2. regs \in [Cpus -> [Registers -> Owners]]
  BY <1>1
<1>3. TypeOK
  BY <1>2 DEF TypeOK, Owners, Saved, Pcs
<1>4. CpuInv /\ Sp0Inv
  BY DEF CpuInv, Sp0Inv, Inside, Guests
<1> QED
  BY <1>3, <1>4 DEF TInv

(* Where another thread is, on another cpu, does not change.               *)
LEMMA OneCpu ==
  ASSUME TInv, NEW c \in Cpus, NEW t \in Threads, runs[c] = t,
         NEW d \in Cpus, d # c
  PROVE  runs[d] # t
BY SwitchAssumption DEF TInv, CpuInv

(* A thread that is put on a cpu runs on that cpu only.                    *)
LEMMA ScheduleType ==
  ASSUME TInv, NEW c \in Cpus, NEW t \in Threads, Schedule(c, t)
  PROVE  TInv'
<1> USE SwitchAssumption DEF TInv, Schedule
<1>1. TypeOK'
  <2>1. t \in Owners
    BY DEF Owners
  <2>2. regs' \in [Cpus -> [Registers -> Owners]]
    BY <2>1 DEF TypeOK, Registers
  <2>3. runs' \in [Cpus -> Threads \cup {None}]
    BY DEF TypeOK
  <2> QED
    BY <2>2, <2>3 DEF TypeOK
<1>2. pc[t] \notin Inside
  BY DEF CpuInv
<1>3. runs[c] # None => pc[runs[c]] \notin Inside
  BY DEF MayLeave, Leavable, Inside
<1>4. runs'[c] = t /\ \A d \in Cpus \ {c} : runs'[d] = runs[d]
  BY DEF TypeOK
<1>5. CpuInv'
  BY <1>3, <1>4 DEF CpuInv
<1>6. Sp0Inv'
  BY <1>2, <1>4 DEF Sp0Inv, TypeOK, Guests, Inside
<1> QED
  BY <1>1, <1>5, <1>6

(* A step of a thread on its cpu, which may write its registers.           *)
LEMMA StepType ==
  ASSUME TInv, NEW c \in Cpus, NEW t \in Threads, NEW from,
         NEW to \in Pcs, Step(c, t, from, to),
         runs' = runs, \A d \in Cpus \ {c} : regs'[d] = regs[d],
         to \in Guests => regs'[c].sp0 = KontextOf[t],
         to \in Inside => from \in Inside \/ runs[c] = t
  PROVE  CpuInv' /\ Sp0Inv'
<1> USE SwitchAssumption DEF TInv, Step
<1>1. \A d \in Cpus \ {c} : runs[d] # t
  BY OneCpu
<1>2. pc'[t] = to /\ \A u \in Threads \ {t} : pc'[u] = pc[u]
  BY DEF TypeOK
<1>3. CpuInv'
  BY <1>2 DEF CpuInv
<1>4. ASSUME NEW d \in Cpus, runs[d] # None, pc'[runs[d]] \in Guests
      PROVE  regs'[d].sp0 = KontextOf[runs[d]]
  <2>1. CASE d = c
    BY <1>2, <1>4, <2>1
  <2>2. CASE d # c
    <3>1. runs[d] # t /\ runs[d] \in Threads
      BY <1>1, <1>4, <2>2 DEF TypeOK
    <3>2. pc[runs[d]] \in Guests
      BY <1>2, <1>4, <3>1
    <3> QED
      BY <1>4, <2>2, <3>2 DEF Sp0Inv
  <2> QED
    BY <2>1, <2>2
<1>5. Sp0Inv'
  BY <1>4 DEF Sp0Inv
<1> QED
  BY <1>3, <1>5

(* The flush decision keeps the types.                                     *)
LEMMA PrepareType ==
  ASSUME TInv, NEW c \in Cpus, NEW t \in Threads, Prepare(c, t)
  PROVE  TInv'
<1> USE SwitchAssumption DEF TInv, Prepare
<1>1. KontextOf[t] \in Kontexts
  OBVIOUS
<1>2. TypeOK'
  BY <1>1 DEF TypeOK, Step, Pcs, LastId
<1>3. CpuInv' /\ Sp0Inv'
  BY StepType DEF Step, Pcs, Guests, Inside
<1> QED
  BY <1>2, <1>3

(* So do saving the thread's registers,                                    *)
LEMMA SaveType ==
  ASSUME TInv, NEW c \in Cpus, NEW t \in Threads, Save(c, t)
  PROVE  TInv'
<1> USE SwitchAssumption DEF TInv, Save
<1> DEFINE k == KontextOf[t]
<1>1. k \in Kontexts
  OBVIOUS
<1>2. /\ regs[c] \in [Registers -> Owners] /\ saved[k] \in [Saved -> Owners]
      /\ payload_xsave[k] \in Owners
  BY <1>1 DEF TypeOK
<1>3. saved' \in [Kontexts -> [Saved -> Owners]]
  <2> DEFINE d == IF debug_set[k] THEN regs[c].debug ELSE saved[k].debug
             n == [saved[k] EXCEPT !.space = regs[c].space,
                     !.segments = regs[c].segments, !.stack = regs[c].stack,
                     !.xstate = regs[c].xstate, !.debug = d]
  <2>1. d \in Owners
    BY <1>2 DEF Registers, Saved
  <2>2. saved' = [saved EXCEPT ![k] = n]
    BY <1>1, <1>2 DEF TypeOK
  <2> HIDE DEF d
  <2>3. n \in [Saved -> Owners]
    BY <1>2, <2>1 DEF Registers, Saved
  <2> HIDE DEF n
  <2> QED
    BY <1>1, <2>2, <2>3 DEF TypeOK
<1>4. regs' \in [Cpus -> [Registers -> Owners]]
  BY <1>1, <1>2 DEF TypeOK, Registers
<1>5. TypeOK'
  BY <1>3, <1>4 DEF TypeOK, Step, Pcs
<1>6. CpuInv' /\ Sp0Inv'
  BY StepType DEF Step, Pcs, Guests, Inside, TypeOK
<1> QED
  BY <1>5, <1>6

(* loading the payload's,                                                  *)
LEMMA StartType ==
  ASSUME TInv, NEW c \in Cpus, NEW t \in Threads, StartPayload(c, t)
  PROVE  TInv'
<1> USE SwitchAssumption DEF TInv, StartPayload
<1> DEFINE k == KontextOf[t]
<1>1. k \in Kontexts /\ k \in Owners /\ Guest \in Owners
  BY DEF Owners
<1>2. /\ regs[c] \in [Registers -> Owners] /\ saved[k] \in [Saved -> Owners]
      /\ ga_debug[k] \in Owners
  BY <1>1 DEF TypeOK
<1>3. saved' \in [Kontexts -> [Saved -> Owners]]
  BY <1>1, <1>2 DEF TypeOK, Saved, Registers
<1>4. regs' \in [Cpus -> [Registers -> Owners]] /\ regs'[c].sp0 = k
  <2> DEFINE d == IF debug_set[k] THEN ga_debug[k] ELSE regs[c].debug
             n == [regs[c] EXCEPT
                     !.space = k, !.segments = k, !.stack = k, !.sp0 = k,
                     !.idt = Guest, !.lstar = Guest, !.debug = d]
  <2>1. d \in Owners
    BY <1>2 DEF Registers
  <2>2. regs' = [regs EXCEPT ![c] = n]
    BY <1>1, <1>2 DEF TypeOK
  <2> HIDE DEF d
  <2>3. n \in [Registers -> Owners] /\ n.sp0 = k
    BY <1>1, <1>2, <2>1 DEF Registers
  <2> HIDE DEF n
  <2> QED
    BY <2>2, <2>3 DEF TypeOK
<1>5. TypeOK'
  BY <1>3, <1>4 DEF TypeOK, Step, Pcs, Loaded
<1>6. CpuInv' /\ Sp0Inv'
  BY <1>4, StepType, ZenonT(40) DEF Step, Pcs, Guests, Inside, TypeOK
<1> QED
  BY <1>5, <1>6

(* and the payload's use of its memory.                                    *)
LEMMA TouchType ==
  ASSUME TInv, NEW c \in Cpus, NEW t \in Threads, Touch(c, t)
  PROVE  TInv'
<1> USE SwitchAssumption DEF TInv, Touch
<1>1. Kkm(t) \in Kontainers
  BY DEF TypeOK, Kkm
<1>2. TypeOK'
  BY <1>1 DEF TypeOK
<1>3. CpuInv' /\ Sp0Inv'
  BY DEF CpuInv, Sp0Inv
<1> QED
  BY <1>2, <1>3

(* A trap reaches the guest area that sp0 points to.                       *)
LEMMA TrapType ==
  ASSUME TInv, NEW c \in Cpus, NEW t \in Threads,
         NEW i \in {"exit", "ipi", "timer"}, Trap(c, t, i)
  PROVE  TInv'
<1> USE SwitchAssumption DEF TInv, Trap
<1>1. regs[c].sp0 = KontextOf[t]
  BY DEF Sp0Inv, Step, Guests
<1>2. KontextOf[t] \in Kontexts /\ KontextOf[t] \in Owners
  BY DEF Owners
<1>3. /\ regs' \in [Cpus -> [Registers -> Owners]]
      /\ regs'[c].sp0 = KontextOf[t]
  <2>1. regs' = [regs EXCEPT ![c].xstate = KontextOf[t]]
    BY <1>1
  <2>2. regs[c] \in [Registers -> Owners]
    BY DEF TypeOK
  <2> DEFINE n == [regs[c] EXCEPT !.xstate = KontextOf[t]]
  <2>3. n \in [Registers -> Owners] /\ n.sp0 = KontextOf[t]
    BY <1>1, <1>2, <2>2 DEF Registers
  <2>4. regs' = [regs EXCEPT ![c] = n]
    BY <2>1
  <2>5. regs \in [Cpus -> [Registers -> Owners]]
    BY DEF TypeOK
  <2> HIDE DEF n, Trap, TInv
  <2> QED
    BY <2>3, <2>4, <2>5
<1>4. TypeOK'
  BY <1>1, <1>2, <1>3 DEF TypeOK, Step, Pcs
<1>5. CpuInv' /\ Sp0Inv'
  BY <1>3, StepType DEF Step, Pcs, Guests, Inside, TypeOK
<1> QED
  BY <1>4, <1>5

(* What is restored has been saved.                                        *)
LEMMA SwitchToHostType ==
  ASSUME TInv, NEW c \in Cpus, NEW t \in Threads, SwitchToHost(c, t)
  PROVE  TInv'
<1> USE SwitchAssumption DEF TInv, SwitchToHost
<1> DEFINE k == regs[c].sp0
<1>1. k \in Kontexts
  BY DEF Sp0Inv, Step, Guests
<1>2. /\ regs[c] \in [Registers -> Owners] /\ saved[k] \in [Saved -> Owners]
      /\ Native \in Owners
  BY <1>1 DEF TypeOK, Owners
<1>3. RestoredRegs(c, k) \in [Registers -> Owners]
  BY <1>2 DEF RestoredRegs, Registers, Saved
<1>4. regs' \in [Cpus -> [Registers -> Owners]]
  BY <1>3 DEF TypeOK
<1>5. ga_debug' \in [Kontexts -> Owners]
  BY <1>1, <1>2 DEF TypeOK, Registers
<1>6. TypeOK'
  BY <1>4, <1>5 DEF TypeOK, Step, Pcs
<1>7. CpuInv' /\ Sp0Inv'
  BY StepType DEF Step, Pcs, Guests, Inside, TypeOK
<1> QED
  BY <1>6, <1>7

(* The same on the thread's own stack.                                     *)
LEMMA RestoreType ==
  ASSUME TInv, NEW c \in Cpus, NEW t \in Threads, Restore(c, t)
  PROVE  TInv'
<1> USE SwitchAssumption DEF TInv, Restore
<1> DEFINE k == KontextOf[t]
<1>1. k \in Kontexts
  OBVIOUS
<1>2. regs[c] \in [Registers -> Owners] /\ saved[k] \in [Saved -> Owners]
  BY <1>1 DEF TypeOK
<1>3. RestoredDebug(c, k) \in Owners /\ PayloadXstate(c, k) \in Owners
  BY <1>2 DEF RestoredDebug, PayloadXstate, Registers, Saved
<1>4. regs' \in [Cpus -> [Registers -> Owners]]
  BY <1>2, <1>3 DEF TypeOK, Registers, Saved
<1>5. TypeOK'
  BY <1>1, <1>3, <1>4 DEF TypeOK, Step, Pcs
<1>6. CpuInv' /\ Sp0Inv'
  BY StepType DEF Step, Pcs, Guests, Inside, TypeOK
<1> QED
  BY <1>5, <1>6

(* A forwarded interrupt answers the requests of its own cpu.              *)
LEMMA ProcessType ==
  ASSUME TInv, NEW c \in Cpus, NEW t \in Threads, Process(c, t)
  PROVE  TInv'
<1> USE SwitchAssumption DEF TInv, Process
<1>1. /\ requests' \in [Cpus -> SUBSET Threads]
      /\ in_service' \in [Cpus -> BOOLEAN]
  BY DEF TypeOK, Handler
<1>2. TypeOK'
  BY <1>1 DEF TypeOK, Step, Pcs
<1>3. CpuInv' /\ Sp0Inv'
  BY StepType DEF Step, Pcs, Guests, Inside
<1> QED
  BY <1>2, <1>3

(* The steps outside of the switch.                                        *)
LEMMA OutsideType ==
  ASSUME TInv, NEW c \in Cpus, NEW t \in Threads,
         \/ Unmap(c, t) \/ UnmapDone(c, t) \/ Remap(c, t)
         \/ Begin(c, t) \/ Interrupted(c, t)
  PROVE  TInv'
<1> USE SwitchAssumption DEF TInv
<1>1. CASE Unmap(c, t)
  <2>1. TypeOK'
    BY <1>1 DEF Unmap, TypeOK, Step, Pcs
  <2> QED
    BY <1>1, <2>1, StepType DEF Unmap, Step, Pcs, Guests, Inside
<1>2. CASE UnmapDone(c, t) \/ Begin(c, t) \/ Interrupted(c, t)
  <2>1. TypeOK'
    <3>1. pc' \in [Threads -> Pcs]
      BY <1>2 DEF UnmapDone, Begin, Interrupted, TypeOK, Step, Pcs
    <3>2. UNCHANGED <<kkm, runs, regs, kontextVars, last_id, xstateVars,
                      debugVars, mapped, tlb, ipiVars>>
      BY <1>2 DEF UnmapDone, Begin, Interrupted
    <3> QED
      BY <3>1, <3>2 DEF TypeOK
  <2> QED
    BY <1>2, <2>1, StepType DEF UnmapDone, Begin, Interrupted, Step, Pcs,
                                Guests, Inside
<1>3. CASE Remap(c, t)
  BY <1>3 DEF Remap, TypeOK, CpuInv, Sp0Inv
<1> QED
  BY <1>1, <1>2, <1>3

(* The steps outside the switch keep the types.                            *)
LEMMA OthersType ==
  ASSUME TInv,
         \/ \E c \in Cpus : KernelTakesIpi(c)
         \/ \E k \in Kontexts : SetDebug(k) \/ SetFpu(k) \/ Reuse(k)
         \/ UNCHANGED vars
  PROVE  TInv'
<1> USE DEF TInv, CpuInv, Sp0Inv
<1>1. ASSUME NEW c \in Cpus, KernelTakesIpi(c) PROVE TInv'
  BY <1>1 DEF KernelTakesIpi, Handler, TypeOK
<1>2. ASSUME NEW k \in Kontexts, SetDebug(k) \/ SetFpu(k) \/ Reuse(k)
      PROVE  TInv'
  <2>1. k \in Owners
    BY DEF Owners
  <2>2. TypeOK'
    <3>1. CASE SetDebug(k)
      BY <2>1, <3>1 DEF SetDebug, TypeOK
    <3>2. CASE SetFpu(k)
      BY <2>1, <3>2 DEF SetFpu, TypeOK
    <3>3. CASE Reuse(k)
      BY <3>3 DEF Reuse, TypeOK
    <3> QED
      BY <1>2, <3>1, <3>2, <3>3
  <2> QED
    BY <1>2, <2>2 DEF SetDebug, SetFpu, Reuse
<1>3. CASE UNCHANGED vars
  BY <1>3 DEF vars, TypeOK
<1> QED
  BY <1>1, <1>2, <1>3

(* Every step keeps the types, with a thread on at most one cpu.           *)
LEMMA TypeStep == TInv /\ [Next]_vars => TInv'
<1> SUFFICES ASSUME TInv, [Next]_vars PROVE TInv'
  OBVIOUS
<1> QED
  BY ScheduleType, PrepareType, SaveType, StartType, TouchType, TrapType,
     SwitchToHostType, RestoreType, ProcessType, OutsideType, OthersType
     DEF Next, SwitchKernel

(* The types, with what they need to be inductive.                         *)
THEOREM TypeInvariant == Spec => []TInv
<1> QED
  BY TypeInit, TypeStep, PTL DEF Spec

(* What registers, save areas and translation caches hold, at any time:    *)
(* the way back always has a kontext whose save area it reads.             *)
THEOREM SwitchTypeCorrect == Spec => []TypeOK
<1>1. TInv => TypeOK
  BY DEF TInv
<1> QED
  BY <1>1, TypeInvariant, PTL

-----------------------------------------------------------------------------
(***************************************************************************)
(* Each side finds its own registers, if no two threads run one kontext.   *)
(***************************************************************************)
OneThread ==
  \A t, u \in Threads : KontextOf[t] = KontextOf[u] => t = u

(* The registers of the kernel's side and of the payload's, but the xstate *)
(* and the debug registers, which are switched at other places.            *)
Core(c, t) ==
  /\ regs[c].space = t /\ regs[c].segments = t /\ regs[c].stack = t
  /\ regs[c].sp0 = c /\ regs[c].idt = Native /\ regs[c].lstar = Native

GuestCore(c, k) ==
  /\ regs[c].space = k /\ regs[c].segments = k /\ regs[c].stack = k
  /\ regs[c].sp0 = k /\ regs[c].idt = Guest /\ regs[c].lstar = Guest

(* What is kept of thread t while it is in the payload.                    *)
Kept(t) ==
  LET k == KontextOf[t]
  IN /\ saved[k].space = t /\ saved[k].segments = t /\ saved[k].stack = t
     /\ saved[k].xstate = t
     /\ debug_set[k] => saved[k].debug = t

DebugOf(t) == IF debug_set[KontextOf[t]] THEN KontextOf[t] ELSE t

Outside(t) == t = None \/ pc[t] \notin Inside \/ pc[t] = "prepared"

RegsAt(c) ==
  LET t == runs[c]  k == KontextOf[t]
  IN /\ Outside(t) =>
          Core(c, t) /\ regs[c].xstate = t /\ regs[c].debug = t
     /\ t # None =>
          /\ pc[t] = "saved" => Core(c, t) /\ Kept(t) /\ regs[c].debug = t
          /\ pc[t] \in Guests =>
               /\ GuestCore(c, k) /\ Kept(t) /\ saved[k].sp0 = c
               /\ regs[c].debug = DebugOf(t)
          /\ pc[t] = "restored" =>
               Core(c, t) /\ Kept(t) /\ regs[c].debug = DebugOf(t)
          /\ pc[t] \in {"saved", "payload"} /\ valid_xsave[k] =>
               regs[c].xstate = k
          /\ pc[t] \in {"trapped", "restored"} => regs[c].xstate = k

RegsInv == \A c \in Cpus : RegsAt(c)

(* What a kontext keeps of its payload is the payload's.                   *)
KontextInv ==
  \A k \in Kontexts :
    /\ valid_xsave[k] => payload_xsave[k] = k
    /\ debug_set[k] => ga_debug[k] = k

SInv == TInv /\ RegsInv /\ KontextInv

(* Every cpu begins with its own registers.                                *)
LEMMA SwitchInit == Init => SInv
<1> SUFFICES ASSUME Init PROVE SInv
  OBVIOUS
<1>1. RegsInv
  BY DEF Init, RegsInv, RegsAt, Outside, Core, NativeRegs
<1>2. KontextInv
  BY DEF Init, KontextInv
<1> QED
  BY <1>1, <1>2, TypeInit DEF SInv

(* What a step of a thread changes is its own cpu's and its own kontext's. *)
LEMMA Elsewhere ==
  ASSUME SInv, OneThread, NEW c \in Cpus, NEW t \in Threads, runs[c] = t,
         runs' = runs,
         \A u \in Threads \ {t} : pc'[u] = pc[u],
         \A d \in Cpus \ {c} : regs'[d] = regs[d],
         \A k \in Kontexts \ {KontextOf[t]} :
           /\ saved'[k] = saved[k] /\ debug_set'[k] = debug_set[k]
           /\ valid_xsave'[k] = valid_xsave[k],
         RegsAt(c)'
  PROVE  RegsInv'
<1> SUFFICES ASSUME NEW d \in Cpus, d # c PROVE RegsAt(d)'
  BY DEF RegsInv
<1>1. regs'[d] = regs[d] /\ runs'[d] = runs[d] /\ runs[d] # t
  BY OneCpu DEF SInv
<1>2. RegsAt(d)
  BY DEF SInv, RegsInv
<1>3. CASE runs[d] = None
  BY <1>1, <1>2, <1>3 DEF RegsAt, Outside, Core
<1>4. CASE runs[d] # None
  <2> DEFINE u == runs[d]
             k == KontextOf[u]
  <2>1. u \in Threads /\ k \in Kontexts /\ k # KontextOf[t]
    BY <1>1, <1>4, SwitchAssumption DEF SInv, TInv, TypeOK, OneThread
  <2>2. /\ pc'[u] = pc[u] /\ saved'[k] = saved[k]
        /\ debug_set'[k] = debug_set[k] /\ valid_xsave'[k] = valid_xsave[k]
    BY <1>1, <2>1
  <2> QED
    BY <1>1, <1>2, <2>2 DEF RegsAt, Outside, Core, GuestCore, Kept, DebugOf
<1> QED
  BY <1>3, <1>4

(* The kernel's own switch sets what is the thread's.                      *)
LEMMA ScheduleRegs ==
  ASSUME SInv, NEW c \in Cpus, NEW t \in Threads, Schedule(c, t)
  PROVE  RegsInv' /\ KontextInv'
<1> USE SwitchAssumption DEF SInv, TInv, Schedule
<1>1. KontextInv'
  BY DEF KontextInv
<1>2. pc[t] \notin Inside
  BY DEF CpuInv
<1>3. Outside(runs[c])
  BY DEF MayLeave, Leavable, Outside, Inside
<1>4. Core(c, runs[c])
  BY <1>3 DEF RegsInv, RegsAt
<1>5. /\ regs[c] \in [Registers -> Owners]
      /\ regs'[c] = [regs[c] EXCEPT !.space = t, !.segments = t,
                                    !.stack = t, !.xstate = t, !.debug = t]
      /\ runs'[c] = t /\ pc' = pc
  BY DEF TypeOK
<1>6. Core(c, t)' /\ regs'[c].xstate = t /\ regs'[c].debug = t
  <2> HIDE DEF SInv, TInv, Schedule
  <2>1. /\ regs'[c].space = t /\ regs'[c].segments = t /\ regs'[c].stack = t
        /\ regs'[c].xstate = t /\ regs'[c].debug = t
        /\ regs'[c].sp0 = regs[c].sp0 /\ regs'[c].idt = regs[c].idt
        /\ regs'[c].lstar = regs[c].lstar
    BY <1>5 DEF Registers
  <2> QED
    BY <1>4, <2>1 DEF Core
<1>7. RegsAt(c)'
  BY <1>2, <1>5, <1>6 DEF RegsAt, Guests, Inside
<1>8. ASSUME NEW d \in Cpus, d # c PROVE RegsAt(d)'
  <2>1. RegsAt(d) /\ regs'[d] = regs[d] /\ runs'[d] = runs[d]
    BY <1>8 DEF RegsInv, TypeOK
  <2> QED
    BY <2>1 DEF RegsAt, Outside, Core, GuestCore, Kept, DebugOf
<1> QED
  BY <1>1, <1>7, <1>8 DEF RegsInv

(* The thread's registers are saved on its own cpu,                        *)
LEMMA SaveRegs ==
  ASSUME SInv, OneThread, NEW c \in Cpus, NEW t \in Threads, Save(c, t)
  PROVE  RegsInv' /\ KontextInv'
<1> USE SwitchAssumption DEF SInv, TInv, Save, Step
<1> DEFINE k == KontextOf[t]
<1>1. KontextInv'
  BY DEF KontextInv
<1>2. /\ runs[c] = t /\ t # None /\ pc[t] = "prepared" /\ pc'[t] = "saved"
      /\ \A u \in Threads \ {t} : pc'[u] = pc[u]
      /\ k \in Kontexts
  BY DEF TypeOK
<1>3. Core(c, t) /\ regs[c].xstate = t /\ regs[c].debug = t
  BY <1>2 DEF RegsInv, RegsAt, Outside
<1>4. /\ regs[c] \in [Registers -> Owners] /\ saved[k] \in [Saved -> Owners]
  BY <1>2 DEF TypeOK
<1>5. Kept(t)'
  BY <1>2, <1>3, <1>4 DEF Kept, Core, TypeOK, Saved
<1>6. Core(c, t)' /\ regs'[c].debug = t
      /\ (valid_xsave[k] => regs'[c].xstate = k)
  BY <1>2, <1>3, <1>4 DEF Core, TypeOK, Registers, KontextInv
<1>7. RegsAt(c)'
  BY <1>2, <1>5, <1>6 DEF RegsAt, Outside, Inside, Guests
<1>8. RegsInv'
  BY <1>2, <1>7, Elsewhere DEF TypeOK
<1> QED
  BY <1>1, <1>8

(* the kontext's are loaded there,                                         *)
LEMMA StartRegs ==
  ASSUME SInv, OneThread, NEW c \in Cpus, NEW t \in Threads,
         StartPayload(c, t)
  PROVE  RegsInv' /\ KontextInv'
<1> USE SwitchAssumption DEF SInv, TInv, StartPayload, Step
<1> DEFINE k == KontextOf[t]
<1>1. KontextInv'
  BY DEF KontextInv
<1>2. /\ runs[c] = t /\ t # None /\ pc[t] = "saved" /\ pc'[t] = "payload"
      /\ \A u \in Threads \ {t} : pc'[u] = pc[u]
      /\ k \in Kontexts
  BY DEF TypeOK
<1>3. /\ Core(c, t) /\ Kept(t) /\ regs[c].debug = t
      /\ valid_xsave[k] => regs[c].xstate = k
  BY <1>2 DEF RegsInv, RegsAt
<1>4. /\ regs[c] \in [Registers -> Owners] /\ saved[k] \in [Saved -> Owners]
  BY <1>2 DEF TypeOK
<1>5. Kept(t)' /\ saved'[k].sp0 = c
  BY <1>2, <1>3, <1>4 DEF Kept, Core, TypeOK, Saved
<1>6. /\ GuestCore(c, k)' /\ regs'[c].xstate = regs[c].xstate
      /\ regs'[c].debug = IF debug_set[k] THEN ga_debug[k] ELSE regs[c].debug
  BY <1>2, <1>4 DEF GuestCore, TypeOK, Registers
<1>7. regs'[c].debug = DebugOf(t)'
  BY <1>2, <1>3, <1>6 DEF DebugOf, KontextInv
<1>8. RegsAt(c)'
  BY <1>2, <1>3, <1>5, <1>6, <1>7 DEF RegsAt, Outside, Inside, Guests
<1>9. RegsInv'
  BY <1>2, <1>8, Elsewhere DEF TypeOK
<1> QED
  BY <1>1, <1>9

(* and a trap finds them again.                                            *)
LEMMA TrapRegs ==
  ASSUME SInv, OneThread, NEW c \in Cpus, NEW t \in Threads, NEW i,
         Trap(c, t, i)
  PROVE  RegsInv' /\ KontextInv'
<1> USE SwitchAssumption DEF SInv, TInv, Trap, Step
<1> DEFINE k == KontextOf[t]
<1>1. KontextInv'
  BY DEF KontextInv
<1>2. /\ runs[c] = t /\ t # None /\ pc[t] = "payload" /\ pc'[t] = "trapped"
      /\ \A u \in Threads \ {t} : pc'[u] = pc[u]
      /\ k \in Kontexts
  BY DEF TypeOK
<1>3. GuestCore(c, k) /\ Kept(t) /\ saved[k].sp0 = c
      /\ regs[c].debug = DebugOf(t)
  BY <1>2 DEF RegsInv, RegsAt, Guests
<1>4. /\ regs[c] \in [Registers -> Owners]
      /\ regs' = [regs EXCEPT ![c].xstate = k]
  BY <1>2, <1>3 DEF TypeOK, GuestCore
<1>5. /\ GuestCore(c, k)' /\ regs'[c].xstate = k
      /\ regs'[c].debug = regs[c].debug
  BY <1>3, <1>4 DEF GuestCore, TypeOK, Registers
<1>6. Kept(t)' /\ saved'[k].sp0 = c /\ DebugOf(t)' = DebugOf(t)
  BY <1>3 DEF Kept, DebugOf
<1>7. RegsAt(c)'
  BY <1>2, <1>3, <1>5, <1>6 DEF RegsAt, Outside, Inside, Guests
<1>8. RegsInv'
  BY <1>2, <1>4, <1>7, Elsewhere DEF TypeOK
<1> QED
  BY <1>1, <1>8

(* The first half of what was saved comes back,                            *)
LEMMA SwitchToHostRegs ==
  ASSUME SInv, OneThread, NEW c \in Cpus, NEW t \in Threads,
         SwitchToHost(c, t)
  PROVE  RegsInv' /\ KontextInv'
<1> USE SwitchAssumption DEF SInv, TInv, SwitchToHost, Step
<1> DEFINE k == KontextOf[t]
<1>1. /\ runs[c] = t /\ t # None /\ pc[t] = "trapped" /\ pc'[t] = "restored"
      /\ \A u \in Threads \ {t} : pc'[u] = pc[u]
      /\ k \in Kontexts
  BY DEF TypeOK
<1>2. /\ GuestCore(c, k) /\ Kept(t) /\ saved[k].sp0 = c
      /\ regs[c].debug = DebugOf(t) /\ regs[c].xstate = k
  BY <1>1 DEF RegsInv, RegsAt, Guests
<1>3. /\ regs[c] \in [Registers -> Owners] /\ saved[k] \in [Saved -> Owners]
      /\ regs' = [regs EXCEPT ![c] = RestoredRegs(c, k)]
      /\ ga_debug' = IF debug_set[k]
                       THEN [ga_debug EXCEPT ![k] = regs[c].debug]
                       ELSE ga_debug
  BY <1>1, <1>2 DEF TypeOK, GuestCore
<1>4. /\ Core(c, t)' /\ regs'[c].xstate = k
      /\ regs'[c].debug = regs[c].debug
  <2> DEFINE n == RestoredRegs(c, k)
  <2>1. regs'[c] = n
    BY <1>3 DEF TypeOK
  <2>2. /\ n.space = saved[k].space /\ n.segments = saved[k].segments
        /\ n.stack = saved[k].stack /\ n.sp0 = saved[k].sp0
        /\ n.idt = Native /\ n.lstar = Native
        /\ n.xstate = regs[c].xstate /\ n.debug = regs[c].debug
    <3> HIDE DEF SInv, TInv, SwitchToHost, k
    <3> QED
      BY <1>3 DEF RestoredRegs, Registers
  <2> HIDE DEF n
  <2> QED
    BY <1>2, <2>1, <2>2 DEF Core, Kept
<1>5. Kept(t)' /\ DebugOf(t)' = DebugOf(t)
  BY <1>2 DEF Kept, DebugOf
<1>6. KontextInv'
  BY <1>1, <1>2, <1>3 DEF KontextInv, DebugOf, TypeOK
<1>7. RegsAt(c)'
  BY <1>1, <1>2, <1>4, <1>5 DEF RegsAt, Outside, Inside, Guests
<1>8. RegsInv'
  BY <1>1, <1>3, <1>7, Elsewhere DEF TypeOK
<1> QED
  BY <1>6, <1>8

(* and then the second half.                                               *)
LEMMA RestoreRegs ==
  ASSUME SInv, OneThread, NEW c \in Cpus, NEW t \in Threads, Restore(c, t)
  PROVE  RegsInv' /\ KontextInv'
<1> USE SwitchAssumption DEF SInv, TInv, Restore, Step
<1> DEFINE k == KontextOf[t]
<1>1. /\ runs[c] = t /\ t # None /\ pc[t] = "restored" /\ pc'[t] = "process"
      /\ \A u \in Threads \ {t} : pc'[u] = pc[u]
      /\ k \in Kontexts
  BY DEF TypeOK
<1>2. /\ Core(c, t) /\ Kept(t) /\ regs[c].debug = DebugOf(t)
      /\ regs[c].xstate = k
  BY <1>1 DEF RegsInv, RegsAt
<1>3. regs[c] \in [Registers -> Owners]
  BY DEF TypeOK
<1>4. RestoredDebug(c, k) = t /\ saved[k].xstate = t
  BY <1>2 DEF RestoredDebug, DebugOf, Kept
<1>5. Core(c, t)' /\ regs'[c].xstate = t /\ regs'[c].debug = t
  BY <1>2, <1>3, <1>4 DEF Core, TypeOK, Registers
<1>6. KontextInv'
  BY <1>1, <1>2 DEF KontextInv, PayloadXstate, TypeOK
<1>7. RegsAt(c)'
  BY <1>1, <1>5 DEF RegsAt, Guests
<1>8. RegsInv'
  BY <1>1, <1>7, Elsewhere DEF TypeOK
<1> QED
  BY <1>6, <1>8

(* The steps of a thread that leave every register and save area alone.    *)
LEMMA OutsideRegs ==
  ASSUME SInv, OneThread, NEW c \in Cpus, NEW t \in Threads,
         \/ Unmap(c, t) \/ UnmapDone(c, t) \/ Remap(c, t) \/ Touch(c, t)
         \/ Begin(c, t) \/ Interrupted(c, t)
         \/ Prepare(c, t) \/ Process(c, t)
  PROVE  RegsInv' /\ KontextInv'
<1> USE SwitchAssumption DEF SInv, TInv
<1>1. UNCHANGED <<runs, regs, saved, xstateVars, debugVars>>
  BY DEF Unmap, UnmapDone, Remap, Touch, Begin, Interrupted, Prepare, Process
<1>2. KontextInv'
  BY <1>1 DEF KontextInv
<1>3. CASE UNCHANGED pc
  <2> HIDE DEF TInv
  <2> QED
    BY <1>1, <1>2, <1>3 DEF RegsInv, RegsAt, Outside, Core, GuestCore, Kept,
                            DebugOf
<1>4. ASSUME NEW from \in Pcs, NEW to \in Pcs, Step(c, t, from, to),
             from \notin Inside,
             to \notin Inside \/ to = "prepared"
      PROVE  RegsInv'
  <2>1. /\ runs[c] = t /\ t # None /\ pc[t] = from /\ pc'[t] = to
        /\ \A u \in Threads \ {t} : pc'[u] = pc[u]
    BY <1>4 DEF Step, TypeOK
  <2>2. Core(c, t) /\ regs[c].xstate = t /\ regs[c].debug = t
    BY <1>4, <2>1 DEF RegsInv, RegsAt, Outside
  <2>3. RegsAt(c)'
    BY <1>1, <1>4, <2>1, <2>2 DEF RegsAt, Core, Inside, Guests
  <2> QED
    BY <1>1, <2>1, <2>3, Elsewhere
<1>5. CASE \/ Step(c, t, "monitor", "unmapping")
           \/ Step(c, t, "unmapping", "monitor")
           \/ Step(c, t, "monitor", "begin")
           \/ Step(c, t, "begin", "monitor")
           \/ Step(c, t, "begin", "prepared")
           \/ Step(c, t, "process", "monitor")
           \/ Step(c, t, "process", "begin")
  <2> HIDE DEF SInv, TInv
  <2>1. /\ {"monitor", "unmapping", "begin", "prepared", "process"}
             \subseteq Pcs
        /\ \A x \in {"monitor", "unmapping", "begin", "process"} :
             x \notin Inside
    BY DEF Pcs, Inside
  <2> QED
    BY <1>2, <1>4, <1>5, <2>1
<1>6. CASE ~(Remap(c, t) \/ Touch(c, t))
  <2>1. CASE Process(c, t)
    <3>1. Step(c, t, "process", "monitor") \/ Step(c, t, "process", "begin")
      BY <2>1 DEF Process
    <3> QED
      BY <1>5, <3>1
  <2> QED
    BY <1>5, <1>6, <2>1 DEF Unmap, UnmapDone, Begin, Interrupted, Prepare
<1>8. CASE Remap(c, t) \/ Touch(c, t)
  BY <1>3, <1>8 DEF Remap, Touch
<1> QED
  BY <1>2, <1>6, <1>8

(* Debug registers are set and reset only between two runs.                *)
LEMMA SettingsRegs ==
  ASSUME SInv, ~DebugAnyTime, NEW k \in Kontexts,
         SetDebug(k) \/ SetFpu(k) \/ Reuse(k)
  PROVE  RegsInv' /\ KontextInv'
<1> USE SwitchAssumption DEF SInv, TInv
<1>1. /\ UNCHANGED <<runs, regs, saved, pc, valid_xsave>> /\ ~Running(k)
      /\ \A j \in Kontexts \ {k} : debug_set'[j] = debug_set[j]
  BY DEF SetDebug, SetFpu, Reuse, TypeOK
<1>2. KontextInv'
  <2>1. CASE SetDebug(k)
    BY <2>1 DEF SetDebug, TypeOK, KontextInv
  <2>2. CASE SetFpu(k)
    BY <2>2 DEF SetFpu, TypeOK, KontextInv
  <2>3. CASE Reuse(k)
    BY <2>3 DEF Reuse, TypeOK, KontextInv
  <2> QED
    BY <2>1, <2>2, <2>3
<1>3. ASSUME NEW c \in Cpus PROVE RegsAt(c)'
  <2>1. RegsAt(c)
    BY DEF RegsInv
  <2>2. runs[c] # None /\ ~Outside(runs[c]) =>
          debug_set'[KontextOf[runs[c]]] = debug_set[KontextOf[runs[c]]]
    <3> SUFFICES ASSUME runs[c] # None, ~Outside(runs[c])
                 PROVE  KontextOf[runs[c]] \in Kontexts \ {k}
      BY <1>1
    <3>1. runs[c] \in Threads
      BY DEF TypeOK
    <3> QED
      BY <1>1, <3>1 DEF Running, Outside, Inside
  <2> QED
    BY <1>1, <2>1, <2>2 DEF RegsAt, Outside, Core, GuestCore, Kept, DebugOf,
                            Inside, Guests
<1> QED
  BY <1>2, <1>3 DEF RegsInv

(* Every step keeps each cpu's registers with whom its thread's place says.*)
LEMMA SwitchStep ==
  ASSUME OneThread, ~DebugAnyTime
  PROVE  SInv /\ [Next]_vars => SInv'
<1> SUFFICES ASSUME SInv, [Next]_vars PROVE SInv'
  OBVIOUS
<1>1. TInv'
  BY TypeStep DEF SInv
<1>2. ASSUME \/ \E c \in Cpus : KernelTakesIpi(c)
             \/ UNCHANGED vars
      PROVE  RegsInv' /\ KontextInv'
  BY <1>2 DEF KernelTakesIpi, vars, SInv, RegsInv, RegsAt, KontextInv, Outside,
              Core, GuestCore, Kept, DebugOf
<1>3. RegsInv' /\ KontextInv'
  BY <1>2, ScheduleRegs, SaveRegs, StartRegs, TrapRegs, SwitchToHostRegs,
     RestoreRegs, OutsideRegs, SettingsRegs DEF Next, SwitchKernel
<1> QED
  BY <1>1, <1>3 DEF SInv

(* A thread that is out of the switch has its own registers on its cpu,    *)
(* wherever it was interrupted and migrated to, if no two threads are in   *)
(* KKM_RUN on one kontext and KKM_SET_DEBUG is not called during a run.    *)
THEOREM NativeCorrect ==
  ASSUME OneThread, ~DebugAnyTime
  PROVE  Spec => []NativeRestored
<1>1. SInv => NativeRestored
  <2> SUFFICES ASSUME SInv, NEW c \in Cpus, runs[c] # None,
                      pc[runs[c]] \notin Inside
               PROVE  regs[c] = NativeRegs(c, runs[c])
    BY DEF NativeRestored
  <2>1. /\ Core(c, runs[c]) /\ regs[c].xstate = runs[c]
        /\ regs[c].debug = runs[c]
    BY DEF SInv, RegsInv, RegsAt, Outside
  <2>2. regs[c] \in [Registers -> Owners]
    BY DEF SInv, TInv, TypeOK
  <2> QED
    BY <2>1, <2>2 DEF NativeRegs, Core, Registers
<1> QED
  BY <1>1, SwitchInit, SwitchStep, PTL DEF Spec

(* The xstate that a monitor sets is one that the next run loads, if it sets*)
(* none before the first run.                                              *)
FpuInv == \A k \in Kontexts : fpu_set[k] => valid_xsave[k]

(* An xstate set by the monitor is one that the next run loads.            *)
LEMMA FpuStep ==
  ASSUME ~FpuBeforeRun
  PROVE  TypeOK /\ FpuInv /\ [Next]_vars => FpuInv'
<1> SUFFICES ASSUME TypeOK, FpuInv, [Next]_vars PROVE FpuInv'
  OBVIOUS
<1> USE SwitchAssumption DEF FpuInv
<1>1. ASSUME NEW k \in Kontexts, SetFpu(k) PROVE FpuInv'
  BY <1>1 DEF SetFpu, TypeOK
<1>2. ASSUME NEW c \in Cpus, NEW t \in Threads, Restore(c, t) PROVE FpuInv'
  BY <1>2 DEF Restore, TypeOK
<1>3. CASE UNCHANGED <<valid_xsave, fpu_set>>
  BY <1>3
<1>4. ASSUME NEW c \in Cpus, NEW t \in Threads,
             \/ Schedule(c, t)
             \/ Unmap(c, t) \/ UnmapDone(c, t) \/ Remap(c, t)
             \/ Begin(c, t) \/ Interrupted(c, t) \/ Touch(c, t)
             \/ Prepare(c, t) \/ Save(c, t) \/ StartPayload(c, t)
             \/ SwitchToHost(c, t) \/ Process(c, t)
             \/ \E i \in {"exit", "ipi", "timer"} : Trap(c, t, i)
      PROVE  UNCHANGED <<valid_xsave, fpu_set>>
  BY <1>4 DEF Schedule, Unmap, UnmapDone, Remap, Begin, Interrupted, Touch,
              Prepare, Save, StartPayload, SwitchToHost, Process, Trap
<1>5. ASSUME \/ \E c \in Cpus : KernelTakesIpi(c)
             \/ \E k \in Kontexts : SetDebug(k) \/ Reuse(k)
             \/ UNCHANGED vars
      PROVE  UNCHANGED <<valid_xsave, fpu_set>>
  BY <1>5 DEF KernelTakesIpi, SetDebug, Reuse, vars
<1> QED
  BY <1>1, <1>2, <1>3, <1>4, <1>5 DEF Next, SwitchKernel

(* A payload always runs in its own address space with its own exits,      *)
(* xstate and debug registers, on whatever cpu it is started again, if no  *)
(* two threads run one kontext and the monitor sets debug registers only   *)
(* between runs and no xstate before the first.                            *)
THEOREM PayloadCorrect ==
  ASSUME OneThread, ~DebugAnyTime, ~FpuBeforeRun
  PROVE  Spec => []PayloadOwn
<1>1. Init => SInv /\ FpuInv
  BY SwitchInit DEF Init, FpuInv
<1>2. SInv /\ FpuInv /\ [Next]_vars => SInv' /\ FpuInv'
  BY SwitchStep, FpuStep DEF SInv, TInv
<1>3. SInv /\ FpuInv => PayloadOwn
  <2> SUFFICES ASSUME SInv, FpuInv, NEW c \in Cpus, runs[c] # None,
                      pc[runs[c]] = "payload", NEW k, k = KontextOf[runs[c]]
               PROVE  /\ GuestCore(c, k)
                      /\ valid_xsave[k] \/ fpu_set[k] => regs[c].xstate = k
                      /\ debug_set[k] => regs[c].debug = k
    BY DEF PayloadOwn, GuestCore
  <2>1. runs[c] \in Threads /\ k \in Kontexts
    BY SwitchAssumption DEF SInv, TInv, TypeOK
  <2> QED
    BY <2>1 DEF SInv, RegsInv, RegsAt, Guests, DebugOf, FpuInv
<1> QED
  BY <1>1, <1>2, <1>3, PTL DEF Spec

-----------------------------------------------------------------------------
(***************************************************************************)
(* The translations, whatever threads share a kontext.                     *)
(***************************************************************************)

(* A cpu has translations of the kontainer that it last flushed for alone; *)
(* inside the switch that is the thread's.                                 *)
LastInv ==
  \A c \in Cpus :
    /\ tlb[c] \subseteq {last_id[c]}
    /\ runs[c] # None /\ pc[runs[c]] \in Inside => last_id[c] = Kkm(runs[c])

(* A translation that a payload should not use any more is of a thread that*)
(* waits for this very cpu.                                                *)
WaitInv ==
  \A c \in Cpus :
    LET m == Kkm(runs[c])
    IN runs[c] # None /\ pc[runs[c]] = "payload" /\ m \in tlb[c] /\ ~mapped[m]
         => \E u \in requests[c] : Kkm(u) = m /\ pc[u] = "unmapping"

LInv == TInv /\ LastInv /\ WaitInv

(* No cpu has a translation.                                               *)
LEMMA TlbInit == Init => LInv
<1> SUFFICES ASSUME Init PROVE LInv
  OBVIOUS
<1>1. LastInv /\ WaitInv
  BY DEF Init, LastInv, WaitInv
<1> QED
  BY <1>1, TypeInit DEF LInv

(* A step of a thread on its cpu that keeps the cpu's translations, or     *)
(* decides on the flush.                                                   *)
LEMMA LastStep ==
  ASSUME TypeOK, CpuInv, LastInv, NEW c \in Cpus, NEW t \in Threads, NEW from,
         NEW to, Step(c, t, from, to), UNCHANGED <<kkm, runs>>,
         \A d \in Cpus \ {c} : tlb'[d] = tlb[d] /\ last_id'[d] = last_id[d],
         tlb'[c] \subseteq {last_id'[c]},
         to \in Inside => last_id'[c] = Kkm(t)
  PROVE  LastInv'
<1> SUFFICES ASSUME NEW d \in Cpus
             PROVE  /\ tlb'[d] \subseteq {last_id'[d]}
                    /\ runs[d] # None /\ pc'[runs[d]] \in Inside =>
                         last_id'[d] = Kkm(runs[d])
  BY DEF LastInv, Kkm
<1>1. CASE d = c
  BY <1>1 DEF Step, TypeOK
<1>2. CASE d # c
  <2>1. runs[d] # None => runs[d] \in Threads \ {t}
    BY <1>2, SwitchAssumption DEF Step, TypeOK, CpuInv
  <2> QED
    BY <1>2, <2>1 DEF Step, TypeOK, LastInv
<1> QED
  BY <1>1, <1>2

(* A step of another cpu takes no answer to a munmap away.                 *)
LEMMA WaitStep ==
  ASSUME TypeOK, CpuInv, WaitInv, NEW c \in Cpus, NEW t \in Threads, NEW from,
         NEW to, Step(c, t, from, to), UNCHANGED <<kkm, runs, mapped>>,
         from # "unmapping",
         \A d \in Cpus \ {c} : tlb'[d] = tlb[d] /\ requests'[d] = requests[d],
         to = "payload" => tlb'[c] = {}
  PROVE  WaitInv'
<1> SUFFICES ASSUME NEW d \in Cpus, runs[d] # None, pc'[runs[d]] = "payload",
                    Kkm(runs[d]) \in tlb'[d], ~mapped[Kkm(runs[d])]
             PROVE  \E u \in requests'[d] : Kkm(u) = Kkm(runs[d])
                                           /\ pc'[u] = "unmapping"
  BY DEF WaitInv, Kkm
<1>1. d # c
  BY DEF Step, TypeOK
<1>2. runs[d] \in Threads \ {t}
  BY <1>1, SwitchAssumption DEF Step, TypeOK, CpuInv
<1>3. PICK u \in requests[d] : Kkm(u) = Kkm(runs[d]) /\ pc[u] = "unmapping"
  BY <1>1, <1>2 DEF Step, TypeOK, WaitInv
<1>4. u \in Threads \ {t}
  BY <1>3 DEF Step, TypeOK
<1> QED
  BY <1>1, <1>3, <1>4 DEF Step, TypeOK

(* The switch leaves a payload no translation but its kontainer's.         *)
LEMMA SwitchTlb ==
  ASSUME LInv, NEW c \in Cpus, NEW t \in Threads,
         \/ Begin(c, t) \/ Interrupted(c, t) \/ SwitchKernel(c, t)
         \/ \E i \in {"exit", "ipi", "timer"} : Trap(c, t, i)
  PROVE  LastInv' /\ WaitInv'
<1> USE SwitchAssumption DEF LInv, TInv
<1>1. UNCHANGED <<kkm, runs, mapped>>
  BY DEF Begin, Interrupted, SwitchKernel, Prepare, Save, StartPayload,
         SwitchToHost, Restore, Process, Trap
<1>2. ASSUME NEW from \in Pcs \ {"unmapping"}, NEW to \in Pcs,
             Step(c, t, from, to),
             to \in Inside => from \in Inside,
             UNCHANGED last_id,
             UNCHANGED tlb \/ tlb' = [tlb EXCEPT ![c] = {}],
             to = "payload" => tlb'[c] = {},
             \A d \in Cpus \ {c} : requests'[d] = requests[d]
      PROVE  LastInv' /\ WaitInv'
  <2>1. /\ \A d \in Cpus \ {c} : tlb'[d] = tlb[d]
        /\ tlb'[c] \subseteq {last_id'[c]}
        /\ runs[c] = t /\ t # None
    BY <1>2 DEF TypeOK, LastInv, Step
  <2>2. to \in Inside => last_id'[c] = Kkm(t)
    BY <1>2, <2>1 DEF LastInv, Step
  <2>3. LastInv'
    BY <1>1, <1>2, <2>1, <2>2, LastStep
  <2>4. WaitInv'
    BY <1>1, <1>2, <2>1, WaitStep
  <2> QED
    BY <2>3, <2>4
<1>3. CASE Prepare(c, t)
  <2> DEFINE k == KontextOf[t]
  <2>1. /\ Step(c, t, "begin", "prepared") /\ last_id'[c] = Kkm(t)
        /\ \A d \in Cpus \ {c} : tlb'[d] = tlb[d] /\ last_id'[d] = last_id[d]
        /\ UNCHANGED requests
    BY <1>3 DEF Prepare, LastId, Kkm, TypeOK
  <2>2. tlb'[c] \subseteq {last_id'[c]}
    <3>1. CASE LazyFlush(c, k)
      BY <1>3, <3>1 DEF Prepare, TypeOK
    <3>2. CASE ~LazyFlush(c, k)
      BY <1>3, <2>1, <3>2 DEF Prepare, TypeOK, LazyFlush, LastInv, Kkm
    <3> QED
      BY <3>1, <3>2
  <2>3. LastInv'
    BY <1>1, <2>1, <2>2, LastStep
  <2>4. WaitInv'
    BY <1>1, <2>1, WaitStep
  <2> QED
    BY <2>3, <2>4
<1>4. CASE StartPayload(c, t)
  <2>1. /\ Step(c, t, "saved", "payload") /\ tlb' = [tlb EXCEPT ![c] = {}]
        /\ UNCHANGED <<last_id, requests>>
    BY <1>4 DEF StartPayload, Loaded
  <2> QED
    BY <1>2, <2>1 DEF Pcs, Inside, TypeOK
<1>5. CASE Process(c, t)
  <2>1. /\ Step(c, t, "process", "monitor") \/ Step(c, t, "process", "begin")
        /\ UNCHANGED <<last_id, tlb>>
        /\ \A d \in Cpus \ {c} : requests'[d] = requests[d]
    BY <1>5 DEF Process, Handler, TypeOK
  <2> QED
    BY <1>2, <2>1 DEF Pcs, Inside
<1>6. CASE \/ Begin(c, t) \/ Interrupted(c, t) \/ Save(c, t)
           \/ SwitchToHost(c, t) \/ Restore(c, t)
           \/ \E i \in {"exit", "ipi", "timer"} : Trap(c, t, i)
  <2>1. /\ \/ Step(c, t, "monitor", "begin") \/ Step(c, t, "begin", "monitor")
           \/ Step(c, t, "prepared", "saved")
           \/ Step(c, t, "payload", "trapped")
           \/ Step(c, t, "trapped", "restored")
           \/ Step(c, t, "restored", "process")
        /\ UNCHANGED <<last_id, tlb, requests>>
    BY <1>6 DEF Begin, Interrupted, Save, Trap, SwitchToHost, Restore
  <2> QED
    BY <1>2, <2>1 DEF Pcs, Inside
<1> QED
  BY <1>3, <1>4, <1>5, <1>6 DEF SwitchKernel

(* A munmap asks every cpu that runs its address space.                    *)
LEMMA UnmapTlb ==
  ASSUME LInv, NEW c \in Cpus, NEW t \in Threads,
         Unmap(c, t) \/ UnmapDone(c, t) \/ Remap(c, t) \/ Touch(c, t)
  PROVE  LastInv' /\ WaitInv'
<1> USE SwitchAssumption DEF LInv, TInv
<1>1. ASSUME Unmap(c, t) \/ UnmapDone(c, t) PROVE LastInv'
  BY <1>1, LastStep DEF Unmap, UnmapDone, LastInv, Inside
<1>2. ASSUME Unmap(c, t) PROVE WaitInv'
  <2>1. /\ runs[c] = t /\ pc[t] = "monitor" /\ pc'[t] = "unmapping"
        /\ \A u \in Threads \ {t} : pc'[u] = pc[u]
        /\ UNCHANGED <<kkm, runs, tlb>>
        /\ \A m \in Kontainers \ {Kkm(t)} : mapped'[m] = mapped[m]
        /\ mapped[Kkm(t)] /\ t # None
    BY <1>2 DEF Unmap, Step, TypeOK
  <2> SUFFICES ASSUME NEW d \in Cpus, runs[d] # None,
                      pc'[runs[d]] = "payload",
                      Kkm(runs[d]) \in tlb[d], ~mapped'[Kkm(runs[d])]
               PROVE  \E u \in requests'[d] : Kkm(u) = Kkm(runs[d])
                                             /\ pc'[u] = "unmapping"
    BY <2>1 DEF WaitInv, Kkm
  <2>2. d # c /\ runs[d] \in Threads \ {t}
    BY <2>1 DEF TypeOK
  <2>3. CASE Kkm(runs[d]) = Kkm(t)
    <3>1. t \in requests'[d]
      BY <1>2, <2>2, <2>3 DEF Unmap
    <3> QED
      BY <2>1, <2>3, <3>1
  <2>4. CASE Kkm(runs[d]) # Kkm(t)
    <3>1. Kkm(runs[d]) \in Kontainers /\ ~mapped[Kkm(runs[d])]
      BY <2>1, <2>2, <2>4 DEF TypeOK, Kkm
    <3>2. PICK u \in requests[d] : Kkm(u) = Kkm(runs[d])
                                   /\ pc[u] = "unmapping"
      BY <2>1, <2>2, <3>1 DEF WaitInv
    <3>3. u \in requests'[d] /\ u \in Threads \ {t}
      BY <1>2, <2>1, <3>2 DEF Unmap, TypeOK
    <3> QED
      BY <2>1, <3>2, <3>3
  <2> QED
    BY <2>3, <2>4
<1>3. ASSUME UnmapDone(c, t) PROVE WaitInv'
  <2>1. /\ runs[c] = t /\ pc[t] = "unmapping" /\ pc'[t] = "monitor"
        /\ \A u \in Threads \ {t} : pc'[u] = pc[u]
        /\ UNCHANGED <<kkm, runs, tlb, mapped, requests>>
        /\ \A d \in Cpus : t \notin requests[d]
    BY <1>3 DEF UnmapDone, Step, TypeOK
  <2> SUFFICES ASSUME NEW d \in Cpus, runs[d] # None,
                      pc'[runs[d]] = "payload",
                      Kkm(runs[d]) \in tlb[d], ~mapped[Kkm(runs[d])]
               PROVE  \E u \in requests[d] : Kkm(u) = Kkm(runs[d])
                                            /\ pc'[u] = "unmapping"
    BY <2>1 DEF WaitInv, Kkm
  <2>2. runs[d] \in Threads \ {t}
    BY <2>1 DEF TypeOK
  <2>3. PICK u \in requests[d] : Kkm(u) = Kkm(runs[d]) /\ pc[u] = "unmapping"
    BY <2>1, <2>2 DEF WaitInv
  <2> QED
    BY <2>1, <2>3, ZenonT(40) DEF TypeOK
<1>4. ASSUME Remap(c, t) PROVE LastInv' /\ WaitInv'
  <2>1. /\ UNCHANGED <<kkm, runs, tlb, last_id, pc, requests>>
        /\ \A m \in Kontainers : mapped[m] => mapped'[m]
    BY <1>4 DEF Remap, TypeOK
  <2>2. \A d \in Cpus : runs[d] # None => Kkm(runs[d]) \in Kontainers
    BY DEF TypeOK, Kkm
  <2> QED
    BY <2>1, <2>2 DEF LastInv, WaitInv, Kkm
<1>5. ASSUME Touch(c, t) PROVE LastInv' /\ WaitInv'
  <2>1. /\ UNCHANGED <<kkm, runs, last_id, pc, requests, mapped>>
        /\ runs[c] = t /\ t # None /\ pc[t] = "payload" /\ mapped[Kkm(t)]
        /\ tlb'[c] = tlb[c] \cup {Kkm(t)}
        /\ \A d \in Cpus \ {c} : tlb'[d] = tlb[d]
    BY <1>5 DEF Touch, TypeOK
  <2>2. LastInv'
    BY <2>1 DEF LastInv, Kkm, Inside
  <2>3. WaitInv'
    BY <2>1 DEF WaitInv, Kkm
  <2> QED
    BY <2>2, <2>3
<1> QED
  <2>1. Remap(c, t) \/ Touch(c, t) \/ Unmap(c, t) \/ UnmapDone(c, t)
    OBVIOUS
  <2> HIDE DEF LInv, TInv
  <2> QED
    BY <1>1, <1>2, <1>3, <1>4, <1>5, <2>1

(* Every step keeps what is known of the translations.                     *)
LEMMA TlbStep == LInv /\ [Next]_vars => LInv'
<1> SUFFICES ASSUME LInv, [Next]_vars PROVE LInv'
  OBVIOUS
<1>1. TInv'
  BY TypeStep DEF LInv
<1>2. ASSUME NEW c \in Cpus, NEW t \in Threads, Schedule(c, t)
      PROVE  LastInv' /\ WaitInv'
  <2>1. pc[t] \notin Inside /\ t # None
    BY <1>2, SwitchAssumption DEF Schedule, LInv, TInv, CpuInv
  <2>2. /\ UNCHANGED <<kkm, last_id, pc, requests, mapped, tlb>>
        /\ runs'[c] = t /\ \A d \in Cpus \ {c} : runs'[d] = runs[d]
    BY <1>2 DEF Schedule, LInv, TInv, TypeOK
  <2> QED
    BY <2>1, <2>2 DEF LInv, LastInv, WaitInv, Kkm, Inside
<1>3. ASSUME NEW c \in Cpus, KernelTakesIpi(c) PROVE LastInv' /\ WaitInv'
  <2>1. /\ UNCHANGED <<kkm, runs, last_id, pc, mapped, tlb>>
        /\ runs[c] # None => pc[runs[c]] # "payload"
        /\ \A d \in Cpus \ {c} : requests'[d] = requests[d]
    BY <1>3 DEF KernelTakesIpi, Handler, Enabled, LInv, TInv, TypeOK
  <2> QED
    BY <2>1 DEF LInv, LastInv, WaitInv, Kkm
<1>4. ASSUME \/ \E k \in Kontexts : SetDebug(k) \/ SetFpu(k) \/ Reuse(k)
             \/ UNCHANGED vars
      PROVE  LastInv' /\ WaitInv'
  <2>1. UNCHANGED <<kkm, runs, last_id, pc, requests, mapped, tlb>>
    BY <1>4 DEF SetDebug, SetFpu, Reuse, vars
  <2> QED
    BY <2>1 DEF LInv, LastInv, WaitInv, Kkm
<1>5. LastInv' /\ WaitInv'
  BY <1>2, <1>3, <1>4, SwitchTlb, UnmapTlb DEF Next
<1> QED
  BY <1>1, <1>5 DEF LInv

(* The invariant from which both properties of the TLB follow.             *)
THEOREM TlbInvariant == Spec => []LInv
<1> QED
  BY TlbInit, TlbStep, PTL DEF Spec

(* The lazy flush is enough: with one context id for all kontainers, no    *)
(* payload runs on a cpu that has a translation of another kontainer's.    *)
THEOREM TlbOwnCorrect == Spec => []TlbOwn
<1>1. LInv => TlbOwn
  BY DEF LInv, LastInv, TlbOwn
<1> QED
  BY <1>1, TlbInvariant, PTL

(* A payload never uses a translation of memory that munmap has returned   *)
(* for: its cpu has to take the interrupt that munmap waits for, and cr3 is*)
(* loaded on the way back.                                                 *)
THEOREM TlbCurrentCorrect == Spec => []TlbCurrent
<1>1. LInv => TlbCurrent
  <2> SUFFICES ASSUME LInv, NEW c \in Cpus, runs[c] # None,
                      pc[runs[c]] = "payload", Kkm(runs[c]) \in tlb[c],
                      ~mapped[Kkm(runs[c])]
               PROVE  \E u \in Threads : Kkm(u) = Kkm(runs[c])
                                        /\ pc[u] = "unmapping"
    BY DEF TlbCurrent
  <2>1. requests[c] \subseteq Threads
    BY DEF LInv, TInv, TypeOK
  <2> QED
    BY <2>1 DEF LInv, WaitInv
<1> QED
  BY <1>1, TlbInvariant, PTL
=============================================================================
