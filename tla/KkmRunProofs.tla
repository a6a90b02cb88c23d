---------------------------- MODULE KkmRunProofs ----------------------------
(***************************************************************************)
(* Theorems about KkmRun, for every stack, record size, repeat limit and   *)
(* depth of handlers.                                                      *)
(***************************************************************************)
EXTENDS KkmRun, TLAPS

(* A stopped thread's registers r and driver state k are whole: what the   *)
(* driver has put in rax and rbx is covered by a call or an exception that *)
(* the next KKM_RUN takes back, from places it can take it from.           *)
Whole(r, k) ==
  /\ k.syscall_pending => k.ret_val_mva \in Addrs
  /\ k.exception_posted => /\ k.exception_saved_rax \in Values
                           /\ k.exception_saved_rbx \in Values
  /\ ~k.exception_posted => /\ r.rbx \in Values
                            /\ k.syscall_pending \/ r.rax \in Values

Idle ==
  pc \in {"new", "reused"} =>
    /\ ~kontext.syscall_pending /\ ~kontext.exception_posted
    /\ kontext.new_thread

Inside ==
  pc \in {"begin", "payload"} =>
    /\ ~kontext.syscall_pending /\ ~kontext.exception_posted
    /\ ~kontext.new_thread
    /\ regs.rax \in Values /\ regs.rbx \in Values
    /\ trap_repeat_counter <= MaxRepeat

Stopped ==
  /\ pc = "monitor" => Whole(regs, kontext)
  /\ \A i \in 1..Len(saved) : Whole(saved[i].regs, saved[i].kontext)

RInv == TypeOK /\ Idle /\ Inside /\ Stopped

-----------------------------------------------------------------------------
(* What GET_SAVE_INFO and REUSE leave is typed and has nothing pending.    *)
LEMMA ClearedFacts ==
  ASSUME NEW k \in KontextSet
  PROVE  /\ Cleared(k) \in KontextSet
         /\ ~Cleared(k).syscall_pending /\ ~Cleared(k).exception_posted
         /\ Cleared(k).new_thread = k.new_thread
         /\ Cleared(k).first_thread = k.first_thread
         /\ Cleared(k).reason = k.reason
  BY DEF Cleared, KontextSet, Unset

(* Moving the stack pointer gives registers and leaves the others.         *)
LEMMA RspMoved ==
  ASSUME NEW r \in RegisterSet, NEW sp \in Int
  PROVE  LET q == [r EXCEPT !.rsp = sp]
         IN  q \in RegisterSet /\ q.rsp = sp /\ q.rax = r.rax /\ q.rbx = r.rbx
<1>1. [r EXCEPT !.rsp = sp] \in RegisterSet
  BY DEF RegisterSet
<1>2. LET q == [r EXCEPT !.rsp = sp]
      IN  q.rsp = sp /\ q.rax = r.rax /\ q.rbx = r.rbx
  BY DEF RegisterSet
<1> QED BY <1>1, <1>2

(* Setting rax with the stack pointer, in either order, gives registers.   *)
LEMMA RspRaxSet ==
  ASSUME NEW r \in RegisterSet, NEW sp \in Int, NEW a \in Values \cup Int
  PROVE  /\ [r EXCEPT !.rsp = sp, !.rax = a] \in RegisterSet
         /\ [r EXCEPT !.rax = a, !.rsp = sp] \in RegisterSet
<1>1. [r EXCEPT !.rsp = sp, !.rax = a] \in RegisterSet
  BY DEF RegisterSet
<1>2. [r EXCEPT !.rax = a, !.rsp = sp] \in RegisterSet
  BY DEF RegisterSet
<1> QED BY <1>1, <1>2

(* A clone's adjustment moves the stack pointer and nothing else.          *)
LEMMA CloneFacts ==
  ASSUME NEW r \in RegisterSet, NEW k \in KontextSet
  PROVE  LET c == CloneAdjusted(r, k)
         IN  /\ c \in RegisterSet /\ c.rax = r.rax /\ c.rbx = r.rbx
             /\ c.rsp = r.rsp + (IF k.new_thread /\ ~k.first_thread
                                      /\ k.reason = "syscall"
                                 THEN Frame ELSE 0)
<1>1. r.rsp \in Int /\ Frame \in Int /\ r.rsp + HcArgs + Redzone = r.rsp + Frame
  BY RunAssumption DEF RegisterSet, Frame
<1>2. CASE k.new_thread /\ ~k.first_thread /\ k.reason = "syscall"
  <2>1. CloneAdjusted(r, k) = [r EXCEPT !.rsp = r.rsp + Frame]
    BY <1>1, <1>2 DEF CloneAdjusted
  <2> QED BY <1>1, <1>2, <2>1, RspMoved
<1>3. CASE ~(k.new_thread /\ ~k.first_thread /\ k.reason = "syscall")
  BY <1>1, <1>3 DEF CloneAdjusted
<1> QED BY <1>2, <1>3

(* Undoing a clone's, a call's and an exception's changes from a whole     *)
(* state gives the payload registers of its own.                           *)
LEMMA UndoneFacts ==
  ASSUME NEW r \in RegisterSet, NEW k \in KontextSet, Whole(r, k),
         mem \in [Addrs -> Values]
  PROVE  LET u == ExceptionUndone(SyscallAnswered(CloneAdjusted(r, k), k), k)
         IN  /\ u \in RegisterSet
             /\ u.rax \in Values /\ u.rbx \in Values
             /\ u.rsp = r.rsp
                  + (IF k.new_thread /\ ~k.first_thread
                          /\ k.reason = "syscall" THEN Frame ELSE 0)
                  + (IF k.syscall_pending THEN Frame ELSE 0)
<1> DEFINE c == CloneAdjusted(r, k)
           s == SyscallAnswered(c, k)
           u == ExceptionUndone(s, k)
<1>1. /\ c \in RegisterSet /\ c.rax = r.rax /\ c.rbx = r.rbx
      /\ c.rsp = r.rsp + (IF k.new_thread /\ ~k.first_thread
                               /\ k.reason = "syscall" THEN Frame ELSE 0)
  BY CloneFacts
<1>2. /\ s \in RegisterSet /\ s.rbx = r.rbx
      /\ s.rsp = c.rsp + (IF k.syscall_pending THEN Frame ELSE 0)
      /\ k.syscall_pending => s.rax \in Values
      /\ ~k.syscall_pending => s.rax = r.rax
  <2> HIDE DEF c
  <2>1. CASE k.syscall_pending
    <3>1. mem[k.ret_val_mva] \in Values
      BY <2>1 DEF Whole
    <3>2. s = [c EXCEPT !.rax = mem[k.ret_val_mva], !.rsp = c.rsp + HcArgs + Redzone]
      BY <2>1 DEF SyscallAnswered
    <3>3. c.rsp \in Int /\ c.rsp + HcArgs + Redzone = c.rsp + Frame
      BY <1>1, RunAssumption DEF RegisterSet, Frame
    <3>4. Frame \in Int
      BY RunAssumption DEF Frame
    <3> QED
      <4> HIDE DEF s
      <4>1. s.rax = mem[k.ret_val_mva] /\ s.rbx = c.rbx
            /\ s.rsp = c.rsp + Frame
        BY <1>1, <3>2, <3>3 DEF RegisterSet
      <4>2. s \in RegisterSet
        <5>1. c \in RegisterSet /\ mem[k.ret_val_mva] \in Values \cup Int
          BY <1>1, <3>1
        <5>2. c.rsp + HcArgs + Redzone \in Int
          BY <3>3, <3>4
        <5> QED BY <3>2, <5>1, <5>2, RspRaxSet
      <4> QED BY <1>1, <2>1, <3>1, <4>1, <4>2
  <2>2. CASE ~k.syscall_pending
    BY <1>1, <2>2 DEF SyscallAnswered, RegisterSet
  <2> QED BY <2>1, <2>2
<1>3. u \in RegisterSet /\ u.rsp = s.rsp /\ u.rax \in Values /\ u.rbx \in Values
  <2> HIDE DEF s
  <2>1. CASE k.exception_posted
    BY <1>2, <2>1 DEF ExceptionUndone, RegisterSet, Whole
  <2>2. CASE ~k.exception_posted
    BY <1>2, <2>2 DEF ExceptionUndone, RegisterSet, Whole
  <2> QED BY <2>1, <2>2
<1> HIDE DEF c, s, u
<1>4. /\ u \in RegisterSet /\ u.rax \in Values /\ u.rbx \in Values
      /\ u.rsp = r.rsp + (IF k.new_thread /\ ~k.first_thread
                               /\ k.reason = "syscall" THEN Frame ELSE 0)
                       + (IF k.syscall_pending THEN Frame ELSE 0)
  BY <1>1, <1>2, <1>3
<1> QED BY <1>4 DEF c, s, u

(* The types of what a quiet step may change.                              *)
RestOK ==
  /\ pc \in {"new", "reused", "ended", "monitor", "torn", "begin", "payload"}
  /\ exit_reason \in {"unknown", "io", "debug", "intr"}
  /\ ret_val \in {"none", "ok", "EINTR", "EFAULT"}
  /\ prev_fault \in Faults \cup {NoFault}
  /\ trap_repeat_counter \in -1..(MaxRepeat + 1)
  /\ signal_pending \in BOOLEAN
  /\ cloned \in BOOLEAN

(* A step that leaves registers, kontext and stack alone, and enters the   *)
(* payload or the monitor from inside KKM_RUN only.                        *)
LEMMA Quiet ==
  ASSUME RInv, RestOK',
         regs' = regs, kontext' = kontext, mem' = mem,
         saved' = saved \/ saved' = <<>>,
         pc' \in {"new", "reused"} => pc' = pc,
         pc' \in {"begin", "payload"} =>
           pc \in {"begin", "payload"} /\ trap_repeat_counter' <= MaxRepeat,
         pc' = "monitor" => pc \in {"begin", "payload", "monitor"}
  PROVE  RInv'
<1>1. TypeOK /\ Idle /\ Inside /\ Stopped
  BY DEF RInv
<1>2. TypeOK'
  <2>1. /\ regs \in RegisterSet /\ kontext \in KontextSet
        /\ mem \in [Addrs -> Values] /\ saved \in Seq(SavedSet)
    BY <1>1 DEF TypeOK
  <2>2. regs' \in RegisterSet /\ kontext' \in KontextSet
    BY <2>1
  <2>3. mem' \in [Addrs -> Values]
    BY <2>1
  <2>4. saved' \in Seq(SavedSet)
    <3>1. CASE saved' = saved
      BY <2>1, <3>1
    <3>2. CASE saved' = <<>>
      BY <3>2
    <3> QED BY <3>1, <3>2
  <2> QED BY <2>2, <2>3, <2>4, Zenon DEF TypeOK, RestOK
<1>3. Idle' /\ Inside'
  BY <1>1 DEF Idle, Inside
<1>4. (pc = "monitor" => Whole(regs, kontext))'
  BY <1>1 DEF Stopped, Inside, Whole
<1>5. (\A i \in 1..Len(saved) : Whole(saved[i].regs, saved[i].kontext))'
  BY <1>1 DEF Stopped, Whole
<1> QED BY <1>2, <1>3, <1>4, <1>5 DEF RInv, Stopped

-----------------------------------------------------------------------------
(* The initial states satisfy the invariant.                               *)
LEMMA InitInv == Init => RInv
<1> SUFFICES ASSUME Init PROVE RInv
  OBVIOUS
<1> USE RunAssumption DEF Init
<1>1. regs \in RegisterSet /\ kontext \in KontextSet /\ mem \in [Addrs -> Values]
  BY DEF RegisterSet, KontextSet, Addrs, Unset
<1>2. saved \in Seq(SavedSet)
  OBVIOUS
<1>3. signal_pending \in BOOLEAN /\ cloned \in BOOLEAN
  OBVIOUS
<1>c. TypeOK
  BY <1>1, <1>2, <1>3 DEF TypeOK
<1>4. Idle /\ Inside /\ Stopped
  BY DEF Idle, Inside, Stopped
<1> QED BY <1>c, <1>4 DEF RInv

(* Every step preserves the invariant.                                     *)
LEMMA StepInv == RInv /\ [Next]_vars => RInv'
<1> SUFFICES ASSUME RInv, [Next]_vars PROVE RInv'
  OBVIOUS
<1> USE RunAssumption DEF repeat
<1>t. TypeOK /\ Idle /\ Inside /\ Stopped
  BY DEF RInv
<1>a. /\ regs \in RegisterSet /\ kontext \in KontextSet
      /\ mem \in [Addrs -> Values] /\ saved \in Seq(SavedSet)
  BY <1>t DEF TypeOK
<1>1. ASSUME Compute PROVE RInv'
  <2> USE <1>1 DEF Compute
  <2>1. regs' \in RegisterSet
    BY <1>a DEF RegisterSet, Addrs, TrapNo
  <2>2. kontext' \in KontextSet
    BY <1>a, <1>t DEF KontextSet, RegisterSet, Inside
  <2>3. mem' \in [Addrs -> Values] /\ saved' \in Seq(SavedSet)
    BY <1>a
  <2>4. signal_pending' \in BOOLEAN /\ cloned' \in BOOLEAN
    BY <1>t DEF TypeOK
  <2>5. TypeOK'
    BY <1>t, <2>1, <2>2, <2>3, <2>4 DEF TypeOK, Inside
  <2>6. Idle' /\ Inside'
    BY <1>a, <1>t DEF Idle, Inside, KontextSet, RegisterSet
  <2>7. Stopped'
    BY <1>a, <1>t DEF Inside, Stopped, Whole, KontextSet, RegisterSet
  <2> QED BY <2>5, <2>6, <2>7 DEF RInv
<1>2. ASSUME ProcessSyscall PROVE RInv'
  <2> USE <1>2 DEF ProcessSyscall, Exit
  <2>1. regs' \in RegisterSet
    <3>1. regs.rsp - Redzone - HcArgs \in Int
      BY <1>a DEF RegisterSet
    <3> QED BY <1>a, <3>1, RspRaxSet
  <2>2. kontext' \in KontextSet
    BY <1>a, <1>t DEF KontextSet, RegisterSet, Inside
  <2>3. mem' \in [Addrs -> Values] /\ saved' \in Seq(SavedSet)
    BY <1>a
  <2>4. signal_pending' \in BOOLEAN /\ cloned' \in BOOLEAN
    BY <1>t DEF TypeOK
  <2>5. TypeOK'
    BY <1>t, <2>1, <2>2, <2>3, <2>4 DEF TypeOK, Inside
  <2>6. Idle' /\ Inside'
    BY <1>a, <1>t DEF Idle, Inside, KontextSet, RegisterSet
  <2>7. Stopped'
    BY <1>a, <1>t DEF Inside, Stopped, Whole, KontextSet, RegisterSet
  <2> QED BY <2>5, <2>6, <2>7 DEF RInv
<1>3. ASSUME ProcessSyscallFaults PROVE RInv'
  <2> USE <1>3 DEF ProcessSyscallFaults
  <2>1. regs' \in RegisterSet
    <3>1. regs.rsp - Redzone - HcArgs \in Int
      BY <1>a DEF RegisterSet
    <3> QED BY <1>a, <3>1, RspMoved
  <2>2. kontext' \in KontextSet
    BY <1>a, <1>t DEF KontextSet, RegisterSet, Inside
  <2>3. mem' \in [Addrs -> Values] /\ saved' \in Seq(SavedSet)
    BY <1>a
  <2>4. signal_pending' \in BOOLEAN /\ cloned' \in BOOLEAN
    BY <1>t DEF TypeOK
  <2>5. TypeOK'
    BY <1>t, <2>1, <2>2, <2>3, <2>4 DEF TypeOK, Inside
  <2>6. Idle' /\ Inside'
    BY <1>a, <1>t DEF Idle, Inside, KontextSet, RegisterSet
  <2>7. Stopped'
    BY <1>a, <1>t DEF Inside, Stopped, Whole, KontextSet, RegisterSet
  <2> QED BY <2>5, <2>6, <2>7 DEF RInv
<1>4. ASSUME ProcessException PROVE RInv'
  <2> USE <1>4 DEF ProcessException, Exit
  <2>1. regs' \in RegisterSet
    BY <1>a DEF RegisterSet, Addrs, TrapNo
  <2>2. kontext' \in KontextSet
    BY <1>a, <1>t DEF KontextSet, RegisterSet, Inside
  <2>3. mem' \in [Addrs -> Values] /\ saved' \in Seq(SavedSet)
    BY <1>a
  <2>4. signal_pending' \in BOOLEAN /\ cloned' \in BOOLEAN
    BY <1>t DEF TypeOK
  <2>5. TypeOK'
    BY <1>t, <2>1, <2>2, <2>3, <2>4 DEF TypeOK, Inside
  <2>6. Idle' /\ Inside'
    BY <1>a, <1>t DEF Idle, Inside, KontextSet, RegisterSet
  <2>7. Stopped'
    BY <1>a, <1>t DEF Inside, Stopped, Whole, KontextSet, RegisterSet
  <2> QED BY <2>5, <2>6, <2>7 DEF RInv
<1>5. ASSUME ProcessExceptionFaults PROVE RInv'
  <2> USE <1>5 DEF ProcessExceptionFaults
  <2>1. regs' \in RegisterSet
    BY <1>a, SMTT(30) DEF RegisterSet, Addrs, TrapNo
  <2>2. kontext' \in KontextSet
    BY <1>a, <1>t DEF KontextSet, RegisterSet, Inside
  <2>3. mem' \in [Addrs -> Values] /\ saved' \in Seq(SavedSet)
    BY <1>a
  <2>4. signal_pending' \in BOOLEAN /\ cloned' \in BOOLEAN
    BY <1>t DEF TypeOK
  <2>5. TypeOK'
    BY <1>t, <2>1, <2>2, <2>3, <2>4 DEF TypeOK, Inside
  <2>6. Idle' /\ Inside'
    BY <1>a, <1>t DEF Idle, Inside, KontextSet, RegisterSet
  <2>7. Stopped'
    BY <1>a, <1>t DEF Inside, Stopped, Whole, KontextSet, RegisterSet
  <2> QED BY <2>5, <2>6, <2>7 DEF RInv
<1>6. ASSUME ProcessOut PROVE RInv'
  <2> USE <1>6 DEF ProcessOut, Exit
  <2>1. regs' \in RegisterSet
    BY <1>a DEF RegisterSet, Addrs, TrapNo
  <2>2. kontext' \in KontextSet
    BY <1>a, <1>t DEF KontextSet, RegisterSet, Inside
  <2>3. mem' \in [Addrs -> Values] /\ saved' \in Seq(SavedSet)
    BY <1>a
  <2>4. signal_pending' \in BOOLEAN /\ cloned' \in BOOLEAN
    BY <1>t DEF TypeOK
  <2>5. TypeOK'
    BY <1>t, <2>1, <2>2, <2>3, <2>4 DEF TypeOK, Inside
  <2>6. Idle' /\ Inside'
    BY <1>a, <1>t DEF Idle, Inside, KontextSet, RegisterSet
  <2>7. Stopped'
    BY <1>a, <1>t DEF Inside, Stopped, Whole, KontextSet, RegisterSet
  <2> QED BY <2>5, <2>6, <2>7 DEF RInv
<1>7. ASSUME RunEnter PROVE RInv'
  <2> USE <1>7 DEF RunEnter
  <2>w. Whole(regs, kontext)
    BY <1>t DEF Stopped
  <2>u. regs' \in RegisterSet /\ regs'.rax \in Values /\ regs'.rbx \in Values
    BY <1>a, <2>w, UndoneFacts
  <2>k. /\ kontext' \in KontextSet /\ ~kontext'.syscall_pending
        /\ ~kontext'.exception_posted /\ ~kontext'.new_thread
    <3>1. Cleared(kontext) \in KontextSet /\ ~Cleared(kontext).syscall_pending
          /\ ~Cleared(kontext).exception_posted
      BY <1>a, ClearedFacts
    <3> HIDE DEF RunEnter
    <3>2. kontext' = [Cleared(kontext) EXCEPT !.new_thread = FALSE]
      BY DEF RunEnter
    <3> QED BY <3>1, <3>2 DEF KontextSet
  <2>1. regs' \in RegisterSet
    BY <2>u
  <2>2. kontext' \in KontextSet
    BY <2>k
  <2>3. mem' \in [Addrs -> Values] /\ saved' \in Seq(SavedSet)
    BY <1>a
  <2>4. signal_pending' \in BOOLEAN /\ cloned' \in BOOLEAN
    BY <1>t DEF TypeOK
  <2>5. TypeOK'
    BY <1>t, <2>1, <2>2, <2>3, <2>4 DEF TypeOK, Inside
  <2>6. Idle' /\ Inside'
    <3> HIDE DEF RunEnter
    <3>1. pc' = "begin" /\ trap_repeat_counter' = -1
      BY DEF RunEnter
    <3>2. Idle'
      BY <3>1 DEF Idle
    <3> QED BY <3>1, <3>2, <2>u, <2>k DEF Inside
  <2>7. Stopped'
    BY <1>a, <1>t DEF Inside, Stopped, Whole, KontextSet, RegisterSet
  <2> QED BY <2>5, <2>6, <2>7 DEF RInv
<1>8. ASSUME RunResponseFaults PROVE RInv'
  <2> USE <1>8 DEF RunResponseFaults
  <2>1. regs' \in RegisterSet /\ regs'.rax = regs.rax /\ regs'.rbx = regs.rbx
    BY <1>a, CloneFacts
  <2>2. kontext' \in KontextSet
    BY <1>a, <1>t DEF KontextSet, RegisterSet, Inside
  <2>3. mem' \in [Addrs -> Values] /\ saved' \in Seq(SavedSet)
    BY <1>a
  <2>4. signal_pending' \in BOOLEAN /\ cloned' \in BOOLEAN
    BY <1>t DEF TypeOK
  <2>5. TypeOK'
    BY <1>t, <2>1, <2>2, <2>3, <2>4 DEF TypeOK, Inside
  <2>6. Idle' /\ Inside'
    BY <1>a, <1>t DEF Idle, Inside, KontextSet, RegisterSet
  <2>7. Stopped'
    <3>1. /\ kontext'.syscall_pending = kontext.syscall_pending
          /\ kontext'.ret_val_mva = kontext.ret_val_mva
          /\ kontext'.exception_posted = kontext.exception_posted
          /\ kontext'.exception_saved_rax = kontext.exception_saved_rax
          /\ kontext'.exception_saved_rbx = kontext.exception_saved_rbx
      BY <1>a DEF KontextSet
    <3>2. Whole(regs, kontext)
      BY <1>t DEF Stopped
    <3> HIDE DEF RunResponseFaults
    <3>3. Whole(regs, kontext)'
      BY <2>1, <3>1, <3>2 DEF Whole
    <3>4. saved' = saved
      BY DEF RunResponseFaults
    <3> QED BY <1>t, <3>3, <3>4 DEF Stopped, Whole
  <2> QED BY <2>5, <2>6, <2>7 DEF RInv
<1>9. ASSUME Answer PROVE RInv'
  <2> USE <1>9 DEF Answer
  <2>1. regs' \in RegisterSet
    BY <1>a DEF RegisterSet, Addrs, TrapNo
  <2>2. kontext' \in KontextSet
    BY <1>a, <1>t DEF KontextSet, RegisterSet, Inside
  <2>3. mem' \in [Addrs -> Values] /\ saved' \in Seq(SavedSet)
    BY <1>a
  <2>4. signal_pending' \in BOOLEAN /\ cloned' \in BOOLEAN
    BY <1>t DEF TypeOK
  <2>5. TypeOK'
    BY <1>t, <2>1, <2>2, <2>3, <2>4 DEF TypeOK, Inside
  <2>6. Idle' /\ Inside'
    BY <1>a, <1>t DEF Idle, Inside, KontextSet, RegisterSet
  <2>7. Stopped'
    BY <1>a, <1>t DEF Inside, Stopped, Whole, KontextSet, RegisterSet
  <2> QED BY <2>5, <2>6, <2>7 DEF RInv
<1>10. ASSUME StartHandler PROVE RInv'
  <2> USE <1>10 DEF StartHandler
  <2>k. /\ kontext' \in KontextSet /\ ~kontext'.syscall_pending
        /\ ~kontext'.exception_posted
    BY <1>a, ClearedFacts
  <2>n. [regs |-> regs, kontext |-> kontext, cloned |-> cloned] \in SavedSet
    BY <1>a, <1>t DEF SavedSet, TypeOK
  <2>1. regs' \in RegisterSet
    BY <1>a DEF RegisterSet, Addrs, TrapNo
  <2>2. kontext' \in KontextSet
    BY <2>k
  <2>3. mem' \in [Addrs -> Values] /\ saved' \in Seq(SavedSet)
    BY <1>a, <2>n
  <2>4. signal_pending' \in BOOLEAN /\ cloned' \in BOOLEAN
    BY <1>t DEF TypeOK
  <2>5. TypeOK'
    BY <1>t, <2>1, <2>2, <2>3, <2>4 DEF TypeOK, Inside
  <2>6. Idle' /\ Inside'
    BY <1>a, <1>t DEF Idle, Inside, KontextSet, RegisterSet
  <2>7. Stopped'
    <3>1. Whole(regs, kontext)'
      BY <2>k DEF Whole
    <3>2. ASSUME NEW i \in 1..Len(saved') PROVE Whole(saved[i].regs, saved[i].kontext)'
      <4>1. CASE i \in 1..Len(saved)
        BY <1>a, <1>t, <4>1 DEF Stopped
      <4>2. CASE i = Len(saved) + 1
        BY <1>a, <1>t, <4>2 DEF Stopped
      <4> QED BY <1>a, <4>1, <4>2
    <3> QED BY <3>1, <3>2 DEF Stopped
  <2> QED BY <2>5, <2>6, <2>7 DEF RInv
<1>11. ASSUME EndHandler PROVE RInv'
  <2> USE <1>11 DEF EndHandler
  <2>l. Len(saved) \in 1..Len(saved) /\ saved[Len(saved)] \in SavedSet
    BY <1>a
  <2>m. /\ regs' = saved[Len(saved)].regs /\ kontext' = saved[Len(saved)].kontext
        /\ cloned' = saved[Len(saved)].cloned
    OBVIOUS
  <2>1. regs' \in RegisterSet
    BY <2>l, <2>m DEF SavedSet
  <2>2. kontext' \in KontextSet
    BY <2>l, <2>m DEF SavedSet
  <2>3. mem' \in [Addrs -> Values] /\ saved' \in Seq(SavedSet)
    BY <1>a
  <2>4. signal_pending' \in BOOLEAN /\ cloned' \in BOOLEAN
    <3>1. cloned' \in BOOLEAN
      BY <2>l, <2>m DEF SavedSet
    <3> QED BY <1>t, <3>1 DEF TypeOK
  <2>5. TypeOK'
    BY <1>t, <2>1, <2>2, <2>3, <2>4 DEF TypeOK, Inside
  <2>6. Idle' /\ Inside'
    BY <1>a, <1>t DEF Idle, Inside, KontextSet, RegisterSet
  <2>7. Stopped'
    BY <1>a, <1>t DEF Inside, Stopped, Whole, KontextSet, RegisterSet
  <2> QED BY <2>5, <2>6, <2>7 DEF RInv
<1>12. ASSUME EndThread PROVE RInv'
  <2> USE <1>12 DEF EndThread
  <2>k. /\ kontext' \in KontextSet /\ ~kontext'.syscall_pending
        /\ ~kontext'.exception_posted /\ kontext'.new_thread
    <3>1. /\ [kontext EXCEPT !.new_thread = TRUE] \in KontextSet
          /\ [kontext EXCEPT !.new_thread = TRUE].new_thread
      BY <1>a DEF KontextSet
    <3> QED BY <3>1, ClearedFacts
  <2>1. regs' \in RegisterSet
    BY <1>a DEF RegisterSet, Addrs, TrapNo
  <2>2. kontext' \in KontextSet
    BY <2>k
  <2>3. mem' \in [Addrs -> Values] /\ saved' \in Seq(SavedSet)
    BY <1>a
  <2>4. signal_pending' \in BOOLEAN /\ cloned' \in BOOLEAN
    BY <1>t DEF TypeOK
  <2>5. TypeOK'
    BY <1>t, <2>1, <2>2, <2>3, <2>4 DEF TypeOK, Inside
  <2>6. Idle' /\ Inside'
    BY <2>k DEF Idle, Inside
  <2>7. Stopped'
    BY <1>a, <1>t DEF Inside, Stopped, Whole, KontextSet, RegisterSet
  <2> QED BY <2>5, <2>6, <2>7 DEF RInv
<1>13. ASSUME NEW origin \in {"unknown", "syscall", "hypercall"},
              StartThread(origin) PROVE RInv'
  <2> USE <1>13 DEF StartThread
  <2>1. regs' \in RegisterSet
    <3>1. StackTop \in Int /\ StackTop - Frame \in Int
      BY DEF Frame
    <3> QED BY <3>1 DEF RegisterSet
  <2>2. kontext' \in KontextSet
    BY <1>a, <1>t DEF KontextSet, RegisterSet, Inside
  <2>3. mem' \in [Addrs -> Values] /\ saved' \in Seq(SavedSet)
    BY <1>a
  <2>4. signal_pending' \in BOOLEAN /\ cloned' \in BOOLEAN
    BY <1>t DEF TypeOK
  <2>5. TypeOK'
    BY <1>t, <2>1, <2>2, <2>3, <2>4 DEF TypeOK, Inside
  <2>6. Idle' /\ Inside'
    BY <1>a, <1>t DEF Idle, Inside, KontextSet, RegisterSet
  <2>7. Stopped'
    <3>1. ~kontext'.syscall_pending /\ ~kontext'.exception_posted
      BY <1>a, <1>t DEF Idle, KontextSet
    <3>2. regs'.rax = Zero /\ regs'.rbx = Zero
      OBVIOUS
    <3>3. Whole(regs, kontext)'
      BY <3>1, <3>2 DEF Whole
    <3> QED BY <1>t, <3>3 DEF Stopped, Whole
  <2> QED BY <2>5, <2>6, <2>7 DEF RInv
<1>14. CASE SignalSeen \/ ProcessFails \/ ProcessDebug \/ ProcessNothing
  <2> USE <1>14 DEF SignalSeen, ProcessFails, ProcessDebug, ProcessNothing, Exit
  <2>1. /\ regs' = regs /\ kontext' = kontext /\ mem' = mem
        /\ saved' = saved \/ saved' = <<>>
    OBVIOUS
  <2>2. /\ pc' \in {"new", "reused"} => pc' = pc
        /\ pc' \in {"begin", "payload"} =>
             pc \in {"begin", "payload"} /\ trap_repeat_counter' <= MaxRepeat
        /\ pc' = "monitor" => pc \in {"begin", "payload", "monitor"}
    BY <1>t DEF Inside, TypeOK
  <2>3. signal_pending' \in BOOLEAN /\ cloned' \in BOOLEAN
    BY <1>t DEF TypeOK
  <2>4. RestOK'
    BY <1>t, <2>3 DEF TypeOK, Inside, RestOK
  <2> QED BY <2>1, <2>2, <2>4, Quiet
<1>15. CASE EnterPayload \/ ForwardInterrupt \/ Signal
  <2> USE <1>15 DEF EnterPayload, ForwardInterrupt, Signal
  <2>1. /\ regs' = regs /\ kontext' = kontext /\ mem' = mem
        /\ saved' = saved \/ saved' = <<>>
    OBVIOUS
  <2>2. /\ pc' \in {"new", "reused"} => pc' = pc
        /\ pc' \in {"begin", "payload"} =>
             pc \in {"begin", "payload"} /\ trap_repeat_counter' <= MaxRepeat
        /\ pc' = "monitor" => pc \in {"begin", "payload", "monitor"}
    BY <1>t DEF Inside, TypeOK
  <2>3. signal_pending' \in BOOLEAN /\ cloned' \in BOOLEAN
    BY <1>t DEF TypeOK
  <2>4. RestOK'
    BY <1>t, <2>3 DEF TypeOK, Inside, RestOK
  <2> QED BY <2>1, <2>2, <2>4, Quiet
<1>16. CASE RunImmediateExit \/ CloseThread \/ Closed \/ UNCHANGED vars
  <2> USE <1>16 DEF RunImmediateExit, CloseThread, Closed, vars
  <2>1. /\ regs' = regs /\ kontext' = kontext /\ mem' = mem
        /\ saved' = saved \/ saved' = <<>>
    OBVIOUS
  <2>2. /\ pc' \in {"new", "reused"} => pc' = pc
        /\ pc' \in {"begin", "payload"} =>
             pc \in {"begin", "payload"} /\ trap_repeat_counter' <= MaxRepeat
        /\ pc' = "monitor" => pc \in {"begin", "payload", "monitor"}
    BY <1>t DEF Inside, TypeOK
  <2>3. signal_pending' \in BOOLEAN /\ cloned' \in BOOLEAN
    BY <1>t DEF TypeOK
  <2>4. RestOK'
    BY <1>t, <2>3 DEF TypeOK, Inside, RestOK
  <2> QED BY <2>1, <2>2, <2>4, Quiet
<1>17. CASE \E fault \in Faults : PageFault(fault)
  <2> USE <1>17 DEF PageFault, PageFaultDone, PageFaultGivesUp,
         TooOften, Repeated, Exit
  <2>1. /\ regs' = regs /\ kontext' = kontext /\ mem' = mem
        /\ saved' = saved \/ saved' = <<>>
    OBVIOUS
  <2>2. /\ pc' \in {"new", "reused"} => pc' = pc
        /\ pc' \in {"begin", "payload"} =>
             pc \in {"begin", "payload"} /\ trap_repeat_counter' <= MaxRepeat
        /\ pc' = "monitor" => pc \in {"begin", "payload", "monitor"}
    BY <1>t DEF Inside, TypeOK
  <2>3. signal_pending' \in BOOLEAN /\ cloned' \in BOOLEAN
    BY <1>t DEF TypeOK
  <2>4. RestOK'
    BY <1>t, <2>3 DEF TypeOK, Inside, RestOK
  <2> QED BY <2>1, <2>2, <2>4, Quiet
<1> QED
  BY <1>1, <1>2, <1>3, <1>4, <1>5, <1>6, <1>7, <1>8, <1>9, <1>10, <1>11, <1>12, <1>13,
     <1>14, <1>15, <1>16, <1>17
  DEF Next, Process, Monitor, PageFault

-----------------------------------------------------------------------------
(* The state of KKM_RUN has its types, for every stack, record size and    *)
(* limit: in particular no address or number that the driver puts in the   *)
(* registers is ever taken for a value of the payload's.                   *)
THEOREM RunTypeCorrect == Spec => []TypeOK
<1>1. RInv => TypeOK
  BY DEF RInv
<1> QED BY InitInv, StepInv, <1>1, PTL DEF Spec

(* The payload never runs with a call or an exception still to be undone:  *)
(* a trap (kkm_process_intr) never overwrites one in progress.             *)
THEOREM NothingPendingCorrect == Spec => []NothingPendingInside
<1>1. RInv => NothingPendingInside
  BY DEF RInv, Inside, NothingPendingInside
<1> QED BY InitInv, StepInv, <1>1, PTL DEF Spec

(* Every step keeps what KKM_RUN reports and what the next one undoes in   *)
(* agreement.                                                              *)
LEMMA ExitStep == RInv /\ ExitAgrees /\ [Next]_vars => ExitAgrees'
<1> SUFFICES ASSUME RInv, ExitAgrees, [Next]_vars PROVE ExitAgrees'
  OBVIOUS
<1> USE DEF repeat
<1>a. kontext \in KontextSet /\ regs \in RegisterSet /\ Inside
  BY DEF RInv, TypeOK
<1>1. CASE ProcessSyscall
  BY <1>1, <1>a DEF ProcessSyscall, Exit, ExitAgrees, Inside, KontextSet, RegisterSet
<1>2. CASE ProcessException
  BY <1>2, <1>a DEF ProcessException, Exit, ExitAgrees, Inside, KontextSet
<1>3. CASE ProcessOut
  BY <1>3, <1>a DEF ProcessOut, Exit, ExitAgrees, Inside, KontextSet
<1>4. CASE ProcessDebug \/ ProcessNothing
  BY <1>4, <1>a DEF ProcessDebug, ProcessNothing, Exit, ExitAgrees, Inside
<1>5. CASE SignalSeen \/ ProcessFails \/ RunImmediateExit \/ RunResponseFaults
  BY <1>5 DEF SignalSeen, ProcessFails, RunImmediateExit, RunResponseFaults,
     Exit, ExitAgrees
<1>6. CASE EnterPayload \/ Compute \/ ProcessSyscallFaults
             \/ ProcessExceptionFaults \/ ForwardInterrupt \/ RunEnter \/ Signal
  BY <1>6 DEF EnterPayload, Compute, ProcessSyscallFaults,
     ProcessExceptionFaults, ForwardInterrupt, RunEnter, Signal, ExitAgrees
<1>7. CASE \E fault \in Faults : PageFault(fault)
  BY <1>7 DEF PageFault, PageFaultDone, PageFaultGivesUp, Exit, ExitAgrees
<1>8. CASE \E origin \in {"unknown", "syscall", "hypercall"} : StartThread(origin)
  BY <1>8 DEF StartThread, ExitAgrees
<1>9. CASE StartHandler \/ EndHandler \/ EndThread \/ CloseThread
  BY <1>9 DEF StartHandler, EndHandler, EndThread, CloseThread, ExitAgrees
<1>10. CASE Answer \/ Closed \/ UNCHANGED vars
  BY <1>10 DEF Answer, Closed, vars, ExitAgrees
<1> QED
  BY <1>1, <1>2, <1>3, <1>4, <1>5, <1>6, <1>7, <1>8, <1>9, <1>10
  DEF Next, Process, Monitor

(* What a successful KKM_RUN reports is what the next one undoes.          *)
THEOREM ExitCorrect == Spec => []ExitAgrees
<1>1. Init => ExitAgrees
  BY DEF Init, ExitAgrees
<1> QED BY <1>1, InitInv, StepInv, ExitStep, PTL DEF Spec

-----------------------------------------------------------------------------
(* The driver's test for a clone and the monitor's clones agree, if the    *)
(* monitor reuses no first kontext and lets a clone run before a handler.  *)
CloneInv ==
  /\ pc = "monitor" =>
       (cloned <=> /\ kontext.new_thread /\ ~kontext.first_thread
                   /\ kontext.reason = "syscall")
  /\ pc \in {"begin", "payload"} => ~cloned
  /\ pc = "reused" => ~kontext.first_thread
  /\ \A i \in 1..Len(saved) : ~saved[i].cloned /\ ~saved[i].kontext.new_thread

(* Every step keeps the driver's test for a clone true to what the monitor *)
(* cloned.                                                                 *)
LEMMA CloneStep ==
  ASSUME ~ReuseFirst, ~HandlerFirst
  PROVE  RInv /\ CloneInv /\ [Next]_vars => CloneInv'
<1> SUFFICES ASSUME RInv, CloneInv, [Next]_vars PROVE CloneInv'
  OBVIOUS
<1> USE DEF repeat
<1>a. /\ kontext \in KontextSet /\ saved \in Seq(SavedSet) /\ cloned \in BOOLEAN
      /\ Idle /\ Inside
  BY DEF RInv, TypeOK
<1>1. CASE ProcessSyscall
  BY <1>1, <1>a DEF ProcessSyscall, Exit, CloneInv, Inside, KontextSet
<1>2. CASE ProcessException
  BY <1>2, <1>a DEF ProcessException, Exit, CloneInv, Inside, KontextSet
<1>3. CASE ProcessOut
  BY <1>3, <1>a DEF ProcessOut, Exit, CloneInv, Inside, KontextSet
<1>4. CASE ProcessDebug \/ ProcessNothing \/ ProcessFails \/ SignalSeen
  BY <1>4, <1>a DEF ProcessDebug, ProcessNothing, ProcessFails, SignalSeen,
     Exit, CloneInv, Inside
<1>5. CASE EnterPayload \/ Compute \/ ForwardInterrupt \/ Signal
  BY <1>5 DEF EnterPayload, Compute, ForwardInterrupt, Signal, CloneInv
<1>6. CASE ProcessSyscallFaults \/ ProcessExceptionFaults \/ CloseThread
  BY <1>6 DEF ProcessSyscallFaults, ProcessExceptionFaults, CloseThread, CloneInv
<1>7. CASE \E fault \in Faults : PageFault(fault)
  BY <1>7, <1>a
  DEF PageFault, PageFaultDone, PageFaultGivesUp, Exit, CloneInv, Inside
<1>8. CASE \E origin \in {"unknown", "syscall", "hypercall"} : StartThread(origin)
  <2> PICK origin \in {"unknown", "syscall", "hypercall"} : StartThread(origin)
    BY <1>8
  <2>1. /\ kontext'.new_thread
        /\ kontext'.first_thread = kontext.first_thread
        /\ kontext'.reason = origin
    BY <1>a DEF StartThread, Idle, KontextSet
  <2>2. kontext.first_thread => origin = "unknown"
    BY DEF StartThread, CloneInv
  <2>3. /\ pc' = "monitor" /\ saved' = saved
        /\ cloned' = (origin = "syscall")
    BY DEF StartThread
  <2>4. origin = "unknown" => kontext.first_thread
    BY DEF StartThread
  <2>5. cloned' <=> /\ kontext'.new_thread /\ ~kontext'.first_thread
                    /\ kontext'.reason = "syscall"
    BY <2>1, <2>2, <2>3, <2>4
  <2> QED BY <2>3, <2>5 DEF CloneInv
<1>9. CASE RunImmediateExit \/ Answer \/ Closed \/ UNCHANGED vars
  BY <1>9 DEF RunImmediateExit, Answer, Closed, vars, CloneInv
<1>10. CASE RunEnter
  BY <1>10 DEF RunEnter, CloneInv
<1>11. CASE RunResponseFaults
  <2>1. ~kontext'.new_thread /\ ~cloned' /\ pc' = "monitor" /\ saved' = saved
    BY <1>11, <1>a DEF RunResponseFaults, KontextSet
  <2> QED BY <2>1 DEF CloneInv
<1>12. CASE StartHandler
  <2>1. /\ ~kontext.new_thread /\ ~cloned /\ ~cloned' /\ pc' = "monitor"
        /\ saved' = Append(saved, [regs |-> regs, kontext |-> kontext,
                                   cloned |-> cloned])
    BY <1>12 DEF StartHandler, CloneInv
  <2>2. ~kontext'.new_thread
    BY <1>12, <1>a, <2>1, ClearedFacts DEF StartHandler
  <2>3. ASSUME NEW i \in 1..Len(saved')
        PROVE  ~saved'[i].cloned /\ ~saved'[i].kontext.new_thread
    <3>1. CASE i \in 1..Len(saved)
      BY <1>a, <2>1, <3>1 DEF CloneInv
    <3>2. CASE i = Len(saved) + 1
      BY <1>a, <2>1, <3>2
    <3> QED BY <1>a, <2>1, <3>1, <3>2
  <2> QED BY <2>1, <2>2, <2>3 DEF CloneInv
<1>13. CASE EndHandler
  <2>1. Len(saved) \in 1..Len(saved)
    BY <1>13, <1>a DEF EndHandler
  <2>2. /\ ~cloned' /\ ~kontext'.new_thread /\ pc' = "monitor"
        /\ saved' = SubSeq(saved, 1, Len(saved) - 1)
    BY <1>13, <2>1 DEF EndHandler, CloneInv
  <2>3. \A i \in 1..Len(saved') : ~saved'[i].cloned /\ ~saved'[i].kontext.new_thread
    BY <1>a, <2>1, <2>2 DEF CloneInv
  <2> QED BY <2>2, <2>3 DEF CloneInv
<1>14. CASE EndThread
  <2>1. pc' = "reused" /\ saved' = <<>> /\ ~kontext.first_thread
    BY <1>14 DEF EndThread
  <2>2. /\ [kontext EXCEPT !.new_thread = TRUE] \in KontextSet
        /\ ~[kontext EXCEPT !.new_thread = TRUE].first_thread
    BY <1>a, <2>1 DEF KontextSet
  <2>3. ~kontext'.first_thread
    BY <1>14, <2>2, ClearedFacts DEF EndThread
  <2> QED BY <2>1, <2>3 DEF CloneInv
<1> QED
  BY <1>1, <1>2, <1>3, <1>4, <1>5, <1>6, <1>7, <1>8, <1>9, <1>10, <1>11, <1>12,
     <1>13, <1>14
  DEF Next, Process, Monitor

(* The stack pointer is moved over a parent's record exactly for a thread  *)
(* that a system call cloned, in its first run (kkm_kontext.c:274-288),    *)
(* under the two conditions on the monitor.                                *)
THEOREM CloneCorrect ==
  ASSUME ~ReuseFirst, ~HandlerFirst
  PROVE  Spec => CloneAdjustExact
<1>1. Init => CloneInv
  BY DEF Init, CloneInv
<1>2. RInv /\ CloneInv /\ [Next]_vars =>
        [pc = "monitor" /\ pc' = "begin" =>
           regs'.rsp = regs.rsp + (IF cloned THEN Frame ELSE 0)
                         + (IF kontext.syscall_pending THEN Frame ELSE 0)]_vars
  <2> SUFFICES ASSUME RInv, CloneInv, [Next]_vars, pc = "monitor", pc' = "begin"
               PROVE  regs'.rsp = regs.rsp + (IF cloned THEN Frame ELSE 0)
                         + (IF kontext.syscall_pending THEN Frame ELSE 0)
    OBVIOUS
  <2>1. RunEnter
    BY DEF Next, Process, Monitor, vars, SignalSeen, EnterPayload, Compute,
       ProcessSyscall, ProcessSyscallFaults, ProcessException,
       ProcessExceptionFaults, ProcessOut, ProcessFails, ProcessDebug,
       ProcessNothing, PageFault, PageFaultDone, PageFaultGivesUp,
       ForwardInterrupt, StartThread, RunImmediateExit, RunResponseFaults,
       Answer, StartHandler, EndHandler, EndThread, CloseThread, Closed, Signal
  <2>2. /\ regs \in RegisterSet /\ kontext \in KontextSet
        /\ mem \in [Addrs -> Values] /\ Whole(regs, kontext)
    BY DEF RInv, TypeOK, Stopped
  <2>3. regs' = ExceptionUndone(SyscallAnswered(CloneAdjusted(regs, kontext),
                                                kontext), kontext)
    BY <2>1 DEF RunEnter
  <2>4. regs'.rsp = regs.rsp
          + (IF kontext.new_thread /\ ~kontext.first_thread
                  /\ kontext.reason = "syscall" THEN Frame ELSE 0)
          + (IF kontext.syscall_pending THEN Frame ELSE 0)
    BY <2>2, <2>3, UndoneFacts
  <2>5. cloned <=> /\ kontext.new_thread /\ ~kontext.first_thread
                   /\ kontext.reason = "syscall"
    BY DEF CloneInv
  <2> QED BY <2>4, <2>5
<1> QED BY <1>1, <1>2, InitInv, StepInv, CloneStep, PTL DEF Spec, CloneAdjustExact
-----------------------------------------------------------------------------
(* Where the record of a call in progress is, and the stack pointer that   *)
(* the thread has above it.                                                *)
Up(r, k) == r.rsp + (IF k.syscall_pending THEN Frame ELSE 0)

OwnRecord(r, k) ==
  k.syscall_pending => k.ret_val_mva = r.rsp /\ ~k.new_thread

(* A thread that has run is above the handler that interrupted it.         *)
Beneath(r, k, s) ==
  ~s.kontext.new_thread => ~k.new_thread /\ Up(r, k) < s.regs.rsp

Nested ==
  \A i, j \in 1..Len(saved) :
    i < j => Beneath(saved[j].regs, saved[j].kontext, saved[i])

RecordInv ==
  /\ pc \in {"new", "reused", "ended"} => saved = <<>>
  /\ OwnRecord(regs, kontext)
  /\ \A i \in 1..Len(saved) :
       /\ OwnRecord(saved[i].regs, saved[i].kontext)
       /\ Beneath(regs, kontext, saved[i])
  /\ Nested

(* A sequence without its last element.                                    *)
LEMMA Shortened ==
  ASSUME NEW S, NEW s \in Seq(S), s # <<>>
  PROVE  /\ Len(SubSeq(s, 1, Len(s) - 1)) = Len(s) - 1
         /\ \A i \in 1..(Len(s) - 1) : SubSeq(s, 1, Len(s) - 1)[i] = s[i]
<1>1. Len(s) \in Nat /\ Len(s) # 0
  OBVIOUS
<1>n. Len(s) - 1 \in Nat
  BY <1>1
<1>2. Len(SubSeq(s, 1, Len(s) - 1)) = Len(s) - 1
  BY <1>1, <1>n
<1>3. \A i \in 1..(Len(s) - 1) : SubSeq(s, 1, Len(s) - 1)[i] = s[i]
  BY <1>1, <1>2
<1> QED BY <1>2, <1>3

(* Registers further down the stack, of a thread that has run if it had,   *)
(* are beneath what the thread was beneath.                                *)
LEMMA Lower ==
  ASSUME NEW r \in RegisterSet, NEW q \in RegisterSet,
         NEW k \in KontextSet, NEW l \in KontextSet, NEW s \in SavedSet,
         Beneath(r, k, s),
         ~k.new_thread => ~l.new_thread /\ Up(q, l) <= Up(r, k)
  PROVE  Beneath(q, l, s)
<1>1. /\ r.rsp \in Int /\ q.rsp \in Int /\ s.regs.rsp \in Int
      /\ Frame \in Int
  BY RunAssumption DEF RegisterSet, SavedSet, Frame
<1>2. Up(r, k) \in Int /\ Up(q, l) \in Int
  BY <1>1 DEF Up
<1> QED BY <1>1, <1>2 DEF Beneath

(* A step that interrupts no thread and ends no handler.                   *)
LEMMA SavedKept ==
  ASSUME RecordInv, saved' = saved,
         pc' \in {"new", "reused", "ended"} => pc' = pc \/ saved = <<>>,
         OwnRecord(regs', kontext'),
         \A i \in 1..Len(saved) : Beneath(regs', kontext', saved[i])
  PROVE  RecordInv'
<1>1. (pc \in {"new", "reused", "ended"} => saved = <<>>)'
  BY DEF RecordInv
<1>2. Nested'
  BY DEF RecordInv, Nested, Beneath, Up
<1>3. OwnRecord(regs, kontext)'
  BY DEF OwnRecord
<1>4. (\A i \in 1..Len(saved) :
         /\ OwnRecord(saved[i].regs, saved[i].kontext)
         /\ Beneath(regs, kontext, saved[i]))'
  BY DEF RecordInv, OwnRecord, Beneath, Up
<1> QED BY <1>1, <1>2, <1>3, <1>4 DEF RecordInv

(* The steps of the driver and of the payload, which move the stack        *)
(* pointer down from where the thread is, keep the records apart.          *)
LEMMA DownStep ==
  ASSUME RInv, RInv', RecordInv, saved' = saved,
         pc' \notin {"new", "reused", "ended"},
         OwnRecord(regs', kontext'),
         ~kontext.new_thread =>
           ~kontext'.new_thread /\ Up(regs', kontext') <= Up(regs, kontext)
  PROVE  RecordInv'
<1>1. /\ regs \in RegisterSet /\ regs' \in RegisterSet
      /\ kontext \in KontextSet /\ kontext' \in KontextSet
      /\ saved \in Seq(SavedSet)
  BY DEF RInv, TypeOK
<1>2. ASSUME NEW i \in 1..Len(saved)
      PROVE  Beneath(regs', kontext', saved[i])
  <2>1. saved[i] \in SavedSet
    BY <1>1
  <2>2. Beneath(regs, kontext, saved[i])
    BY DEF RecordInv
  <2> QED BY <1>1, <2>1, <2>2, Lower
<1> QED BY <1>2, SavedKept

(* Every step keeps the records of interrupted calls apart from what is    *)
(* put on the stack below them.                                            *)
LEMMA RecordStep == RInv /\ RecordInv /\ [Next]_vars => RecordInv'
<1> SUFFICES ASSUME RInv, RecordInv, [Next]_vars PROVE RecordInv'
  OBVIOUS
<1>i. RInv'
  BY StepInv
<1>a. /\ regs \in RegisterSet /\ kontext \in KontextSet
      /\ mem \in [Addrs -> Values] /\ saved \in Seq(SavedSet)
      /\ Idle /\ Inside /\ Stopped
  BY DEF RInv, TypeOK
<1>b. /\ regs.rsp \in Int /\ Frame \in Int /\ Redzone \in Int /\ HcArgs \in Int
      /\ ExcFrame \in Int /\ Frame > 0 /\ ExcFrame > 0
      /\ Frame = Redzone + HcArgs
  BY <1>a, RunAssumption DEF RegisterSet, Frame
<1>o. OwnRecord(regs, kontext)
  BY DEF RecordInv
<1>1. CASE Compute
  <2>1. /\ saved' = saved /\ kontext' = kontext /\ pc' = pc /\ pc = "payload"
        /\ regs'.rsp \in Int /\ regs'.rsp <= Base
    <3>1. PICK sp \in (Base - Depth)..Base, a \in Values :
            regs' = [rsp |-> sp, rax |-> a, rbx |-> Zero]
      BY <1>1 DEF Compute
    <3>2. Base \in Int
      <4>1. CASE saved = <<>>
        BY <4>1, RunAssumption DEF Base
      <4>2. CASE saved # <<>>
        <5>1. saved[Len(saved)] \in SavedSet
          BY <1>a, <4>2
        <5> QED BY <4>2, <5>1 DEF Base, SavedSet, RegisterSet
      <4> QED BY <4>1, <4>2
    <3>3. sp \in Int /\ sp <= Base
      BY <3>2, RunAssumption
    <3> QED BY <1>1, <3>1, <3>3 DEF Compute
  <2>2. ~kontext.syscall_pending
    BY <1>a, <2>1 DEF Inside
  <2>3. ASSUME NEW i \in 1..Len(saved), ~saved[i].kontext.new_thread
        PROVE  regs'.rsp < saved[i].regs.rsp
    <3>1. /\ saved # <<>> /\ Len(saved) \in 1..Len(saved)
          /\ saved[i] \in SavedSet /\ saved[Len(saved)] \in SavedSet
      BY <1>a
    <3>2. /\ saved[i].regs.rsp \in Int /\ saved[Len(saved)].regs.rsp \in Int
          /\ Base = saved[Len(saved)].regs.rsp - 1
      BY <3>1 DEF SavedSet, RegisterSet, Base
    <3>3. CASE i = Len(saved)
      BY <2>1, <3>2, <3>3
    <3>4. CASE i < Len(saved)
      <4> DEFINE s == saved[Len(saved)]
      <4>1. Up(s.regs, s.kontext) < saved[i].regs.rsp
        BY <2>3, <3>1, <3>4 DEF RecordInv, Nested, Beneath
      <4>2. s.regs.rsp <= Up(s.regs, s.kontext)
        BY <1>b, <3>2 DEF Up
      <4>3. Up(s.regs, s.kontext) \in Int
        BY <1>b, <3>2 DEF Up
      <4> QED BY <2>1, <3>2, <4>1, <4>2, <4>3
    <3> QED BY <1>a, <3>3, <3>4
  <2>4. ASSUME NEW i \in 1..Len(saved)
        PROVE  Beneath(regs', kontext', saved[i])
    <3>1. Up(regs', kontext') = regs'.rsp
      BY <2>1, <2>2 DEF Up
    <3>2. Beneath(regs, kontext, saved[i])
      BY DEF RecordInv
    <3> QED BY <2>1, <2>3, <3>1, <3>2 DEF Beneath
  <2>5. OwnRecord(regs', kontext')
    BY <2>1, <2>2 DEF OwnRecord
  <2> QED BY <2>1, <2>4, <2>5, SavedKept
<1>2. CASE ProcessSyscall
  <2> DEFINE gva == regs.rsp - Redzone - HcArgs
  <2>1. /\ saved' = saved /\ pc' = "monitor" /\ pc = "payload"
        /\ regs'.rsp = gva
        /\ kontext'.syscall_pending /\ kontext'.ret_val_mva = gva
        /\ kontext'.new_thread = kontext.new_thread
    BY <1>2, <1>a DEF ProcessSyscall, Exit, RegisterSet, KontextSet
  <2>2. ~kontext.syscall_pending /\ ~kontext.new_thread
    BY <1>a, <2>1 DEF Inside
  <2>3. Up(regs', kontext') = regs.rsp /\ Up(regs, kontext) = regs.rsp
    BY <1>b, <2>1, <2>2 DEF Up
  <2>4. OwnRecord(regs', kontext')
    BY <2>1, <2>2 DEF OwnRecord
  <2> QED BY <1>b, <1>i, <2>1, <2>2, <2>3, <2>4, DownStep
<1>3. CASE ProcessSyscallFaults
  <2>1. /\ saved' = saved /\ pc' = "torn" /\ pc = "payload"
        /\ regs'.rsp = regs.rsp - Redzone - HcArgs
        /\ kontext'.syscall_pending = kontext.syscall_pending
        /\ kontext'.new_thread = kontext.new_thread
    BY <1>3, <1>a DEF ProcessSyscallFaults, RegisterSet, KontextSet
  <2>2. ~kontext.syscall_pending /\ ~kontext.new_thread
    BY <1>a, <2>1 DEF Inside
  <2>3. Up(regs', kontext') <= Up(regs, kontext)
    BY <1>b, <2>1, <2>2 DEF Up
  <2>4. OwnRecord(regs', kontext')
    BY <2>1, <2>2 DEF OwnRecord
  <2> QED BY <1>i, <2>1, <2>2, <2>3, <2>4, DownStep
<1>4. CASE ProcessException
  <2>1. /\ saved' = saved /\ pc' = "monitor" /\ pc = "payload"
        /\ regs'.rsp = regs.rsp - ExcFrame
        /\ kontext'.syscall_pending = kontext.syscall_pending
        /\ kontext'.new_thread = kontext.new_thread
    BY <1>4, <1>a DEF ProcessException, Exit, RegisterSet, KontextSet
  <2>2. ~kontext.syscall_pending /\ ~kontext.new_thread
    BY <1>a, <2>1 DEF Inside
  <2>3. Up(regs', kontext') <= Up(regs, kontext)
    BY <1>b, <2>1, <2>2 DEF Up
  <2>4. OwnRecord(regs', kontext')
    BY <2>1, <2>2 DEF OwnRecord
  <2> QED BY <1>i, <2>1, <2>2, <2>3, <2>4, DownStep
<1>5. CASE ProcessExceptionFaults
  <2>1. /\ saved' = saved /\ pc' = "torn" /\ pc = "payload"
        /\ regs'.rsp = regs.rsp - ExcFrame /\ kontext' = kontext
    BY <1>5, <1>a DEF ProcessExceptionFaults, RegisterSet
  <2>2. ~kontext.syscall_pending /\ ~kontext.new_thread
    BY <1>a, <2>1 DEF Inside
  <2>3. Up(regs', kontext') <= Up(regs, kontext)
    BY <1>b, <2>1, <2>2 DEF Up
  <2>4. OwnRecord(regs', kontext')
    BY <2>1, <2>2 DEF OwnRecord
  <2> QED BY <1>i, <2>1, <2>2, <2>3, <2>4, DownStep
<1>6. CASE ProcessOut
  <2>1. /\ saved' = saved /\ pc' = "monitor" /\ regs' = regs
        /\ kontext'.syscall_pending = kontext.syscall_pending
        /\ kontext'.ret_val_mva = kontext.ret_val_mva
        /\ kontext'.new_thread = kontext.new_thread
    BY <1>6, <1>a DEF ProcessOut, Exit, KontextSet
  <2>2. Up(regs', kontext') <= Up(regs, kontext)
    BY <1>b, <2>1 DEF Up
  <2>3. OwnRecord(regs', kontext')
    BY <1>o, <2>1 DEF OwnRecord
  <2> QED BY <1>i, <2>1, <2>2, <2>3, DownStep
<1>7. CASE \/ SignalSeen \/ EnterPayload \/ ProcessFails \/ ProcessDebug
           \/ ProcessNothing \/ ForwardInterrupt \/ Signal
           \/ (\E fault \in Faults : PageFault(fault))
  <2>1. /\ saved' = saved /\ regs' = regs /\ kontext' = kontext
        /\ pc' \in {"monitor", "payload", "begin"}
    BY <1>7 DEF SignalSeen, EnterPayload, ProcessFails, ProcessDebug,
       ProcessNothing, ForwardInterrupt, Signal, PageFault, PageFaultDone,
       PageFaultGivesUp, Exit
  <2>2. Up(regs', kontext') <= Up(regs, kontext)
    BY <1>b, <2>1 DEF Up
  <2>3. OwnRecord(regs', kontext')
    BY <1>o, <2>1
  <2> QED BY <1>i, <2>1, <2>2, <2>3, DownStep
<1>8. CASE RunImmediateExit \/ Answer \/ Closed \/ UNCHANGED vars
  <2>1. saved' = saved /\ regs' = regs /\ kontext' = kontext /\ pc' = pc
    BY <1>8 DEF RunImmediateExit, Answer, Closed, vars
  <2> QED BY <1>o, <2>1, SavedKept DEF RecordInv
<1>9. CASE RunEnter
  <2>1. /\ saved' = saved /\ pc' = "begin" /\ pc = "monitor"
        /\ regs' = ExceptionUndone(SyscallAnswered(CloneAdjusted(regs, kontext),
                                                   kontext), kontext)
        /\ kontext' = [Cleared(kontext) EXCEPT !.new_thread = FALSE]
    BY <1>9 DEF RunEnter
  <2>2. ~kontext'.new_thread /\ ~kontext'.syscall_pending
    BY <1>a, <2>1, ClearedFacts DEF KontextSet
  <2>3. Whole(regs, kontext)
    BY <1>a, <2>1 DEF Stopped
  <2>4. ~kontext.new_thread => regs'.rsp = Up(regs, kontext)
    BY <1>a, <1>b, <2>1, <2>3, UndoneFacts DEF Up
  <2>5. Up(regs', kontext') = regs'.rsp
    BY <1>b, <1>i, <2>2 DEF Up, RInv, TypeOK, RegisterSet
  <2>6. Up(regs, kontext) \in Int
    BY <1>b DEF Up
  <2>7. OwnRecord(regs', kontext')
    BY <2>2 DEF OwnRecord
  <2>8. ~kontext.new_thread => Up(regs', kontext') <= Up(regs, kontext)
    BY <2>4, <2>5, <2>6
  <2> QED BY <1>i, <2>1, <2>2, <2>7, <2>8, DownStep
<1>10. CASE RunResponseFaults
  <2>1. /\ saved' = saved /\ pc' = "monitor" /\ kontext.syscall_pending
        /\ regs' = CloneAdjusted(regs, kontext)
        /\ kontext'.syscall_pending = kontext.syscall_pending
        /\ kontext'.ret_val_mva = kontext.ret_val_mva
        /\ ~kontext'.new_thread
    BY <1>10, <1>a DEF RunResponseFaults, KontextSet
  <2>2. ~kontext.new_thread
    BY <1>o, <2>1 DEF OwnRecord
  <2>3. regs' = regs
    BY <2>1, <2>2 DEF CloneAdjusted
  <2>4. Up(regs', kontext') <= Up(regs, kontext)
    BY <1>b, <2>1, <2>3 DEF Up
  <2>5. OwnRecord(regs', kontext')
    BY <1>o, <2>1, <2>3 DEF OwnRecord
  <2> QED BY <1>i, <2>1, <2>2, <2>4, <2>5, DownStep
<1>11. CASE \E origin \in {"unknown", "syscall", "hypercall"} : StartThread(origin)
  <2>1. /\ saved' = saved /\ saved = <<>> /\ pc' = "monitor"
        /\ ~kontext.syscall_pending
        /\ kontext'.syscall_pending = kontext.syscall_pending
    BY <1>11, <1>a DEF StartThread, KontextSet, RecordInv, Idle
  <2>2. OwnRecord(regs', kontext')
    BY <2>1 DEF OwnRecord
  <2>3. \A i \in 1..Len(saved) : Beneath(regs', kontext', saved[i])
    BY <2>1
  <2> QED BY <2>1, <2>2, <2>3, SavedKept
<1>12. CASE EndThread \/ CloseThread
  <2>1. saved' = <<>>
    BY <1>12 DEF EndThread, CloseThread
  <2>2. OwnRecord(regs', kontext')
    <3>1. CASE CloseThread
      BY <1>o, <3>1 DEF CloseThread
    <3>2. CASE EndThread
      <4>1. [kontext EXCEPT !.new_thread = TRUE] \in KontextSet
        BY <1>a DEF KontextSet
      <4>2. ~kontext'.syscall_pending
        BY <3>2, <4>1, ClearedFacts DEF EndThread
      <4> QED BY <4>2 DEF OwnRecord
    <3> QED BY <1>12, <3>1, <3>2
  <2>3. OwnRecord(regs, kontext)'
    BY <2>2 DEF OwnRecord
  <2> QED BY <2>1, <2>3 DEF RecordInv, Nested
<1>13. CASE StartHandler
  <2> DEFINE new == [regs |-> regs, kontext |-> kontext, cloned |-> cloned]
  <2>1. /\ pc' = "monitor" /\ saved' = Append(saved, new)
        /\ regs'.rsp = regs.rsp - 1
        /\ ~kontext'.syscall_pending
        /\ kontext'.new_thread = kontext.new_thread
    BY <1>13, <1>a, ClearedFacts DEF StartHandler
  <2>2. Up(regs', kontext') = regs.rsp - 1 /\ regs.rsp <= Up(regs, kontext)
        /\ Up(regs, kontext) \in Int
    BY <1>b, <2>1 DEF Up
  <2>3. /\ Len(saved') = Len(saved) + 1 /\ saved'[Len(saved) + 1] = new
        /\ \A i \in 1..Len(saved) : saved'[i] = saved[i] /\ saved[i] \in SavedSet
        /\ Len(saved) \in Nat
    BY <1>a, <2>1
  <2>4. new.regs = regs /\ new.kontext = kontext
    OBVIOUS
  <2> HIDE DEF new
  <2>5. ASSUME NEW i \in 1..Len(saved)
        PROVE  Beneath(regs', kontext', saved[i])
    <3>1. Beneath(regs, kontext, saved[i])
      BY DEF RecordInv
    <3>2. regs' \in RegisterSet /\ kontext' \in KontextSet
      BY <1>i DEF RInv, TypeOK
    <3>3. Up(regs', kontext') <= Up(regs, kontext)
      BY <1>b, <2>2
    <3>4. saved[i] \in SavedSet
      BY <2>3
    <3>5. ~kontext.new_thread =>
            ~kontext'.new_thread /\ Up(regs', kontext') <= Up(regs, kontext)
      BY <2>1, <3>3
    <3> QED BY ONLY <1>a, <3>1, <3>2, <3>4, <3>5, Lower
  <2>6. Beneath(regs', kontext', new)
    BY <1>b, <2>1, <2>2, <2>4 DEF Beneath
  <2>7. ASSUME NEW i \in 1..Len(saved')
        PROVE  OwnRecord(saved'[i].regs, saved'[i].kontext)
               /\ Beneath(regs', kontext', saved'[i])
    <3>1. CASE i \in 1..Len(saved)
      BY <2>3, <2>5, <3>1 DEF RecordInv
    <3>2. CASE i = Len(saved) + 1
      BY <1>o, <2>3, <2>4, <2>6, <3>2
    <3> QED BY <2>3, <3>1, <3>2
  <2>8. ASSUME NEW i \in 1..Len(saved'), NEW j \in 1..Len(saved'), i < j
        PROVE  Beneath(saved'[j].regs, saved'[j].kontext, saved'[i])
    <3>1. i \in 1..Len(saved) /\ saved'[i] = saved[i]
      BY <2>3, <2>8
    <3>2. CASE j \in 1..Len(saved)
      BY <2>3, <2>8, <3>1, <3>2 DEF RecordInv, Nested
    <3>3. CASE j = Len(saved) + 1
      BY <2>3, <2>4, <3>1, <3>3 DEF RecordInv
    <3> QED BY <2>3, <3>2, <3>3
  <2>9. (pc \in {"new", "reused", "ended"} => saved = <<>>)'
    BY <2>1
  <2>10. OwnRecord(regs, kontext)'
    BY <2>1 DEF OwnRecord
  <2>11. (\A i \in 1..Len(saved) :
            /\ OwnRecord(saved[i].regs, saved[i].kontext)
            /\ Beneath(regs, kontext, saved[i]))'
    BY <2>7 DEF OwnRecord, Beneath, Up
  <2>12. Nested'
    BY <2>8 DEF Nested, Beneath, Up
  <2> QED BY <2>9, <2>10, <2>11, <2>12 DEF RecordInv
<1>14. CASE EndHandler
  <2> DEFINE n == Len(saved)
  <2>1. /\ pc' = "monitor" /\ n \in 1..n
        /\ regs' = saved[n].regs /\ kontext' = saved[n].kontext
        /\ saved' = SubSeq(saved, 1, n - 1)
    BY <1>14, <1>a DEF EndHandler
  <2>2. /\ Len(saved') = n - 1
        /\ \A i \in 1..Len(saved') : i \in 1..n /\ i < n /\ saved'[i] = saved[i]
    <3>1. n \in Nat /\ saved \in Seq(SavedSet) /\ saved # <<>>
      BY <1>a, <2>1
    <3>2. /\ Len(saved') = n - 1
          /\ \A i \in 1..(n - 1) : saved'[i] = saved[i]
      BY <2>1, <3>1, Shortened
    <3> QED BY <3>1, <3>2
  <2>3. OwnRecord(regs, kontext)'
    BY <2>1 DEF RecordInv, OwnRecord
  <2>4. ASSUME NEW i \in 1..Len(saved')
        PROVE  OwnRecord(saved'[i].regs, saved'[i].kontext)
               /\ Beneath(regs', kontext', saved'[i])
    <3>1. OwnRecord(saved[i].regs, saved[i].kontext)
      BY <2>2 DEF RecordInv
    <3>2. Beneath(saved[n].regs, saved[n].kontext, saved[i])
      BY <2>1, <2>2 DEF RecordInv, Nested
    <3> QED BY <2>1, <2>2, <3>1, <3>2
  <2>5. (\A i \in 1..Len(saved) :
           /\ OwnRecord(saved[i].regs, saved[i].kontext)
           /\ Beneath(regs, kontext, saved[i]))'
    BY <2>4 DEF OwnRecord, Beneath, Up
  <2>6. ASSUME NEW i \in 1..Len(saved'), NEW j \in 1..Len(saved'), i < j
        PROVE  Beneath(saved'[j].regs, saved'[j].kontext, saved'[i])
    BY <2>2, <2>6 DEF RecordInv, Nested
  <2>7. Nested'
    BY <2>6 DEF Nested, Beneath, Up
  <2> QED BY <2>1, <2>3, <2>5, <2>7 DEF RecordInv
<1> QED
  BY <1>1, <1>2, <1>3, <1>4, <1>5, <1>6, <1>7, <1>8, <1>9, <1>10, <1>11, <1>12,
     <1>13, <1>14
  DEF Next, Process, Monitor

(* The records are apart initially: there are none.                        *)
LEMMA InitRecords == Init => RecordInv
<1> SUFFICES ASSUME Init PROVE RecordInv
  OBVIOUS
<1>1. saved = <<>> /\ ~kontext.syscall_pending
  BY DEF Init
<1> QED BY <1>1 DEF RecordInv, OwnRecord, Nested

(* No interrupted system call loses its answer: the record that the        *)
(* monitor writes it to (kkm_process_syscall) is above everything that a   *)
(* handler, its calls and exceptions, and the handlers that interrupt it,  *)
(* put on the stack.                                                       *)
THEOREM RecordsCorrect == Spec => []RecordsApart
<1>2. RInv /\ RecordInv => RecordsApart
  <2> SUFFICES ASSUME RInv, RecordInv, NEW i \in 1..Len(saved),
                      saved[i].kontext.syscall_pending
               PROVE  /\ saved[i].kontext.ret_val_mva > regs.rsp
                      /\ kontext.syscall_pending =>
                           saved[i].kontext.ret_val_mva > kontext.ret_val_mva
    BY DEF RecordsApart
  <2>1. /\ saved[i] \in SavedSet /\ regs.rsp \in Int /\ Frame \in Nat
    BY RunAssumption DEF RInv, TypeOK, RegisterSet, Frame
  <2>2. saved[i].regs.rsp \in Int
    BY <2>1 DEF SavedSet, RegisterSet
  <2>3. /\ saved[i].kontext.ret_val_mva = saved[i].regs.rsp
        /\ Up(regs, kontext) < saved[i].regs.rsp
        /\ kontext.syscall_pending => kontext.ret_val_mva = regs.rsp
    BY DEF RecordInv, OwnRecord, Beneath
  <2>4. regs.rsp <= Up(regs, kontext) /\ Up(regs, kontext) \in Int
    BY <2>1 DEF Up
  <2> QED BY <2>1, <2>2, <2>3, <2>4
<1> QED BY InitRecords, <1>2, InitInv, StepInv, RecordStep, PTL DEF Spec
-----------------------------------------------------------------------------
(* The mapping to KkmPayload, named.                                       *)
View == Logical(regs, kontext, cloned)
SavedView(s) ==
  [mode |-> StoppedMode(s.kontext),
   regs |-> Logical(s.regs, s.kontext, s.cloned)]
SavedViews == [i \in 1..Len(saved) |-> SavedView(saved[i])]

(* A whole thread, stopped or running, has the registers of a payload.     *)
LEMMA LogicalTyped ==
  ASSUME NEW r \in RegisterSet, NEW k \in KontextSet, NEW c \in BOOLEAN,
         mem \in [Addrs -> Values], Whole(r, k)
  PROVE  Logical(r, k, c) \in PayloadView!Registers
<1>1. r.rsp + (IF c THEN Frame ELSE 0)
        + (IF k.syscall_pending THEN Frame ELSE 0) \in Int
  BY RunAssumption DEF RegisterSet, Frame
<1>2. (IF k.exception_posted THEN k.exception_saved_rax
       ELSE IF k.syscall_pending THEN mem[k.ret_val_mva] ELSE r.rax) \in Values
  BY DEF Whole
<1>3. (IF k.exception_posted THEN k.exception_saved_rbx ELSE r.rbx) \in Values
  BY DEF Whole
<1> QED BY <1>1, <1>2, <1>3 DEF Logical, PayloadView!Registers

(* What the next run restores is what the thread believes to have: its     *)
(* stack pointer, the answer, the registers an exception replaced.         *)
LEMMA RestoredView ==
  ASSUME NEW r \in RegisterSet, NEW k \in KontextSet, NEW c \in BOOLEAN,
         mem \in [Addrs -> Values], Whole(r, k),
         c <=> k.new_thread /\ ~k.first_thread /\ k.reason = "syscall"
  PROVE  LET u == ExceptionUndone(SyscallAnswered(CloneAdjusted(r, k), k), k)
         IN  /\ u.rsp = Logical(r, k, c).rsp
             /\ u.rax = Logical(r, k, c).rax
             /\ u.rbx = Logical(r, k, c).rbx
<1> DEFINE d == CloneAdjusted(r, k)
           s == SyscallAnswered(d, k)
           u == ExceptionUndone(s, k)
<1>1. d \in RegisterSet /\ d.rax = r.rax /\ d.rbx = r.rbx
  BY CloneFacts
<1>2. u.rsp = Logical(r, k, c).rsp
  BY UndoneFacts DEF Logical
<1> HIDE DEF d
<1>3. /\ s.rbx = r.rbx
      /\ s.rax = IF k.syscall_pending THEN mem[k.ret_val_mva] ELSE r.rax
      /\ DOMAIN s = {"rsp", "rax", "rbx"}
  BY <1>1 DEF SyscallAnswered, RegisterSet
<1> HIDE DEF s
<1>4. u.rax = Logical(r, k, c).rax /\ u.rbx = Logical(r, k, c).rbx
  BY <1>3 DEF ExceptionUndone, Logical
<1> HIDE DEF u
<1>5. u.rsp = Logical(r, k, c).rsp /\ u.rax = Logical(r, k, c).rax
        /\ u.rbx = Logical(r, k, c).rbx
  BY <1>2, <1>4
<1> QED BY <1>5 DEF u, s, d

(* Interrupted threads look the same as long as their records do.          *)
LEMMA ViewsKept ==
  ASSUME saved' = saved,
         \A i \in 1..Len(saved) : saved[i].kontext.syscall_pending =>
            mem'[saved[i].kontext.ret_val_mva] = mem[saved[i].kontext.ret_val_mva]
  PROVE  SavedViews' = SavedViews
<1>1. ASSUME NEW i \in 1..Len(saved)
      PROVE  SavedView(saved[i])' = SavedView(saved[i])
  BY <1>1 DEF SavedView, Logical, StoppedMode
<1> QED BY <1>1 DEF SavedViews

(* A record that is written at or below the thread's stack pointer is no   *)
(* interrupted thread's.                                                   *)
LEMMA RecordsSafe ==
  ASSUME RInv, RecordInv, saved' = saved,
         NEW gva \in Int, gva < regs.rsp \/ gva = regs.rsp,
         \A a \in Addrs : a # gva => mem'[a] = mem[a]
  PROVE  SavedViews' = SavedViews
<1>1. ASSUME NEW i \in 1..Len(saved), saved[i].kontext.syscall_pending
      PROVE  mem'[saved[i].kontext.ret_val_mva] = mem[saved[i].kontext.ret_val_mva]
  <2>1. /\ saved[i] \in SavedSet /\ Whole(saved[i].regs, saved[i].kontext)
        /\ regs.rsp \in Int
    BY <1>1 DEF RInv, TypeOK, Stopped, RegisterSet
  <2>2. /\ saved[i].kontext.ret_val_mva \in Addrs
        /\ saved[i].regs.rsp \in Int
    BY <1>1, <2>1 DEF Whole, SavedSet, RegisterSet
  <2>3. /\ saved[i].kontext.ret_val_mva = saved[i].regs.rsp
        /\ Up(regs, kontext) < saved[i].regs.rsp
    BY <1>1 DEF RecordInv, OwnRecord, Beneath
  <2>4. regs.rsp <= Up(regs, kontext) /\ Up(regs, kontext) \in Int
    BY <2>1, RunAssumption DEF Up, Frame
  <2>5. saved[i].kontext.ret_val_mva # gva
    BY <2>1, <2>2, <2>3, <2>4
  <2> QED BY <2>2, <2>5
<1> QED BY <1>1, ViewsKept

(* A step that changes nothing of what the view is made of.                *)
LEMMA SameView ==
  ASSUME regs' = regs, kontext' = kontext, mem' = mem, saved' = saved,
         cloned' = cloned
  PROVE  View' = View /\ SavedViews' = SavedViews
<1>1. View' = View
  BY DEF View, Logical
<1>2. SavedViews' = SavedViews
  BY ViewsKept
<1> QED BY <1>1, <1>2

(* The payload exits, with all it had, to the monitor.                     *)
LEMMA Interrupted ==
  ASSUME Mode = "running", Mode' = "stopped", View' = View,
         SavedViews' = SavedViews
  PROVE  PayloadView!Next
<1>1. PayloadView!Interrupt
  BY DEF PayloadView!Interrupt, View, SavedViews, SavedView
<1> QED BY <1>1 DEF PayloadView!Next

(* A step that only the driver and the monitor see.                        *)
LEMMA Silent ==
  ASSUME Mode' = Mode, View' = View, SavedViews' = SavedViews
  PROVE  UNCHANGED PayloadView!vars
BY DEF PayloadView!vars, View, SavedViews, SavedView

(* The modes of the thread.                                                *)
LEMMA ModeFacts ==
  ASSUME RInv
  PROVE  /\ pc \in {"begin", "payload"} => Mode = "running"
         /\ pc = "monitor" => Mode = StoppedMode(kontext)
         /\ pc = "torn" => Mode = "lost"
         /\ pc \in {"new", "reused", "ended"} => Mode = "none"
BY DEF RInv, TypeOK, Mode

(* The driver's steps out of the payload.                                  *)
LEMMA PayloadStep ==
  ASSUME RInv, RInv', RecordInv, Process \/ Compute
  PROVE  [PayloadView!Next]_(PayloadView!vars)
<1> USE DEF repeat
<1>a. /\ regs \in RegisterSet /\ kontext \in KontextSet
      /\ mem \in [Addrs -> Values] /\ saved \in Seq(SavedSet)
      /\ cloned \in BOOLEAN /\ Inside
  BY DEF RInv, TypeOK
<1>b. /\ regs.rsp \in Int /\ Frame \in Int /\ Redzone \in Int /\ HcArgs \in Int
      /\ ExcFrame \in Int /\ Redzone > 0 /\ HcArgs > 0 /\ ExcFrame > 0
      /\ Frame = Redzone + HcArgs
  BY <1>a, RunAssumption DEF RegisterSet, Frame
<1>p. pc = "payload"
  BY DEF Process, Compute, ProcessSyscall, ProcessSyscallFaults,
     ProcessException, ProcessExceptionFaults, ProcessOut, ProcessFails,
     ProcessDebug, ProcessNothing, PageFault, PageFaultDone,
     PageFaultGivesUp, ForwardInterrupt
<1>m. /\ Mode = "running" /\ ~kontext.syscall_pending
      /\ ~kontext.exception_posted
  BY <1>a, <1>p, ModeFacts DEF Inside
<1>1. CASE Compute
  <2>1. /\ pc' = pc /\ kontext' = kontext /\ mem' = mem /\ saved' = saved
        /\ cloned' = cloned
    BY <1>1 DEF Compute
  <2>2. Mode' = "running"
    BY <1>p, <2>1, ModeFacts DEF Mode
  <2>3. regs' \in RegisterSet /\ regs'.rax \in Values /\ regs'.rbx \in Values
    BY <1>p, <2>1 DEF RInv, TypeOK, Inside
  <2>4. View' \in PayloadView!Registers
    <3>1. /\ ~kontext'.syscall_pending /\ ~kontext'.exception_posted
          /\ regs'.rsp + (IF cloned' THEN Frame ELSE 0) \in Int
      BY <1>b, <1>m, <2>1, <2>3 DEF RegisterSet
    <3> QED BY <2>3, <3>1 DEF View, Logical, PayloadView!Registers
  <2>5. SavedViews' = SavedViews
    BY <2>1, ViewsKept
  <2>6. PayloadView!Compute
    BY <1>m, <2>2, <2>4, <2>5
    DEF PayloadView!Compute, View, SavedViews, SavedView
  <2> QED BY <2>6 DEF PayloadView!Next
<1>2. CASE ProcessSyscall
  <2> DEFINE gva == regs.rsp - Redzone - HcArgs
  <2>1. /\ pc' = "monitor" /\ saved' = saved /\ cloned' = cloned
        /\ gva \in Addrs /\ gva \in Int /\ gva < regs.rsp
        /\ mem' = [mem EXCEPT ![gva] = Zero]
        /\ regs'.rsp = gva /\ regs'.rbx = regs.rbx
        /\ kontext'.syscall_pending /\ kontext'.ret_val_mva = gva
        /\ kontext'.exception_posted = kontext.exception_posted
    BY <1>2, <1>a, <1>b
    DEF ProcessSyscall, Exit, RegisterSet, KontextSet
  <2>2. Mode' = "calling"
    BY <2>1 DEF Mode, StoppedMode
  <2>3. View' = [View EXCEPT !.rax = Zero]
    <3>1. mem'[kontext'.ret_val_mva] = Zero
      BY <1>a, <2>1
    <3>2. gva + (IF cloned THEN Frame ELSE 0) + Frame
            = regs.rsp + (IF cloned THEN Frame ELSE 0) + 0
      BY <1>b
    <3> HIDE DEF gva
    <3>3. View' = [rsp |-> gva + (IF cloned THEN Frame ELSE 0) + Frame,
                   rax |-> Zero, rbx |-> regs.rbx]
      BY <1>m, <2>1, <3>1 DEF View, Logical
    <3>4. View = [rsp |-> regs.rsp + (IF cloned THEN Frame ELSE 0) + 0,
                  rax |-> regs.rax, rbx |-> regs.rbx]
      BY <1>m DEF View, Logical
    <3> QED BY <3>2, <3>3, <3>4
  <2>4. SavedViews' = SavedViews
    <3>1. \A a \in Addrs : a # gva => mem'[a] = mem[a]
      BY <1>a, <2>1
    <3> HIDE DEF gva
    <3> QED BY <2>1, <3>1, RecordsSafe
  <2>5. PayloadView!Call
    BY <1>m, <2>2, <2>3, <2>4 DEF PayloadView!Call, View, SavedViews, SavedView
  <2> QED BY <2>5 DEF PayloadView!Next
<1>3. CASE ProcessSyscallFaults \/ ProcessExceptionFaults
  <2>1. pc' = "torn" /\ saved' = saved /\ mem' = mem
    BY <1>3 DEF ProcessSyscallFaults, ProcessExceptionFaults
  <2>2. Mode' = "lost"
    BY <2>1 DEF Mode
  <2>3. SavedViews' = SavedViews
    BY <2>1, ViewsKept
  <2>4. PayloadView!Lose
    BY <1>m, <2>2, <2>3 DEF PayloadView!Lose, SavedViews, SavedView
  <2> QED BY <2>4 DEF PayloadView!Next
<1>4. CASE ProcessException
  <2> DEFINE gva == regs.rsp - ExcFrame
  <2>1. /\ pc' = "monitor" /\ saved' = saved /\ cloned' = cloned
        /\ gva \in Addrs /\ gva \in Int /\ gva < regs.rsp
        /\ mem' = [mem EXCEPT ![gva] = Zero]
        /\ regs'.rsp = gva
        /\ kontext'.exception_posted
        /\ kontext'.exception_saved_rax = regs.rax
        /\ kontext'.exception_saved_rbx = regs.rbx
        /\ kontext'.syscall_pending = kontext.syscall_pending
    BY <1>4, <1>a, <1>b
    DEF ProcessException, Exit, RegisterSet, KontextSet
  <2>2. Mode' = "stopped"
    BY <1>m, <2>1 DEF Mode, StoppedMode
  <2>3. View' = [View EXCEPT !.rsp = @ - ExcFrame]
    <3> DEFINE sp == regs.rsp + (IF cloned THEN Frame ELSE 0) + 0
    <3>1. /\ gva + (IF cloned THEN Frame ELSE 0) + 0 = sp - ExcFrame
          /\ sp \in Int
      BY <1>b
    <3> HIDE DEF gva
    <3>2. View' = [rsp |-> gva + (IF cloned THEN Frame ELSE 0) + 0,
                   rax |-> regs.rax, rbx |-> regs.rbx]
      BY <1>m, <2>1 DEF View, Logical
    <3>3. View = [rsp |-> sp, rax |-> regs.rax, rbx |-> regs.rbx]
      BY <1>m DEF View, Logical
    <3> HIDE DEF sp
    <3>4. [View EXCEPT !.rsp = View.rsp - ExcFrame]
            = [rsp |-> sp - ExcFrame, rax |-> regs.rax, rbx |-> regs.rbx]
      BY <3>3
    <3> QED BY <3>1, <3>2, <3>4
  <2>4. SavedViews' = SavedViews
    <3>1. \A a \in Addrs : a # gva => mem'[a] = mem[a]
      BY <1>a, <2>1
    <3> HIDE DEF gva
    <3> QED BY <2>1, <3>1, RecordsSafe
  <2>5. PayloadView!Exception
    BY <1>m, <2>2, <2>3, <2>4
    DEF PayloadView!Exception, View, SavedViews, SavedView
  <2> QED BY <2>5 DEF PayloadView!Next
<1>5. CASE ProcessOut
  <2>1. /\ pc' = "monitor" /\ saved' = saved /\ cloned' = cloned
        /\ mem' = mem /\ regs' = regs
        /\ kontext'.syscall_pending = kontext.syscall_pending
        /\ kontext'.exception_posted = kontext.exception_posted
    BY <1>5, <1>a DEF ProcessOut, Exit, KontextSet
  <2>2. Mode' = "stopped"
    BY <1>m, <2>1 DEF Mode, StoppedMode
  <2>3. View' = View
    BY <1>m, <2>1 DEF View, Logical
  <2>4. SavedViews' = SavedViews
    BY <2>1, ViewsKept
  <2> QED BY <1>m, <2>2, <2>3, <2>4, Interrupted
<1>6. CASE ProcessFails \/ ProcessDebug \/ ProcessNothing
  <2>1. /\ pc' = "monitor" /\ saved' = saved /\ cloned' = cloned
        /\ mem' = mem /\ regs' = regs /\ kontext' = kontext
    BY <1>6 DEF ProcessFails, ProcessDebug, ProcessNothing, Exit
  <2>2. Mode' = "stopped"
    BY <1>m, <2>1 DEF Mode, StoppedMode
  <2> QED BY <1>m, <2>1, <2>2, SameView, Interrupted
<1>7. CASE \E fault \in Faults : PageFaultGivesUp(fault)
  <2>1. /\ pc' = "monitor" /\ saved' = saved /\ cloned' = cloned
        /\ mem' = mem /\ regs' = regs /\ kontext' = kontext
    BY <1>7 DEF PageFaultGivesUp, Exit
  <2>2. Mode' = "stopped"
    BY <1>m, <2>1 DEF Mode, StoppedMode
  <2> QED BY <1>m, <2>1, <2>2, SameView, Interrupted
<1>8. CASE (\E fault \in Faults : PageFaultDone(fault)) \/ ForwardInterrupt
  <2>1. /\ pc' = "begin" /\ saved' = saved /\ cloned' = cloned
        /\ mem' = mem /\ regs' = regs /\ kontext' = kontext
    BY <1>8 DEF PageFaultDone, ForwardInterrupt
  <2>2. Mode' = "running"
    BY <2>1 DEF Mode
  <2> QED BY <1>m, <2>1, <2>2, SameView, Silent
<1> QED
  BY <1>1, <1>2, <1>3, <1>4, <1>5, <1>6, <1>7, <1>8 DEF Process, PageFault

(* Sequences as functions, and their equality.                             *)
LEMMA IsSequence ==
  ASSUME NEW S, NEW n \in Nat, NEW f \in [1..n -> S]
  PROVE  f \in Seq(S) /\ Len(f) = n
OBVIOUS

(* Sequences of the same length and elements are one.                      *)
LEMMA SameSequence ==
  ASSUME NEW S, NEW s \in Seq(S), NEW t \in Seq(S), Len(s) = Len(t),
         \A i \in 1..Len(s) : s[i] = t[i]
  PROVE  s = t
OBVIOUS

(* What is one element longer is the sequence with it appended.            *)
LEMMA Appended ==
  ASSUME NEW S, NEW s \in Seq(S), NEW t \in Seq(S), NEW e \in S,
         Len(t) = Len(s) + 1, \A i \in 1..Len(s) : t[i] = s[i],
         t[Len(s) + 1] = e
  PROVE  t = Append(s, e)
<1>1. Append(s, e) \in Seq(S) /\ Len(Append(s, e)) = Len(t)
  OBVIOUS
<1>2. \A i \in 1..Len(t) : t[i] = Append(s, e)[i]
  OBVIOUS
<1> QED BY <1>1, <1>2, SameSequence

(* What the payload's side of an interrupted thread may be.                *)
ViewSet == [mode : {"stopped", "calling"}, regs : PayloadView!Registers]

(* The interrupted threads are a sequence of such.                         *)
LEMMA ViewsTyped ==
  RInv => SavedViews \in Seq(ViewSet) /\ Len(SavedViews) = Len(saved)
<1> SUFFICES ASSUME RInv
             PROVE  SavedViews \in Seq(ViewSet) /\ Len(SavedViews) = Len(saved)
  OBVIOUS
<1>1. saved \in Seq(SavedSet) /\ mem \in [Addrs -> Values] /\ Stopped
  BY DEF RInv, TypeOK
<1>2. ASSUME NEW i \in 1..Len(saved)
      PROVE  SavedView(saved[i]) \in ViewSet
  <2>1. saved[i] \in SavedSet
    BY <1>1
  <2>2. /\ saved[i].regs \in RegisterSet /\ saved[i].kontext \in KontextSet
        /\ saved[i].cloned \in BOOLEAN
        /\ Whole(saved[i].regs, saved[i].kontext)
    BY <1>1, <2>1 DEF SavedSet, Stopped
  <2>3. Logical(saved[i].regs, saved[i].kontext, saved[i].cloned)
          \in PayloadView!Registers
    BY <1>1, <2>2, LogicalTyped
  <2>4. StoppedMode(saved[i].kontext) \in {"stopped", "calling"}
    BY DEF StoppedMode
  <2> QED BY <2>3, <2>4 DEF SavedView, ViewSet
<1>3. SavedViews \in [1..Len(saved) -> ViewSet]
  BY <1>2 DEF SavedViews
<1>4. Len(saved) \in Nat
  BY <1>1
<1> QED BY <1>3, <1>4, IsSequence

(* So they are after a step.                                               *)
LEMMA ViewsTypedNext ==
  RInv' => SavedViews' \in Seq(ViewSet) /\ Len(SavedViews') = Len(saved')
<1>1. (RInv => SavedViews \in Seq(ViewSet) /\ Len(SavedViews) = Len(saved))'
  BY ViewsTyped, PTL
<1> QED BY <1>1 DEF ViewSet, PayloadView!Registers

(* A stopped thread is a payload's.                                        *)
LEMMA StoppedTyped ==
  RInv /\ pc = "monitor" => View \in PayloadView!Registers
<1> SUFFICES ASSUME RInv, pc = "monitor" PROVE View \in PayloadView!Registers
  OBVIOUS
<1>1. /\ regs \in RegisterSet /\ kontext \in KontextSet /\ cloned \in BOOLEAN
      /\ mem \in [Addrs -> Values] /\ Whole(regs, kontext)
  BY DEF RInv, TypeOK, Stopped
<1> QED BY <1>1, LogicalTyped DEF View

(* The steps of the monitor, and the entry to the payload.                 *)
LEMMA MonitorStep ==
  ASSUME RInv, RInv', CloneInv, RecordInv,
         Monitor \/ SignalSeen \/ EnterPayload
  PROVE  [PayloadView!Next]_(PayloadView!vars)
<1> USE DEF repeat
<1>a. /\ regs \in RegisterSet /\ kontext \in KontextSet
      /\ mem \in [Addrs -> Values] /\ saved \in Seq(SavedSet)
      /\ cloned \in BOOLEAN /\ Inside /\ Idle
  BY DEF RInv, TypeOK
<1>b. regs.rsp \in Int /\ Frame \in Nat
  BY <1>a, RunAssumption DEF RegisterSet, Frame
<1>s. StoppedMode(kontext) \in {"stopped", "calling"}
  BY DEF StoppedMode
<1>1. CASE EnterPayload \/ Signal \/ RunImmediateExit \/ Closed
  <2>1. /\ saved' = saved /\ cloned' = cloned
        /\ mem' = mem /\ regs' = regs /\ kontext' = kontext
    BY <1>1 DEF EnterPayload, Signal, RunImmediateExit, Closed, vars
  <2>2. Mode' = Mode
    BY <1>1, <2>1
    DEF EnterPayload, Signal, RunImmediateExit, Closed, vars, Mode
  <2> QED BY <2>1, <2>2, SameView, Silent
<1>2. CASE SignalSeen
  <2>1. /\ pc = "begin" /\ pc' = "monitor" /\ saved' = saved
        /\ cloned' = cloned /\ mem' = mem /\ regs' = regs /\ kontext' = kontext
    BY <1>2 DEF SignalSeen, Exit
  <2>2. Mode = "running" /\ Mode' = "stopped"
    BY <1>a, <2>1 DEF Mode, StoppedMode, Inside
  <2> QED BY <2>1, <2>2, SameView, Interrupted
<1>3. CASE RunEnter
  <2>1. /\ pc = "monitor" /\ pc' = "begin" /\ saved' = saved /\ ~cloned'
        /\ regs' = ExceptionUndone(SyscallAnswered(CloneAdjusted(regs, kontext),
                                                   kontext), kontext)
        /\ kontext' = [Cleared(kontext) EXCEPT !.new_thread = FALSE]
        /\ mem' = [a \in Addrs |-> IF kontext.syscall_pending
                                        /\ a = kontext.ret_val_mva
                                     THEN Zero ELSE mem[a]]
    BY <1>3 DEF RunEnter
  <2>2. Whole(regs, kontext)
    BY <2>1 DEF RInv, Stopped
  <2>3. ~kontext'.syscall_pending /\ ~kontext'.exception_posted
    BY <1>a, <2>1, ClearedFacts DEF KontextSet
  <2>4. cloned <=> /\ kontext.new_thread /\ ~kontext.first_thread
                   /\ kontext.reason = "syscall"
    BY <2>1 DEF CloneInv
  <2>5. /\ regs'.rsp = View.rsp /\ regs'.rax = View.rax
        /\ regs'.rbx = View.rbx
    BY <1>a, <2>1, <2>2, <2>4, RestoredView DEF View
  <2>6. regs' \in RegisterSet /\ View.rsp \in Int
    BY <2>5 DEF RInv, TypeOK, RegisterSet
  <2>7. View' = View
    <3>1. View = [rsp |-> View.rsp, rax |-> View.rax, rbx |-> View.rbx]
      BY DEF View, Logical
    <3>2. View' = [rsp |-> regs'.rsp + 0 + 0, rax |-> regs'.rax,
                   rbx |-> regs'.rbx]
      BY <2>1, <2>3 DEF View, Logical
    <3>3. regs'.rsp + 0 + 0 = regs'.rsp
      BY <2>5, <2>6
    <3> QED BY <2>5, <3>1, <3>2, <3>3
  <2>8. SavedViews' = SavedViews
    <3>1. CASE kontext.syscall_pending
      <4>1. kontext.ret_val_mva = regs.rsp
        BY <3>1 DEF RecordInv, OwnRecord
      <4>2. \A a \in Addrs : a # regs.rsp => mem'[a] = mem[a]
        BY <1>a, <2>1, <4>1
      <4> QED BY <1>b, <2>1, <4>2, RecordsSafe
    <3>2. CASE ~kontext.syscall_pending
      <4>1. \A a \in Addrs : a # regs.rsp => mem'[a] = mem[a]
        BY <1>a, <2>1, <3>2
      <4> QED BY <1>b, <2>1, <4>1, RecordsSafe
    <3> QED BY <3>1, <3>2
  <2>9. Mode \in {"stopped", "calling"} /\ Mode' = "running"
    BY <1>s, <2>1 DEF Mode
  <2>10. PayloadView!Resume
    BY <2>7, <2>8, <2>9
    DEF PayloadView!Resume, View, SavedViews, SavedView
  <2> QED BY <2>10 DEF PayloadView!Next
<1>4. CASE RunResponseFaults
  <2>1. /\ pc = "monitor" /\ pc' = pc /\ saved' = saved /\ mem' = mem
        /\ kontext.syscall_pending /\ ~cloned'
        /\ regs' = CloneAdjusted(regs, kontext)
        /\ kontext'.syscall_pending = kontext.syscall_pending
        /\ kontext'.ret_val_mva = kontext.ret_val_mva
        /\ kontext'.exception_posted = kontext.exception_posted
        /\ kontext'.exception_saved_rax = kontext.exception_saved_rax
        /\ kontext'.exception_saved_rbx = kontext.exception_saved_rbx
    BY <1>4, <1>a DEF RunResponseFaults, KontextSet
  <2>2. ~kontext.new_thread
    BY <2>1 DEF RecordInv, OwnRecord
  <2>3. regs' = regs /\ ~cloned
    BY <2>1, <2>2 DEF CloneAdjusted, CloneInv
  <2>4. View' = View
    BY <2>1, <2>3 DEF View, Logical
  <2>5. SavedViews' = SavedViews
    BY <2>1, ViewsKept
  <2>6. Mode' = Mode
    BY <2>1 DEF Mode, StoppedMode
  <2> QED BY <2>4, <2>5, <2>6, Silent
<1>5. CASE \E origin \in {"unknown", "syscall", "hypercall"} : StartThread(origin)
  <2>1. /\ pc \in {"new", "reused"} /\ pc' = "monitor" /\ saved' = saved
        /\ saved = <<>>
        /\ kontext'.syscall_pending = kontext.syscall_pending
        /\ ~kontext.syscall_pending
    BY <1>5, <1>a DEF StartThread, KontextSet, RecordInv, Idle
  <2>2. Mode = "none" /\ Mode' = "stopped"
    BY <2>1 DEF Mode, StoppedMode
  <2>3. View' \in PayloadView!Registers
    <3>1. /\ regs' \in RegisterSet /\ kontext' \in KontextSet
          /\ cloned' \in BOOLEAN /\ mem' \in [Addrs -> Values]
          /\ Whole(regs, kontext)'
      BY <2>1 DEF RInv, TypeOK, Stopped
    <3>2. ~kontext'.syscall_pending
      BY <2>1
    <3>3. /\ regs'.rsp + (IF cloned' THEN Frame ELSE 0) + 0 \in Int
          /\ (IF kontext'.exception_posted THEN kontext'.exception_saved_rax
              ELSE regs'.rax) \in Values
          /\ (IF kontext'.exception_posted THEN kontext'.exception_saved_rbx
              ELSE regs'.rbx) \in Values
      BY <1>b, <3>1, <3>2 DEF RegisterSet, Whole
    <3> QED BY <3>2, <3>3 DEF View, Logical, PayloadView!Registers
  <2>4. SavedViews' = <<>>
    <3>1. Len(saved') = 0
      BY <2>1
    <3> QED BY <3>1 DEF SavedViews
  <2>5. PayloadView!Start
    BY <2>2, <2>3, <2>4 DEF PayloadView!Start, View, SavedViews, SavedView
  <2> QED BY <2>5 DEF PayloadView!Next
<1>6. CASE Answer
  <2>1. /\ pc = "monitor" /\ pc' = pc /\ saved' = saved /\ regs' = regs
        /\ kontext' = kontext /\ cloned' = cloned
        /\ kontext.syscall_pending
    BY <1>6 DEF Answer
  <2>2. PICK v \in Values : mem' = [mem EXCEPT ![kontext.ret_val_mva] = v]
    BY <1>6 DEF Answer
  <2>3. kontext.ret_val_mva \in Addrs /\ kontext.ret_val_mva = regs.rsp
    BY <2>1 DEF RInv, Stopped, Whole, RecordInv, OwnRecord
  <2>4. Mode = "calling" /\ Mode' = "calling"
    BY <2>1 DEF Mode, StoppedMode
  <2>5. SavedViews' = SavedViews
    <3>1. \A a \in Addrs : a # regs.rsp => mem'[a] = mem[a]
      BY <1>a, <2>2, <2>3
    <3> QED BY <1>b, <2>1, <3>1, RecordsSafe
  <2>6. \E w \in Values : View' = [View EXCEPT !.rax = w]
    <3>1. CASE kontext.exception_posted
      <4>1. View' = View
        BY <2>1, <3>1 DEF View, Logical
      <4>2. View.rax \in Values /\ View = [View EXCEPT !.rax = View.rax]
        <5>1. View.rax \in Values
          BY <2>1, <3>1 DEF View, Logical, RInv, Stopped, Whole
        <5>2. View = [View EXCEPT !.rax = View.rax]
          BY DEF View, Logical
        <5> QED BY <5>1, <5>2
      <4> QED BY <4>1, <4>2
    <3>2. CASE ~kontext.exception_posted
      <4>1. mem'[kontext.ret_val_mva] = v
        BY <1>a, <2>2, <2>3
      <4>2. View' = [View EXCEPT !.rax = v]
        BY <2>1, <3>2, <4>1 DEF View, Logical
      <4> QED BY <4>2
    <3> QED BY <3>1, <3>2
  <2>7. PayloadView!Answer
    BY <2>4, <2>5, <2>6
    DEF PayloadView!Answer, View, SavedViews, SavedView
  <2> QED BY <2>7 DEF PayloadView!Next
<1>7. CASE StartHandler
  <2> DEFINE new == [regs |-> regs, kontext |-> kontext, cloned |-> cloned]
  <2>1. /\ pc = "monitor" /\ pc' = "monitor" /\ saved' = Append(saved, new)
        /\ regs'.rsp = regs.rsp - 1 /\ regs'.rax = Zero /\ regs'.rbx = Zero
        /\ kontext' = Cleared(kontext) /\ ~cloned' /\ mem' = mem
    BY <1>7 DEF StartHandler
  <2>2. ~kontext'.syscall_pending /\ ~kontext'.exception_posted
    BY <1>a, <2>1, ClearedFacts
  <2>3. Mode = StoppedMode(kontext) /\ Mode' = "stopped"
    BY <2>1, <2>2 DEF Mode, StoppedMode
  <2>4. View' = [rsp |-> regs.rsp - 1 + 0 + 0, rax |-> Zero, rbx |-> Zero]
    BY <2>1, <2>2 DEF View, Logical
  <2>5. View' \in PayloadView!Registers /\ View'.rsp < View.rsp
    <3>1. View.rsp = regs.rsp + (IF cloned THEN Frame ELSE 0)
                       + (IF kontext.syscall_pending THEN Frame ELSE 0)
      BY DEF View, Logical
    <3>2. /\ regs.rsp - 1 + 0 + 0 \in Int
          /\ regs.rsp - 1 + 0 + 0 < View.rsp
      BY <1>b, <3>1
    <3>3. View' \in PayloadView!Registers
      BY <2>4, <3>2, RunAssumption DEF PayloadView!Registers
    <3>4. View'.rsp = regs.rsp - 1 + 0 + 0
      BY <2>4
    <3> QED BY <3>2, <3>3, <3>4
  <2>6. /\ Len(saved') = Len(saved) + 1 /\ saved'[Len(saved) + 1] = new
        /\ \A i \in 1..Len(saved) : saved'[i] = saved[i]
        /\ Len(saved) \in Nat
    BY <1>a, <2>1
  <2>7. SavedViews' = Append(SavedViews, [mode |-> Mode, regs |-> View])
    <3> DEFINE last == [mode |-> Mode, regs |-> View]
               n == Len(saved) + 1
    <3>1. /\ SavedViews \in Seq(ViewSet) /\ Len(SavedViews) = Len(saved)
          /\ SavedViews' \in Seq(ViewSet) /\ Len(SavedViews') = n
      BY <2>6, ViewsTyped, ViewsTypedNext
    <3>2. last \in ViewSet
      BY <1>s, <2>1, <2>3, StoppedTyped DEF ViewSet
    <3>3. ASSUME NEW i \in 1..Len(saved)
          PROVE  SavedViews'[i] = SavedViews[i]
      BY <2>1, <2>6 DEF SavedViews, SavedView, Logical, StoppedMode
    <3>4. SavedViews'[n] = last
      <4>1. /\ saved'[n].regs = regs /\ saved'[n].kontext = kontext
            /\ saved'[n].cloned = cloned
        BY <2>6
      <4>2. n \in 1..Len(saved')
        BY <2>6
      <4>3. SavedViews'[n] = [mode |-> StoppedMode(kontext), regs |-> View]
        <5> HIDE DEF n
        <5> QED BY <2>1, <4>1, <4>2
            DEF SavedViews, SavedView, Logical, StoppedMode, View
      <4> QED BY <2>3, <4>3
    <3> HIDE DEF last
    <3>5. SavedViews' = Append(SavedViews, last)
      BY <3>1, <3>2, <3>3, <3>4, Appended
    <3> QED BY <3>5 DEF last
  <2>8. PayloadView!StartHandler
    BY <1>s, <2>3, <2>5, <2>7
    DEF PayloadView!StartHandler, View, SavedViews, SavedView
  <2> QED BY <2>8 DEF PayloadView!Next
<1>8. CASE EndHandler
  <2> DEFINE n == Len(saved)
             last == SavedViews[n]
  <2>1. /\ pc = "monitor" /\ pc' = "monitor" /\ saved # <<>>
        /\ regs' = saved[n].regs /\ kontext' = saved[n].kontext
        /\ cloned' = saved[n].cloned /\ mem' = mem
        /\ saved' = SubSeq(saved, 1, n - 1)
    BY <1>8 DEF EndHandler
  <2>2. n \in Nat /\ n \in 1..n
    BY <1>a, <2>1
  <2>3. last = [mode |-> Mode', regs |-> View']
    <3>1. last = SavedView(saved[n])
      BY <2>2 DEF SavedViews
    <3>2. View' = Logical(saved[n].regs, saved[n].kontext, saved[n].cloned)
      BY <2>1 DEF View, Logical
    <3>3. Mode' = StoppedMode(saved[n].kontext)
      BY <2>1 DEF Mode, StoppedMode
    <3> QED BY <3>1, <3>2, <3>3 DEF SavedView
  <2>4. /\ SavedViews \in Seq(ViewSet) /\ Len(SavedViews) = n
        /\ SavedViews' \in Seq(ViewSet) /\ Len(SavedViews') = Len(saved')
    BY ViewsTyped, ViewsTypedNext
  <2>5. /\ Len(saved') = n - 1
        /\ \A i \in 1..(n - 1) : saved'[i] = saved[i]
    BY <1>a, <2>1, Shortened
  <2>6. SavedViews # <<>>
    BY <2>2, <2>4
  <2>7. SavedViews' = SubSeq(SavedViews, 1, Len(SavedViews) - 1)
    <3> DEFINE short == SubSeq(SavedViews, 1, Len(SavedViews) - 1)
    <3>1. /\ Len(short) = n - 1
          /\ \A i \in 1..(n - 1) : short[i] = SavedViews[i]
      BY <2>4, <2>6, Shortened
    <3>2. short \in Seq(ViewSet)
      BY <2>2, <2>4
    <3>3. ASSUME NEW i \in 1..(n - 1)
          PROVE  SavedViews'[i] = SavedViews[i]
      <4>1. i \in 1..n /\ i \in 1..Len(saved') /\ saved'[i] = saved[i]
        BY <2>2, <2>5
      <4> HIDE DEF n
      <4>2. SavedViews'[i] = SavedView(saved[i])
        BY <2>1, <4>1 DEF SavedViews, SavedView, Logical, StoppedMode
      <4>3. SavedViews[i] = SavedView(saved[i])
        BY <4>1 DEF SavedViews, n
      <4> QED BY <4>2, <4>3
    <3> HIDE DEF short
    <3>4. /\ Len(SavedViews') = Len(short)
          /\ \A i \in 1..Len(SavedViews') : SavedViews'[i] = short[i]
      BY <2>4, <2>5, <3>1, <3>3
    <3>5. SavedViews' = short
      BY <2>4, <3>2, <3>4, SameSequence
    <3> QED BY <3>5 DEF short
  <2>8. Mode \in {"stopped", "calling"}
    BY <1>s, <2>1 DEF Mode
  <2>9. Mode' = last.mode /\ View' = last.regs
    BY <2>3
  <2>10. last = SavedViews[Len(SavedViews)]
    BY <2>4
  <2> HIDE DEF last, n
  <2>11. PayloadView!EndHandler
    <3>1. /\ Mode' = SavedViews[Len(SavedViews)].mode
          /\ View' = SavedViews[Len(SavedViews)].regs
      BY <2>9, <2>10
    <3> QED BY <2>6, <2>7, <2>8, <3>1
        DEF PayloadView!EndHandler, View, SavedViews, SavedView
  <2> QED BY <2>11 DEF PayloadView!Next
<1>9. CASE EndThread \/ CloseThread
  <2>1. pc \in {"monitor", "torn"} /\ pc' \in {"reused", "ended"} /\ saved' = <<>>
    BY <1>9 DEF EndThread, CloseThread
  <2>2. Mode \in {"stopped", "calling", "lost"} /\ Mode' = "none"
    BY <1>s, <2>1 DEF Mode
  <2>3. SavedViews' = <<>>
    <3>1. Len(saved') = 0
      BY <2>1
    <3> QED BY <3>1 DEF SavedViews
  <2>4. PayloadView!End
    BY <2>2, <2>3 DEF PayloadView!End, SavedViews, SavedView
  <2> QED BY <2>4 DEF PayloadView!Next
<1> QED
  BY <1>1, <1>2, <1>3, <1>4, <1>5, <1>6, <1>7, <1>8, <1>9 DEF Monitor

(* KKM_RUN keeps its promise to the payload, under the two conditions on   *)
(* the monitor: every step of the driver and the monitor is a step of      *)
(* KkmPayload or invisible to the payload, through exceptions, failed      *)
(* runs, nested handlers and calls that a handler interrupts.              *)
THEOREM PayloadCorrect ==
  ASSUME ~ReuseFirst, ~HandlerFirst
  PROVE  Spec => ImplementsPayload
<1>1. Init => PayloadView!Init
  <2> SUFFICES ASSUME Init PROVE PayloadView!Init
    OBVIOUS
  <2>1. /\ Mode = "none" /\ saved = <<>> /\ ~cloned
        /\ ~kontext.syscall_pending /\ ~kontext.exception_posted
        /\ regs = [rsp |-> StackTop, rax |-> Zero, rbx |-> Zero]
    BY DEF Init, Mode
  <2>2. View \in PayloadView!Registers
    <3>1. StackTop + 0 + 0 \in Int /\ Zero \in Values
      BY RunAssumption
    <3> QED BY <2>1, <3>1 DEF View, Logical, PayloadView!Registers
  <2>3. SavedViews = <<>>
    BY <2>1 DEF SavedViews
  <2> QED BY <2>1, <2>2, <2>3 DEF PayloadView!Init, View, SavedViews, SavedView
<1>2. /\ RInv /\ RInv' /\ CloneInv /\ RecordInv /\ [Next]_vars
      => [PayloadView!Next]_(PayloadView!vars)
  <2> SUFFICES ASSUME RInv, RInv', CloneInv, RecordInv, [Next]_vars
               PROVE  [PayloadView!Next]_(PayloadView!vars)
    OBVIOUS
  <2>1. CASE Process \/ Compute
    BY <2>1, PayloadStep
  <2>2. CASE Monitor \/ SignalSeen \/ EnterPayload
    BY <2>2, MonitorStep
  <2>3. CASE UNCHANGED vars
    <3>1. /\ regs' = regs /\ kontext' = kontext /\ mem' = mem
          /\ saved' = saved /\ cloned' = cloned /\ pc' = pc
      BY <2>3 DEF vars
    <3>2. Mode' = Mode
      BY <3>1 DEF Mode
    <3> QED BY <3>1, <3>2, SameView, Silent
  <2> QED BY <2>1, <2>2, <2>3 DEF Next
<1>3. Init => CloneInv
  BY DEF Init, CloneInv
<1> QED
  BY <1>1, <1>2, <1>3, InitRecords, InitInv, StepInv, CloneStep, RecordStep, PTL
  DEF Spec, ImplementsPayload, PayloadView!Spec
=============================================================================
