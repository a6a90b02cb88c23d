-------------------------- MODULE KkmVectorsProofs --------------------------
(***************************************************************************)
(* Theorems about KkmVectors, for every set of vectors: the types, and,    *)
(* for the vectors whose stubs fit what the processor pushes, the frame    *)
(* and the handler.                                                        *)
(***************************************************************************)
EXTENDS KkmVectors, TLAPS

WordSet == [word : Words, value : -1..KKM_INTR_SYSCALL]

(* What events there are: external interrupts have the vectors that are    *)
(* not exceptions', and an int instruction raises what its gate allows.    *)
EventOK ==
  /\ event \in Events
  /\ event.level = 3 => event.swapped
  /\ event.kind = "interrupt" => event.vector >= 32
  /\ event.kind = "exception" => event.vector < 32
  /\ event.kind = "int" => event.vector \in {BP, OF, GP}
  /\ event.kind # "syscall" => event.vector \in Vectors \cup {GP, DE}

(* What the processor has pushed.                                          *)
CpuFrame ==
  (IF HasError THEN <<Word("error", 0)>> ELSE <<>>)
    \o Frame(event.level, event.low)

StackOK ==
  /\ pc \in {"entry", "common"} => event.kind # "syscall"
  /\ pc = "entry" => stack = CpuFrame
  /\ pc = "common" => stack = intr_function_pointers[event.vector] \o CpuFrame
  /\ pc \in {"entry", "common"} =>
       gs = IF event.swapped THEN "payload" ELSE "kernel"

Number == IF event.kind = "syscall" THEN KKM_INTR_SYSCALL ELSE event.vector

TrapOK ==
  /\ trap \in [Fields -> WordSet]
  /\ Arrived => trap["intr_no"] = Word("number", Number)

HandlerOK ==
  pc = "served" =>
    served = [by |-> HandlerOf(Number),
              vector |-> IF HandlerOf(Number) = "forward"
                           THEN intr_forward_pointers[Number] ELSE -1]

VInv == TypeOK /\ EventOK /\ StackOK /\ TrapOK /\ HandlerOK

-----------------------------------------------------------------------------
(* Concatenation, element by element.                                      *)
LEMMA ConcatFacts ==
  ASSUME NEW S, NEW s \in Seq(S), NEW t \in Seq(S)
  PROVE  /\ s \o t \in Seq(S) /\ Len(s \o t) = Len(s) + Len(t)
         /\ \A i \in 1..Len(s) : (s \o t)[i] = s[i]
         /\ \A i \in 1..Len(t) : (s \o t)[Len(s) + i] = t[i]
         /\ <<>> \o t = t
<1>1. /\ s \o t \in Seq(S) /\ Len(s \o t) = Len(s) + Len(t)
      /\ \A i \in 1..Len(s) : (s \o t)[i] = s[i]
      /\ \A i \in 1..Len(t) : (s \o t)[Len(s) + i] = t[i]
  OBVIOUS
<1>2. <<>> \o t = t
  OBVIOUS
<1> QED BY <1>1, <1>2

(* The words that are pushed are words.                                    *)
LEMMA WordsTyped ==
  ASSUME EventOK
  PROVE  /\ Word("number", event.vector) \in WordSet
         /\ Word("number", KKM_INTR_SYSCALL) \in WordSet
         /\ Word("error", 0) \in WordSet /\ Word("none", -1) \in WordSet
         /\ Word("rip", event.low) \in WordSet
         /\ Word("cs", event.level) \in WordSet
         /\ Word("rflags", 0) \in WordSet
         /\ Word("rsp", 0) \in WordSet /\ Word("ss", 0) \in WordSet
  BY DEF EventOK, Events, Word, WordSet, Words, KKM_INTR_SYSCALL, AllVectors

(* A word on top of a stack.                                               *)
LEMMA PushOne ==
  ASSUME NEW S, NEW t \in Seq(S), NEW a \in S
  PROVE  /\ <<a>> \o t \in Seq(S) /\ Len(<<a>> \o t) = 1 + Len(t)
         /\ (<<a>> \o t)[1] = a
         /\ \A i \in 1..Len(t) : (<<a>> \o t)[1 + i] = t[i]
<1>1. <<a>> \in Seq(S) /\ Len(<<a>>) = 1 /\ <<a>>[1] = a
  OBVIOUS
<1> QED BY <1>1, ConcatFacts

(* Two words on top of a stack.                                            *)
LEMMA PushTwo ==
  ASSUME NEW S, NEW t \in Seq(S), NEW a \in S, NEW b \in S
  PROVE  /\ <<a, b>> \o t \in Seq(S) /\ Len(<<a, b>> \o t) = 2 + Len(t)
         /\ (<<a, b>> \o t)[1] = a /\ (<<a, b>> \o t)[2] = b
         /\ \A i \in 1..Len(t) : (<<a, b>> \o t)[2 + i] = t[i]
<1>1. /\ <<a, b>> \in Seq(S) /\ Len(<<a, b>>) = 2
      /\ <<a, b>>[1] = a /\ <<a, b>>[2] = b
  OBVIOUS
<1> QED BY <1>1, ConcatFacts

(* The five words of the processor's frame, from the i-th on.              *)
FrameAt(s, i) ==
  /\ s[i] = Word("rip", event.low) /\ s[i + 1] = Word("cs", event.level)
  /\ s[i + 2] = Word("rflags", 0) /\ s[i + 3] = Word("rsp", 0)
  /\ s[i + 4] = Word("ss", 0)

(* The frame of the processor, with and without an error code.             *)
LEMMA FrameShape ==
  ASSUME EventOK
  PROVE  /\ CpuFrame \in Seq(WordSet)
         /\ HasError => /\ Len(CpuFrame) = 6 /\ CpuFrame[1] = Word("error", 0)
                        /\ FrameAt(CpuFrame, 2)
         /\ ~HasError => Len(CpuFrame) = 5 /\ FrameAt(CpuFrame, 1)
<1> DEFINE f == Frame(event.level, event.low)
<1>1. /\ f \in Seq(WordSet) /\ Len(f) = 5 /\ FrameAt(f, 1)
  <2>1. f \in Seq(WordSet)
    BY WordsTyped DEF Frame
  <2>2. Len(f) = 5 /\ FrameAt(f, 1)
    BY DEF Frame, FrameAt
  <2> QED BY <2>1, <2>2
<1> HIDE DEF f
<1>2. CASE HasError
  <2>1. CpuFrame = <<Word("error", 0)>> \o f
    BY <1>2 DEF CpuFrame, f
  <2>2. Word("error", 0) \in WordSet
    BY WordsTyped
  <2>3. /\ CpuFrame \in Seq(WordSet) /\ Len(CpuFrame) = 6
        /\ CpuFrame[1] = Word("error", 0)
        /\ \A i \in 1..5 : CpuFrame[1 + i] = f[i]
    BY <1>1, <2>1, <2>2, PushOne, SMTT(30)
  <2>4. /\ CpuFrame[2] = f[1] /\ CpuFrame[3] = f[2] /\ CpuFrame[4] = f[3]
        /\ CpuFrame[5] = f[4] /\ CpuFrame[6] = f[5]
    BY <2>3
  <2>5. FrameAt(CpuFrame, 2)
    BY <1>1, <2>4 DEF FrameAt
  <2> QED BY <1>2, <2>3, <2>5
<1>3. CASE ~HasError
  <2>1. CpuFrame = <<>> \o f
    BY <1>3 DEF CpuFrame, f
  <2>2. <<>> \o f = f
    BY <1>1, ConcatFacts
  <2> QED BY <1>1, <1>3, <2>1, <2>2
<1> QED BY <1>2, <1>3

(* An exception whose stub pushes no error code has pushed one itself.     *)
LEMMA ReplacedFacts ==
  ASSUME EventOK, event.kind # "syscall"
  PROVE  /\ event.vector \in Replaced => HasError
         /\ Vectors \cap {21, 29} = {} =>
              (HasError => event.vector \in Replaced)
<1>1. event.vector \in Replaced => HasError
  BY DEF EventOK, HasError, Replaced, PushesError, DF, TS, NP, SS, GP, PF, AC,
     VC, SE, BP, OF, Kinds
<1>2. Vectors \cap {21, 29} = {} => (HasError => event.vector \in Replaced)
  BY DEF EventOK, HasError, Replaced, PushesError, DF, TS, NP, SS, GP, PF, AC,
     VC, SE, BP, OF, DE, Kinds
<1> QED BY <1>1, <1>2

(* The stack that the common entry finds: the number, then an error code   *)
(* or a stub's word in its place, then the frame.  Only where a stub does  *)
(* not know of the error code, the frame is a word further down.           *)
LEMMA CommonShape ==
  ASSUME EventOK, event.kind # "syscall"
  PROVE  LET s == intr_function_pointers[event.vector] \o CpuFrame
         IN  /\ s \in Seq(WordSet) /\ Len(s) >= 7
             /\ s[1] = Word("number", event.vector)
             /\ HasError /\ event.vector \in Replaced =>
                  s[2] = Word("error", 0) /\ FrameAt(s, 3)
             /\ ~HasError => s[2] = Word("none", -1) /\ FrameAt(s, 3)
<1> DEFINE s == intr_function_pointers[event.vector] \o CpuFrame
           n == Word("number", event.vector)
<1>1. event.vector \in AllVectors /\ n \in WordSet /\ Word("none", -1) \in WordSet
  BY WordsTyped DEF EventOK, Events
<1>2. CASE event.vector \in Replaced
  <2>1. s = <<n>> \o CpuFrame
    BY <1>1, <1>2 DEF intr_function_pointers, StubError
  <2>2. HasError /\ CpuFrame \in Seq(WordSet) /\ Len(CpuFrame) = 6
    BY <1>2, ReplacedFacts, FrameShape
  <2> HIDE DEF s, n
  <2>3. /\ s \in Seq(WordSet) /\ Len(s) = 7 /\ s[1] = n
        /\ \A i \in 1..6 : s[1 + i] = CpuFrame[i]
    BY <1>1, <2>1, <2>2, PushOne, SMTT(30)
  <2>4. /\ s[2] = CpuFrame[1] /\ s[3] = CpuFrame[2] /\ s[4] = CpuFrame[3]
        /\ s[5] = CpuFrame[4] /\ s[6] = CpuFrame[5] /\ s[7] = CpuFrame[6]
    BY <2>3
  <2>5. s[2] = Word("error", 0) /\ FrameAt(s, 3)
    BY <2>2, <2>4, FrameShape DEF FrameAt
  <2> QED BY <2>2, <2>3, <2>5 DEF s, n
<1>3. CASE event.vector \notin Replaced
  <2>1. s = <<n, Word("none", -1)>> \o CpuFrame
    BY <1>1, <1>3
    DEF intr_function_pointers, CompiledPointers, StubNoError
  <2>2. CpuFrame \in Seq(WordSet) /\ Len(CpuFrame) \in {5, 6}
    BY FrameShape
  <2> HIDE DEF s, n
  <2>3. /\ s \in Seq(WordSet) /\ Len(s) = 2 + Len(CpuFrame)
        /\ s[1] = n /\ s[2] = Word("none", -1)
        /\ \A i \in 1..5 : s[2 + i] = CpuFrame[i]
    BY <1>1, <2>1, <2>2, PushTwo, SMTT(30)
  <2>4. /\ s[3] = CpuFrame[1] /\ s[4] = CpuFrame[2] /\ s[5] = CpuFrame[3]
        /\ s[6] = CpuFrame[4] /\ s[7] = CpuFrame[5]
    BY <2>3
  <2>5. ~HasError => FrameAt(s, 3)
    BY <2>4, FrameShape DEF FrameAt
  <2>6. Len(s) >= 7
    BY <2>2, <2>3
  <2> QED BY <1>3, <2>3, <2>5, <2>6 DEF s, n
<1> QED BY <1>2, <1>3

-----------------------------------------------------------------------------
(* The initial state satisfies the invariant.                              *)
LEMMA InitInv == Init => VInv
<1> SUFFICES ASSUME Init PROVE VInv
  OBVIOUS
<1>1. /\ event = OfPayload("exception", DE, 0)
      /\ stack = <<>> /\ gs = "payload" /\ pc = "payload"
      /\ trap = [f \in Fields |-> Word("none", -1)]
      /\ served = [by |-> "none", vector |-> -1]
  BY DEF Init
<1>2. EventOK
  BY <1>1 DEF EventOK, Events, OfPayload, Kinds, AllVectors, DE
<1>3. TrapOK
  BY <1>1, <1>2, WordsTyped DEF TrapOK, Arrived
<1>4. TypeOK
  BY <1>1, <1>2, <1>3
  DEF TypeOK, EventOK, Events, TrapOK, WordSet, Handlers
<1>5. StackOK /\ HandlerOK
  BY <1>1 DEF StackOK, HandlerOK
<1> QED BY <1>2, <1>3, <1>4, <1>5 DEF VInv

(* A stack of words is typed.                                              *)
LEMMA StackTyped ==
  ASSUME NEW s \in Seq(WordSet)
  PROVE  \A i \in DOMAIN s :
           s[i].word \in Words /\ s[i].value \in -1..KKM_INTR_SYSCALL
<1>1. \A i \in DOMAIN s : s[i] \in WordSet
  OBVIOUS
<1> QED BY <1>1 DEF WordSet

(* An event of the processor is one of EventOK.                            *)
LEMMA DeliverEvent ==
  ASSUME NEW kind \in {"exception", "interrupt", "int"}, NEW v \in Vectors,
         NEW level \in {0, 3}, NEW swapped \in BOOLEAN, NEW low \in 0..3,
         Deliver(kind, v, level, swapped, low)
  PROVE  EventOK' /\ event'.kind # "syscall" /\ stack' = CpuFrame'
<1> DEFINE n == IF kind = "int" THEN IntVector(v) ELSE v
<1>1. /\ kind = "interrupt" => v >= 32
      /\ kind = "exception" => v < 32
      /\ kind = "int" => level = 3
      /\ level = 3 => swapped
      /\ event' = [kind |-> kind, vector |-> n, level |-> level,
                   swapped |-> swapped, low |-> low]
  BY DEF Deliver
<1>2. kind = "int" => n \in {BP, OF, GP}
  BY DEF IntVector, GateLevel, BP, OF, GP
<1>3. kind # "int" => n = v
  OBVIOUS
<1>4. v \in AllVectors
  BY VectorsAssumption
<1>5. stack' = (IF n \in PushesError /\ kind # "interrupt"
                  THEN <<Word("error", 0)>> ELSE <<>>) \o Frame(level, low)
  BY DEF Deliver
<1>i. kind = "int" => n = v \/ n = GP
  BY DEF IntVector
<1> HIDE DEF n
<1>6. n \in AllVectors
  BY <1>2, <1>3, <1>4 DEF AllVectors, BP, OF, GP
<1>7. /\ event'.kind = kind /\ event'.vector = n /\ event'.level = level
      /\ event'.low = low /\ event'.swapped = swapped
  BY <1>1
<1>8. EventOK'
  <2>1. event' \in Events
    BY <1>1, <1>6 DEF Kinds, Events
  <2>2. /\ kind = "interrupt" => n >= 32
        /\ kind = "exception" => n < 32
        /\ n \in Vectors \cup {GP, DE}
    BY <1>1, <1>i, <1>3
  <2> QED BY <1>1, <1>2, <1>7, <2>1, <2>2 DEF EventOK
<1>9. stack' = CpuFrame'
  BY <1>5, <1>7 DEF CpuFrame, HasError
<1> QED BY <1>7, <1>8, <1>9

(* Every step preserves the invariant.                                     *)
LEMMA StepInv == VInv /\ [Next]_vars => VInv'
<1> SUFFICES ASSUME VInv, [Next]_vars PROVE VInv'
  OBVIOUS
<1>a. TypeOK /\ EventOK /\ StackOK /\ TrapOK /\ HandlerOK
  BY DEF VInv
<1>b. /\ gs \in {"payload", "kernel"} /\ served.by \in Handlers
      /\ served.vector \in AllVectors \cup {-1}
  BY <1>a DEF TypeOK
<1>f. (EventOK => CpuFrame \in Seq(WordSet))'
  BY FrameShape, PTL
<1>w. (EventOK => Word("rip", event.low) \in WordSet)'
  BY WordsTyped, PTL
<1>1. CASE \E kind \in {"exception", "interrupt", "int"}, v \in Vectors,
              level \in {0, 3}, swapped \in BOOLEAN, low \in 0..3 :
             Deliver(kind, v, level, swapped, low)
  <2> PICK kind \in {"exception", "interrupt", "int"}, v \in Vectors,
           level \in {0, 3}, swapped \in BOOLEAN, low \in 0..3 :
             Deliver(kind, v, level, swapped, low)
    BY <1>1
  <2>1. EventOK' /\ event'.kind # "syscall" /\ stack' = CpuFrame'
    BY DeliverEvent
  <2>2. /\ pc' = "entry" /\ trap' = trap /\ served' = served
        /\ gs' = IF event'.swapped THEN "payload" ELSE "kernel"
    BY DEF Deliver
  <2>3. stack' \in Seq(WordSet)
    BY <1>f, <2>1 DEF WordSet, Words
  <2>4. TrapOK' /\ StackOK' /\ HandlerOK'
    BY <1>a, <2>1, <2>2 DEF TrapOK, StackOK, HandlerOK, Arrived
  <2>5. TypeOK'
    BY <1>a, <1>b, <2>1, <2>2, <2>3, StackTyped DEF TypeOK, EventOK, Events
  <2> QED BY <2>1, <2>4, <2>5 DEF VInv
<1>2. CASE Stub
  <2>1. /\ pc = "entry" /\ pc' = "common" /\ event' = event /\ gs' = gs
        /\ trap' = trap /\ served' = served
        /\ stack' = intr_function_pointers[event.vector] \o CpuFrame
        /\ event.kind # "syscall"
    BY <1>2, <1>a DEF Stub, StackOK
  <2>2. stack' \in Seq(WordSet)
    BY <1>a, <2>1, CommonShape
  <2>3. EventOK'
    BY <1>a, <2>1 DEF EventOK
  <2>4. TrapOK' /\ StackOK' /\ HandlerOK'
    BY <1>a, <2>1 DEF TrapOK, StackOK, HandlerOK, Arrived, CpuFrame, HasError
  <2>5. TypeOK'
    BY <1>a, <1>b, <2>1, <2>2, <2>3, StackTyped DEF TypeOK, EventOK, Events
  <2> QED BY <2>3, <2>4, <2>5 DEF VInv
<1>3. CASE Common
  <2>1. /\ pc = "common" /\ pc' = "host" /\ event' = event
        /\ stack' = stack /\ served' = served /\ SaveTrap
        /\ stack = intr_function_pointers[event.vector] \o CpuFrame
        /\ event.kind # "syscall" /\ gs' \in {"payload", "kernel"}
    BY <1>3, <1>a, <1>b DEF Common, StackOK, Swapgs
  <2>2. /\ stack \in Seq(WordSet) /\ Len(stack) >= 7
        /\ stack[1] = Word("number", event.vector)
    BY <1>a, <2>1, CommonShape
  <2>3. \A i \in 1..7 : stack[i] \in WordSet
    BY <2>2
  <2>4. trap' \in [Fields -> WordSet]
    <3> DEFINE T(f) == CASE f = "intr_no" -> stack[1] [] f = "error" -> stack[2]
                          [] f = "rip" -> stack[3] [] f = "cs" -> stack[4]
                          [] f = "rflags" -> stack[5] [] f = "rsp" -> stack[6]
                          [] f = "ss" -> stack[7]
    <3>1. trap' = [f \in Fields |-> T(f)]
      BY <2>1 DEF SaveTrap
    <3>2. ASSUME NEW f \in Fields
          PROVE  T(f) \in WordSet
      BY <2>3 DEF Fields
    <3> HIDE DEF T
    <3> QED BY <3>1, <3>2
  <2>5. trap'["intr_no"] = Word("number", event.vector)
    BY <2>1, <2>2 DEF SaveTrap, Fields
  <2>6. TrapOK'
    BY <2>1, <2>4, <2>5 DEF TrapOK, Number
  <2>7. EventOK' /\ StackOK' /\ HandlerOK'
    BY <1>a, <2>1 DEF EventOK, StackOK, HandlerOK
  <2>8. TypeOK'
    BY <1>a, <1>b, <2>1, <2>2, <2>4, <2>7, StackTyped
    DEF TypeOK, EventOK, Events, WordSet
  <2> QED BY <2>6, <2>7, <2>8 DEF VInv
<1>4. CASE \E low \in 0..3 : Syscall(low)
  <2> PICK low \in 0..3 : Syscall(low)
    BY <1>4
  <2>1. /\ pc' = "host" /\ gs' = "kernel" /\ served' = served
        /\ event' = OfPayload("syscall", 0, low)
        /\ stack' = <<Word("number", KKM_INTR_SYSCALL), Word("none", -1)>>
                      \o Frame(3, low)
        /\ trap' = [f \in Fields |->
             CASE f = "intr_no" -> Word("number", KKM_INTR_SYSCALL)
               [] f = "error"   -> Word("none", -1)
               [] f = "rip"     -> Word("rip", low) [] f = "cs"  -> Word("cs", 3)
               [] f = "rflags"  -> Word("rflags", 0)
               [] f = "rsp" -> Word("rsp", 0)
               [] f = "ss"      -> Word("ss", 0)]
    BY DEF Syscall, StubNoError
  <2>2. EventOK'
    BY <2>1 DEF EventOK, Events, OfPayload, Kinds, AllVectors
  <2>3. event'.kind = "syscall" /\ event'.vector = 0 /\ event'.level = 3
          /\ event'.low = low
    BY <2>1 DEF OfPayload
  <2>4. CpuFrame' \in Seq(WordSet) /\ CpuFrame' = <<>> \o Frame(3, low)
    <3>1. ~HasError'
      BY <2>3 DEF HasError, PushesError, DF, TS, NP, SS, GP, PF, AC, VC, SE
    <3> QED BY <1>f, <2>2, <2>3, <3>1 DEF CpuFrame, WordSet, Words
  <2>5. Frame(3, low) \in Seq(WordSet)
    <3>1. /\ Word("rip", low) \in WordSet /\ Word("cs", 3) \in WordSet
          /\ Word("rflags", 0) \in WordSet /\ Word("rsp", 0) \in WordSet
          /\ Word("ss", 0) \in WordSet
      BY DEF Word, WordSet, Words, KKM_INTR_SYSCALL
    <3> QED BY <3>1 DEF Frame
  <2>6. /\ Word("number", KKM_INTR_SYSCALL) \in WordSet
        /\ Word("none", -1) \in WordSet
    BY <1>a, WordsTyped
  <2>7. stack' \in Seq(WordSet)
    BY <2>1, <2>5, <2>6, PushTwo
  <2>8. trap' \in [Fields -> WordSet]
        /\ trap'["intr_no"] = Word("number", KKM_INTR_SYSCALL)
    <3>1. /\ Word("rip", low) \in WordSet /\ Word("cs", 3) \in WordSet
          /\ Word("rflags", 0) \in WordSet /\ Word("rsp", 0) \in WordSet
          /\ Word("ss", 0) \in WordSet
      BY DEF Word, WordSet, Words, KKM_INTR_SYSCALL
    <3> QED BY <2>1, <2>6, <3>1 DEF Fields
  <2>9. TrapOK' /\ StackOK' /\ HandlerOK'
    BY <2>1, <2>3, <2>8 DEF TrapOK, StackOK, HandlerOK, Number
  <2>10. TypeOK'
    BY <1>b, <2>1, <2>2, <2>7, <2>8, StackTyped
    DEF TypeOK, EventOK, Events, WordSet
  <2> QED BY <2>2, <2>9, <2>10 DEF VInv
<1>5. CASE kkm_process_intr
  <2>1. /\ pc = "host" /\ pc' = "served" /\ event' = event /\ stack' = stack
        /\ gs' = gs /\ trap' = trap
        /\ trap["intr_no"].value = Number
    BY <1>5, <1>a DEF kkm_process_intr, TrapOK, Arrived, Word
  <2>2. /\ served' = [by |-> HandlerOf(Number),
                      vector |-> IF HandlerOf(Number) = "forward"
                                   THEN intr_forward_pointers[Number] ELSE -1]
    BY <1>5, <2>1 DEF kkm_process_intr
  <2>3. Number' = Number
    BY <2>1 DEF Number
  <2>4. EventOK' /\ StackOK' /\ TrapOK' /\ HandlerOK'
    BY <1>a, <2>1, <2>2, <2>3
    DEF EventOK, StackOK, TrapOK, HandlerOK, Arrived
  <2>5. HandlerOf(Number) \in Handlers
    BY DEF HandlerOf, Handlers
  <2>6. HandlerOf(Number) = "forward" => Number \in AllVectors
    BY <1>a DEF HandlerOf, Number, EventOK, Events
  <2>7. HandlerOf(Number) = "forward" => intr_forward_pointers[Number] \in AllVectors
    BY <2>6 DEF intr_forward_pointers
  <2>8. served'.by \in Handlers /\ served'.vector \in AllVectors \cup {-1}
    BY <2>2, <2>5, <2>7
  <2>9. TypeOK'
    BY <1>a, <1>b, <2>1, <2>8 DEF TypeOK
  <2> QED BY <2>4, <2>9 DEF VInv
<1>6. CASE Resume
  <2>1. /\ event' = OfPayload("exception", DE, 0)
        /\ stack' = <<>> /\ gs' = "payload" /\ pc' = "payload"
        /\ trap' = [f \in Fields |-> Word("none", -1)]
        /\ served' = [by |-> "none", vector |-> -1]
    BY <1>6 DEF Resume
  <2>2. EventOK'
    BY <2>1 DEF EventOK, Events, OfPayload, Kinds, AllVectors, DE
  <2>3. TrapOK'
    BY <1>a, <2>1, WordsTyped DEF TrapOK, Arrived
  <2>4. TypeOK'
    BY <2>1, <2>2, <2>3 DEF TypeOK, EventOK, Events, TrapOK, WordSet, Handlers
  <2>5. StackOK' /\ HandlerOK'
    BY <2>1 DEF StackOK, HandlerOK
  <2> QED BY <2>2, <2>3, <2>4, <2>5 DEF VInv
<1>7. CASE UNCHANGED vars
  <2>1. /\ event' = event /\ stack' = stack /\ gs' = gs /\ trap' = trap
        /\ served' = served /\ pc' = pc
    BY <1>7 DEF vars
  <2>2. TypeOK' /\ EventOK'
    BY <1>a, <2>1 DEF TypeOK, EventOK, Events
  <2>3. StackOK'
    BY <1>a, <2>1 DEF StackOK, CpuFrame, HasError
  <2>4. TrapOK' /\ HandlerOK'
    BY <1>a, <2>1 DEF TrapOK, HandlerOK, Arrived, Number
  <2> QED BY <2>2, <2>3, <2>4 DEF VInv
<1> QED BY <1>1, <1>2, <1>3, <1>4, <1>5, <1>6, <1>7 DEF Next

(* The entry keeps its types for every set of vectors: whatever the stub   *)
(* of a vector pushes, the common entry finds seven words to take for the  *)
(* trap (kkm_guest_exit.S).                                                *)
THEOREM VectorsTypeCorrect == Spec => []TypeOK
<1>1. VInv => TypeOK
  BY DEF VInv
<1> QED BY InitInv, StepInv, <1>1, PTL DEF Spec

-----------------------------------------------------------------------------
(* With stubs that fit, what the driver takes for the trap is what the cpu *)
(* has pushed.                                                             *)
LEMMA EntryStep ==
  ASSUME Vectors \cap {21, 29} = {}
  PROVE  VInv /\ EntryRight /\ [Next]_vars => EntryRight'
<1> SUFFICES ASSUME VInv, EntryRight, [Next]_vars PROVE EntryRight'
  OBVIOUS
<1>a. EventOK /\ StackOK
  BY DEF VInv
<1>1. CASE Common
  <2>1. /\ pc = "common" /\ event' = event /\ SaveTrap
        /\ stack = intr_function_pointers[event.vector] \o CpuFrame
        /\ event.kind # "syscall"
        /\ gs' = IF LevelWord.value % 4 # 0 THEN Swapgs ELSE gs
        /\ gs = IF event.swapped THEN "payload" ELSE "kernel"
    BY <1>1, <1>a DEF Common, StackOK
  <2>2. /\ stack[1] = Word("number", event.vector)
        /\ stack[2] = IF HasError THEN Word("error", 0) ELSE Word("none", -1)
        /\ FrameAt(stack, 3)
    BY <1>a, <2>1, CommonShape, ReplacedFacts
  <2>3. /\ stack[3] = Word("rip", event.low)
        /\ stack[4] = Word("cs", event.level) /\ stack[5] = Word("rflags", 0)
        /\ stack[6] = Word("rsp", 0) /\ stack[7] = Word("ss", 0)
    BY <2>2 DEF FrameAt
  <2>4. /\ trap'["rip"] = stack[3] /\ trap'["cs"] = stack[4]
        /\ trap'["rflags"] = stack[5] /\ trap'["rsp"] = stack[6]
        /\ trap'["ss"] = stack[7] /\ trap'["intr_no"] = stack[1]
        /\ trap'["error"] = stack[2]
    BY <2>1 DEF SaveTrap, Fields
  <2>5. ~AtReturn' => gs' = "kernel"
    <3>1. LevelWord.value = event.level /\ event.level \in {0, 3}
      BY <1>a, <2>3 DEF LevelWord, Word, EventOK, Events
    <3>2. event.level % 4 # 0 <=> event.level = 3
      BY <3>1
    <3>3. CASE event.level = 3
      <4>1. event.swapped
        BY <1>a, <3>3 DEF EventOK
      <4> QED BY <2>1, <3>1, <3>2, <3>3, <4>1 DEF Swapgs
    <3>4. CASE event.level # 3
      <4>1. ~AtReturn' => ~event.swapped
        BY <2>1, <3>1, <3>4 DEF AtReturn
      <4> QED BY <2>1, <3>1, <3>2, <3>4, <4>1
    <3> QED BY <3>3, <3>4
  <2>6. FrameRight'
    <3>1. \A f \in Fields \ {"intr_no", "error"} : trap'[f].word = f
      BY <2>3, <2>4 DEF Fields, Word
    <3>2. trap'["error"].word = IF event.kind # "syscall" /\ HasError
                                  THEN "error" ELSE "none"
      BY <2>1, <2>2, <2>4 DEF Word
    <3>3. trap'["intr_no"] = Word("number", event.vector)
      BY <2>2, <2>4
    <3> QED BY <2>1, <3>1, <3>2, <3>3 DEF FrameRight, HasError
  <2> QED BY <2>5, <2>6 DEF EntryRight
<1>2. CASE \E low \in 0..3 : Syscall(low)
  <2> PICK low \in 0..3 : Syscall(low)
    BY <1>2
  <2>1. gs' = "kernel" /\ event'.kind = "syscall"
    BY DEF Syscall, OfPayload
  <2>2. /\ trap'["rip"] = Word("rip", low) /\ trap'["cs"] = Word("cs", 3)
        /\ trap'["rflags"] = Word("rflags", 0) /\ trap'["rsp"] = Word("rsp", 0)
        /\ trap'["ss"] = Word("ss", 0) /\ trap'["error"] = Word("none", -1)
        /\ trap'["intr_no"] = Word("number", KKM_INTR_SYSCALL)
    BY DEF Syscall, Fields
  <2>3. FrameRight'
    <3>1. \A f \in Fields \ {"intr_no", "error"} : trap'[f].word = f
      BY <2>2 DEF Fields, Word
    <3>2. trap'["error"].word = "none"
      BY <2>2 DEF Word
    <3> QED BY <2>1, <2>2, <3>1, <3>2 DEF FrameRight
  <2> QED BY <2>1, <2>3 DEF EntryRight
<1>3. CASE kkm_process_intr \/ UNCHANGED vars
  <2>1. /\ event' = event /\ gs' = gs /\ trap' = trap
        /\ Arrived' => Arrived
    BY <1>3 DEF kkm_process_intr, vars, Arrived
  <2> QED BY <2>1 DEF EntryRight, FrameRight, HasError, AtReturn
<1>4. CASE \/ Stub \/ Resume
           \/ \E kind \in {"exception", "interrupt", "int"}, v \in Vectors,
                 level \in {0, 3}, swapped \in BOOLEAN, low \in 0..3 :
                Deliver(kind, v, level, swapped, low)
  <2>1. pc' \notin {"host", "served"}
    BY <1>4 DEF Stub, Resume, Deliver
  <2> QED BY <2>1 DEF EntryRight, Arrived
<1> QED BY <1>1, <1>2, <1>3, <1>4 DEF Next

(* The trap that the host kernel looks at is the one that happened, for    *)
(* every event and every set of the vectors whose stubs fit (kkm_idt.c:148)*)
(* and gs is its own, for every event that does not come between the       *)
(* swapgs of the return to the payload and the payload.                    *)
THEOREM EntryCorrect ==
  ASSUME Vectors \cap {21, 29} = {}
  PROVE  Spec => []EntryRight
<1>1. Init => EntryRight
  BY DEF Init, EntryRight, Arrived
<1> QED BY <1>1, InitInv, StepInv, EntryStep, PTL DEF Spec

(* What is served is right wherever the invariant holds.                   *)
LEMMA ServedFact ==
  ASSUME Vectors \cap {21, 29} = {}
  PROVE  VInv => ServedRight
<1> SUFFICES ASSUME VInv, pc = "served" PROVE ServedRight
  BY DEF ServedRight
<1>1. /\ EventOK
      /\ served.by = HandlerOf(Number)
      /\ served.vector = IF HandlerOf(Number) = "forward"
                           THEN intr_forward_pointers[Number] ELSE -1
  BY DEF VInv, HandlerOK
<1> DEFINE n == event.vector
<1>2. CASE event.kind = "syscall"
  <2>1. served.by = "syscall"
    BY <1>1, <1>2 DEF Number, HandlerOf, WithError, WithoutError, DE, DB, NMI,
       BP, OF, BR, UD, NM, DF, OLD_MF, TS, NP, SS, GP, PF, SPURIOUS, MF, AC,
       MC, XF, VC, SE, KKM_INTR_SYSCALL
  <2> QED BY <1>2, <2>1 DEF ServedRight
<1>3. CASE event.kind # "syscall"
  <2>1. /\ Number = n /\ n \in AllVectors /\ n # KKM_INTR_SYSCALL
        /\ n \in Vectors \cup {GP, DE}
        /\ n \notin {21, 29}
    BY <1>1, <1>3
    DEF Number, EventOK, Events, AllVectors, KKM_INTR_SYSCALL, GP, DE
  <2>2. served.by = "forward" =>
          /\ served.vector = n
          /\ n \notin PushesError \cup {BP, OF, GP}
    <3>1. served.by = "forward" => served.vector = n
      BY <1>1, <2>1 DEF intr_forward_pointers
    <3>2. HandlerOf(n) = "forward" => n \notin PushesError \cup {BP, OF, GP}
      BY <2>1 DEF HandlerOf, PushesError, WithError, WithoutError, DE, DB, NMI,
         BP, OF, BR, UD, NM, DF, OLD_MF, TS, NP, SS, GP, PF, SPURIOUS, MF, AC,
         MC, XF, VC, SE
    <3> QED BY <1>1, <2>1, <3>1, <3>2
  <2>3. n >= 32 => served.by = "forward"
    BY <1>1, <2>1 DEF HandlerOf, WithError, WithoutError, DE, DB, NMI,
         BP, OF, BR, UD, NM, DF, OLD_MF, TS, NP, SS, GP, PF, SPURIOUS, MF, AC,
         MC, XF, VC, SE, KKM_INTR_SYSCALL
  <2>4. served.by = "with_error" => n \in PushesError /\ n < 32
    BY <1>1, <2>1 DEF HandlerOf, PushesError, WithError, WithoutError, DE, DB,
         NMI, BP, OF, BR, UD, NM, DF, OLD_MF, TS, NP, SS, GP, PF, SPURIOUS, MF,
         AC, MC, XF, VC, SE
  <2>5. served.by = "without_error" => n \notin PushesError
    BY <1>1, <2>1 DEF HandlerOf, PushesError, WithError, WithoutError, DE, DB,
         NMI, BP, OF, BR, UD, NM, DF, OLD_MF, TS, NP, SS, GP, PF, SPURIOUS, MF,
         AC, MC, XF, VC, SE
  <2>6. n \in {BP, OF, GP} =>
          served.by \in {"breakpoint", "without_error", "general_protection"}
    BY <1>1, <2>1 DEF HandlerOf, WithError, WithoutError, DE, DB, NMI, BP, OF,
         BR, UD, NM, DF, OLD_MF, TS, NP, SS, GP, PF, SPURIOUS, MF, AC, MC, XF,
         VC, SE, KKM_INTR_SYSCALL
  <2>7. /\ event.kind = "interrupt" => n >= 32
        /\ event.kind = "int" => n \in {BP, OF, GP}
    BY <1>1 DEF EventOK
  <2> HIDE DEF n
  <2>8. served.by = "with_error" => event.kind # "interrupt"
    BY <2>3, <2>7
  <2> QED BY <2>2, <2>3, <2>4, <2>5, <2>6, <2>7, <2>8
      DEF ServedRight, HasError, n
<1> QED BY <1>2, <1>3

(* The host's handler runs for the interrupt that came and for no          *)
(* exception with an error code, an exception is passed on with the frame  *)
(* it has, and no int instruction reaches the host (kkm_process_intr): for *)
(* every set of the vectors whose stubs fit.                               *)
THEOREM ServedCorrect ==
  ASSUME Vectors \cap {21, 29} = {}
  PROVE  Spec => []ServedRight
<1>1. VInv => ServedRight
  BY ServedFact
<1> QED BY <1>1, InitInv, StepInv, PTL DEF Spec
=============================================================================
