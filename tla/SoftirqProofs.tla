---------------------------- MODULE SoftirqProofs ----------------------------
(***************************************************************************)
(* Proofs about Softirq, for any set of softirqs and any nesting bound.    *)
(*                                                                         *)
(* The inductive invariant describes the stack (one __do_softirq at most,  *)
(* an interrupt handler only on top), ties preempt_count to it, and says   *)
(* who takes care of pending softirqs in every state.                      *)
(***************************************************************************)
EXTENDS Softirq, TLAPS

HasSoftirq(s) == \E i \in 1..Len(s) : IsSoftirq(s[i])

Looping(s) == \E i \in 1..Len(s) : s[i].pc = "loop"

HandlerOnTop(s) == s # <<>> /\ s[1].pc = "handler"

\* The frames of a stack s.
Frames(s) ==
  /\ s \in Seq(Frame)
  /\ \A i \in 1..Len(s) :
       /\ IsSoftirq(s[i]) => s[i].left >= 1
       /\ s[i].pc = "action" => s[i].prev = 1
       /\ s[i].pc = "handler" => i = 1
  /\ \A i, j \in 1..Len(s) : IsSoftirq(s[i]) /\ IsSoftirq(s[j]) => i = j

\* preempt_count.
Counts ==
  /\ hardirq = IF HandlerOnTop(stack) THEN 1 ELSE 0
  /\ ~HasSoftirq(stack) => softirq = 2 * held
  /\ HasSoftirq(stack) => held = 0 /\ \E k \in Nat : softirq = 2 * k + 1
  /\ Looping(stack) => softirq = 1
  /\ preempt = (IF taskpc = "run" THEN 0 ELSE 1) + (IF kspc = "check" THEN 1 ELSE 0)

\* The two threads.
Threads ==
  /\ current = "ksoftirqd" => held = 0 /\ ksonrq /\ taskpc = "run"
  /\ current = "task" => kspc # "check"
  /\ ksstate = "RUNNING" => ksonrq

\* ksoftirqd will find what is pending.
OnItsWay == ksonrq /\ (ksstate = "RUNNING" \/ kspc \in {"preempt_disable", "check"})

\* Pending softirqs are left to irq_exit, to the running __do_softirq, to
\* local_bh_enable or to ksoftirqd.
Cared ==
  \/ pending = {} \/ OnItsWay
  \/ HandlerOnTop(stack) \/ HasSoftirq(stack)
  \/ held > 0 \/ taskpc \in {"bh_check", "bh_do"}

Types ==
  /\ pending \subseteq SOFTIRQS
  /\ hardirq \in Nat /\ softirq \in Nat /\ preempt \in Nat
  /\ current \in {"task", "ksoftirqd"}
  /\ taskpc \in {"run", "bh_check", "bh_do", "bh_dec"}
  /\ held \in 0..MaxBh
  /\ kspc \in {"loop", "preempt_disable", "check", "schedule", "run"}
  /\ ksstate \in {"RUNNING", "INTERRUPTIBLE"}
  /\ ksonrq \in BOOLEAN
  /\ force_irqthreads \in BOOLEAN

SoftirqInv == Types /\ Frames(stack) /\ Counts /\ Threads /\ Cared

-----------------------------------------------------------------------------
(* Stacks *)

\* An interrupt frame on top of a stack without handler on top.
LEMMA PushIrq ==
  ASSUME NEW s, Frames(s), ~HandlerOnTop(s), NEW l \in {"handler", "return"}
  PROVE  LET t == <<IrqFrame(l)>> \o s
         IN  /\ Frames(t)
             /\ HasSoftirq(t) <=> HasSoftirq(s)
             /\ Looping(t) <=> Looping(s)
             /\ HandlerOnTop(t) <=> l = "handler"
             /\ t # <<>> /\ t[1].pc = l
             /\ Head(t) = IrqFrame(l)
<1> DEFINE t == <<IrqFrame(l)>> \o s
<1>1. IrqFrame(l) \in Frame /\ ~IsSoftirq(IrqFrame(l)) /\ IrqFrame(l).pc = l
  BY SoftirqAssumption DEF IrqFrame, Frame, IsSoftirq
<1>2. /\ t \in Seq(Frame) /\ Len(t) = Len(s) + 1 /\ t[1] = IrqFrame(l)
      /\ \A i \in 1..Len(s) : t[i + 1] = s[i]
      /\ \A i \in 2..Len(t) : i - 1 \in 1..Len(s) /\ t[i] = s[i - 1]
      /\ t # <<>> /\ Head(t) = IrqFrame(l)
  BY <1>1 DEF Frames
<1>3. \A i \in 1..Len(s) : i + 1 \in 1..Len(t)
  BY <1>2 DEF Frames
<1>4. Len(s) \in Nat /\ \A i \in 1..Len(s) : s[i].pc # "handler"
  BY DEF Frames, HandlerOnTop
<1> HIDE DEF t
<1>5. \A i \in 1..Len(t) : i = 1 \/ i \in 2..Len(t)
  BY <1>2, <1>4
<1>6. (HasSoftirq(t) <=> HasSoftirq(s)) /\ (Looping(t) <=> Looping(s))
  <2>1. HasSoftirq(s) => HasSoftirq(t)
    BY <1>2, <1>3 DEF HasSoftirq
  <2>2. HasSoftirq(t) => HasSoftirq(s)
    BY <1>1, <1>2, <1>5 DEF HasSoftirq
  <2>3. Looping(s) => Looping(t)
    BY <1>2, <1>3 DEF Looping
  <2>4. Looping(t) => Looping(s)
    BY <1>1, <1>2, <1>5 DEF Looping
  <2> QED
    BY <2>1, <2>2, <2>3, <2>4
<1>7. Frames(t)
  <2>1. \A i \in 1..Len(t) : /\ IsSoftirq(t[i]) => t[i].left >= 1
                             /\ t[i].pc = "action" => t[i].prev = 1
                             /\ t[i].pc = "handler" => i = 1
    BY <1>1, <1>2, <1>4, <1>5 DEF Frames
  <2>2. \A i, j \in 1..Len(t) : IsSoftirq(t[i]) /\ IsSoftirq(t[j]) => i = j
    <3> SUFFICES ASSUME NEW i \in 1..Len(t), NEW j \in 1..Len(t), IsSoftirq(t[i]), IsSoftirq(t[j])
                 PROVE  i - 1 = j - 1
      BY <1>2, <1>4
    <3>1. /\ i - 1 \in 1..Len(s) /\ j - 1 \in 1..Len(s)
          /\ IsSoftirq(s[i - 1]) /\ IsSoftirq(s[j - 1])
      BY <1>1, <1>2, <1>5
    <3> QED
      BY <3>1 DEF Frames
  <2> QED
    BY <1>2, <2>1, <2>2 DEF Frames
<1> QED
  BY <1>1, <1>2, <1>6, <1>7 DEF HandlerOnTop, t

\* __do_softirq on top of a stack without one.
LEMMA PushSoftirq ==
  ASSUME NEW s, Frames(s), ~HandlerOnTop(s), ~HasSoftirq(s), NEW p \in SUBSET SOFTIRQS
  PROVE  LET t == <<SoftirqFrame(p, MAX_SOFTIRQ_RESTART)>> \o s
         IN  Frames(t) /\ HasSoftirq(t) /\ ~HandlerOnTop(t)
<1> DEFINE f == SoftirqFrame(p, MAX_SOFTIRQ_RESTART)
           t == <<f>> \o s
<1>1. f \in Frame /\ IsSoftirq(f) /\ f.pc = "loop" /\ f.left >= 1
  BY SoftirqAssumption DEF SoftirqFrame, Frame, IsSoftirq
<1> HIDE DEF f
<1>2. /\ t \in Seq(Frame) /\ Len(t) = Len(s) + 1 /\ t[1] = f /\ t # <<>>
      /\ \A i \in 2..Len(t) : i - 1 \in 1..Len(s) /\ t[i] = s[i - 1]
  BY <1>1 DEF Frames
<1>3. Len(s) \in Nat /\ \A i \in 1..Len(s) : s[i].pc # "handler"
  BY DEF Frames, HandlerOnTop
<1> HIDE DEF t
<1>4. HasSoftirq(t) /\ ~HandlerOnTop(t)
  BY <1>1, <1>2, <1>3 DEF HasSoftirq, HandlerOnTop
<1>5. \A i \in 2..Len(t) : ~IsSoftirq(t[i]) /\ t[i].pc # "handler"
  BY <1>2, <1>3 DEF HasSoftirq
<1>6. Frames(t)
  BY <1>1, <1>2, <1>3, <1>5 DEF Frames, IsSoftirq
<1> QED
  BY <1>4, <1>6 DEF t, f

\* A context is left.
LEMMA Pop ==
  ASSUME NEW s, Frames(s), s # <<>>
  PROVE  /\ Frames(Tail(s)) /\ ~HandlerOnTop(Tail(s))
         /\ IsSoftirq(s[1]) => ~HasSoftirq(Tail(s)) /\ ~Looping(Tail(s))
         /\ ~IsSoftirq(s[1]) => /\ HasSoftirq(Tail(s)) <=> HasSoftirq(s)
                                /\ Looping(Tail(s)) <=> Looping(s)
<1> DEFINE t == Tail(s)
<1>1. /\ t \in Seq(Frame) /\ Len(t) = Len(s) - 1 /\ Len(s) \in Nat /\ Len(s) >= 1
      /\ \A i \in 1..Len(t) : i + 1 \in 1..Len(s) /\ t[i] = s[i + 1]
      /\ \A i \in 2..Len(s) : i - 1 \in 1..Len(t) /\ t[i - 1] = s[i]
  BY DEF Frames
<1> HIDE DEF t
<1>2. Frames(t)
  <2>1. \A i \in 1..Len(t) : /\ IsSoftirq(t[i]) => t[i].left >= 1
                             /\ t[i].pc = "action" => t[i].prev = 1
                             /\ t[i].pc # "handler"
    <3> SUFFICES ASSUME NEW i \in 1..Len(t)
                 PROVE  /\ IsSoftirq(t[i]) => t[i].left >= 1
                        /\ t[i].pc = "action" => t[i].prev = 1
                        /\ t[i].pc # "handler"
      OBVIOUS
    <3>1. i + 1 \in 1..Len(s) /\ t[i] = s[i + 1] /\ i + 1 # 1
      BY <1>1
    <3> QED
      BY <3>1 DEF Frames
  <2>2. \A i, j \in 1..Len(t) : IsSoftirq(t[i]) /\ IsSoftirq(t[j]) => i = j
    <3> SUFFICES ASSUME NEW i \in 1..Len(t), NEW j \in 1..Len(t), IsSoftirq(t[i]), IsSoftirq(t[j])
                 PROVE  i + 1 = j + 1
      BY <1>1
    <3>1. /\ i + 1 \in 1..Len(s) /\ j + 1 \in 1..Len(s)
          /\ IsSoftirq(s[i + 1]) /\ IsSoftirq(s[j + 1])
      BY <1>1
    <3> QED
      BY <3>1 DEF Frames
  <2> QED
    BY <1>1, <2>1, <2>2 DEF Frames
<1>3. ~HandlerOnTop(t)
  <2>1. t # <<>> => 1 \in 1..Len(t)
    BY <1>1
  <2> QED
    BY <1>1, <2>1 DEF Frames, HandlerOnTop
<1>4. IsSoftirq(s[1]) => ~HasSoftirq(t) /\ ~Looping(t)
  <2>1. ASSUME IsSoftirq(s[1]), NEW i \in 1..Len(t) PROVE ~IsSoftirq(t[i])
    <3>1. 1 \in 1..Len(s) /\ i + 1 \in 1..Len(s) /\ t[i] = s[i + 1] /\ i + 1 # 1
      BY <1>1
    <3> QED
      BY <2>1, <3>1 DEF Frames
  <2> QED
    BY <2>1 DEF HasSoftirq, Looping, IsSoftirq
<1>5. ASSUME ~IsSoftirq(s[1])
      PROVE  (HasSoftirq(t) <=> HasSoftirq(s)) /\ (Looping(t) <=> Looping(s))
  <2>0. \A i \in 1..Len(s) : i = 1 \/ i \in 2..Len(s)
    BY <1>1
  <2>1. HasSoftirq(s) => HasSoftirq(t)
    BY <1>1, <1>5, <2>0 DEF HasSoftirq
  <2>2. HasSoftirq(t) => HasSoftirq(s)
    BY <1>1 DEF HasSoftirq
  <2>3. Looping(s) => Looping(t)
    BY <1>1, <1>5, <2>0 DEF Looping, IsSoftirq
  <2>4. Looping(t) => Looping(s)
    BY <1>1 DEF Looping
  <2> QED
    BY <2>1, <2>2, <2>3, <2>4
<1> QED
  BY <1>2, <1>3, <1>4, <1>5 DEF t

\* __do_softirq goes from one of its frames to another.
LEMMA Retop ==
  ASSUME NEW s, Frames(s), s # <<>>, IsSoftirq(s[1]), NEW f \in Frame, IsSoftirq(f),
         f.left >= 1, f.pc = "action" => f.prev = 1
  PROVE  LET t == [s EXCEPT ![1] = f]
         IN  /\ Frames(t) /\ HasSoftirq(t) /\ HasSoftirq(s)
             /\ ~HandlerOnTop(t) /\ ~HandlerOnTop(s)
             /\ Looping(t) <=> f.pc = "loop"
             /\ Looping(s) <=> s[1].pc = "loop"
<1> DEFINE t == [s EXCEPT ![1] = f]
<1>1. /\ t \in Seq(Frame) /\ Len(t) = Len(s) /\ Len(s) \in Nat /\ 1 \in 1..Len(s)
      /\ t[1] = f /\ \A i \in 2..Len(s) : t[i] = s[i]
  BY DEF Frames
<1>2. \A i \in 2..Len(s) : ~IsSoftirq(s[i])
  BY <1>1 DEF Frames
<1> HIDE DEF t
<1>3. Frames(t)
  <2>1. \A i \in 1..Len(t) : (i = 1 /\ t[i] = f) \/ (i \in 2..Len(s) /\ i \in 1..Len(s) /\ t[i] = s[i])
    BY <1>1
  <2>2. ASSUME NEW i \in 1..Len(t)
        PROVE  /\ IsSoftirq(t[i]) => t[i].left >= 1
               /\ t[i].pc = "action" => t[i].prev = 1
               /\ t[i].pc = "handler" => i = 1
    <3>1. CASE i = 1 /\ t[i] = f
      BY <3>1
    <3>2. CASE i \in 1..Len(s) /\ t[i] = s[i]
      BY <3>2, Zenon DEF Frames
    <3> QED
      BY <2>1, <3>1, <3>2, Zenon
  <2>3. ASSUME NEW i \in 1..Len(t), IsSoftirq(t[i])
        PROVE  i = 1
    BY <1>2, <2>1, <2>3, Zenon
  <2> QED
    BY <1>1, <2>2, <2>3, Zenon DEF Frames
<1>4. HasSoftirq(t) /\ HasSoftirq(s) /\ ~HandlerOnTop(t) /\ ~HandlerOnTop(s)
  BY <1>1 DEF HasSoftirq, HandlerOnTop, IsSoftirq
<1>5. \A i \in 1..Len(s) : i = 1 \/ i \in 2..Len(s)
  BY <1>1
<1>6. (Looping(t) <=> f.pc = "loop") /\ (Looping(s) <=> s[1].pc = "loop")
  BY <1>1, <1>2, <1>5 DEF Looping, IsSoftirq
<1> QED
  BY <1>3, <1>4, <1>6 DEF t

-----------------------------------------------------------------------------
(* The steps *)

LEMMA TopIsFirst ==
  ASSUME Frames(stack), stack # <<>>
  PROVE  Top = stack[1] /\ Top \in Frame /\ 1 \in 1..Len(stack)
  BY DEF Frames, Top

LEMMA EmptyStack ==
  ASSUME Frames(stack), stack = <<>>
  PROVE  ~HasSoftirq(stack) /\ ~Looping(stack) /\ ~HandlerOnTop(stack)
  BY DEF HasSoftirq, Looping, HandlerOnTop

\* wakeup_softirqd puts ksoftirqd on its way.
LEMMA WakeUp ==
  ASSUME Types, Threads, wakeup_softirqd
  PROVE  ksstate' = "RUNNING" /\ ksonrq' = TRUE
<1>1. ksonrq' <=> (ksonrq \/ ksstate # "RUNNING")
  BY DEF wakeup_softirqd
<1>2. ksonrq' \in BOOLEAN
  BY DEF wakeup_softirqd
<1> QED
  BY <1>1, <1>2 DEF wakeup_softirqd, Types, Threads

LEMMA RaiseStep ==
  ASSUME SoftirqInv, NEW nr \in SOFTIRQS, RaiseSoftirq(nr)
  PROVE  SoftirqInv'
<1>0. wakeup_softirqd => ksstate' = "RUNNING" /\ ksonrq' = TRUE
  BY WakeUp DEF SoftirqInv
<1>1. Types'
  BY <1>0 DEF RaiseSoftirq, SoftirqInv, Types
<1>2. Frames(stack)' /\ Counts'
  BY DEF RaiseSoftirq, SoftirqInv, Counts
<1>3. Threads'
  BY <1>0 DEF RaiseSoftirq, SoftirqInv, Threads
<1>4. Cared'
  <2>1. CASE InTask /\ taskpc = "run"
    <3>1. ~HasSoftirq(stack) /\ ~HandlerOnTop(stack)
      BY <2>1, EmptyStack DEF InTask, SoftirqInv
    <3>2. CASE held = 0
      <4>1. ~in_interrupt
        BY <3>1, <3>2 DEF in_interrupt, SoftirqInv, Counts
      <4> QED
        BY <1>0, <4>1 DEF RaiseSoftirq, Cared, OnItsWay
    <3> QED
      BY <3>2 DEF RaiseSoftirq, Cared, SoftirqInv, Types
  <2>2. CASE InAction
    BY <2>2, TopIsFirst DEF InAction, RaiseSoftirq, Cared, SoftirqInv, HasSoftirq, IsSoftirq
  <2>3. CASE InHandler
    BY <2>3, TopIsFirst DEF InHandler, RaiseSoftirq, Cared, SoftirqInv, HandlerOnTop
  <2> QED
    BY <2>1, <2>2, <2>3 DEF RaiseSoftirq
<1> QED
  BY <1>1, <1>2, <1>3, <1>4 DEF SoftirqInv

\* Sections with bottom halves disabled, of the task and of a handler.
LEMMA BhDisableStep ==
  ASSUME SoftirqInv, BhDisable \/ BhEnable \/ ActionBhDisable \/ ActionBhEnable
  PROVE  SoftirqInv'
<1>1. CASE BhDisable \/ BhEnable
  <2>1. ~HasSoftirq(stack) /\ ~Looping(stack) /\ softirq = 2 * held
    BY <1>1, EmptyStack DEF BhDisable, BhEnable, InTask, SoftirqInv, Counts
  <2>2. Types'
    <3>1. CASE BhDisable
      BY <2>1, <3>1, SoftirqAssumption DEF BhDisable, SoftirqInv, Types, SOFTIRQ_DISABLE_OFFSET
    <3>2. CASE BhEnable
      BY <2>1, <3>2, SoftirqAssumption DEF BhEnable, SoftirqInv, Types, SOFTIRQ_DISABLE_OFFSET
    <3> QED
      BY <1>1, <3>1, <3>2
  <2>5. Threads' /\ Frames(stack)'
    BY <1>1, <2>1 DEF BhDisable, BhEnable, InTask, SoftirqInv, Threads
  <2>3. Counts'
    BY <1>1, <2>1 DEF BhDisable, BhEnable, InTask, SoftirqInv, Types, Counts, SOFTIRQ_DISABLE_OFFSET
  <2>4. Cared'
    BY <1>1 DEF BhDisable, BhEnable, SoftirqInv, Types, Cared
  <2> QED
    BY <2>2, <2>3, <2>4, <2>5 DEF SoftirqInv
<1>2. CASE ActionBhDisable \/ ActionBhEnable
  <2>1. /\ UNCHANGED <<pending, stack, hardirq, preempt, current, taskpc, held,
                       kspc, ksstate, ksonrq, force_irqthreads>>
        /\ stack # <<>> /\ stack[1].pc = "action" /\ 1 \in 1..Len(stack)
    BY <1>2, TopIsFirst DEF ActionBhDisable, ActionBhEnable, InAction, SoftirqInv
  <2>2. HasSoftirq(stack) /\ stack[1].prev = 1
    BY <2>1 DEF HasSoftirq, IsSoftirq, SoftirqInv, Frames
  <2>3. ~Looping(stack)
    BY <2>1 DEF Looping, SoftirqInv, Frames, IsSoftirq
  <2>4. \E k \in Nat : softirq' = 2 * k + 1
    <3>1. PICK k \in Nat : softirq = 2 * k + 1
      BY <2>2 DEF SoftirqInv, Counts
    <3>2. CASE ActionBhDisable
      <4>1. softirq' = 2 * (k + 1) + 1
        BY <3>1, <3>2 DEF ActionBhDisable, SOFTIRQ_DISABLE_OFFSET
      <4> QED
        BY <4>1
    <3>3. CASE ActionBhEnable
      <4>1. softirq' = 2 * (k - 1) + 1 /\ k > 0
        BY <2>2, <3>1, <3>3, TopIsFirst DEF ActionBhEnable, InAction, SOFTIRQ_DISABLE_OFFSET,
           SoftirqInv
      <4> QED
        BY <4>1
    <3> QED
      BY <1>2, <3>2, <3>3
  <2>5. softirq' \in Nat
    BY <2>4
  <2> QED
    BY <2>1, <2>2, <2>3, <2>4, <2>5 DEF SoftirqInv, Types, Counts, Threads, Cared, OnItsWay
<1> QED
  BY <1>1, <1>2

\* __do_softirq is entered from a stack without one.
LEMMA EnterStep ==
  ASSUME SoftirqInv, NEW s, Frames(s), ~HasSoftirq(s), ~HandlerOnTop(s),
         softirq = 0, ~HasSoftirq(stack), EnterDoSoftirq(s)
  PROVE  /\ Frames(stack') /\ HasSoftirq(stack') /\ ~HandlerOnTop(stack')
         /\ pending' = {} /\ softirq' = 1 /\ held = 0
<1>1. held = 0
  BY DEF SoftirqInv, Counts, Types
<1>2. pending \in SUBSET SOFTIRQS
  BY DEF SoftirqInv, Types
<1> QED
  BY <1>1, <1>2, PushSoftirq DEF EnterDoSoftirq, SOFTIRQ_OFFSET

\* The rest of local_bh_enable.
LEMMA BhEnableSteps ==
  ASSUME SoftirqInv, BhEnableStep
  PROVE  SoftirqInv'
<1>1. /\ ~HasSoftirq(stack) /\ ~Looping(stack) /\ ~HandlerOnTop(stack)
      /\ softirq = 2 * held /\ hardirq = 0 /\ current = "task" /\ held \in Nat
  BY EmptyStack, SoftirqAssumption
     DEF BhEnableStep, BhCheck, BhDoSoftirq, BhDone, InTask, SoftirqInv, Counts, Types
<1>2. CASE BhCheck
  <2>1. taskpc' = "bh_dec" => held > 0 \/ pending = {}
    BY <1>1, <1>2 DEF BhCheck, in_interrupt
  <2>2. taskpc' \in {"bh_do", "bh_dec"} /\ taskpc = "bh_check"
    BY <1>2 DEF BhCheck
  <2> QED
    BY <1>1, <1>2, <2>1, <2>2 DEF BhCheck, SoftirqInv, Types, Counts, Threads, Cared, OnItsWay
<1>3. CASE BhDoSoftirq
  <2>0. /\ taskpc = "bh_do" /\ taskpc' = "bh_dec"
        /\ UNCHANGED <<hardirq, preempt, current, held, kspc, ksstate, ksonrq, force_irqthreads>>
    BY <1>3 DEF BhDoSoftirq
  <2>1. CASE ~in_interrupt /\ EnterDoSoftirq(stack)
    <3>1. softirq = 0
      BY <1>1, <2>1 DEF in_interrupt
    <3>2. /\ Frames(stack') /\ HasSoftirq(stack') /\ ~HandlerOnTop(stack')
          /\ pending' = {} /\ softirq' = 1 /\ held = 0
      BY <1>1, <2>1, <3>1, EnterStep DEF SoftirqInv
    <3>3. \E k \in Nat : softirq' = 2 * k + 1
      <4>1. softirq' = 2 * 0 + 1
        BY <3>2
      <4> QED
        BY <4>1
    <3> QED
      BY <1>1, <2>0, <3>2, <3>3 DEF SoftirqInv, Types, Counts, Threads, Cared
  <2>2. CASE /\ in_interrupt \/ pending = {} \/ ksoftirqd_running(pending)
             /\ UNCHANGED <<pending, stack, softirq>>
    <3>1. held > 0 \/ pending = {} \/ ksstate = "RUNNING"
      BY <1>1, <2>2 DEF in_interrupt, ksoftirqd_running
    <3> QED
      BY <1>1, <2>0, <2>2, <3>1 DEF SoftirqInv, Types, Counts, Threads, Cared, OnItsWay
  <2> QED
    BY <1>3, <2>1, <2>2 DEF BhDoSoftirq
<1>4. CASE BhDone
  BY <1>1, <1>4 DEF BhDone, SoftirqInv, Types, Counts, Threads, Cared, OnItsWay
<1> QED
  BY <1>2, <1>3, <1>4 DEF BhEnableStep

\* __do_softirq between its entry and its return.
LEMMA ActionStep ==
  ASSUME SoftirqInv, ActionReturn \/ \E nr \in SOFTIRQS : Action(nr)
  PROVE  SoftirqInv'
<1>0. stack # <<>> /\ IsSoftirq(stack[1]) /\ stack[1] \in Frame /\ 1 \in 1..Len(stack)
  BY TopIsFirst DEF ActionReturn, Action, InAction, IsSoftirq, SoftirqInv
<1> DEFINE Retopped(f) == /\ stack' = [stack EXCEPT ![1] = f]
                          /\ IsSoftirq(f) /\ f.left >= 1 /\ (f.pc = "action" => f.prev = 1)
                          /\ f.pc = "loop" => softirq' = 1
                          /\ softirq' \in Nat /\ \E k \in Nat : softirq' = 2 * k + 1
<1>1. PICK f \in Frame : Retopped(f)
  <2>1. CASE ActionReturn
    <3> DEFINE f == [stack[1] EXCEPT !.pc = "loop", !.nr = 0, !.prev = 0]
    <3>1. f \in Frame /\ IsSoftirq(f) /\ f.left = stack[1].left /\ f.pc = "loop"
      BY <1>0 DEF Frame, IsSoftirq
    <3>2. stack[1].left >= 1 /\ stack[1].prev = 1
      BY <1>0, <2>1, TopIsFirst DEF ActionReturn, InAction, SoftirqInv, Frames
    <3>3. softirq' = 1 /\ stack' = [stack EXCEPT ![1] = f]
      BY <1>0, <2>1, <3>2, TopIsFirst DEF ActionReturn, SoftirqInv
    <3>4. softirq' = 2 * 0 + 1
      BY <3>3
    <3>5. \E k \in Nat : softirq' = 2 * k + 1
      BY <3>4
    <3> HIDE DEF f
    <3> QED
      BY <3>1, <3>2, <3>3, <3>5
  <2>2. ASSUME NEW nr \in SOFTIRQS, Action(nr)
        PROVE  \E f \in Frame : Retopped(f)
    <3> DEFINE f == [stack[1] EXCEPT !.pc = "action", !.nr = nr,
                                     !.todo = stack[1].todo \ {nr}, !.prev = softirq]
    <3>1. stack[1].pc = "loop" /\ softirq' = softirq /\ stack' = [stack EXCEPT ![1] = f]
      BY <1>0, <2>2, TopIsFirst DEF Action, SoftirqInv
    <3>2. softirq = 1 /\ stack[1].left >= 1
      BY <1>0, <3>1 DEF SoftirqInv, Counts, Looping, Frames
    <3>3. f \in Frame /\ IsSoftirq(f) /\ f.left = stack[1].left /\ f.pc = "action" /\ f.prev = 1
      BY <1>0, <3>2 DEF Frame, IsSoftirq
    <3>4. softirq' = 2 * 0 + 1
      BY <3>1, <3>2
    <3>5. \E k \in Nat : softirq' = 2 * k + 1
      BY <3>4
    <3> HIDE DEF f
    <3> QED
      BY <3>1, <3>2, <3>3, <3>5
  <2> QED
    BY <2>1, <2>2
<1>2. /\ Frames(stack') /\ HasSoftirq(stack') /\ HasSoftirq(stack)
      /\ ~HandlerOnTop(stack') /\ ~HandlerOnTop(stack)
      /\ Looping(stack') <=> f.pc = "loop"
  BY <1>0, <1>1, Retop DEF SoftirqInv
<1>3. UNCHANGED <<pending, hardirq, preempt, current, taskpc, held, kspc, ksstate, ksonrq,
                  force_irqthreads>>
  BY DEF ActionReturn, Action
<1> QED
  BY <1>1, <1>2, <1>3 DEF SoftirqInv, Types, Counts, Threads, Cared

\* __do_softirq starts over, or wakes ksoftirqd for what is left and returns.
LEMMA EndStep ==
  ASSUME SoftirqInv, SoftirqEnd
  PROVE  SoftirqInv'
<1>0. /\ stack # <<>> /\ stack[1].pc = "loop" /\ IsSoftirq(stack[1])
      /\ stack[1] \in Frame /\ 1 \in 1..Len(stack) /\ Top = stack[1]
  BY TopIsFirst DEF SoftirqEnd, IsSoftirq, SoftirqInv
<1>1. stack[1].left >= 1 /\ softirq = 1 /\ held = 0
  BY <1>0 DEF SoftirqInv, Frames, Counts, Looping, HasSoftirq
<1>2. UNCHANGED <<hardirq, preempt, current, taskpc, held, kspc, force_irqthreads>>
  BY DEF SoftirqEnd
<1>3. CASE /\ pending # {} /\ Top.left - 1 # 0
           /\ stack' = [stack EXCEPT ![1] = SoftirqFrame(pending, Top.left - 1)]
           /\ pending' = {}
           /\ UNCHANGED <<softirq, ksstate, ksonrq>>
  <2> DEFINE f == SoftirqFrame(pending, Top.left - 1)
  <2>1. f \in Frame /\ IsSoftirq(f) /\ f.left >= 1 /\ f.pc = "loop"
    BY <1>0, <1>1, <1>3, SoftirqAssumption DEF SoftirqFrame, Frame, IsSoftirq, SoftirqInv, Types
  <2> HIDE DEF f
  <2>2. /\ Frames(stack') /\ HasSoftirq(stack') /\ HasSoftirq(stack)
        /\ ~HandlerOnTop(stack') /\ ~HandlerOnTop(stack)
    BY <1>0, <1>3, <2>1, Retop DEF SoftirqInv, f
  <2> QED
    BY <1>1, <1>2, <1>3, <2>2 DEF SoftirqInv, Types, Counts, Threads, Cared
<1>4. CASE /\ \/ pending # {} /\ wakeup_softirqd
              \/ pending = {} /\ UNCHANGED <<ksstate, ksonrq>>
           /\ stack' = Tail(stack)
           /\ softirq' = softirq - SOFTIRQ_OFFSET
           /\ UNCHANGED pending
  <2>1. /\ Frames(stack') /\ ~HandlerOnTop(stack') /\ ~HasSoftirq(stack') /\ ~Looping(stack')
    BY <1>0, <1>4, Pop DEF SoftirqInv
  <2>2. ~HandlerOnTop(stack)
    BY <1>0 DEF HandlerOnTop
  <2>3. softirq' = 0
    BY <1>1, <1>4 DEF SOFTIRQ_OFFSET
  <2>4. \/ pending # {} /\ ksstate' = "RUNNING" /\ ksonrq' = TRUE
        \/ pending = {} /\ UNCHANGED <<ksstate, ksonrq>>
    BY <1>4, WakeUp DEF SoftirqInv
  <2>5. Types' /\ Threads'
    <3>1. ksstate' \in {"RUNNING", "INTERRUPTIBLE"} /\ ksonrq' \in BOOLEAN
      BY <2>4 DEF SoftirqInv, Types
    <3>2. UNCHANGED pending
      BY <1>4
    <3>3. Types'
      BY <1>2, <2>3, <3>1, <3>2 DEF SoftirqInv, Types
    <3>4. ksonrq => ksonrq'
      BY <2>4
    <3>5. ksstate' = "RUNNING" => ksonrq'
      BY <2>4 DEF SoftirqInv, Threads
    <3> QED
      BY <1>2, <3>3, <3>4, <3>5 DEF SoftirqInv, Threads
  <2>6. Counts'
    BY <1>1, <1>2, <2>1, <2>2, <2>3 DEF SoftirqInv, Counts
  <2>7. Cared'
    BY <1>4, <2>4 DEF Cared, OnItsWay
  <2> QED
    BY <2>1, <2>5, <2>6, <2>7 DEF SoftirqInv
<1> QED
  BY <1>3, <1>4 DEF SoftirqEnd

LEMMA IrqEnterStep ==
  ASSUME SoftirqInv, IrqEnter
  PROVE  SoftirqInv'
<1>1. ~HandlerOnTop(stack)
  BY TopIsFirst DEF IrqEnter, IsSoftirq, HandlerOnTop, SoftirqInv
<1>2. /\ Frames(stack') /\ HandlerOnTop(stack')
      /\ HasSoftirq(stack') <=> HasSoftirq(stack)
      /\ Looping(stack') <=> Looping(stack)
  BY <1>1, PushIrq DEF IrqEnter, SoftirqInv
<1> QED
  BY <1>1, <1>2 DEF IrqEnter, SoftirqInv, Types, Counts, Threads, Cared

\* irq_exit leaves softirqs pending only to a context that takes care of them.
LEMMA IrqExitStep ==
  ASSUME SoftirqInv, IrqExit
  PROVE  SoftirqInv'
<1> DEFINE s == <<IrqFrame("return")>> \o Tail(stack)
           invoke == hardirq' + softirq = 0 /\ pending # {} /\ ~ksoftirqd_running(pending)
<1>0. /\ stack # <<>> /\ HandlerOnTop(stack) /\ ~IsSoftirq(stack[1])
      /\ hardirq = 1 /\ hardirq' = 0
      /\ UNCHANGED <<preempt, current, taskpc, held, kspc, force_irqthreads>>
  BY TopIsFirst DEF IrqExit, InHandler, HandlerOnTop, IsSoftirq, SoftirqInv, Counts
<1>1. /\ Frames(s) /\ ~HandlerOnTop(s)
      /\ HasSoftirq(s) <=> HasSoftirq(stack)
      /\ Looping(s) <=> Looping(stack)
  <2>1. /\ Frames(Tail(stack)) /\ ~HandlerOnTop(Tail(stack))
        /\ HasSoftirq(Tail(stack)) <=> HasSoftirq(stack)
        /\ Looping(Tail(stack)) <=> Looping(stack)
    BY <1>0, Pop DEF SoftirqInv
  <2> QED
    BY <2>1, PushIrq
<1>2. softirq = 0 => ~HasSoftirq(stack) /\ held = 0
  BY DEF SoftirqInv, Counts, Types
<1>3. softirq # 0 => HasSoftirq(stack) \/ held > 0
  BY DEF SoftirqInv, Counts, Types
<1>4. \/ invoke /\ EnterDoSoftirq(s) /\ UNCHANGED <<ksstate, ksonrq>>
      \/ /\ wakeup_softirqd \/ (~invoke /\ UNCHANGED <<ksstate, ksonrq>>)
         /\ stack' = s /\ UNCHANGED <<pending, softirq>>
  BY DEF IrqExit
<1>5. invoke => softirq = 0
  BY <1>0 DEF SoftirqInv, Types
<1>6. ~invoke => softirq # 0 \/ pending = {} \/ ksstate = "RUNNING"
  BY <1>0 DEF ksoftirqd_running, SoftirqInv, Types
<1> HIDE DEF s, invoke
<1>7. CASE invoke /\ EnterDoSoftirq(s) /\ UNCHANGED <<ksstate, ksonrq>>
  <2>1. /\ Frames(stack') /\ HasSoftirq(stack') /\ ~HandlerOnTop(stack')
        /\ pending' = {} /\ softirq' = 1 /\ held = 0
    BY <1>1, <1>2, <1>5, <1>7, EnterStep
  <2>2. softirq' = 2 * 0 + 1
    BY <2>1
  <2>3. \E k \in Nat : softirq' = 2 * k + 1
    BY <2>2
  <2> QED
    BY <1>0, <1>7, <2>1, <2>3 DEF SoftirqInv, Types, Counts, Threads, Cared
<1>8. CASE /\ wakeup_softirqd \/ (~invoke /\ UNCHANGED <<ksstate, ksonrq>>)
           /\ stack' = s /\ UNCHANGED <<pending, softirq>>
  <2>1. \/ ksstate' = "RUNNING" /\ ksonrq' = TRUE
        \/ ~invoke /\ UNCHANGED <<ksstate, ksonrq>>
    BY <1>8, WakeUp DEF SoftirqInv
  <2>2. Types' /\ Threads'
    BY <1>0, <1>8, <2>1 DEF SoftirqInv, Types, Threads
  <2>3. Counts'
    BY <1>0, <1>1, <1>8 DEF SoftirqInv, Counts
  <2>4. Cared'
    BY <1>0, <1>1, <1>3, <1>6, <1>8, <2>1 DEF Cared, OnItsWay, SoftirqInv, Threads
  <2> QED
    BY <1>1, <1>8, <2>2, <2>3, <2>4 DEF SoftirqInv
<1> QED
  BY <1>4, <1>7, <1>8

LEMMA IrqReturnStep ==
  ASSUME SoftirqInv, IrqReturn
  PROVE  SoftirqInv'
<1>1. stack # <<>> /\ stack[1].pc = "return" /\ ~IsSoftirq(stack[1]) /\ ~HandlerOnTop(stack)
  BY TopIsFirst DEF IrqReturn, HandlerOnTop, IsSoftirq, SoftirqInv
<1>2. /\ Frames(stack') /\ ~HandlerOnTop(stack')
      /\ HasSoftirq(stack') <=> HasSoftirq(stack)
      /\ Looping(stack') <=> Looping(stack)
  BY <1>1, Pop DEF IrqReturn, SoftirqInv
<1> QED
  BY <1>1, <1>2 DEF IrqReturn, SoftirqInv, Types, Counts, Threads, Cared, OnItsWay

\* ksoftirqd, and the scheduler.
LEMMA KsSteps ==
  ASSUME SoftirqInv, KsStep \/ \E t \in {"task", "ksoftirqd"} : Switch(t)
  PROVE  SoftirqInv'
<1>0. /\ ~HasSoftirq(stack) /\ ~Looping(stack) /\ ~HandlerOnTop(stack)
      /\ softirq = 2 * held /\ hardirq = 0 /\ UNCHANGED <<hardirq, taskpc, held, force_irqthreads>>
  BY EmptyStack DEF KsStep, KsSetState, KsPreemptDisable, KsCheck, KsSchedule, KsRun, InKsoftirqd,
     Switch, SoftirqInv, Counts
<1>1. ASSUME NEW t \in {"task", "ksoftirqd"}, Switch(t) PROVE SoftirqInv'
  <2>1. preempt = 0 /\ softirq = 0
    BY <1>1 DEF Switch, SoftirqInv, Types
  <2>2. held = 0 /\ taskpc = "run" /\ kspc # "check"
    BY <1>0, <2>1 DEF SoftirqInv, Types, Counts
  <2> QED
    BY <1>1, <2>2 DEF Switch, SoftirqInv, Types, Counts, Threads, Cared, OnItsWay
<1>2. CASE KsRun
  <2>0. current = "ksoftirqd" /\ held = 0 /\ softirq = 0 /\ kspc = "run" /\ kspc' = "loop"
    BY <1>0, <1>2 DEF KsRun, InKsoftirqd, SoftirqInv, Threads
  <2>1. CASE EnterDoSoftirq(stack)
    <3>1. /\ Frames(stack') /\ HasSoftirq(stack') /\ ~HandlerOnTop(stack')
          /\ pending' = {} /\ softirq' = 1
      BY <1>0, <2>0, <2>1, EnterStep DEF SoftirqInv
    <3>2. softirq' = 2 * 0 + 1
      BY <3>1
    <3>3. \E k \in Nat : softirq' = 2 * k + 1
      BY <3>2
    <3> QED
      BY <1>0, <1>2, <2>0, <3>1, <3>3 DEF KsRun, SoftirqInv, Types, Counts, Threads, Cared
  <2>2. CASE pending = {} /\ UNCHANGED <<pending, stack, softirq>>
    BY <1>0, <1>2, <2>0, <2>2 DEF KsRun, SoftirqInv, Types, Counts, Threads, Cared
  <2> QED
    BY <1>2, <2>1, <2>2 DEF KsRun
<1>3. CASE KsSetState \/ KsPreemptDisable \/ KsCheck
  <2>1. current = "ksoftirqd" /\ ksonrq /\ taskpc = "run" /\ held = 0
    BY <1>3 DEF KsSetState, KsPreemptDisable, KsCheck, InKsoftirqd, SoftirqInv, Threads
  <2>2. CASE KsSetState
    BY <1>0, <2>1, <2>2 DEF KsSetState, SoftirqInv, Types, Counts, Threads, Cared, OnItsWay
  <2>3. CASE KsPreemptDisable
    BY <1>0, <2>1, <2>3 DEF KsPreemptDisable, SoftirqInv, Types, Counts, Threads, Cared, OnItsWay
  <2>4. CASE KsCheck
    <3>1. preempt = 1 /\ preempt' = 0 /\ kspc' \in {"run", "schedule"}
      BY <2>1, <2>4 DEF KsCheck, SoftirqInv, Counts
    <3> QED
      BY <1>0, <2>1, <2>4, <3>1 DEF KsCheck, SoftirqInv, Types, Counts, Threads, Cared, OnItsWay
  <2> QED
    BY <1>3, <2>2, <2>3, <2>4
<1>4. CASE KsSchedule
  <2>1. current = "ksoftirqd" /\ ksonrq /\ taskpc = "run" /\ held = 0 /\ kspc = "schedule"
    BY <1>4 DEF KsSchedule, InKsoftirqd, SoftirqInv, Threads
  <2>2. pending = {} \/ ksstate = "RUNNING"
    BY <1>0, <2>1 DEF SoftirqInv, Cared, OnItsWay
  <2> QED
    BY <1>0, <1>4, <2>1, <2>2 DEF KsSchedule, SoftirqInv, Types, Counts, Threads, Cared, OnItsWay
<1> QED
  BY <1>1, <1>2, <1>3, <1>4 DEF KsStep

-----------------------------------------------------------------------------
(* The theorems *)

LEMMA SoftirqInit == Init => SoftirqInv
<1> SUFFICES ASSUME Init PROVE SoftirqInv
  OBVIOUS
<1>1. stack = <<>>
  BY DEF Init
<1>2. Frames(stack) /\ ~HasSoftirq(stack) /\ ~Looping(stack) /\ ~HandlerOnTop(stack)
  <2>1. stack \in Seq(Frame) /\ Len(stack) = 0 /\ 1..Len(stack) = {}
    BY <1>1
  <2> QED
    BY <1>1, <2>1 DEF Frames, HasSoftirq, Looping, HandlerOnTop
<1>3. Types
  BY SoftirqAssumption DEF Init, Types
<1> QED
  BY <1>2, <1>3 DEF Init, SoftirqInv, Counts, Threads, Cared

\* Every step of an interrupt, a task, a softirq action or ksoftirqd keeps the
\* invariant.
THEOREM SoftirqInvariant == Spec => []SoftirqInv
<1>1. SoftirqInv /\ [Next]_vars => SoftirqInv'
  <2> SUFFICES ASSUME SoftirqInv, [Next]_vars PROVE SoftirqInv'
    OBVIOUS
  <2>1. CASE UNCHANGED vars
    BY <2>1 DEF vars, SoftirqInv, Types, Counts, Threads, Cared, OnItsWay
  <2>2. ASSUME NEW nr \in SOFTIRQS, RaiseSoftirq(nr) PROVE SoftirqInv'
    BY <2>2, RaiseStep
  <2>3. CASE ActionReturn \/ \E nr \in SOFTIRQS : Action(nr)
    BY <2>3, ActionStep
  <2>4. CASE BhDisable \/ BhEnable \/ ActionBhDisable \/ ActionBhEnable
    BY <2>4, BhDisableStep
  <2>5. CASE BhEnableStep
    BY <2>5, BhEnableSteps
  <2>6. CASE SoftirqEnd
    BY <2>6, EndStep
  <2>7. CASE IrqEnter \/ IrqStep
    BY <2>7, IrqEnterStep, IrqExitStep, IrqReturnStep DEF IrqStep
  <2>8. CASE KsStep \/ \E t \in {"task", "ksoftirqd"} : Switch(t)
    BY <2>8, KsSteps
  <2> QED
    BY <2>1, <2>2, <2>3, <2>4, <2>5, <2>6, <2>7, <2>8 DEF Next
<1> QED
  BY <1>1, SoftirqInit, PTL DEF Spec

\* irq_exit, local_bh_enable and ksoftirqd never start a second __do_softirq
\* on top of one, whatever the interrupts that arrive in it.
THEOREM SoftirqsDoNotNest == Spec => []NoNesting
<1>1. SoftirqInv => NoNesting
  <2> SUFFICES ASSUME SoftirqInv PROVE NoNesting
    OBVIOUS
  <2>1. Serving \subseteq 1..Len(stack)
    BY DEF Serving, SoftirqInv, Frames
  <2>2. \A i, j \in Serving : i = j
    BY DEF Serving, SoftirqInv, Frames
  <2> QED
    BY <2>1, <2>2 DEF NoNesting
<1> QED
  BY <1>1, SoftirqInvariant, PTL

\* local_bh_disable keeps softirqs off the CPU.
THEOREM BottomHalvesExcluded == Spec => []BhExcludes
<1>1. SoftirqInv => BhExcludes
  BY DEF SoftirqInv, Counts, Frames, HasSoftirq, BhExcludes, Serving
<1> QED
  BY <1>1, SoftirqInvariant, PTL

\* in_softirq and in_interrupt, which the entry points test, tell the truth:
\* the softirq part of preempt_count is odd exactly inside __do_softirq.
THEOREM CountTellsContext == Spec => []CountIsContext
<1>1. SoftirqInv => CountIsContext
  <2> SUFFICES ASSUME SoftirqInv PROVE CountIsContext
    OBVIOUS
  <2>1. Serving # {} <=> HasSoftirq(stack)
    BY DEF Serving, HasSoftirq, SoftirqInv, Frames
  <2>2. CASE Serving = {}
    <3>1. softirq = 2 * held /\ held \in Nat
      BY <2>1, <2>2 DEF SoftirqInv, Counts, Types
    <3>2. softirq % 2 = 0
      BY <3>1
    <3> QED
      BY <2>2, <3>1, <3>2 DEF CountIsContext, SOFTIRQ_DISABLE_OFFSET, SOFTIRQ_OFFSET
  <2>3. CASE Serving # {}
    <3>1. PICK k \in Nat : softirq = 2 * k + 1
      BY <2>1, <2>3 DEF SoftirqInv, Counts
    <3>2. softirq % 2 = 1
      BY <3>1
    <3>3. \A i \in Serving : stack[i].pc = "loop" => softirq = 1
      BY DEF SoftirqInv, Counts, Looping, Serving, Frames
    <3> QED
      BY <2>3, <3>2, <3>3 DEF CountIsContext, SOFTIRQ_OFFSET
  <2> QED
    BY <2>2, <2>3
<1> QED
  BY <1>1, SoftirqInvariant, PTL

\* A softirq pending on the CPU has somebody who will find it.
THEOREM NothingStranded == Spec => []NoStranded
<1>1. SoftirqInv => NoStranded
  BY DEF SoftirqInv, Cared, OnItsWay, Frames, HasSoftirq, HandlerOnTop, NoStranded, Serving
<1> QED
  BY <1>1, SoftirqInvariant, PTL

=============================================================================
