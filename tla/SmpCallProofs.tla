---------------------------- MODULE SmpCallProofs ----------------------------
(***************************************************************************)
(* Proofs about SmpCall, for any sets of CPUs, objects and masks: no entry *)
(* of a call_single_queue is stranded, a csd is in use at one place at a   *)
(* time, and a call that waits returns after its functions have run.       *)
(*                                                                         *)
(* IpiInv says where tasks can be when stop_machine takes a CPU down: a    *)
(* call in progress is made by an online CPU, and the loop of              *)
(* smp_call_function_many, which does not look at cpu_online_mask again,   *)
(* has only online CPUs left.                                              *)
(*                                                                         *)
(* CsdInv follows a csd through the queue and the batch of its target: who *)
(* holds it, which handler will unlock it, and why the handler is done     *)
(* with it before smpcfd_dead_cpu frees the csds of a dead CPU.            *)
(***************************************************************************)
EXTENDS SmpCall, TLAPS

IpiType ==
  /\ hotplug \in [CPUS -> HOTPLUG_STATE]
  /\ queue \in [CPUS -> Seq(CSD)]
  /\ pc \in [CPUS -> {"idle", "single", "many", "send", "wait"}]
  /\ rest \in [CPUS -> SUBSET (CPUS \cup {NoCpu})]
  /\ cpumask_ipi \in [CPUS -> SUBSET CPUS]
  /\ async \in [OBJS -> [st : {"idle", "exec", "send"}, cpu : CPUS \cup {NoCpu},
                         ctx : {"task", "irq"}, to : CPUS \cup {NoCpu}]]

\* A CPU that is not online is in no call.
CallersOnline == \A c \in CPUS : pc[c] # "idle" => c \in Online

\* The CPUs that smp_call_function_many has still to call are online.
TargetsOnline == \A c \in CPUS : pc[c] = "many" => rest[c] \subseteq Online

IpiInv == IpiType /\ CallersOnline /\ TargetsOnline /\ NoLostIpi

-----------------------------------------------------------------------------

\* Csds of each kind are csds.
LEMMA CsdType ==
  /\ \A c \in CPUS : Stack(c) \in CSD /\ Data(c) \in CSD
  /\ \A c, t \in CPUS : Cfd(c, t) \in CSD
  /\ \A o \in OBJS : Obj(o) \in CSD
  BY DEF CSD

\* Adding an entry to the queue of an online CPU: who finds the queue empty is
\* about to send the interrupt.
LEMMA EnqueueKeeps ==
  ASSUME IpiInv, NEW c \in CPUS, NEW t \in CPUS, t \in Online, NEW csd \in CSD,
         Enqueue(c, t, csd), UNCHANGED <<hotplug, ipi, async>>
  PROVE  /\ NoLostIpi'
         /\ queue' \in [CPUS -> Seq(CSD)] /\ cpumask_ipi' \in [CPUS -> SUBSET CPUS]
<1>1. queue' \in [CPUS -> Seq(CSD)] /\ cpumask_ipi' \in [CPUS -> SUBSET CPUS]
  BY DEF Enqueue, IpiInv, IpiType
<1>2. ASSUME NEW u \in CPUS, queue'[u] # <<>>
      PROVE  u \in Online /\ (u \in ipi \/ AboutToSend(u)')
  <2>1. \A d \in CPUS : cpumask_ipi[d] \subseteq cpumask_ipi'[d]
    BY Zenon DEF Enqueue, IpiInv, IpiType
  <2>2. AboutToSend(u) => AboutToSend(u)'
    BY <2>1, Zenon DEF AboutToSend
  <2>3. CASE queue[u] # <<>>
    BY <2>2, <2>3, Zenon DEF IpiInv, NoLostIpi
  <2>4. CASE queue[u] = <<>>
    <3>1. u = t
      BY <1>2, <2>4, Zenon DEF Enqueue, IpiInv, IpiType
    <3>2. u \in cpumask_ipi'[c]
      BY <2>4, <3>1, Zenon DEF Enqueue, IpiInv, IpiType
    <3> QED
      BY <3>1, <3>2, Zenon DEF AboutToSend
  <2> QED
    BY <2>3, <2>4, Zenon
<1>3. NoLostIpi'
  BY <1>2, Zenon DEF NoLostIpi, Online
<1> QED
  BY <1>1, <1>3, Zenon

\* Steps that change neither the queues nor the interrupts.
LEMMA IpiSame ==
  ASSUME IpiInv, UNCHANGED <<queue, ipi, cpumask_ipi>>,
         \A o \in OBJS : async[o].st = "send" => async'[o] = async[o],
         \A t \in CPUS : queue[t] # <<>> /\ t \in Online => t \in Online'
  PROVE  NoLostIpi'
  BY Zenon DEF IpiInv, NoLostIpi, AboutToSend

-----------------------------------------------------------------------------
(* The steps *)

LEMMA StartStep ==
  ASSUME IpiInv, NEW c \in CPUS, Call(c)
  PROVE  IpiInv'
<1>1. ASSUME NEW label \in {"single", "many"}, NEW S \in SUBSET (CPUS \cup {NoCpu}), NEW w,
             Start(c, label, S, w), label = "many" => S \subseteq Online
      PROVE  IpiInv'
  <2>1. NoLostIpi'
    BY <1>1, IpiSame, Zenon DEF Start, Online
  <2>2. IpiType'
    BY <1>1, Zenon DEF Start, Continue, IpiInv, IpiType
  <2>3. CallersOnline' /\ TargetsOnline'
    BY <1>1, Zenon DEF Start, Continue, TaskRuns, IpiInv, IpiType, CallersOnline, TargetsOnline, Online
  <2> QED
    BY <2>1, <2>2, <2>3, Zenon DEF IpiInv
<1>2. ASSUME NEW w \in BOOLEAN, NEW t \in CPUS, CallSingle(c, t, w) PROVE IpiInv'
  BY <1>1, <1>2, Zenon DEF CallSingle
<1>3. ASSUME NEW w \in BOOLEAN, NEW mask \in MASKS, CallAny(c, mask, w) PROVE IpiInv'
  <2>1. mask \subseteq CPUS
    BY SmpCallAssumption, Zenon
  <2> QED
    BY <1>1, <1>3, <2>1, Zenon DEF CallAny
<1>4. ASSUME NEW w \in BOOLEAN, NEW mask \in MASKS,
             CallOneByOne(c, mask, w) \/ CallMany(c, mask, w)
      PROVE  IpiInv'
  <2>1. mask \subseteq CPUS /\ Online \subseteq CPUS
    BY SmpCallAssumption, Zenon DEF Online
  <2>2. \/ \E S \in SUBSET CPUS : Start(c, "single", S, w)
        \/ \E S \in SUBSET Online : Start(c, "many", S, w)
    BY <1>4, <2>1, Zenon DEF CallOneByOne, CallMany
  <2> QED
    BY <1>1, <2>1, <2>2, Zenon
<1> QED
  BY <1>2, <1>3, <1>4, Zenon DEF Call

LEMMA TaskSteps ==
  ASSUME IpiInv, NEW c \in CPUS, TaskStep(c)
  PROVE  IpiInv'
<1>0. c \in Online /\ UNCHANGED hotplug
  BY Zenon DEF TaskStep, Single, ManyTurn, Send, Wait, TaskRuns
<1>1. CASE Single(c)
  <2> DEFINE csd == IF wait[c] THEN Stack(c) ELSE Data(c)
  <2>0. PICK t \in First(rest[c]) :
           \/ /\ Continue(c, "single", rest[c] \ {t}, wait[c]) /\ UNCHANGED <<queue, cpumask_ipi>>
           \/ /\ t \in Online /\ Enqueue(c, t, csd) /\ rest' = [rest EXCEPT ![c] = @ \ {t}]
              /\ pc' = [pc EXCEPT ![c] = "send"]
    BY <1>1, Zenon DEF Single
  <2> DEFINE more == rest[c] \ {t}
  <2>1. UNCHANGED <<ipi, async>> /\ more \in SUBSET (CPUS \cup {NoCpu})
    BY <1>1, Zenon DEF Single, IpiInv, IpiType
  <2>2. csd \in CSD
    BY CsdType, Zenon
  <2>3. \/ /\ rest' = [rest EXCEPT ![c] = more] /\ UNCHANGED <<queue, cpumask_ipi>>
           /\ pc' = [pc EXCEPT ![c] = IF more = {} THEN "idle" ELSE "single"]
        \/ /\ t \in Online /\ Enqueue(c, t, csd) /\ rest' = [rest EXCEPT ![c] = more]
           /\ pc' = [pc EXCEPT ![c] = "send"]
    BY <2>0, Zenon DEF Continue
  <2> HIDE DEF csd, more
  <2>4. CallersOnline' /\ TargetsOnline'
    <3>1. \A d \in CPUS : /\ d # c => pc'[d] = pc[d] /\ rest'[d] = rest[d]
                         /\ pc'[c] # "many"
      BY <2>3, Zenon DEF IpiInv, IpiType
    <3>2. Online' = Online
      BY <1>0, Zenon DEF Online
    <3>3. CallersOnline'
      BY <1>0, <3>1, <3>2, Zenon DEF IpiInv, CallersOnline
    <3> QED
      BY <3>1, <3>2, <3>3, Zenon DEF IpiInv, TargetsOnline
  <2>5. /\ pc' \in [CPUS -> {"idle", "single", "many", "send", "wait"}]
        /\ rest' \in [CPUS -> SUBSET (CPUS \cup {NoCpu})]
    BY <2>1, <2>3, Zenon DEF IpiInv, IpiType
  <2>6. NoLostIpi' /\ queue' \in [CPUS -> Seq(CSD)] /\ cpumask_ipi' \in [CPUS -> SUBSET CPUS]
    <3>1. CASE UNCHANGED <<queue, cpumask_ipi>>
      BY <1>0, <2>1, <3>1, IpiSame, Zenon DEF Online, IpiInv, IpiType
    <3>2. CASE t \in Online /\ Enqueue(c, t, csd)
      BY <1>0, <2>1, <2>2, <3>2, EnqueueKeeps, Zenon DEF Online
    <3> QED
      BY <2>3, <3>1, <3>2, Zenon
  <2> QED
    BY <1>0, <2>1, <2>4, <2>5, <2>6, Zenon DEF IpiInv, IpiType
<1>2. CASE ManyTurn(c)
  <2>1. PICK t \in First(rest[c]) :
          Enqueue(c, t, Cfd(c, t)) /\ rest' = [rest EXCEPT ![c] = @ \ {t}]
    BY <1>2, Zenon DEF ManyTurn
  <2>2. t \in Online /\ t \in CPUS
    BY <1>2, Zenon DEF ManyTurn, First, IpiInv, TargetsOnline, Online
  <2>3. NoLostIpi' /\ queue' \in [CPUS -> Seq(CSD)] /\ cpumask_ipi' \in [CPUS -> SUBSET CPUS]
    BY <1>2, <2>1, <2>2, EnqueueKeeps, CsdType, Zenon DEF ManyTurn
  <2>4. IpiType' /\ CallersOnline' /\ TargetsOnline'
    BY <1>2, <2>1, <2>3, Zenon DEF ManyTurn, IpiInv, IpiType, CallersOnline, TargetsOnline, Online
  <2> QED
    BY <2>3, <2>4, Zenon DEF IpiInv
<1>3. CASE Send(c)
  <2> DEFINE l == IF wait[c] THEN "wait" ELSE IF rest[c] = {} THEN "idle" ELSE "single"
  <2>4. /\ pc' = [pc EXCEPT ![c] = l] /\ rest' = [rest EXCEPT ![c] = rest[c]]
        /\ l \in {"wait", "idle", "single"}
        /\ cpumask_ipi' = [cpumask_ipi EXCEPT ![c] = {}] /\ UNCHANGED <<queue, async>>
    BY <1>3, Zenon DEF Send, Continue, IpiInv, IpiType
  <2> HIDE DEF l
  <2>1. IpiType'
    BY <1>0, <2>4, Zenon DEF IpiInv, IpiType
  <2>0. CallersOnline' /\ TargetsOnline'
    BY <1>0, <2>4, Zenon DEF IpiInv, IpiType, CallersOnline, TargetsOnline, Online
  <2>2. ASSUME NEW u \in CPUS, AboutToSend(u) PROVE u \in ipi' \/ AboutToSend(u)'
    BY <1>3, <2>2, Zenon DEF Send, AboutToSend, IpiInv, IpiType
  <2>3. NoLostIpi'
    BY <1>3, <2>2, Zenon DEF Send, IpiInv, NoLostIpi, Online
  <2> QED
    BY <2>0, <2>1, <2>3, Zenon DEF IpiInv
<1>4. CASE Wait(c)
  <2>1. IpiType' /\ CallersOnline' /\ TargetsOnline'
    BY <1>0, <1>4, Zenon DEF Wait, Continue, IpiInv, IpiType, CallersOnline, TargetsOnline, Online
  <2>2. NoLostIpi'
    BY <1>4, IpiSame, Zenon DEF Wait, Online
  <2> QED
    BY <2>1, <2>2, Zenon DEF IpiInv
<1> QED
  BY <1>1, <1>2, <1>3, <1>4, Zenon DEF TaskStep

LEMMA HandlerSteps ==
  ASSUME IpiInv, NEW c \in CPUS, Interrupt(c) \/ HandlerStep(c)
  PROVE  IpiInv'
<1>1. CASE Interrupt(c)
  <2>1. IpiType' /\ CallersOnline' /\ TargetsOnline'
    BY <1>1 DEF Interrupt, TakeQueue, task, IpiInv, IpiType, CallersOnline, TargetsOnline, Online
  <2>2. ASSUME NEW u \in CPUS, queue'[u] # <<>> PROVE u # c /\ queue[u] # <<>>
    BY <1>1, <2>2, Zenon DEF Interrupt, TakeQueue, IpiInv, IpiType
  <2>3. NoLostIpi'
    BY <1>1, <2>2, Zenon DEF Interrupt, task, IpiInv, NoLostIpi, AboutToSend, Online
  <2> QED
    BY <2>1, <2>3, Zenon DEF IpiInv
<1>2. CASE HandlerStep(c)
  <2>1. UNCHANGED <<hotplug, queue, ipi, task, async>>
    BY <1>2, Zenon DEF HandlerStep, RunSync, Unlock, FlushReturn
  <2> QED
    BY <2>1, Zenon DEF task, IpiInv, IpiType, CallersOnline, TargetsOnline, Online, NoLostIpi, AboutToSend
<1> QED
  BY <1>1, <1>2, Zenon

LEMMA AsyncSteps ==
  ASSUME IpiInv, NEW o \in OBJS,
         \/ \E c \in CPUS, ctx \in {"task", "irq"}, t \in CPUS : AsyncCall(c, ctx, o, t)
         \/ AsyncStep(o)
  PROVE  IpiInv'
<1>0. UNCHANGED <<hotplug, task>>
  BY Zenon DEF AsyncCall, AsyncStep, AsyncExec, AsyncSend
<1>1. CallersOnline' /\ TargetsOnline'
  BY <1>0, Zenon DEF task, IpiInv, CallersOnline, TargetsOnline, Online
<1>2. ASSUME NEW c \in CPUS, NEW ctx \in {"task", "irq"}, NEW t \in CPUS, AsyncCall(c, ctx, o, t)
      PROVE  IpiInv'
  <2>1. NoLostIpi'
    BY <1>0, <1>2, IpiSame, Zenon DEF AsyncCall, IpiInv, IpiType, task, Online
  <2>2. IpiType'
    BY <1>0, <1>2, Zenon DEF AsyncCall, IpiInv, IpiType, task
  <2> QED
    BY <1>1, <2>1, <2>2, Zenon DEF IpiInv
<1>3. CASE AsyncExec(o)
  <2> DEFINE t == async[o].to
  <2>1. async[o].st = "exec" /\ UNCHANGED <<ipi, cpumask_ipi>> /\ t \in CPUS \cup {NoCpu}
    BY <1>3, Zenon DEF AsyncExec, task, IpiInv, IpiType
  <2>2. CASE UNCHANGED queue /\ async' = [async EXCEPT ![o] = NoCall]
    <3>1. NoLostIpi'
      BY <1>0, <2>1, <2>2, IpiSame, Zenon DEF IpiInv, IpiType, Online
    <3>2. IpiType'
      BY <1>0, <2>1, <2>2, Zenon DEF IpiInv, IpiType, task, NoCall
    <3> QED
      BY <1>1, <3>1, <3>2, Zenon DEF IpiInv
  <2>3. CASE /\ t \in Online /\ queue' = [queue EXCEPT ![t] = Append(@, Obj(o))]
             /\ async' = [async EXCEPT ![o] =
                            IF queue[t] = <<>> THEN [@ EXCEPT !.st = "send"] ELSE NoCall]
    <3>1. IpiType'
      <4>1. queue' \in [CPUS -> Seq(CSD)]
        BY <2>3, CsdType DEF IpiInv, IpiType, Online
      <4>2. [async[o] EXCEPT !.st = "send"] \in [st : {"idle", "exec", "send"},
               cpu : CPUS \cup {NoCpu}, ctx : {"task", "irq"}, to : CPUS \cup {NoCpu}]
        BY Zenon DEF IpiInv, IpiType
      <4>3. NoCall \in [st : {"idle", "exec", "send"}, cpu : CPUS \cup {NoCpu},
                        ctx : {"task", "irq"}, to : CPUS \cup {NoCpu}]
        BY Zenon DEF NoCall
      <4> HIDE DEF t
      <4> QED
        BY <1>0, <2>3, <4>1, <4>2, <4>3, Zenon DEF IpiInv, IpiType, task
    <3>2. ASSUME NEW u \in CPUS, AboutToSend(u) PROVE AboutToSend(u)'
      BY <2>1, <2>3, <3>2, Zenon DEF AboutToSend, IpiInv, IpiType
    <3>3. ASSUME NEW u \in CPUS, queue'[u] # <<>>
          PROVE  u \in Online /\ (u \in ipi \/ AboutToSend(u)')
      <4>1. CASE queue[u] # <<>>
        BY <3>2, <4>1, Zenon DEF IpiInv, NoLostIpi
      <4>2. CASE queue[u] = <<>>
        <5>1. u = t /\ t \in CPUS
          BY <2>3, <3>3, <4>2, Zenon DEF IpiInv, IpiType, Online
        <5>2. async'[o].st = "send" /\ async'[o].to = u
          BY <2>3, <4>2, <5>1, Zenon DEF IpiInv, IpiType
        <5> QED
          BY <2>3, <5>1, <5>2, Zenon DEF AboutToSend
      <4> QED
        BY <4>1, <4>2, Zenon
    <3>4. NoLostIpi'
      BY <1>0, <2>1, <3>3, Zenon DEF NoLostIpi, Online
    <3> QED
      BY <1>1, <3>1, <3>4, Zenon DEF IpiInv
  <2> QED
    BY <1>3, <2>2, <2>3, Zenon DEF AsyncExec
<1>4. CASE AsyncSend(o)
  <2>1. IpiType'
    BY <1>0, <1>4, Zenon DEF AsyncSend, IpiInv, IpiType, task, NoCall
  <2>2. ASSUME NEW u \in CPUS, AboutToSend(u) PROVE u \in ipi' \/ AboutToSend(u)'
    BY <1>4, <2>2, Zenon DEF AsyncSend, AboutToSend, IpiInv, IpiType, task
  <2>3. NoLostIpi'
    BY <1>4, <2>2, Zenon DEF AsyncSend, IpiInv, NoLostIpi, Online
  <2> QED
    BY <1>1, <2>1, <2>3, Zenon DEF IpiInv
<1> QED
  BY <1>2, <1>3, <1>4, Zenon DEF AsyncStep

\* A CPU goes down with an empty queue, and no call is in progress then.
LEMMA HotplugSteps ==
  ASSUME IpiInv, NEW t \in CPUS, Hotplug(t)
  PROVE  IpiInv'
<1>1. CASE TakeDown(t)
  <2>1. /\ IpiType' /\ UNCHANGED <<ipi, task, async>> /\ queue' = [queue EXCEPT ![t] = <<>>]
        /\ hotplug' = [hotplug EXCEPT ![t] = "dying"]
        /\ \A c \in Online : pc[c] = "idle"
    BY <1>1 DEF TakeDown, TakeQueue, task, IpiInv, IpiType, HOTPLUG_STATE
  <2>2. \A c \in CPUS : pc'[c] = "idle"
    BY <2>1, Zenon DEF IpiInv, CallersOnline, task
  <2>3. CallersOnline' /\ TargetsOnline'
    BY <2>2, Zenon DEF CallersOnline, TargetsOnline
  <2>4. ASSUME NEW u \in CPUS, queue'[u] # <<>>
        PROVE  u \in Online' /\ (u \in ipi' \/ AboutToSend(u)')
    <3>1. u # t /\ queue[u] # <<>>
      BY <2>1, <2>4, Zenon DEF IpiInv, IpiType
    <3>2. u \in Online /\ (u \in ipi \/ AboutToSend(u))
      BY <3>1, Zenon DEF IpiInv, NoLostIpi
    <3> QED
      BY <2>1, <3>1, <3>2, Zenon DEF Online, AboutToSend, task, IpiInv, IpiType
  <2>5. NoLostIpi'
    BY <2>4, Zenon DEF NoLostIpi
  <2> QED
    BY <2>1, <2>3, <2>5, Zenon DEF IpiInv
<1>2. CASE StopEnd(t) \/ Dead(t) \/ Prepare(t) \/ BringUp(t)
  <2>1. /\ UNCHANGED <<queue, ipi, task, async>> /\ t \notin Online
        /\ \E s \in HOTPLUG_STATE : hotplug' = [hotplug EXCEPT ![t] = s]
    BY <1>2, Zenon DEF StopEnd, Dead, Prepare, BringUp, Online, HOTPLUG_STATE
  <2>2. Online \subseteq Online'
    BY <2>1, Zenon DEF Online, IpiInv, IpiType
  <2>3. IpiType'
    BY <2>1 DEF task, IpiInv, IpiType
  <2>4. CallersOnline' /\ TargetsOnline' /\ NoLostIpi'
    BY <2>1, <2>2, Zenon DEF task, IpiInv, CallersOnline, TargetsOnline, NoLostIpi, AboutToSend
  <2> QED
    BY <2>3, <2>4, Zenon DEF IpiInv
<1> QED
  BY <1>1, <1>2, Zenon DEF Hotplug

-----------------------------------------------------------------------------
(* Theorems *)

\* The inductive invariant: no entry is stranded, calls in progress are made by
\* online CPUs, and smp_call_function_many has only online CPUs left to call.
THEOREM IpiInvariant == Spec => []IpiInv
<1>1. Init => IpiInv
  BY DEF Init, IpiInv, IpiType, HOTPLUG_STATE, NoCall, CallersOnline, TargetsOnline, NoLostIpi
<1>2. ASSUME IpiInv, [Next]_vars PROVE IpiInv'
  <2>1. ASSUME NEW c \in CALLERS, Call(c) PROVE IpiInv'
    BY <1>2, <2>1, StartStep, SmpCallAssumption, Zenon
  <2>2. ASSUME NEW c \in CPUS, TaskStep(c) \/ Interrupt(c) \/ HandlerStep(c) \/ Hotplug(c)
        PROVE  IpiInv'
    BY <1>2, <2>2, TaskSteps, HandlerSteps, HotplugSteps, Zenon
  <2>3. ASSUME NEW c \in SENDERS, NEW ctx \in {"task", "irq"}, NEW o \in OBJS, NEW t \in CPUS,
               AsyncCall(c, ctx, o, t)
        PROVE  IpiInv'
    BY <1>2, <2>3, AsyncSteps, SmpCallAssumption, Zenon
  <2>4. ASSUME NEW o \in OBJS, AsyncStep(o) PROVE IpiInv'
    BY <1>2, <2>4, AsyncSteps, Zenon
  <2>5. CASE UNCHANGED vars
    BY <1>2, <2>5, Zenon DEF vars, IpiInv, IpiType, CallersOnline, TargetsOnline, Online, NoLostIpi,
       AboutToSend
  <2> QED
    BY <1>2, <2>1, <2>2, <2>3, <2>4, <2>5, Zenon DEF Next
<1> QED
  BY <1>1, <1>2, PTL DEF Spec

\* No entry of a call_single_queue is stranded: its CPU is online, and the
\* interrupt that generic_exec_single or smp_call_function_many owes it is
\* pending or about to be sent.
THEOREM IpiNeverLost == Spec => []NoLostIpi
<1>1. IpiInv => NoLostIpi
  BY Zenon DEF IpiInv
<1> QED
  BY <1>1, IpiInvariant, PTL

-----------------------------------------------------------------------------
(* The entries that handlers will come across *)

\* x is an entry of the list s.
In(x, s) == \E i \in 1..Len(s) : s[i] = x

links == [t \in CPUS |-> Linked(t)]

\* No csd is linked twice.
Uniq(L) ==
  \A t, u \in CPUS : \A i \in 1..Len(L[t]), j \in 1..Len(L[u]) :
    L[t][i] = L[u][j] => t = u /\ i = j

\* A handler will come across csd.
Somewhere(csd) == \E t \in CPUS : In(csd, Linked(t))

LEMMA InOnce ==
  ASSUME NEW t \in CPUS, NEW u \in CPUS, NEW x, Uniq(links), In(x, Linked(t)), In(x, Linked(u))
  PROVE  t = u
<1>1. links[t] = Linked(t) /\ links[u] = Linked(u)
  BY Zenon DEF links
<1>2. PICK i \in 1..Len(links[t]) : links[t][i] = x
  BY <1>1, Zenon DEF In
<1>3. PICK j \in 1..Len(links[u]) : links[u][j] = x
  BY <1>1, Zenon DEF In
<1> QED
  BY <1>2, <1>3, Zenon DEF Uniq

LEMMA InEmpty == \A x : ~In(x, <<>>)
BY DEF In

LEMMA InConcat ==
  ASSUME NEW S, NEW b \in Seq(S), NEW q \in Seq(S), NEW x
  PROVE  In(x, b \o q) <=> In(x, b) \/ In(x, q)
<1>1. /\ Len(b \o q) = Len(b) + Len(q) /\ Len(b) \in Nat /\ Len(q) \in Nat
      /\ \A i \in 1..Len(b) + Len(q) :
           (b \o q)[i] = IF i <= Len(b) THEN b[i] ELSE q[i - Len(b)]
  OBVIOUS
<1>2. In(x, b) => In(x, b \o q)
  BY <1>1 DEF In
<1>3. ASSUME In(x, q) PROVE In(x, b \o q)
  <2>1. PICK i \in 1..Len(q) : q[i] = x
    BY <1>3, Zenon DEF In
  <2>2. Len(b) + i \in 1..Len(b) + Len(q) /\ ~(Len(b) + i <= Len(b)) /\ (Len(b) + i) - Len(b) = i
    BY <1>1
  <2>3. (b \o q)[Len(b) + i] = x
    BY <1>1, <2>1, <2>2, Zenon
  <2> QED
    BY <1>1, <2>2, <2>3, Zenon DEF In
<1>4. ASSUME In(x, b \o q) PROVE In(x, b) \/ In(x, q)
  <2>1. PICK i \in 1..Len(b) + Len(q) : (b \o q)[i] = x
    BY <1>1, <1>4, Zenon DEF In
  <2>2. i <= Len(b) => i \in 1..Len(b) /\ b[i] = x
    BY <1>1, <2>1
  <2>3. ~(i <= Len(b)) => i - Len(b) \in 1..Len(q) /\ q[i - Len(b)] = x
    BY <1>1, <2>1
  <2> QED
    BY <2>2, <2>3, Zenon DEF In
<1> QED
  BY <1>2, <1>3, <1>4, Zenon

LEMMA InAppend ==
  ASSUME NEW S, NEW s \in Seq(S), NEW y \in S, NEW x
  PROVE  In(x, Append(s, y)) <=> In(x, s) \/ x = y
<1>1. /\ Len(Append(s, y)) = Len(s) + 1 /\ Len(s) \in Nat
      /\ \A i \in 1..Len(s) : Append(s, y)[i] = s[i]
      /\ Append(s, y)[Len(s) + 1] = y
  OBVIOUS
<1>2. \A i \in 1..Len(s) + 1 : i \in 1..Len(s) \/ i = Len(s) + 1
  BY <1>1
<1>3. \A i \in 1..Len(s) : i \in 1..Len(s) + 1
  BY <1>1
<1>4. Len(s) + 1 \in 1..Len(s) + 1
  BY <1>1
<1> QED
  BY <1>1, <1>2, <1>3, <1>4, Zenon DEF In

\* A list without duplicates loses its head.
LEMMA InTail ==
  ASSUME NEW S, NEW s \in Seq(S), s # <<>>, NEW x,
         \A i, j \in 1..Len(s) : s[i] = s[j] => i = j
  PROVE  In(x, Tail(s)) <=> In(x, s) /\ x # Head(s)
<1>1. /\ Len(s) \in Nat \ {0} /\ Head(s) = s[1]
      /\ Len(Tail(s)) = Len(s) - 1
      /\ \A i \in 1..Len(Tail(s)) : Tail(s)[i] = s[i + 1]
  OBVIOUS
<1>2. ASSUME In(x, Tail(s)) PROVE In(x, s) /\ x # Head(s)
  <2>1. PICK i \in 1..Len(s) - 1 : s[i + 1] = x
    BY <1>1, <1>2, Zenon DEF In
  <2>2. i + 1 \in 1..Len(s) /\ 1 \in 1..Len(s) /\ i + 1 # 1
    BY <1>1
  <2> QED
    BY <1>1, <2>1, <2>2, Zenon DEF In
<1>3. ASSUME In(x, s), x # Head(s) PROVE In(x, Tail(s))
  <2>1. PICK i \in 1..Len(s) : s[i] = x
    BY <1>3, Zenon DEF In
  <2>2. i - 1 \in 1..Len(Tail(s)) /\ (i - 1) + 1 = i
    BY <1>1, <1>3, <2>1
  <2>3. Tail(s)[i - 1] = x
    BY <1>1, <2>1, <2>2, Zenon
  <2> QED
    BY <2>2, <2>3, Zenon DEF In
<1> QED
  BY <1>2, <1>3, Zenon

LEMMA TailConcat ==
  ASSUME NEW S, NEW b \in Seq(S), b # <<>>, NEW q \in Seq(S)
  PROVE  /\ b \o q # <<>> /\ Head(b \o q) = Head(b)
         /\ Tail(b) \o q = Tail(b \o q)
<1>1. /\ b \o q \in Seq(S) /\ Len(b \o q) = Len(b) + Len(q) /\ Len(q) \in Nat
      /\ Len(b) \in Nat \ {0}
      /\ \A i \in 1..Len(b) + Len(q) :
           (b \o q)[i] = IF i <= Len(b) THEN b[i] ELSE q[i - Len(b)]
  OBVIOUS
<1>2. b \o q # <<>> /\ Head(b \o q) = Head(b)
  BY <1>1
<1>3. /\ Tail(b) \in Seq(S) /\ Len(Tail(b)) = Len(b) - 1
      /\ \A i \in 1..Len(b) - 1 : Tail(b)[i] = b[i + 1]
  OBVIOUS
<1>4. /\ Tail(b) \o q \in Seq(S) /\ Len(Tail(b) \o q) = Len(b) - 1 + Len(q)
      /\ \A i \in 1..Len(b) - 1 + Len(q) :
           (Tail(b) \o q)[i] = IF i <= Len(b) - 1 THEN Tail(b)[i] ELSE q[i - (Len(b) - 1)]
  BY <1>1, <1>3
<1>5. /\ Tail(b \o q) \in Seq(S) /\ Len(Tail(b \o q)) = Len(b) + Len(q) - 1
      /\ \A i \in 1..Len(b) + Len(q) - 1 : Tail(b \o q)[i] = (b \o q)[i + 1]
  BY <1>1, <1>2
<1>6. ASSUME NEW i \in 1..Len(b) - 1 + Len(q)
      PROVE  (Tail(b) \o q)[i] = Tail(b \o q)[i]
  <2>1. i \in 1..Len(b) + Len(q) - 1 /\ i + 1 \in 1..Len(b) + Len(q)
    BY <1>1
  <2>2. CASE i <= Len(b) - 1
    <3>1. i \in 1..Len(b) - 1 /\ i + 1 <= Len(b)
      BY <1>1, <2>2
    <3> QED
      BY <1>1, <1>3, <1>4, <1>5, <2>1, <2>2, <3>1, Zenon
  <2>3. CASE ~(i <= Len(b) - 1)
    <3>1. ~(i + 1 <= Len(b)) /\ i - (Len(b) - 1) = i + 1 - Len(b)
      BY <1>1, <2>3
    <3> QED
      BY <1>1, <1>4, <1>5, <2>1, <2>3, <3>1
  <2> QED
    BY <2>2, <2>3, Zenon
<1>7. Len(Tail(b) \o q) = Len(Tail(b \o q))
  BY <1>1, <1>4, <1>5
<1>8. Tail(b) \o q = Tail(b \o q)
  BY <1>4, <1>5, <1>6, <1>7
<1> QED
  BY <1>2, <1>8, Zenon

\* Adding an entry that is linked nowhere, and removing a first entry, keep the
\* lists free of duplicates.
LEMMA UniqPush ==
  ASSUME NEW L \in [CPUS -> Seq(CSD)], Uniq(L), NEW t \in CPUS, NEW x \in CSD,
         \A u \in CPUS : ~In(x, L[u])
  PROVE  Uniq([L EXCEPT ![t] = Append(L[t], x)])
<1> DEFINE M == [L EXCEPT ![t] = Append(L[t], x)]
<1>1. /\ Len(M[t]) = Len(L[t]) + 1 /\ Len(L[t]) \in Nat
      /\ \A i \in 1..Len(L[t]) : M[t][i] = L[t][i]
      /\ M[t][Len(L[t]) + 1] = x
  OBVIOUS
<1>2. \A u \in CPUS : u # t => M[u] = L[u]
  BY Zenon
<1>3. \A u \in CPUS : \A i \in 1..Len(M[u]) :
        \/ i \in 1..Len(L[u]) /\ M[u][i] = L[u][i]
        \/ u = t /\ i = Len(L[t]) + 1 /\ M[u][i] = x
  BY <1>1, <1>2
<1>4. \A u \in CPUS : \A i \in 1..Len(L[u]) : L[u][i] # x
  BY Zenon DEF In
<1> HIDE DEF M
<1>5. ASSUME NEW u \in CPUS, NEW v \in CPUS, NEW i \in 1..Len(M[u]), NEW j \in 1..Len(M[v]),
             M[u][i] = M[v][j]
      PROVE  u = v /\ i = j
  <2>1. CASE i \in 1..Len(L[u]) /\ M[u][i] = L[u][i]
    <3>1. j \in 1..Len(L[v]) /\ M[v][j] = L[v][j]
      BY <1>3, <1>4, <1>5, <2>1, Zenon
    <3>2. i \in 1..Len(L[u]) /\ j \in 1..Len(L[v]) /\ L[u][i] = L[v][j]
      BY <1>5, <2>1, <3>1, Zenon
    <3> QED
      BY <3>2, Zenon DEF Uniq
  <2>2. CASE u = t /\ i = Len(L[t]) + 1 /\ M[u][i] = x
    BY <1>3, <1>4, <1>5, <2>2
  <2> QED
    BY <1>3, <2>1, <2>2, Zenon
<1>6. Uniq(M)
  BY <1>5, Zenon DEF Uniq
<1> QED
  BY <1>6, Zenon DEF M

LEMMA UniqPop ==
  ASSUME NEW L \in [CPUS -> Seq(CSD)], Uniq(L), NEW t \in CPUS, L[t] # <<>>
  PROVE  Uniq([L EXCEPT ![t] = Tail(L[t])])
<1> DEFINE M == [L EXCEPT ![t] = Tail(L[t])]
<1>1. /\ Len(L[t]) \in Nat \ {0} /\ Len(M[t]) = Len(L[t]) - 1
      /\ \A i \in 1..Len(M[t]) : M[t][i] = L[t][i + 1]
  OBVIOUS
<1>2. \A u \in CPUS : u # t => M[u] = L[u]
  BY Zenon
<1>3. \A i \in 1..Len(M[t]) : i + 1 \in 1..Len(L[t])
  BY <1>1
<1>4. \A i, j \in 1..Len(M[t]) : i + 1 = j + 1 => i = j
  BY <1>1
<1> HIDE DEF M
<1>5. ASSUME NEW u \in CPUS, NEW v \in CPUS, NEW i \in 1..Len(M[u]), NEW j \in 1..Len(M[v]),
             M[u][i] = M[v][j]
      PROVE  u = v /\ i = j
  <2>1. CASE u = t /\ v = t
    <3>1. /\ i + 1 \in 1..Len(L[t]) /\ j + 1 \in 1..Len(L[t]) /\ L[t][i + 1] = L[t][j + 1]
      BY <1>1, <1>3, <1>5, <2>1, Zenon
    <3>2. i + 1 = j + 1
      BY <3>1, Zenon DEF Uniq
    <3> QED
      BY <1>4, <2>1, <3>2, Zenon
  <2>2. CASE u = t /\ v # t
    <3>1. i + 1 \in 1..Len(L[u]) /\ j \in 1..Len(L[v]) /\ L[u][i + 1] = L[v][j]
      BY <1>1, <1>2, <1>3, <1>5, <2>2, Zenon
    <3> QED
      BY <2>2, <3>1, Zenon DEF Uniq
  <2>3. CASE u # t /\ v = t
    <3>1. i \in 1..Len(L[u]) /\ j + 1 \in 1..Len(L[v]) /\ L[u][i] = L[v][j + 1]
      BY <1>1, <1>2, <1>3, <1>5, <2>3, Zenon
    <3> QED
      BY <2>3, <3>1, Zenon DEF Uniq
  <2>4. CASE u # t /\ v # t
    <3>1. i \in 1..Len(L[u]) /\ j \in 1..Len(L[v]) /\ L[u][i] = L[v][j]
      BY <1>2, <1>5, <2>4, Zenon
    <3> QED
      BY <3>1, Zenon DEF Uniq
  <2> QED
    BY <2>1, <2>2, <2>3, <2>4, Zenon
<1>6. Uniq(M)
  BY <1>5, Zenon DEF Uniq
<1> QED
  BY <1>6, Zenon DEF M

\* What the steps do to the entries that handlers will come across: llist_add
\* by a task or an asynchronous call, the handler's next entry, llist_del_all.
LEMMA PushLinks ==
  ASSUME batch \in [CPUS -> Seq(CSD)], queue \in [CPUS -> Seq(CSD)], Uniq(links),
         NEW t \in CPUS, NEW x \in CSD, ~Somewhere(x),
         queue' = [queue EXCEPT ![t] = Append(@, x)], batch' = batch
  PROVE  /\ Uniq(links)'
         /\ \A u \in CPUS : \A y \in CSD :
              /\ In(y, queue'[u]) <=> In(y, queue[u]) \/ (u = t /\ y = x)
              /\ In(y, Linked(u)') <=> In(y, Linked(u)) \/ (u = t /\ y = x)
<1>1. links \in [CPUS -> Seq(CSD)]
  BY DEF links, Linked
<1>2. \A u \in CPUS : links[u] = batch[u] \o queue[u]
  BY Zenon DEF links, Linked
<1>3. batch[t] \o Append(queue[t], x) = Append(batch[t] \o queue[t], x)
  OBVIOUS
<1>4. links' = [links EXCEPT ![t] = Append(links[t], x)]
  BY <1>2, <1>3, Zenon DEF links, Linked
<1>5. \A u \in CPUS : ~In(x, links[u])
  BY <1>2, Zenon DEF Somewhere, Linked
<1>6. Uniq(links')
  BY <1>1, <1>4, <1>5, UniqPush, Zenon
<1>7. ASSUME NEW u \in CPUS, NEW y \in CSD
      PROVE  In(y, queue'[u]) <=> In(y, queue[u]) \/ (u = t /\ y = x)
  BY InAppend, Zenon
<1>8. ASSUME NEW u \in CPUS, NEW y \in CSD
      PROVE  In(y, Linked(u)') <=> In(y, Linked(u)) \/ (u = t /\ y = x)
  <2>1. queue'[u] \in Seq(CSD)
    OBVIOUS
  <2> QED
    BY <1>7, <2>1, InConcat, Zenon DEF Linked
<1> QED
  BY <1>6, <1>7, <1>8, Zenon

LEMMA PopLinks ==
  ASSUME batch \in [CPUS -> Seq(CSD)], queue \in [CPUS -> Seq(CSD)], Uniq(links),
         NEW c \in CPUS, batch[c] # <<>>,
         batch' = [batch EXCEPT ![c] = Tail(@)], queue' = queue
  PROVE  /\ Uniq(links)' /\ Head(batch[c]) \in CSD /\ In(Head(batch[c]), Linked(c))
         /\ batch'[c] \in Seq(CSD)
         /\ \A u \in CPUS : \A y \in CSD :
              /\ In(y, batch'[u]) => In(y, batch[u])
              /\ In(y, Linked(u)') <=> In(y, Linked(u)) /\ y # Head(batch[c])
<1>1. links \in [CPUS -> Seq(CSD)]
  BY DEF links, Linked
<1>2. \A u \in CPUS : links[u] = batch[u] \o queue[u] /\ Linked(u) = links[u]
  BY Zenon DEF links, Linked
<1>3. Tail(batch[c]) \in Seq(CSD) /\ Head(batch[c]) \in CSD
  OBVIOUS
<1>4. /\ Tail(batch[c]) \o queue[c] = Tail(links[c]) /\ links[c] # <<>>
      /\ Head(links[c]) = Head(batch[c])
  <2>1. batch[c] \in Seq(CSD) /\ queue[c] \in Seq(CSD) /\ links[c] = batch[c] \o queue[c]
    BY <1>2, Zenon
  <2>2. /\ batch[c] \o queue[c] # <<>> /\ Head(batch[c] \o queue[c]) = Head(batch[c])
        /\ Tail(batch[c]) \o queue[c] = Tail(batch[c] \o queue[c])
    BY <2>1, TailConcat, Zenon
  <2> QED
    BY <2>1, <2>2, Zenon
<1>5. links' = [links EXCEPT ![c] = Tail(links[c])]
  BY <1>2, <1>4, Zenon DEF links, Linked
<1>6. Uniq(links')
  BY <1>1, <1>4, <1>5, UniqPop, Zenon
<1>7. In(Head(links[c]), links[c])
  BY <1>1, <1>4 DEF In
<1>8. \A u \in CPUS : u # c => links'[u] = links[u] /\ batch'[u] = batch[u]
  BY <1>1, <1>5, Zenon
<1>9. \A u \in CPUS : u # c => ~In(Head(links[c]), links[u])
  BY <1>7, Zenon DEF Uniq, In
<1>10. \A y \in CSD : In(y, links'[c]) <=> In(y, links[c]) /\ y # Head(links[c])
  <2>1. \A i, j \in 1..Len(links[c]) : links[c][i] = links[c][j] => i = j
    BY Zenon DEF Uniq
  <2>2. links'[c] = Tail(links[c]) /\ links[c] \in Seq(CSD)
    BY <1>1, <1>5, Zenon
  <2>3. \A y : In(y, Tail(links[c])) <=> In(y, links[c]) /\ y # Head(links[c])
    BY <1>4, <2>1, <2>2, InTail, Zenon
  <2> QED
    BY <2>2, <2>3, Zenon
<1>11. \A y \in CSD : In(y, batch'[c]) => In(y, batch[c])
  <2>1. batch'[c] = Tail(batch[c])
    BY Zenon
  <2>2. /\ Len(batch[c]) \in Nat /\ Len(Tail(batch[c])) = Len(batch[c]) - 1
        /\ \A i \in 1..Len(Tail(batch[c])) : Tail(batch[c])[i] = batch[c][i + 1]
    OBVIOUS
  <2>3. \A i \in 1..Len(Tail(batch[c])) : i + 1 \in 1..Len(batch[c])
    BY <2>2
  <2> QED
    BY <2>1, <2>2, <2>3, Zenon DEF In
<1>12. \A u \in CPUS : Linked(u)' = links'[u]
  BY Zenon DEF links
<1>13. ASSUME NEW u \in CPUS, NEW y \in CSD
       PROVE  /\ In(y, batch'[u]) => In(y, batch[u])
              /\ In(y, links'[u]) <=> In(y, links[u]) /\ y # Head(links[c])
  <2>1. CASE u = c
    BY <1>10, <1>11, <2>1, Zenon
  <2>2. CASE u # c
    BY <1>8, <1>9, <2>2, Zenon
  <2> QED
    BY <2>1, <2>2, Zenon
<1>14. batch'[c] \in Seq(CSD)
  BY <1>3, Zenon
<1> QED
  BY <1>2, <1>3, <1>4, <1>6, <1>7, <1>12, <1>13, <1>14, Zenon

LEMMA TakeLinks ==
  ASSUME batch \in [CPUS -> Seq(CSD)], queue \in [CPUS -> Seq(CSD)], Uniq(links),
         NEW c \in CPUS, batch[c] = <<>>, TakeQueue(c)
  PROVE  Uniq(links)' /\ \A u \in CPUS : Linked(u)' = Linked(u)
<1>1. batch'[c] \o queue'[c] = batch[c] \o queue[c]
  BY DEF TakeQueue
<1>2. \A u \in CPUS : Linked(u)' = Linked(u)
  BY <1>1, Zenon DEF TakeQueue, Linked
<1>3. links' = links
  BY <1>2, Zenon DEF links
<1> QED
  BY <1>2, <1>3, Zenon

-----------------------------------------------------------------------------
(* Ownership of csds: the inductive invariant *)

CsdTypes ==
  /\ flags \in [CSD -> SUBSET {"LOCK", "SYNCHRONOUS"}]
  /\ batch \in [CPUS -> Seq(CSD)]
  /\ sent \in [CPUS -> SUBSET CSD]
  /\ wait \in [CPUS -> BOOLEAN]
  /\ irq \in [CPUS -> {"off", "next", "ran"}]
  /\ owed \in [CPUS -> SUBSET CPUS]
  /\ late \subseteq Online

\* The handler runs on CPUs that are up or dying, or late on one that is dead,
\* and has a batch only then.
HandlerOK ==
  \A c \in CPUS :
    /\ irq[c] = "off" => batch[c] = <<>>
    /\ irq[c] = "ran" => batch[c] # <<>>
    /\ hotplug[c] \notin {"online", "dying", "dead"} => irq[c] = "off"

\* A context inside smp_call_function_single_async exists, and has the csd to
\* itself until generic_exec_single links it.
AsyncOK ==
  \A o \in OBJS : async[o].st # "idle" =>
    /\ async[o].cpu \in CPUS
    /\ async[o].ctx = "task" => async[o].cpu \in Online
    /\ async[o].ctx = "irq" => irq[async[o].cpu] # "off"
    /\ async[o].st = "exec" => Locked(Obj(o)) /\ ~Somewhere(Obj(o))

\* smp_call_function_single waits for the csd on its stack.
StackOK == \A c \in CPUS : Somewhere(Stack(c)) => Stack(c) \in sent[c]

MaskOK == \A c \in CPUS : cpumask_ipi[c] # {} => pc[c] \in {"many", "send"}

\* stop_machine: one CPU is dying, none is dead, and the others are in no call.
StopOK ==
  \A t \in CPUS : hotplug[t] = "dying" =>
    /\ late = {}
    /\ \A u \in CPUS : hotplug[u] \in {"dying", "dead"} => u = t
    /\ \A c \in Online : pc[c] = "idle" /\ irq[c] = "off" /\ ~InAsync(c, "task")

\* The last calls of a dead CPU are with handlers that smpcfd_dead_cpu waits for.
DeadOK ==
  \A t, u, v \in CPUS : hotplug[t] = "dead" =>
    /\ In(Cfd(t, u), batch[v]) => v \in late
    /\ In(Cfd(t, u), queue[v]) => v \in late /\ irq[v] = "off"

Held == \A csd \in CSD : Somewhere(csd) => Locked(csd) /\ Alive(csd)

\* The handler of t has yet to call the function of csd, for which c waits.
Pending(c, t, csd) ==
  /\ csd \in sent[c] /\ csd.owner = c
  /\ In(csd, Linked(t)) /\ "SYNCHRONOUS" \in flags[csd]
  /\ ~(irq[t] = "ran" /\ Head(batch[t]) = csd)

WaitOK ==
  \A c \in CPUS : \A t \in owed[c] :
    /\ wait[c] /\ pc[c] \in {"many", "send", "wait"}
    /\ \E csd \in CSD : Pending(c, t, csd)

CsdInv ==
  /\ CsdTypes /\ HandlerOK /\ AsyncOK /\ StackOK /\ MaskOK /\ StopOK /\ DeadOK
  /\ Uniq(links) /\ Held /\ WaitOK

-----------------------------------------------------------------------------

LEMMA SameLinks ==
  ASSUME UNCHANGED <<batch, queue>>
  PROVE  /\ links' = links /\ \A u \in CPUS : Linked(u)' = Linked(u)
         /\ \A y : Somewhere(y)' <=> Somewhere(y)
  BY Zenon DEF links, Linked, Somewhere

\* The csds of different calls are different.
LEMMA CsdKinds ==
  /\ \A c : Stack(c).kind = "stack" /\ Stack(c).owner = c
  /\ \A c : Data(c).kind = "data" /\ Data(c).owner = c
  /\ \A c, t : Cfd(c, t).kind = "cfd" /\ Cfd(c, t).owner = c /\ Cfd(c, t).to = t
  /\ \A o : Obj(o).kind = "obj" /\ Obj(o).owner = o
  /\ \A csd \in CSD : csd.kind = "stack" => csd.owner \in CPUS /\ csd = Stack(csd.owner)
  /\ \A csd \in CSD : csd.kind = "cfd" => csd.owner \in CPUS /\ csd.to \in CPUS
                                          /\ csd = Cfd(csd.owner, csd.to)
  BY DEF Stack, Data, Cfd, Obj, CSD

-----------------------------------------------------------------------------
(* Ownership of csds: the steps of tasks *)

\* Steps of the task of c that queue nothing.
LEMMA TaskQuiet ==
  ASSUME CsdInv, NEW c \in CPUS, ~Stopped,
         UNCHANGED <<hotplug, late, queue, irq, batch, async, owed>>,
         \A csd \in CSD : Somewhere(csd) \/ csd.kind = "obj" => flags'[csd] = flags[csd],
         flags' \in [CSD -> SUBSET {"LOCK", "SYNCHRONOUS"}],
         wait' \in [CPUS -> BOOLEAN], sent' \in [CPUS -> SUBSET CSD],
         \A d \in CPUS : d # c => /\ pc'[d] = pc[d] /\ wait'[d] = wait[d]
                                  /\ sent'[d] = sent[d] /\ cpumask_ipi'[d] = cpumask_ipi[d],
         Somewhere(Stack(c)) =>
           Stack(c) \in sent'[c] /\ pc'[c] \in {"send", "wait"} /\ wait'[c],
         cpumask_ipi'[c] # {} => pc'[c] \in {"many", "send"},
         owed[c] # {} =>
           wait'[c] /\ pc'[c] \in {"many", "send", "wait"} /\ sent[c] \subseteq sent'[c]
  PROVE  CsdInv'
<1>1. /\ links' = links /\ \A u \in CPUS : Linked(u)' = Linked(u)
      /\ \A y : Somewhere(y)' <=> Somewhere(y)
  BY SameLinks, Zenon
<1>2. CsdTypes'
  BY Zenon DEF CsdInv, CsdTypes, Online
<1>3. HandlerOK'
  BY Zenon DEF CsdInv, HandlerOK
<1>4. AsyncOK'
  BY <1>1, CsdKinds, CsdType DEF CsdInv, AsyncOK, Online, Locked
<1>5. StackOK'
  BY <1>1, Zenon DEF CsdInv, StackOK
<1>6. MaskOK'
  BY Zenon DEF CsdInv, MaskOK
<1>7. StopOK'
  BY Zenon DEF StopOK, Stopped
<1>8. DeadOK'
  BY DEF CsdInv, DeadOK
<1>9. Uniq(links)'
  BY <1>1, Zenon DEF CsdInv
<1>10. Held'
  BY <1>1, CsdKinds DEF CsdInv, Held, Locked, Alive
<1>11. WaitOK'
  <2> SUFFICES ASSUME NEW d \in CPUS, NEW t \in owed[d]
               PROVE  /\ wait'[d] /\ pc'[d] \in {"many", "send", "wait"}
                      /\ \E csd \in CSD : Pending(d, t, csd)'
    BY Zenon DEF WaitOK
  <2>1. t \in CPUS /\ owed[d] # {}
    BY Zenon DEF CsdInv, CsdTypes
  <2>2. PICK csd \in CSD : Pending(d, t, csd)
    BY Zenon DEF CsdInv, WaitOK
  <2>3. Somewhere(csd)
    BY <2>1, <2>2, Zenon DEF Pending, Somewhere
  <2>4. Pending(d, t, csd)'
    BY <1>1, <2>1, <2>2, <2>3, Zenon DEF Pending
  <2>5. wait'[d] /\ pc'[d] \in {"many", "send", "wait"}
    BY <2>1, Zenon DEF CsdInv, WaitOK
  <2> QED
    BY <2>4, <2>5, Zenon
<1> QED
  BY <1>2, <1>3, <1>4, <1>5, <1>6, <1>7, <1>8, <1>9, <1>10, <1>11, Zenon DEF CsdInv

\* Steps of the task of c that queue a csd, which nobody uses.
LEMMA TaskPush ==
  ASSUME IpiInv, CsdInv, NEW c \in CPUS, c \in Online, ~Stopped, NEW t \in CPUS, NEW csd \in CSD,
         csd.kind # "obj", csd.owner = c,
         ~Somewhere(csd), ~Somewhere(Stack(c)), Enqueue(c, t, csd),
         flags' = [flags EXCEPT ![csd] = Flags(wait[c])],
         UNCHANGED <<hotplug, late, irq, batch, async, wait>>,
         \A d \in CPUS : d # c => pc'[d] = pc[d],
         pc'[c] \in {"many", "send"},
         csd.kind = "stack" => pc'[c] = "send" /\ wait[c]
  PROVE  CsdInv'
<1>1. /\ batch \in [CPUS -> Seq(CSD)] /\ queue \in [CPUS -> Seq(CSD)] /\ Uniq(links)
      /\ queue' = [queue EXCEPT ![t] = Append(@, csd)]
  BY Zenon DEF IpiInv, IpiType, CsdInv, CsdTypes, Enqueue
<1>2. /\ Uniq(links)'
      /\ \A u \in CPUS : \A y \in CSD :
           /\ In(y, queue'[u]) <=> In(y, queue[u]) \/ (u = t /\ y = csd)
           /\ In(y, Linked(u)') <=> In(y, Linked(u)) \/ (u = t /\ y = csd)
  BY <1>1, PushLinks, Zenon
<1>3. \A y \in CSD : Somewhere(y)' <=> Somewhere(y) \/ y = csd
  BY <1>2, Zenon DEF Somewhere
<1>4. /\ \A y \in CSD : y # csd => flags'[y] = flags[y]
      /\ "LOCK" \in flags'[csd] /\ (wait[c] => "SYNCHRONOUS" \in flags'[csd])
      /\ flags' \in [CSD -> SUBSET {"LOCK", "SYNCHRONOUS"}]
  BY Zenon DEF Flags, CsdInv, CsdTypes
<1>5. /\ \A d \in CPUS : d # c => sent'[d] = sent[d] /\ cpumask_ipi'[d] = cpumask_ipi[d]
                                  /\ owed'[d] = owed[d]
      /\ sent'[c] = sent[c] \cup {csd} /\ sent' \in [CPUS -> SUBSET CSD]
      /\ owed' \in [CPUS -> SUBSET CPUS]
      /\ owed'[c] = IF wait[c] THEN owed[c] \cup {t} ELSE owed[c]
  BY DEF Enqueue, IpiInv, IpiType, CsdInv, CsdTypes
<1>6. CsdTypes'
  BY <1>4, <1>5, Zenon DEF CsdInv, CsdTypes, Online
<1>7. HandlerOK'
  BY Zenon DEF CsdInv, HandlerOK
<1>8. AsyncOK'
  <2>1. \A o \in OBJS : Obj(o) \in CSD /\ Obj(o) # csd
    BY CsdKinds, CsdType
  <2> QED
    BY <1>3, <1>4, <2>1, Zenon DEF CsdInv, AsyncOK, Online, Locked
<1>9. StackOK'
  <2>1. \A d \in CPUS : Stack(d) \in CSD /\ (Stack(d) = csd => d = c)
    BY CsdKinds, CsdType
  <2> QED
    BY <1>3, <1>5, <2>1, Zenon DEF CsdInv, StackOK
<1>10. MaskOK'
  BY <1>5, Zenon DEF CsdInv, MaskOK
<1>11. StopOK'
  BY Zenon DEF StopOK, Stopped
<1>12. DeadOK'
  <2>1. \A d, u \in CPUS : Cfd(d, u) \in CSD /\ (Cfd(d, u) = csd => d = c)
    BY CsdKinds, CsdType
  <2>2. hotplug[c] = "online"
    BY Zenon DEF Online
  <2>3. ASSUME NEW d \in CPUS, NEW u \in CPUS, NEW v \in CPUS, hotplug[d] = "dead"
        PROVE  /\ In(Cfd(d, u), batch[v]) => v \in late
               /\ In(Cfd(d, u), queue'[v]) => v \in late /\ irq[v] = "off"
    <3>1. Cfd(d, u) \in CSD /\ Cfd(d, u) # csd
      BY <2>1, <2>2, <2>3, Zenon
    <3>2. In(Cfd(d, u), queue'[v]) => In(Cfd(d, u), queue[v])
      BY <1>2, <3>1, Zenon
    <3> QED
      BY <2>3, <3>2, Zenon DEF CsdInv, DeadOK
  <2> QED
    BY <2>3, Zenon DEF DeadOK
<1>13. Held'
  <2> SUFFICES ASSUME NEW y \in CSD, Somewhere(y)' PROVE Locked(y)' /\ Alive(y)'
    BY Zenon DEF Held
  <2>1. CASE y = csd
    <3>1. hotplug'[c] # "off"
      BY Zenon DEF Online
    <3> QED
      BY <1>4, <2>1, <3>1, Zenon DEF Locked, Alive
  <2>2. CASE y # csd
    <3>1. Somewhere(y) /\ Locked(y) /\ Alive(y)
      BY <1>3, <2>2, Zenon DEF CsdInv, Held
    <3>2. y.kind = "stack" => y.owner \in CPUS /\ y.owner # c
      BY <3>1, CsdKinds
    <3> QED
      BY <1>4, <2>2, <3>1, <3>2, Zenon DEF Locked, Alive
  <2> QED
    BY <2>1, <2>2, Zenon
<1>14. WaitOK'
  <2> SUFFICES ASSUME NEW d \in CPUS, NEW u \in owed'[d]
               PROVE  /\ wait'[d] /\ pc'[d] \in {"many", "send", "wait"}
                      /\ \E y \in CSD : Pending(d, u, y)'
    BY Zenon DEF WaitOK
  <2>1. CASE u \in owed[d]
    <3>1. u \in CPUS
      BY <2>1, Zenon DEF CsdInv, CsdTypes
    <3>2. PICK y \in CSD : Pending(d, u, y)
      BY <2>1, Zenon DEF CsdInv, WaitOK
    <3>3. y # csd
      BY <3>1, <3>2, Zenon DEF Pending, Somewhere
    <3>4. Pending(d, u, y)'
      BY <1>2, <1>4, <1>5, <3>1, <3>2, <3>3, Zenon DEF Pending
    <3>5. wait'[d] /\ pc'[d] \in {"many", "send", "wait"}
      BY <2>1, Zenon DEF CsdInv, WaitOK
    <3> QED
      BY <3>4, <3>5, Zenon
  <2>2. CASE u \notin owed[d]
    <3>1. d = c /\ u = t /\ wait[c]
      BY <1>5, <2>2
    <3>2. irq[t] = "ran" => Head(batch[t]) # csd
      <4> SUFFICES ASSUME irq[t] = "ran" PROVE Head(batch[t]) # csd
        BY Zenon
      <4>1. batch[t] # <<>> /\ batch[t] \in Seq(CSD) /\ queue[t] \in Seq(CSD)
        BY <1>1, Zenon DEF CsdInv, HandlerOK
      <4>2. In(Head(batch[t]), batch[t])
        BY <4>1 DEF In
      <4>3. In(Head(batch[t]), Linked(t))
        BY <4>1, <4>2, InConcat, Zenon DEF Linked
      <4> QED
        BY <4>3, Zenon DEF Somewhere
    <3>3. Pending(c, t, csd)'
      BY <1>2, <1>4, <1>5, <3>1, <3>2, Zenon DEF Pending
    <3> QED
      BY <3>1, <3>3, Zenon
  <2> QED
    BY <2>1, <2>2, Zenon
<1> QED
  BY <1>2, <1>6, <1>7, <1>8, <1>9, <1>10, <1>11, <1>12, <1>13, <1>14, Zenon DEF CsdInv

\* The csd on the stack of c is linked only while the call waits for it.
LEMMA StackUnlinked ==
  ASSUME CsdInv, NEW c \in CPUS, ~(pc[c] \in {"send", "wait"} /\ wait[c])
  PROVE  ~Somewhere(Stack(c))
  BY CsdKinds, CsdType DEF CsdInv, Held, Alive

LEMMA CallCsd ==
  ASSUME IpiInv, CsdInv, NEW c \in CPUS, Call(c)
  PROVE  CsdInv'
<1>1. PICK label, S, w : w \in BOOLEAN /\ Start(c, label, S, w)
  BY Zenon DEF Call, CallSingle, CallAny, CallOneByOne, CallMany
<1>2. /\ pc[c] = "idle" /\ ~Stopped
      /\ UNCHANGED <<hotplug, late, queue, irq, batch, async, owed, flags, sent, cpumask_ipi>>
  BY <1>1, Zenon DEF Start, TaskRuns, handler
<1>3. /\ \A d \in CPUS : d # c => pc'[d] = pc[d] /\ wait'[d] = wait[d]
      /\ wait' \in [CPUS -> BOOLEAN]
  BY <1>1, Zenon DEF Start, Continue, IpiInv, IpiType, CsdInv, CsdTypes
<1>4. ~Somewhere(Stack(c)) /\ cpumask_ipi[c] = {} /\ owed[c] = {}
  BY <1>2, StackUnlinked, Zenon DEF CsdInv, MaskOK, WaitOK
<1>5. flags \in [CSD -> SUBSET {"LOCK", "SYNCHRONOUS"}] /\ sent \in [CPUS -> SUBSET CSD]
  BY Zenon DEF CsdInv, CsdTypes
<1> QED
  BY <1>2, <1>3, <1>4, <1>5, TaskQuiet, Zenon

LEMMA TaskCsd ==
  ASSUME IpiInv, CsdInv, NEW c \in CPUS, TaskStep(c)
  PROVE  CsdInv'
<1>0. /\ c \in Online /\ ~Stopped /\ UNCHANGED <<hotplug, late, irq, batch, async>>
      /\ flags \in [CSD -> SUBSET {"LOCK", "SYNCHRONOUS"}] /\ sent \in [CPUS -> SUBSET CSD]
      /\ wait \in [CPUS -> BOOLEAN]
      /\ pc \in [CPUS -> {"idle", "single", "many", "send", "wait"}]
      /\ cpumask_ipi \in [CPUS -> SUBSET CPUS]
  BY Zenon DEF TaskStep, Single, ManyTurn, Send, Wait, TaskRuns, handler, IpiInv, IpiType, CsdInv, CsdTypes
<1>1. CASE Single(c)
  <2> DEFINE csd == IF wait[c] THEN Stack(c) ELSE Data(c)
  <2>0. PICK t \in First(rest[c]) :
           \/ /\ flags' = [flags EXCEPT ![csd] = {}]
              /\ Continue(c, "single", rest[c] \ {t}, wait[c])
              /\ UNCHANGED <<queue, cpumask_ipi, sent, owed>>
           \/ /\ t \in Online /\ flags' = [flags EXCEPT ![csd] = Flags(wait[c])]
              /\ Enqueue(c, t, csd) /\ pc' = [pc EXCEPT ![c] = "send"] /\ UNCHANGED wait
    BY <1>1, Zenon DEF Single
  <2>1. pc[c] = "single" /\ (wait[c] \/ ~Locked(csd))
    BY <1>1, Zenon DEF Single
  <2>2. /\ csd \in CSD /\ csd.kind # "obj" /\ csd.kind # "cfd" /\ csd.owner = c
        /\ csd.kind = "stack" => wait[c]
    BY CsdType, CsdKinds, Zenon
  <2>3. ~Somewhere(csd) /\ ~Somewhere(Stack(c)) /\ owed[c] = {} /\ cpumask_ipi[c] = {}
    BY <2>1, <2>2, StackUnlinked, Zenon DEF CsdInv, Held, WaitOK, MaskOK
  <2>4. CASE /\ flags' = [flags EXCEPT ![csd] = {}]
             /\ Continue(c, "single", rest[c] \ {t}, wait[c])
             /\ UNCHANGED <<queue, cpumask_ipi, sent, owed>>
    <3>1. \A y \in CSD : Somewhere(y) \/ y.kind = "obj" => y # csd
      BY <2>2, <2>3, Zenon
    <3> HIDE DEF csd
    <3>2. /\ flags' \in [CSD -> SUBSET {"LOCK", "SYNCHRONOUS"}]
          /\ \A y \in CSD : y # csd => flags'[y] = flags[y]
      BY <1>0, <2>4, Zenon
    <3>3. /\ \A d \in CPUS : d # c => pc'[d] = pc[d] /\ wait'[d] = wait[d]
          /\ wait' \in [CPUS -> BOOLEAN]
      BY <1>0, <2>4, Zenon DEF Continue
    <3> QED
      BY <1>0, <2>3, <2>4, <3>1, <3>2, <3>3, TaskQuiet, Zenon
  <2>5. CASE /\ t \in Online /\ flags' = [flags EXCEPT ![csd] = Flags(wait[c])]
             /\ Enqueue(c, t, csd) /\ pc' = [pc EXCEPT ![c] = "send"] /\ UNCHANGED wait
    <3>1. t \in CPUS
      BY <2>5, Zenon DEF Online
    <3> HIDE DEF csd
    <3> QED
      BY <1>0, <2>2, <2>3, <2>5, <3>1, TaskPush, Zenon
  <2> QED
    BY <2>0, <2>4, <2>5, Zenon
<1>2. CASE ManyTurn(c)
  <2>0. PICK t \in First(rest[c]) :
          /\ ~Locked(Cfd(c, t)) /\ flags' = [flags EXCEPT ![Cfd(c, t)] = Flags(wait[c])]
          /\ Enqueue(c, t, Cfd(c, t))
    BY <1>2, Zenon DEF ManyTurn
  <2> DEFINE csd == Cfd(c, t)
  <2>1. pc[c] = "many" /\ UNCHANGED <<pc, wait>>
    BY <1>2, Zenon DEF ManyTurn
  <2>3. t \in CPUS
    BY <2>1, Zenon DEF First, IpiInv, TargetsOnline, Online
  <2>4. csd \in CSD /\ csd.kind = "cfd" /\ csd.owner = c
    BY <2>3, CsdType, CsdKinds
  <2>5. ~Somewhere(csd) /\ ~Somewhere(Stack(c))
    BY <2>0, <2>1, <2>4, StackUnlinked, Zenon DEF CsdInv, Held
  <2>6. /\ Enqueue(c, t, csd) /\ flags' = [flags EXCEPT ![csd] = Flags(wait[c])]
        /\ csd.kind # "obj" /\ csd.kind # "stack" /\ pc'[c] \in {"many", "send"}
    BY <2>0, <2>1, <2>4, Zenon
  <2> HIDE DEF csd
  <2> QED
    BY <1>0, <2>1, <2>3, <2>4, <2>5, <2>6, TaskPush, Zenon
<1>3. CASE Send(c)
  <2>1. /\ pc[c] \in {"send", "many"} /\ UNCHANGED <<queue, owed, flags>>
        /\ cpumask_ipi' = [cpumask_ipi EXCEPT ![c] = {}]
    BY <1>3, Zenon DEF Send
  <2>2. CASE wait[c] /\ pc' = [pc EXCEPT ![c] = "wait"] /\ UNCHANGED <<wait, sent>>
    <3>1. Somewhere(Stack(c)) => Stack(c) \in sent[c]
      BY Zenon DEF CsdInv, StackOK
    <3> QED
      BY <1>0, <2>1, <2>2, <3>1, TaskQuiet, Zenon
  <2>3. CASE /\ ~wait[c] /\ Continue(c, "single", rest[c], FALSE)
             /\ sent' = [sent EXCEPT ![c] = {}]
    <3>1. ~Somewhere(Stack(c)) /\ owed[c] = {}
      BY <2>3, StackUnlinked, Zenon DEF CsdInv, WaitOK
    <3>2. /\ \A d \in CPUS : d # c => pc'[d] = pc[d] /\ wait'[d] = wait[d] /\ sent'[d] = sent[d]
          /\ wait' \in [CPUS -> BOOLEAN] /\ sent' \in [CPUS -> SUBSET CSD]
      BY <1>0, <2>3, Zenon DEF Continue
    <3>3. /\ cpumask_ipi'[c] = {} /\ \A d \in CPUS : d # c => cpumask_ipi'[d] = cpumask_ipi[d]
          /\ flags' = flags /\ UNCHANGED <<queue, owed>>
      BY <1>0, <2>1, Zenon
    <3> QED
      BY <1>0, <3>1, <3>2, <3>3, TaskQuiet, Zenon
  <2> QED
    BY <1>3, <2>2, <2>3, Zenon DEF Send
<1>4. CASE Wait(c)
  <2>1. /\ pc[c] = "wait" /\ UNCHANGED <<queue, owed, flags, cpumask_ipi>>
        /\ \A csd \in sent[c] : ~Locked(csd)
    BY <1>4, Zenon DEF Wait
  <2>2. ~Somewhere(Stack(c)) /\ cpumask_ipi[c] = {}
    BY <2>1, CsdType, Zenon DEF CsdInv, StackOK, Held, MaskOK
  <2>3. owed[c] = {}
    <3> SUFFICES ASSUME NEW t \in owed[c] PROVE FALSE
      BY Zenon
    <3>1. t \in CPUS
      BY Zenon DEF CsdInv, CsdTypes
    <3>2. PICK csd \in CSD : Pending(c, t, csd)
      BY Zenon DEF CsdInv, WaitOK
    <3> QED
      BY <2>1, <3>1, <3>2, Zenon DEF Pending, CsdInv, Held, Somewhere
  <2>4. /\ \A d \in CPUS : d # c => pc'[d] = pc[d] /\ wait'[d] = wait[d] /\ sent'[d] = sent[d]
        /\ wait' \in [CPUS -> BOOLEAN] /\ sent' \in [CPUS -> SUBSET CSD]
    BY <1>0, <1>4, Zenon DEF Wait, Continue
  <2> QED
    BY <1>0, <2>1, <2>2, <2>3, <2>4, TaskQuiet, Zenon
<1> QED
  BY <1>1, <1>2, <1>3, <1>4, Zenon DEF TaskStep

-----------------------------------------------------------------------------
(* Ownership of csds: the handler and asynchronous calls *)

\* Taking the queue leaves alone who waits for what.
LEMMA TakeWait ==
  ASSUME CsdInv, NEW c \in CPUS, TakeQueue(c), \A u \in CPUS : Linked(u)' = Linked(u),
         UNCHANGED <<flags, pc, wait, sent, owed>>
  PROVE  WaitOK'
<1> SUFFICES ASSUME NEW d \in CPUS, NEW t \in owed[d]
             PROVE  /\ wait'[d] /\ pc'[d] \in {"many", "send", "wait"}
                    /\ \E csd \in CSD : Pending(d, t, csd)'
  BY Zenon DEF WaitOK
<1>1. t \in CPUS
  BY Zenon DEF CsdInv, CsdTypes
<1>2. PICK csd \in CSD : Pending(d, t, csd)
  BY Zenon DEF CsdInv, WaitOK
<1>3. irq'[t] = "ran" => irq[t] = "ran" /\ batch'[t] = batch[t]
  BY <1>1, Zenon DEF TakeQueue, CsdInv, CsdTypes
<1>4. Pending(d, t, csd)'
  BY <1>1, <1>2, <1>3, Zenon DEF Pending
<1> QED
  BY <1>4, Zenon DEF CsdInv, WaitOK

LEMMA InterruptCsd ==
  ASSUME IpiInv, CsdInv, NEW c \in CPUS, Interrupt(c)
  PROVE  CsdInv'
<1>1. /\ hotplug[c] \in {"online", "dead"} /\ ~Stopped /\ irq[c] = "off" /\ batch[c] = <<>>
      /\ TakeQueue(c)
      /\ UNCHANGED <<hotplug, late, flags, pc, wait, sent, cpumask_ipi, async, owed>>
      /\ batch \in [CPUS -> Seq(CSD)] /\ queue \in [CPUS -> Seq(CSD)] /\ Uniq(links)
  BY Zenon DEF Interrupt, task, CsdInv, CsdTypes, HandlerOK, IpiInv, IpiType
<1>2. Uniq(links)' /\ \A u \in CPUS : Linked(u)' = Linked(u)
  BY <1>1, TakeLinks, Zenon
<1>3. \A y : Somewhere(y)' <=> Somewhere(y)
  BY <1>2, Zenon DEF Somewhere
<1>4. /\ \A d \in CPUS : d # c => irq'[d] = irq[d] /\ batch'[d] = batch[d] /\ queue'[d] = queue[d]
      /\ irq'[c] = "next" /\ batch'[c] = queue[c] /\ queue'[c] = <<>>
      /\ irq' \in [CPUS -> {"off", "next", "ran"}] /\ batch' \in [CPUS -> Seq(CSD)]
  BY <1>1, Zenon DEF TakeQueue, CsdInv, CsdTypes
<1>5. CsdTypes'
  BY <1>1, <1>4, Zenon DEF CsdInv, CsdTypes, Online
<1>6. HandlerOK'
  BY <1>1, <1>4, Zenon DEF CsdInv, HandlerOK, Online
<1>7. AsyncOK'
  BY <1>1, <1>3, <1>4, Zenon DEF CsdInv, AsyncOK, Online, Locked
<1>8. StackOK' /\ MaskOK' /\ Held'
  BY <1>1, <1>3, Zenon DEF CsdInv, StackOK, MaskOK, Held, Locked, Alive
<1>9. StopOK'
  BY <1>1, Zenon DEF StopOK, Stopped
<1>10. DeadOK'
  <2>1. \A x : ~In(x, <<>>)
    BY InEmpty, Zenon
  <2>2. ASSUME NEW d \in CPUS, NEW u \in CPUS, NEW v \in CPUS, hotplug[d] = "dead"
        PROVE  /\ In(Cfd(d, u), batch'[v]) => v \in late
               /\ In(Cfd(d, u), queue'[v]) => v \in late /\ irq'[v] = "off"
    <3>1. /\ In(Cfd(d, u), batch[v]) => v \in late
          /\ In(Cfd(d, u), queue[v]) => v \in late /\ irq[v] = "off"
      BY <2>2, Zenon DEF CsdInv, DeadOK
    <3> QED
      BY <1>4, <2>1, <3>1, Zenon
  <2> QED
    BY <1>1, <2>2, Zenon DEF DeadOK
<1>11. WaitOK'
  BY <1>1, <1>2, TakeWait, Zenon
<1> QED
  BY <1>2, <1>5, <1>6, <1>7, <1>8, <1>9, <1>10, <1>11, Zenon DEF CsdInv

LEMMA HandlerCsd ==
  ASSUME IpiInv, CsdInv, NEW c \in CPUS, HandlerStep(c)
  PROVE  CsdInv'
<1>0. /\ irq[c] # "off" /\ ~InAsync(c, "irq") /\ (Stopped => c \notin Online)
      /\ UNCHANGED <<hotplug, queue, pc, wait, sent, cpumask_ipi, async>>
      /\ flags \in [CSD -> SUBSET {"LOCK", "SYNCHRONOUS"}]
      /\ irq \in [CPUS -> {"off", "next", "ran"}] /\ owed \in [CPUS -> SUBSET CPUS]
      /\ batch \in [CPUS -> Seq(CSD)] /\ queue \in [CPUS -> Seq(CSD)] /\ Uniq(links)
  BY Zenon DEF HandlerStep, RunSync, Unlock, FlushReturn, HandlerRuns, task, IpiInv, IpiType, CsdInv,
     CsdTypes
<1>1. CASE RunSync(c)
  <2> DEFINE h == Head(batch[c])
  <2>1. /\ irq[c] = "next" /\ batch[c] # <<>> /\ UNCHANGED <<late, flags, batch>>
        /\ irq' = [irq EXCEPT ![c] = "ran"]
        /\ owed' = [owed EXCEPT ![h.owner] = @ \ {c}]
    BY <1>1, Zenon DEF RunSync
  <2>2. /\ links' = links /\ \A u \in CPUS : Linked(u)' = Linked(u)
        /\ \A y : Somewhere(y)' <=> Somewhere(y)
    BY <1>0, <2>1, SameLinks, Zenon
  <2>3. owed' \in [CPUS -> SUBSET CPUS] /\ \A d \in CPUS : owed'[d] \subseteq owed[d]
    BY <1>0, <2>1, ZenonT(60)
  <2>4. h.owner \in CPUS => c \notin owed'[h.owner]
    BY <1>0, <2>1, Zenon
  <2> HIDE DEF h
  <2>5. CsdTypes'
    BY <1>0, <2>1, <2>3, Zenon DEF CsdInv, CsdTypes, Online
  <2>6. HandlerOK' /\ AsyncOK'
    BY <1>0, <2>1, <2>2, ZenonT(60) DEF CsdInv, HandlerOK, AsyncOK, Online, Locked
  <2>7. StackOK' /\ MaskOK' /\ Held'
    BY <1>0, <2>1, <2>2, Zenon DEF CsdInv, StackOK, MaskOK, Held, Locked, Alive
  <2>8. StopOK'
    BY <1>0, <2>1 DEF CsdInv, StopOK, Stopped, Online, InAsync
  <2>9. DeadOK'
    BY <1>0, <2>1, Zenon DEF CsdInv, DeadOK
  <2>10. ASSUME NEW d \in CPUS, NEW t \in owed'[d]
         PROVE  /\ wait'[d] /\ pc'[d] \in {"many", "send", "wait"}
                /\ \E y \in CSD : Pending(d, t, y)'
    <3>1. t \in owed[d] /\ t \in CPUS
      BY <2>3, Zenon
    <3>2. PICK y \in CSD : Pending(d, t, y)
      BY <3>1, Zenon DEF CsdInv, WaitOK
    <3>3. t = c => y # h
      BY <2>4, <2>10, <3>2, Zenon DEF Pending
    <3>4. Pending(d, t, y)'
      BY <1>0, <2>1, <2>2, <3>1, <3>2, <3>3, Zenon DEF Pending, h
    <3> QED
      BY <1>0, <3>1, <3>4, Zenon DEF CsdInv, WaitOK
  <2> QED
    BY <1>0, <2>2, <2>5, <2>6, <2>7, <2>8, <2>9, <2>10, Zenon DEF CsdInv, WaitOK
<1>2. CASE Unlock(c)
  <2> DEFINE h == Head(batch[c])
  <2>1. /\ batch[c] # <<>> /\ UNCHANGED <<late, owed>>
        /\ irq' = [irq EXCEPT ![c] = "next"]
        /\ flags' = [flags EXCEPT ![h] = {}] /\ batch' = [batch EXCEPT ![c] = Tail(@)]
        /\ irq[c] = "ran" \/ "SYNCHRONOUS" \notin flags[h]
    BY <1>2, Zenon DEF Unlock, CsdInv, HandlerOK
  <2>2. /\ Uniq(links)' /\ h \in CSD /\ In(h, Linked(c)) /\ batch'[c] \in Seq(CSD)
        /\ \A u \in CPUS : \A y \in CSD :
             /\ In(y, batch'[u]) => In(y, batch[u])
             /\ In(y, Linked(u)') <=> In(y, Linked(u)) /\ y # h
    BY <1>0, <2>1, PopLinks, Zenon
  <2>3. \A y \in CSD : (Somewhere(y)' <=> Somewhere(y) /\ y # h)
    BY <2>2, Zenon DEF Somewhere
  <2>4. Somewhere(h)
    BY <2>2, Zenon DEF Somewhere
  <2>5. batch' \in [CPUS -> Seq(CSD)] /\ \A d \in CPUS : d # c => batch'[d] = batch[d]
    BY <1>0, <2>1, <2>2, Zenon
  <2> HIDE DEF h
  <2>6. CsdTypes'
    BY <1>0, <2>1, <2>5, Zenon DEF CsdInv, CsdTypes, Online
  <2>7. HandlerOK'
    BY <1>0, <2>1, <2>5, Zenon DEF CsdInv, HandlerOK
  <2>8. AsyncOK'
    BY <1>0, <2>1, <2>3, <2>4, CsdType, Zenon DEF CsdInv, AsyncOK, Online, Locked
  <2>9. StackOK' /\ MaskOK'
    BY <1>0, <2>3, CsdType, Zenon DEF CsdInv, StackOK, MaskOK
  <2>10. Held'
    BY <1>0, <2>1, <2>3, Zenon DEF CsdInv, Held, Locked, Alive
  <2>11. StopOK'
    BY <1>0, <2>1 DEF CsdInv, StopOK, Stopped, Online, InAsync
  <2>12. DeadOK'
    BY <1>0, <2>1, <2>2, CsdType, Zenon DEF CsdInv, DeadOK
  <2>13. ASSUME NEW d \in CPUS, NEW t \in owed'[d]
         PROVE  /\ wait'[d] /\ pc'[d] \in {"many", "send", "wait"}
                /\ \E y \in CSD : Pending(d, t, y)'
    <3>1. t \in owed[d] /\ t \in CPUS
      BY <1>0, <2>1, Zenon
    <3>2. PICK y \in CSD : Pending(d, t, y)
      BY <3>1, Zenon DEF CsdInv, WaitOK
    <3>3. y # h
      <4>1. ASSUME y = h PROVE t = c
        BY <1>0, <2>2, <3>1, <3>2, <4>1, InOnce, Zenon DEF Pending
      <4> QED
        BY <2>1, <3>2, <4>1, Zenon DEF Pending, h
    <3>4. Pending(d, t, y)'
      BY <1>0, <2>1, <2>2, <2>5, <3>1, <3>2, <3>3, ZenonT(60) DEF Pending
    <3> QED
      BY <1>0, <3>1, <3>4, Zenon DEF CsdInv, WaitOK
  <2> QED
    BY <2>2, <2>6, <2>7, <2>8, <2>9, <2>10, <2>11, <2>12, <2>13, Zenon DEF CsdInv, WaitOK
<1>3. CASE FlushReturn(c)
  <2>1. /\ irq[c] = "next" /\ batch[c] = <<>> /\ UNCHANGED <<flags, batch, owed>>
        /\ irq' = [irq EXCEPT ![c] = "off"] /\ late' = late \ {c}
    BY <1>3, Zenon DEF FlushReturn
  <2>2. /\ links' = links /\ \A u \in CPUS : Linked(u)' = Linked(u)
        /\ \A y : Somewhere(y)' <=> Somewhere(y)
    BY <1>0, <2>1, SameLinks, Zenon
  <2>3. CsdTypes'
    BY <1>0, <2>1, Zenon DEF CsdInv, CsdTypes, Online
  <2>4. HandlerOK'
    BY <1>0, <2>1, Zenon DEF CsdInv, HandlerOK
  <2>5. AsyncOK'
    BY <1>0, <2>1, <2>2, ZenonT(60) DEF CsdInv, AsyncOK, Online, Locked, InAsync
  <2>6. StackOK' /\ MaskOK' /\ Held'
    BY <1>0, <2>1, <2>2, Zenon DEF CsdInv, StackOK, MaskOK, Held, Locked, Alive
  <2>7. StopOK'
    BY <1>0, <2>1 DEF CsdInv, StopOK, Stopped, Online, InAsync
  <2>8. DeadOK'
    <3>1. \A x : ~In(x, batch[c])
      BY <2>1 DEF In
    <3> QED
      BY <1>0, <2>1, <3>1, Zenon DEF CsdInv, DeadOK
  <2>9. ASSUME NEW d \in CPUS, NEW t \in owed[d]
        PROVE  /\ wait[d] /\ pc[d] \in {"many", "send", "wait"}
               /\ \E y \in CSD : Pending(d, t, y)'
    <3>1. t \in CPUS
      BY <1>0, Zenon
    <3>2. PICK y \in CSD : Pending(d, t, y)
      BY Zenon DEF CsdInv, WaitOK
    <3>3. Pending(d, t, y)'
      BY <1>0, <2>1, <2>2, <3>1, <3>2, ZenonT(60) DEF Pending
    <3> QED
      BY <3>3, Zenon DEF CsdInv, WaitOK
  <2>10. WaitOK'
    BY <1>0, <2>1, <2>9, Zenon DEF WaitOK
  <2> QED
    BY <1>0, <2>2, <2>3, <2>4, <2>5, <2>6, <2>7, <2>8, <2>10, Zenon DEF CsdInv
<1> QED
  BY <1>1, <1>2, <1>3, Zenon DEF HandlerStep

\* Steps of asynchronous calls that queue nothing: the csd of o is in no queue.
LEMMA AsyncQuiet ==
  ASSUME CsdInv, NEW o \in OBJS,
         UNCHANGED <<hotplug, late, queue, pc, wait, cpumask_ipi, sent, irq, batch, owed>>,
         flags' \in [CSD -> SUBSET {"LOCK", "SYNCHRONOUS"}],
         \A csd \in CSD : Somewhere(csd) \/ csd # Obj(o) => flags'[csd] = flags[csd],
         \A p \in OBJS : p # o => async'[p] = async[p],
         async'[o].st # "idle" =>
           /\ async'[o].cpu \in CPUS
           /\ async'[o].ctx = "task" => async'[o].cpu \in Online /\ ~Stopped
           /\ async'[o].ctx = "irq" => irq[async'[o].cpu] # "off"
           /\ async'[o].st = "exec" => "LOCK" \in flags'[Obj(o)] /\ ~Somewhere(Obj(o))
  PROVE  CsdInv'
<1>1. /\ links' = links /\ \A u \in CPUS : Linked(u)' = Linked(u)
      /\ \A y : Somewhere(y)' <=> Somewhere(y)
  BY SameLinks, Zenon
<1>2. CsdTypes' /\ HandlerOK'
  BY Zenon DEF CsdInv, CsdTypes, HandlerOK, Online
<1>3. AsyncOK'
  <2>1. \A p \in OBJS : Obj(p) \in CSD /\ (p # o => Obj(p) # Obj(o))
    BY CsdType, CsdKinds
  <2>2. ASSUME NEW p \in OBJS, async'[p].st # "idle"
        PROVE  /\ async'[p].cpu \in CPUS
               /\ async'[p].ctx = "task" => async'[p].cpu \in Online'
               /\ async'[p].ctx = "irq" => irq'[async'[p].cpu] # "off"
               /\ async'[p].st = "exec" => Locked(Obj(p))' /\ ~Somewhere(Obj(p))'
    <3>1. CASE p = o
      BY <1>1, <2>2, <3>1, Zenon DEF Online, Locked
    <3>2. CASE p # o
      BY <1>1, <2>1, <2>2, <3>2, Zenon DEF CsdInv, AsyncOK, Online, Locked
    <3> QED
      BY <3>1, <3>2, Zenon
  <2> QED
    BY <2>2, Zenon DEF AsyncOK
<1>4. StackOK' /\ MaskOK' /\ DeadOK'
  <2>1. StackOK' /\ MaskOK'
    BY <1>1, Zenon DEF CsdInv, StackOK, MaskOK
  <2>2. DeadOK' <=> DeadOK
    BY DEF DeadOK
  <2> QED
    BY <2>1, <2>2, Zenon DEF CsdInv
<1>5. StopOK'
  BY DEF CsdInv, StopOK, InAsync, Online, Stopped
<1>6. Held'
  BY <1>1, Zenon DEF CsdInv, Held, Locked, Alive
<1>7. WaitOK'
  <2> SUFFICES ASSUME NEW d \in CPUS, NEW t \in owed[d]
               PROVE  /\ wait'[d] /\ pc'[d] \in {"many", "send", "wait"}
                      /\ \E csd \in CSD : Pending(d, t, csd)'
    BY Zenon DEF WaitOK
  <2>1. t \in CPUS
    BY Zenon DEF CsdInv, CsdTypes
  <2>2. PICK csd \in CSD : Pending(d, t, csd)
    BY Zenon DEF CsdInv, WaitOK
  <2>3. Pending(d, t, csd)'
    BY <1>1, <2>1, <2>2, Zenon DEF Pending, Somewhere
  <2> QED
    BY <2>3, ZenonT(60) DEF CsdInv, WaitOK
<1> QED
  BY <1>1, <1>2, <1>3, <1>4, <1>5, <1>6, <1>7, Zenon DEF CsdInv

LEMMA AsyncCallCsd ==
  ASSUME IpiInv, CsdInv, NEW c \in CPUS, NEW ctx \in {"task", "irq"}, NEW o \in OBJS,
         NEW t \in CPUS, AsyncCall(c, ctx, o, t)
  PROVE  CsdInv'
<1>1. /\ UNCHANGED <<hotplug, late, queue, pc, wait, cpumask_ipi, sent, irq, batch, owed>>
      /\ ~Locked(Obj(o)) /\ Obj(o) \in CSD
      /\ async' = [async EXCEPT ![o] = [st |-> "exec", cpu |-> c, ctx |-> ctx, to |-> t]]
      /\ flags' = [flags EXCEPT ![Obj(o)] = {"LOCK"}]
  BY CsdType, Zenon DEF AsyncCall, task, handler
<1>2. /\ ctx = "task" => c \in Online /\ ~Stopped
      /\ ctx = "irq" => irq[c] # "off"
  BY Zenon DEF AsyncCall, TaskRuns
<1>3. ~Somewhere(Obj(o))
  BY <1>1, Zenon DEF CsdInv, Held
<1>4. /\ flags' \in [CSD -> SUBSET {"LOCK", "SYNCHRONOUS"}] /\ "LOCK" \in flags'[Obj(o)]
      /\ \A csd \in CSD : csd # Obj(o) => flags'[csd] = flags[csd]
  BY <1>1, Zenon DEF CsdInv, CsdTypes
<1>5. /\ async'[o].cpu = c /\ async'[o].ctx = ctx
      /\ \A p \in OBJS : p # o => async'[p] = async[p]
  BY <1>1, Zenon DEF IpiInv, IpiType
<1> QED
  BY <1>1, <1>2, <1>3, <1>4, <1>5, AsyncQuiet

LEMMA AsyncCsd ==
  ASSUME IpiInv, CsdInv, NEW o \in OBJS, AsyncStep(o)
  PROVE  CsdInv'
<1>0. /\ UNCHANGED <<hotplug, late, pc, wait, cpumask_ipi, sent, irq, batch, owed>>
      /\ Obj(o) \in CSD /\ flags \in [CSD -> SUBSET {"LOCK", "SYNCHRONOUS"}]
      /\ batch \in [CPUS -> Seq(CSD)] /\ queue \in [CPUS -> Seq(CSD)] /\ Uniq(links)
  BY CsdType, Zenon DEF AsyncStep, AsyncExec, AsyncSend, task, handler, CsdInv, CsdTypes, IpiInv, IpiType
<1>1. ASSUME async[o].st = "exec", async' = [async EXCEPT ![o] = NoCall], UNCHANGED queue,
             flags' = [flags EXCEPT ![Obj(o)] = {}]
      PROVE  CsdInv'
  <2>1. ~Somewhere(Obj(o))
    BY <1>1, Zenon DEF CsdInv, AsyncOK
  <2>2. async'[o].st = "idle" /\ \A p \in OBJS : p # o => async'[p] = async[p]
    BY <1>1, Zenon DEF IpiInv, IpiType, NoCall
  <2>3. /\ flags' \in [CSD -> SUBSET {"LOCK", "SYNCHRONOUS"}]
        /\ \A csd \in CSD : csd # Obj(o) => flags'[csd] = flags[csd]
    BY <1>0, <1>1, Zenon
  <2> QED
    BY <1>0, <1>1, <2>1, <2>2, <2>3, AsyncQuiet, ZenonT(60)
<1>2. CASE AsyncSend(o)
  <2>1. async'[o].st = "idle" /\ \A p \in OBJS : p # o => async'[p] = async[p]
    BY <1>2, Zenon DEF AsyncSend, IpiInv, IpiType, NoCall
  <2>2. UNCHANGED <<queue, flags>>
    BY <1>2, Zenon DEF AsyncSend
  <2> QED
    BY <1>0, <2>1, <2>2, AsyncQuiet, Zenon
<1>3. ASSUME NEW t \in CPUS, async[o].st = "exec",
             queue' = [queue EXCEPT ![t] = Append(@, Obj(o))], UNCHANGED flags,
             async' = [async EXCEPT ![o] =
                         IF queue[t] = <<>> THEN [@ EXCEPT !.st = "send"] ELSE NoCall]
      PROVE  CsdInv'
  <2>1. ~Somewhere(Obj(o)) /\ Locked(Obj(o))
    BY <1>3, Zenon DEF CsdInv, AsyncOK
  <2>2. /\ Uniq(links)'
        /\ \A u \in CPUS : \A y \in CSD :
             /\ In(y, queue'[u]) <=> In(y, queue[u]) \/ (u = t /\ y = Obj(o))
             /\ In(y, Linked(u)') <=> In(y, Linked(u)) \/ (u = t /\ y = Obj(o))
    BY <1>0, <1>3, <2>1, PushLinks, Zenon
  <2>3. \A y \in CSD : Somewhere(y)' <=> Somewhere(y) \/ y = Obj(o)
    BY <2>2, Zenon DEF Somewhere
  <2>4. /\ \A p \in OBJS : p # o => async'[p] = async[p]
        /\ \/ async'[o].st = "idle"
           \/ async'[o].st = "send" /\ async'[o].cpu = async[o].cpu /\ async'[o].ctx = async[o].ctx
    BY <1>3, Zenon DEF IpiInv, IpiType, NoCall
  <2>5. CsdTypes' /\ HandlerOK' /\ MaskOK'
    BY <1>0, <1>3, Zenon DEF CsdInv, CsdTypes, HandlerOK, MaskOK, Online
  <2>6. AsyncOK'
    <3>1. \A p \in OBJS : Obj(p) \in CSD /\ (p # o => Obj(p) # Obj(o))
      BY CsdType, CsdKinds
    <3>2. ASSUME NEW p \in OBJS, async'[p].st # "idle"
          PROVE  /\ async'[p].cpu \in CPUS
                 /\ async'[p].ctx = "task" => async'[p].cpu \in Online'
                 /\ async'[p].ctx = "irq" => irq'[async'[p].cpu] # "off"
                 /\ async'[p].st = "exec" => Locked(Obj(p))' /\ ~Somewhere(Obj(p))'
      <4>1. CASE p = o
        BY <1>0, <1>3, <2>4, <3>2, <4>1 DEF CsdInv, AsyncOK, Online
      <4>2. CASE p # o
        BY <1>0, <1>3, <2>3, <2>4, <3>1, <3>2, <4>2, Zenon DEF CsdInv, AsyncOK, Online, Locked
      <4> QED
        BY <4>1, <4>2, Zenon
    <3> QED
      BY <3>2, Zenon DEF AsyncOK
  <2>7. StackOK'
    <3>1. \A c \in CPUS : Stack(c) \in CSD /\ Stack(c) # Obj(o)
      BY CsdType, CsdKinds, Zenon
    <3> QED
      BY <1>0, <2>3, <3>1, Zenon DEF CsdInv, StackOK
  <2>8. StopOK'
    <3>1. \A c \in CPUS : InAsync(c, "task")' => InAsync(c, "task")
      BY <1>3, <2>4, Zenon DEF InAsync
    <3> QED
      BY <1>0, <3>1, Zenon DEF CsdInv, StopOK, Online
  <2>9. DeadOK'
    <3>1. \A d, u \in CPUS : Cfd(d, u) \in CSD /\ Cfd(d, u) # Obj(o)
      BY CsdType, CsdKinds
    <3>2. ASSUME NEW d \in CPUS, NEW u \in CPUS, NEW v \in CPUS, hotplug[d] = "dead"
          PROVE  /\ In(Cfd(d, u), batch[v]) => v \in late
                 /\ In(Cfd(d, u), queue'[v]) => v \in late /\ irq[v] = "off"
      <4>1. In(Cfd(d, u), queue'[v]) => In(Cfd(d, u), queue[v])
        BY <2>2, <3>1, Zenon
      <4> QED
        BY <3>2, <4>1, Zenon DEF CsdInv, DeadOK
    <3> QED
      BY <1>0, <3>2, Zenon DEF DeadOK
  <2>10. Held'
    <3>1. Alive(Obj(o))'
      BY CsdKinds, Zenon DEF Alive
    <3> QED
      BY <1>0, <1>3, <2>1, <2>3, <3>1, Zenon DEF CsdInv, Held, Locked, Alive
  <2>11. ASSUME NEW d \in CPUS, NEW u \in owed[d]
         PROVE  /\ wait[d] /\ pc[d] \in {"many", "send", "wait"}
                /\ \E y \in CSD : Pending(d, u, y)'
    <3>1. u \in CPUS
      BY Zenon DEF CsdInv, CsdTypes
    <3>2. PICK y \in CSD : Pending(d, u, y)
      BY Zenon DEF CsdInv, WaitOK
    <3>3. Pending(d, u, y)'
      BY <1>0, <1>3, <2>2, <3>1, <3>2, Zenon DEF Pending
    <3> QED
      BY <3>3, Zenon DEF CsdInv, WaitOK
  <2>12. WaitOK'
    BY <1>0, <2>11, Zenon DEF WaitOK
  <2> QED
    BY <2>2, <2>5, <2>6, <2>7, <2>8, <2>9, <2>10, <2>12, Zenon DEF CsdInv
<1>4. CASE AsyncExec(o)
  BY <1>1, <1>3, <1>4, Zenon DEF AsyncExec, Online
<1> QED
  BY <1>2, <1>4, Zenon DEF AsyncStep

-----------------------------------------------------------------------------
(* Ownership of csds: CPU hotplug *)

LEMMA TakeDownCsd ==
  ASSUME IpiInv, CsdInv, NEW t \in CPUS, TakeDown(t)
  PROVE  CsdInv'
<1>1. /\ t \in Online /\ HotplugIdle /\ late = {} /\ TakeQueue(t)
      /\ \A c \in Online : pc[c] = "idle" /\ irq[c] = "off" /\ ~InAsync(c, "task")
      /\ hotplug' = [hotplug EXCEPT ![t] = "dying"]
      /\ UNCHANGED <<late, flags, pc, wait, sent, cpumask_ipi, async, owed>>
  BY Zenon DEF TakeDown, task
<1>2. /\ irq[t] = "off" /\ batch[t] = <<>>
      /\ batch \in [CPUS -> Seq(CSD)] /\ queue \in [CPUS -> Seq(CSD)] /\ Uniq(links)
  BY <1>1, Zenon DEF CsdInv, CsdTypes, HandlerOK, IpiInv, IpiType
<1>3. Uniq(links)' /\ \A u \in CPUS : Linked(u)' = Linked(u)
  BY <1>1, <1>2, TakeLinks, Zenon
<1>4. \A y : Somewhere(y)' <=> Somewhere(y)
  BY <1>3, Zenon DEF Somewhere
<1>5. /\ \A d \in CPUS : d # t => irq'[d] = irq[d] /\ batch'[d] = batch[d] /\ queue'[d] = queue[d]
      /\ irq'[t] = "next" /\ batch'[t] = queue[t] /\ queue'[t] = <<>>
      /\ irq' \in [CPUS -> {"off", "next", "ran"}] /\ batch' \in [CPUS -> Seq(CSD)]
  BY <1>1, <1>2, Zenon DEF TakeQueue, CsdInv, CsdTypes
<1>6. /\ hotplug'[t] = "dying" /\ \A d \in CPUS : d # t => hotplug'[d] = hotplug[d]
      /\ Online' = Online \ {t}
  BY <1>1, Zenon DEF IpiInv, IpiType, Online
<1>7. CsdTypes'
  BY <1>1, <1>5, Zenon DEF CsdInv, CsdTypes
<1>8. HandlerOK'
  <2> SUFFICES ASSUME NEW c \in CPUS
               PROVE  /\ irq'[c] = "off" => batch'[c] = <<>>
                      /\ irq'[c] = "ran" => batch'[c] # <<>>
                      /\ hotplug'[c] \notin {"online", "dying", "dead"} => irq'[c] = "off"
    BY Zenon DEF HandlerOK
  <2>1. CASE c = t
    BY <1>5, <1>6, <2>1, Zenon
  <2>2. CASE c # t
    BY <1>5, <1>6, <2>2, Zenon DEF CsdInv, HandlerOK
  <2> QED
    BY <2>1, <2>2, Zenon
<1>9. AsyncOK'
  BY <1>1, <1>4, <1>5, ZenonT(60) DEF CsdInv, AsyncOK, Locked, InAsync
<1>10. StackOK' /\ MaskOK'
  BY <1>1, <1>4, Zenon DEF CsdInv, StackOK, MaskOK
<1>11. StopOK'
  <2>1. \A u \in CPUS : hotplug'[u] \in {"dying", "dead"} => u = t
    BY <1>1, <1>6 DEF HotplugIdle
  <2>2. \A c \in CPUS : InAsync(c, "task")' <=> InAsync(c, "task")
    BY <1>1, Zenon DEF InAsync
  <2>3. \A c \in Online' : c \in CPUS /\ c \in Online /\ c # t
    BY <1>6, Zenon DEF Online
  <2>4. \A c \in Online' : pc'[c] = "idle" /\ irq'[c] = "off" /\ ~InAsync(c, "task")'
    BY <1>1, <1>5, <2>2, <2>3, ZenonT(60)
  <2> QED
    BY <1>1, <2>1, <2>4 DEF StopOK
<1>12. DeadOK'
  <2>1. \A x : ~In(x, <<>>)
    BY InEmpty, Zenon
  <2>2. ASSUME NEW d \in CPUS, NEW u \in CPUS, NEW v \in CPUS, hotplug'[d] = "dead"
        PROVE  ~In(Cfd(d, u), batch'[v]) /\ ~In(Cfd(d, u), queue'[v])
    <3>1. hotplug[d] = "dead"
      BY <1>6, <2>2, Zenon
    <3>2. \A w \in CPUS : ~In(Cfd(d, u), batch[w]) /\ ~In(Cfd(d, u), queue[w])
      BY <1>1, <3>1, Zenon DEF CsdInv, DeadOK
    <3> QED
      BY <1>5, <2>1, <3>2, Zenon
  <2> QED
    BY <2>2, Zenon DEF DeadOK
<1>13. Held'
  BY <1>1, <1>4, <1>6, CsdKinds DEF CsdInv, Held, Locked, Alive
<1>14. WaitOK'
  BY <1>1, <1>3, TakeWait, Zenon
<1> QED
  BY <1>3, <1>7, <1>8, <1>9, <1>10, <1>11, <1>12, <1>13, <1>14, Zenon DEF CsdInv

\* While stop_machine ends no handler is running, and every sender has sent its
\* interrupt.
LEMMA StoppedQuiet ==
  ASSUME IpiInv, CsdInv, NEW t \in CPUS, hotplug[t] = "dying", irq[t] = "off", NEW v \in CPUS
  PROVE  irq[v] = "off" /\ batch[v] = <<>> /\ ~AboutToSend(v)
<1>1. \A c \in Online : pc[c] = "idle" /\ irq[c] = "off" /\ ~InAsync(c, "task")
  BY Zenon DEF CsdInv, StopOK
<1>2. \A c \in CPUS : irq[c] = "off"
  <2> SUFFICES ASSUME NEW c \in CPUS PROVE irq[c] = "off"
    BY Zenon
  <2>1. CASE hotplug[c] = "online"
    BY <1>1, <2>1, Zenon DEF Online
  <2>2. CASE hotplug[c] \in {"dying", "dead"}
    BY <2>2, Zenon DEF CsdInv, StopOK
  <2> QED
    BY <2>1, <2>2, Zenon DEF CsdInv, HandlerOK
<1>3. \A c \in CPUS : cpumask_ipi[c] = {}
  BY <1>1, Zenon DEF CsdInv, MaskOK, IpiInv, CallersOnline
<1>4. ASSUME NEW o \in OBJS, async[o].st = "send" PROVE FALSE
  <2>1. async[o].ctx \in {"task", "irq"}
    BY Zenon DEF IpiInv, IpiType
  <2>2. async[o].ctx # "irq"
    BY <1>2, <1>4, Zenon DEF CsdInv, AsyncOK
  <2>3. async[o].cpu \in Online /\ async[o].ctx = "task"
    BY <1>4, <2>1, <2>2, Zenon DEF CsdInv, AsyncOK
  <2> QED
    BY <1>1, <1>4, <2>3, Zenon DEF InAsync
<1> QED
  BY <1>2, <1>3, <1>4, Zenon DEF CsdInv, HandlerOK, AboutToSend

\* The other steps of hotplug change only the state of a CPU that is not online.
LEMMA HotplugCsd ==
  ASSUME IpiInv, CsdInv, NEW t \in CPUS, Hotplug(t)
  PROVE  CsdInv'
<1>1. CASE StopEnd(t) \/ Dead(t) \/ Prepare(t) \/ BringUp(t)
  <2>1. /\ UNCHANGED <<queue, flags, pc, wait, sent, cpumask_ipi, irq, batch, async, owed>>
        /\ hotplug[t] \in {"dying", "dead", "off", "prepared"}
        /\ hotplug'[t] \in {"dead", "off", "prepared", "online"}
        /\ hotplug' = [hotplug EXCEPT ![t] = hotplug'[t]]
        /\ irq[t] = "off"
        /\ hotplug'[t] = "online" => ~Stopped
    BY <1>1, Zenon DEF StopEnd, Dead, Prepare, BringUp, task, handler, IpiInv, IpiType, CsdInv,
       HandlerOK
  <2>2. /\ links' = links /\ \A u \in CPUS : Linked(u)' = Linked(u)
        /\ \A y : Somewhere(y)' <=> Somewhere(y)
    BY <2>1, SameLinks, Zenon
  <2>3. /\ \A d \in CPUS : d # t => hotplug'[d] = hotplug[d]
        /\ Online \subseteq Online' /\ (hotplug'[t] # "online" => Online' = Online)
    BY <2>1, Zenon DEF Online, IpiInv, IpiType
  <2>4. late' \subseteq Online'
    BY <1>1, <2>3, Zenon DEF StopEnd, Dead, Prepare, BringUp, CsdInv, CsdTypes
  <2>5. CsdTypes'
    BY <2>1, <2>4, Zenon DEF CsdInv, CsdTypes
  <2>6. HandlerOK'
    BY <2>1, <2>3, Zenon DEF CsdInv, HandlerOK
  <2>7. AsyncOK'
    BY <2>1, <2>2, <2>3, Zenon DEF CsdInv, AsyncOK, Locked
  <2>8. StackOK' /\ MaskOK'
    BY <2>1, <2>2, Zenon DEF CsdInv, StackOK, MaskOK
  <2>9. StopOK'
    <3>1. CASE StopEnd(t)
      <4>1. \A u \in CPUS : hotplug'[u] # "dying"
        BY <2>1, <2>3, <3>1, Zenon DEF StopEnd, CsdInv, StopOK
      <4> QED
        BY <4>1, Zenon DEF StopOK
    <3>2. CASE Dead(t) \/ Prepare(t)
      <4>1. UNCHANGED <<late, irq, pc>> /\ Online' = Online
        BY <2>1, <2>3, <3>2, Zenon DEF Dead, Prepare, IpiInv, IpiType
      <4>2. \A u \in CPUS : hotplug'[u] \in {"dying", "dead"} => hotplug'[u] = hotplug[u]
        BY <2>1, <2>3, <3>2, Zenon DEF Dead, Prepare, IpiInv, IpiType
      <4>3. \A c \in CPUS : InAsync(c, "task")' <=> InAsync(c, "task")
        BY <2>1, Zenon DEF InAsync
      <4>4. Online \subseteq CPUS
        BY Zenon DEF Online
      <4> QED
        BY <4>1, <4>2, <4>3, <4>4, Zenon DEF CsdInv, StopOK
    <3>3. CASE BringUp(t)
      <4>1. \A u \in CPUS : hotplug'[u] # "dying"
        BY <2>1, <2>3, <3>3, Zenon DEF BringUp, Stopped
      <4> QED
        BY <4>1, Zenon DEF StopOK
    <3> QED
      BY <1>1, <3>1, <3>2, <3>3, Zenon
  <2>10. DeadOK'
    <3>1. CASE StopEnd(t)
      <4>1. hotplug[t] = "dying" /\ irq[t] = "off" /\ late' = ipi \cap Online
        BY <3>1, Zenon DEF StopEnd
      <4>2. \A x, v : v \in CPUS => ~In(x, batch[v]) /\ irq[v] = "off"
        <5>1. \A x : ~In(x, <<>>)
          BY InEmpty, Zenon
        <5> QED
          BY <4>1, <5>1, StoppedQuiet, Zenon
      <4>3. ASSUME NEW x, NEW v \in CPUS, In(x, queue[v]) PROVE v \in late'
        <5>1. queue[v] # <<>>
          BY <4>3 DEF In
        <5> QED
          BY <4>1, <5>1, StoppedQuiet, Zenon DEF IpiInv, NoLostIpi
      <4> QED
        BY <2>1, <4>2, <4>3, Zenon DEF DeadOK
    <3>2. CASE Dead(t) \/ Prepare(t) \/ BringUp(t)
      <4>1. UNCHANGED late /\ hotplug'[t] # "dead"
        BY <2>1, <3>2, Zenon DEF Dead, Prepare, BringUp, IpiInv, IpiType
      <4>2. ASSUME NEW d \in CPUS, NEW u \in CPUS, NEW v \in CPUS, hotplug'[d] = "dead"
            PROVE  /\ In(Cfd(d, u), batch[v]) => v \in late
                   /\ In(Cfd(d, u), queue[v]) => v \in late /\ irq[v] = "off"
        <5>1. hotplug[d] = "dead"
          BY <2>3, <4>1, <4>2, Zenon
        <5> QED
          BY <5>1, Zenon DEF CsdInv, DeadOK
      <4> QED
        BY <2>1, <4>1, <4>2, Zenon DEF DeadOK
    <3> QED
      BY <1>1, <3>1, <3>2, Zenon
  <2>11. Held'
    <3>1. ASSUME NEW y \in CSD, Somewhere(y) PROVE Locked(y)' /\ Alive(y)'
      <4>1. Locked(y) /\ Alive(y)
        BY <3>1, Zenon DEF CsdInv, Held
      <4>2. ASSUME y.kind = "cfd" PROVE hotplug'[y.owner] # "off"
        <5>1. /\ y.owner \in CPUS /\ y.to \in CPUS /\ y = Cfd(y.owner, y.to)
              /\ hotplug[y.owner] # "off"
          BY <4>1, <4>2, CsdKinds, ZenonT(60) DEF Alive
        <5>2. ASSUME hotplug'[y.owner] = "off" PROVE FALSE
          <6>1. y.owner = t /\ hotplug[t] = "dead" /\ late = {}
            BY <1>1, <2>3, <5>1, <5>2, Zenon DEF StopEnd, Dead, Prepare, BringUp, IpiInv, IpiType
          <6>2. PICK v \in CPUS : In(y, Linked(v))
            BY <3>1, Zenon DEF Somewhere
          <6>3. batch[v] \in Seq(CSD) /\ queue[v] \in Seq(CSD)
            BY Zenon DEF CsdInv, CsdTypes, IpiInv, IpiType
          <6>4. In(y, batch[v]) \/ In(y, queue[v])
            BY <6>2, <6>3, InConcat, ZenonT(60) DEF Linked
          <6> QED
            BY <5>1, <6>1, <6>4, ZenonT(60) DEF CsdInv, DeadOK
        <5> QED
          BY <5>2, Zenon
      <4> QED
        BY <2>1, <4>1, <4>2, Zenon DEF Locked, Alive
    <3> QED
      BY <2>2, <3>1, Zenon DEF Held
  <2>12. WaitOK'
    <3>1. ASSUME NEW d \in CPUS, NEW u \in owed[d] PROVE u \in CPUS
      BY Zenon DEF CsdInv, CsdTypes
    <3>2. \A d, u \in CPUS : \A y \in CSD : Pending(d, u, y)' <=> Pending(d, u, y)
      BY <2>1, <2>2, Zenon DEF Pending
    <3> QED
      BY <2>1, <3>1, <3>2, Zenon DEF CsdInv, WaitOK
  <2> QED
    BY <2>2, <2>5, <2>6, <2>7, <2>8, <2>9, <2>10, <2>11, <2>12, Zenon DEF CsdInv
<1> QED
  BY <1>1, TakeDownCsd, Zenon DEF Hotplug

LEMMA EmptyLinked ==
  \A t \in CPUS : batch[t] = <<>> /\ queue[t] = <<>> => Linked(t) = <<>>
BY DEF Linked

-----------------------------------------------------------------------------
(* Theorems *)

\* The inductive invariant about csds: no csd is linked twice, and one that a
\* handler will come across is locked, has its memory, and is one that a call
\* that waits has sent.
THEOREM CsdInvariant == Spec => []CsdInv
<1>1. Init => CsdInv
  <2> SUFFICES ASSUME Init PROVE CsdInv
    BY Zenon
  <2>1. \A t \in CPUS : batch[t] = <<>> /\ queue[t] = <<>>
    BY Zenon DEF Init
  <2>2. \A t \in CPUS : Linked(t) = <<>>
    BY <2>1, EmptyLinked, Zenon
  <2>3. \A x : ~In(x, <<>>)
    BY InEmpty, Zenon
  <2>4. \A y : ~Somewhere(y)
    BY <2>2, <2>3, Zenon DEF Somewhere
  <2>5. Uniq(links)
    BY <2>2 DEF Uniq, links
  <2>6. CsdTypes /\ HandlerOK /\ AsyncOK /\ MaskOK /\ StopOK
    BY DEF Init, CsdTypes, HandlerOK, AsyncOK, NoCall, MaskOK, StopOK
  <2>7. StackOK /\ Held
    BY <2>4, Zenon DEF StackOK, Held
  <2>8. DeadOK /\ WaitOK
    BY Zenon DEF Init, DeadOK, WaitOK
  <2> QED
    BY <2>5, <2>6, <2>7, <2>8, Zenon DEF CsdInv
<1>2. ASSUME IpiInv, CsdInv, [Next]_vars PROVE CsdInv'
  <2>1. ASSUME NEW c \in CALLERS, Call(c) PROVE CsdInv'
    BY <1>2, <2>1, CallCsd, SmpCallAssumption, Zenon
  <2>2. ASSUME NEW c \in CPUS, TaskStep(c) \/ Interrupt(c) \/ HandlerStep(c) \/ Hotplug(c)
        PROVE  CsdInv'
    BY <1>2, <2>2, TaskCsd, InterruptCsd, HandlerCsd, HotplugCsd, Zenon
  <2>3. ASSUME NEW c \in SENDERS, NEW ctx \in {"task", "irq"}, NEW o \in OBJS, NEW t \in CPUS,
               AsyncCall(c, ctx, o, t)
        PROVE  CsdInv'
    BY <1>2, <2>3, AsyncCallCsd, SmpCallAssumption, Zenon
  <2>4. ASSUME NEW o \in OBJS, AsyncStep(o) PROVE CsdInv'
    BY <1>2, <2>4, AsyncCsd, Zenon
  <2>5. CASE UNCHANGED vars
    <3>1. UNCHANGED <<hotplug, late, queue, flags, pc, wait, cpumask_ipi, sent, irq, batch, async,
                      owed>>
      BY <2>5, Zenon DEF vars
    <3>2. UNCHANGED <<CsdTypes, HandlerOK, AsyncOK, StackOK, MaskOK, StopOK, DeadOK>>
      BY <3>1, ZenonT(60) DEF CsdTypes, HandlerOK, AsyncOK, StackOK, MaskOK, StopOK, DeadOK, Online, Locked,
         Somewhere, Linked, InAsync
    <3>3. UNCHANGED <<Held, links>>
      BY <3>1, Zenon DEF Held, links, Locked, Alive, Somewhere, Linked
    <3>4. UNCHANGED WaitOK
      BY <3>1 DEF WaitOK, Pending, Linked
    <3> QED
      BY <1>2, <3>2, <3>3, <3>4, Zenon DEF CsdInv
  <2> QED
    BY <1>2, <2>1, <2>2, <2>3, <2>4, <2>5, Zenon DEF Next
<1> QED
  BY <1>1, <1>2, IpiInvariant, PTL DEF Spec

\* csd_lock and csd_unlock serialize the use of csds: one that a handler may
\* come across is linked once, is locked and has not been freed, neither by the
\* return of the call that has it on its stack nor by smpcfd_dead_cpu.
THEOREM CsdsOwned == Spec => []CsdOwned
<1>1. ASSUME IpiInv, CsdInv PROVE CsdOwned
  <2>1. \A t \in CPUS : /\ Linked(t) \in Seq(CSD) /\ links[t] = Linked(t)
                        /\ DOMAIN Linked(t) = 1..Len(Linked(t))
    BY <1>1 DEF IpiInv, IpiType, CsdInv, CsdTypes, Linked, links
  <2>2. ASSUME NEW t \in CPUS, NEW i \in 1..Len(Linked(t))
        PROVE  Locked(Linked(t)[i]) /\ Alive(Linked(t)[i])
    <3>1. Linked(t)[i] \in CSD /\ Somewhere(Linked(t)[i])
      BY <2>1 DEF Somewhere, In
    <3> QED
      BY <1>1, <3>1, Zenon DEF CsdInv, Held
  <2>3. ASSUME NEW t \in CPUS, NEW i \in 1..Len(Linked(t)),
               NEW u \in CPUS, NEW j \in 1..Len(Linked(u)), Linked(u)[j] = Linked(t)[i]
        PROVE  u = t /\ j = i
    <3>1. i \in 1..Len(links[t]) /\ j \in 1..Len(links[u]) /\ links[u][j] = links[t][i]
      BY <2>1, <2>3, Zenon
    <3>2. Uniq(links)
      BY <1>1, Zenon DEF CsdInv
    <3> QED
      BY <3>1, <3>2, Zenon DEF Uniq
  <2>4. ASSUME NEW t \in CPUS, NEW i \in DOMAIN Linked(t)
        PROVE  /\ Locked(Linked(t)[i]) /\ Alive(Linked(t)[i])
               /\ \A u \in CPUS : \A j \in DOMAIN Linked(u) :
                    Linked(u)[j] = Linked(t)[i] => u = t /\ j = i
    <3>1. i \in 1..Len(Linked(t))
      BY <2>1, Zenon
    <3>2. ASSUME NEW u \in CPUS, NEW j \in DOMAIN Linked(u), Linked(u)[j] = Linked(t)[i]
          PROVE  u = t /\ j = i
      <4>1. j \in 1..Len(Linked(u))
        BY <2>1, Zenon
      <4> QED
        BY <2>3, <3>1, <3>2, <4>1, Zenon
    <3> QED
      BY <2>2, <3>1, <3>2, Zenon
  <2> QED
    BY <2>4, Zenon DEF CsdOwned
<1> QED
  BY <1>1, IpiInvariant, CsdInvariant, PTL

\* A call with wait set returns, or goes on to the next CPU, only when the
\* function has run on every CPU it was sent to.
THEOREM WaitersServed == Spec => []WaitedRan
<1>1. CsdInv => WaitedRan
  BY Zenon DEF CsdInv, WaitOK, WaitedRan
<1> QED
  BY <1>1, CsdInvariant, PTL

=============================================================================
