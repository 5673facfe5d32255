------------------------------- MODULE SmpCall -------------------------------
(***************************************************************************)
(* Cross-CPU function calls of new/kernel/smp.c: a caller links a          *)
(* call_single_data (csd) into the queue of the target CPU and sends an    *)
(* interrupt only if the queue was empty; the interrupt takes the whole    *)
(* queue and runs it.                                                      *)
(*                                                                         *)
(* A CPU has two contexts: a task, which makes at most one call at a time  *)
(* because preemption is disabled meanwhile, and the IPI handler, which    *)
(* interrupts the task at any point.  The functions that are called may    *)
(* themselves call smp_call_function_single_async, and so may the task.    *)
(*                                                                         *)
(* CPUs go down in stop_machine: all CPUs have left their calls and have   *)
(* interrupts disabled while the dying one flushes its queue.              *)
(***************************************************************************)
EXTENDS Integers, Sequences, FiniteSets

CONSTANTS
  CPUS,        \* possible CPUs, numbered
  OBJS,        \* objects with a csd of their own, for asynchronous calls
  MASKS,       \* masks passed to the calls on several CPUs
  CALLERS,     \* CPUs whose tasks make calls
  SENDERS,     \* CPUs that make asynchronous calls
  HOTPLUG,     \* CPUs that may go down and come back
  MaxCalls,    \* bound: calls made by tasks in a behaviour
  MaxAsync     \* bound: asynchronous calls with the csd of an object

NoCpu == -1    \* nr_cpu_ids: a CPU that is never online

ASSUME SmpCallAssumption ==
  /\ CPUS \subseteq Nat
  /\ MASKS \subseteq SUBSET CPUS
  /\ CALLERS \subseteq CPUS /\ SENDERS \subseteq CPUS
  /\ HOTPLUG \subseteq CPUS
  /\ MaxCalls \in Nat /\ MaxAsync \in Nat

VARIABLES
  hotplug,     \* state of each CPU
  late,        \* CPUs that were sent an IPI before stop_machine ended
  queue,       \* call_single_queue of each CPU, oldest entry first
  ipi,         \* CPUs with a call function interrupt pending
  flags,       \* flags of each csd
  pc,          \* where the task of each CPU is
  wait,        \* argument of its call
  rest,        \* CPUs it has still to call
  cpumask_ipi, \* CPUs it has to send an interrupt to
  sent,        \* csds it has queued in this round
  irq,         \* where the IPI handler of each CPU is, "off" if not running
  batch,       \* entries the handler took from the queue
  async,       \* the call made with the csd of each object
  owed,        \* CPUs that have yet to run the function of a call that waits
  calls,       \* calls made so far, see MaxCalls
  asyncs       \* asynchronous calls made so far, see MaxAsync

vars == <<hotplug, late, queue, ipi, flags, pc, wait, rest, cpumask_ipi,
          sent, irq, batch, async, owed, calls, asyncs>>

task == <<pc, wait, rest, cpumask_ipi, sent>>
handler == <<irq, batch>>

\* The csd on the stack of a call that waits, csd_data, an element of
\* cfd_data.csd and that of an object.
Stack(c) == [kind |-> "stack", owner |-> c, to |-> c]
Data(c) == [kind |-> "data", owner |-> c, to |-> c]
Cfd(c, t) == [kind |-> "cfd", owner |-> c, to |-> t]
Obj(o) == [kind |-> "obj", owner |-> o, to |-> o]

CSD == {Stack(c) : c \in CPUS} \cup {Data(c) : c \in CPUS}
         \cup {Cfd(c, t) : c \in CPUS, t \in CPUS} \cup {Obj(o) : o \in OBJS}

Online == {c \in CPUS : hotplug[c] = "online"}

\* stop_machine holds all CPUs with interrupts disabled.
Stopped == \E c \in CPUS : hotplug[c] = "dying"

Locked(csd) == "LOCK" \in flags[csd]

\* The CPU for_each_cpu comes to next, if any.
First(S) == {t \in S : \A u \in S : t <= u}

NoCall == [st |-> "idle", cpu |-> NoCpu, ctx |-> "task", to |-> NoCpu]

Init ==
  /\ hotplug = [c \in CPUS |-> "online"]
  /\ late = {}
  /\ queue = [c \in CPUS |-> <<>>]
  /\ ipi = {}
  /\ flags = [csd \in CSD |-> {}]
  /\ pc = [c \in CPUS |-> "idle"]
  /\ wait = [c \in CPUS |-> FALSE]
  /\ rest = [c \in CPUS |-> {}]
  /\ cpumask_ipi = [c \in CPUS |-> {}]
  /\ sent = [c \in CPUS |-> {}]
  /\ irq = [c \in CPUS |-> "off"]
  /\ batch = [c \in CPUS |-> <<>>]
  /\ async = [o \in OBJS |-> NoCall]
  /\ owed = [c \in CPUS |-> {}]
  /\ calls = 0 /\ asyncs = 0

-----------------------------------------------------------------------------
(* The calls of a task *)

\* Context ctx of CPU c is inside smp_call_function_single_async.
InAsync(c, ctx) ==
  \E o \in OBJS : async[o].st # "idle" /\ async[o].cpu = c /\ async[o].ctx = ctx

\* The task of c may take a step: its CPU is in no interrupt and not stopped.
TaskRuns(c) ==
  /\ c \in Online /\ ~Stopped
  /\ irq[c] = "off" /\ ~InAsync(c, "task")

\* The task of c goes on with the CPUs in todo, or its call returns.
Continue(c, label, todo, w) ==
  /\ rest' = [rest EXCEPT ![c] = todo]
  /\ pc' = [pc EXCEPT ![c] = IF todo = {} THEN "idle" ELSE label]
  /\ wait' = [wait EXCEPT ![c] = w /\ todo # {}]

Start(c, label, targets, w) ==
  /\ TaskRuns(c) /\ pc[c] = "idle"
  /\ calls < MaxCalls /\ calls' = calls + 1
  /\ Continue(c, label, targets, w)
  /\ UNCHANGED <<hotplug, late, queue, ipi, flags, cpumask_ipi, sent, handler,
                 async, owed, asyncs>>

\* smp_call_function_single; smp_call_function_any with the CPU it selects,
\* which is the caller's if that is in the mask.
CallSingle(c, t, w) == Start(c, "single", {t}, w)

CallAny(c, mask, w) ==
  \E t \in mask \cup {NoCpu} :
    /\ IF c \in mask THEN t = c
       ELSE IF mask \cap Online # {} THEN t \in Online ELSE t = NoCpu
    /\ Start(c, "single", {t}, w)

\* smp_call_function_many(mask), and the callers that then call the function
\* on their own CPU: on_each_cpu, on_each_cpu_mask, on_each_cpu_cond_mask.
\* After the fast path the mask is read again, and "some callers race with other
\* cpus changing the passed mask".
CallMany(c, mask, w) ==
  LET targets == (mask \cap Online) \ {c} IN
    \/ Cardinality(targets) <= 1 /\ Start(c, "single", targets, w)
    \/ /\ Cardinality(targets) > 1
       /\ \E now \in SUBSET (Online \ {c}) : Start(c, "many", now, w)

\* on_each_cpu_cond_mask without memory for a mask: one CPU after the other.
CallOneByOne(c, mask, w) == Start(c, "single", mask, w)

\* Mutant: the mask of CPUs to interrupt is overwritten, not extended.
EnqueueOverwrites(c, t, csd) ==
  /\ queue' = [queue EXCEPT ![t] = Append(@, csd)]
  /\ cpumask_ipi' = [cpumask_ipi EXCEPT ![c] = IF queue[t] = <<>> THEN {t} ELSE {}]
  /\ sent' = [sent EXCEPT ![c] = @ \cup {csd}]
  /\ owed' = [owed EXCEPT ![c] = IF wait[c] THEN @ \cup {t} ELSE @]

\* llist_add of csd to the queue of t, by the task of c.
Enqueue(c, t, csd) ==
  /\ queue' = [queue EXCEPT ![t] = Append(@, csd)]
  /\ cpumask_ipi' = [cpumask_ipi EXCEPT ![c] = IF queue[t] = <<>> THEN @ \cup {t} ELSE @]
  /\ sent' = [sent EXCEPT ![c] = @ \cup {csd}]
  /\ owed' = [owed EXCEPT ![c] = IF wait[c] THEN @ \cup {t} ELSE @]

Flags(w) == IF w THEN {"LOCK", "SYNCHRONOUS"} ELSE {"LOCK"}

\* smp_call_function_single: csd_lock, which waits for csd_data to be free, and
\* generic_exec_single.
Single(c) ==
  /\ TaskRuns(c) /\ pc[c] = "single"
  /\ \E t \in First(rest[c]) :
       LET csd == IF wait[c] THEN Stack(c) ELSE Data(c) IN
         /\ wait[c] \/ ~Locked(csd)
         /\ \/ /\ t = c \/ t \notin Online
               /\ flags' = [flags EXCEPT ![csd] = {}]
               /\ Continue(c, "single", rest[c] \ {t}, wait[c])
               /\ UNCHANGED <<queue, cpumask_ipi, sent, owed>>
            \/ /\ t # c /\ t \in Online
               /\ flags' = [flags EXCEPT ![csd] = Flags(wait[c])]
               /\ Enqueue(c, t, csd)
               /\ rest' = [rest EXCEPT ![c] = @ \ {t}]
               /\ pc' = [pc EXCEPT ![c] = "send"]
               /\ UNCHANGED wait
  /\ UNCHANGED <<hotplug, late, ipi, handler, async, calls, asyncs>>

\* Mutant: csd_lock takes the csd without csd_lock_wait.
ManyTurnNoWait(c) ==
  /\ TaskRuns(c) /\ pc[c] = "many"
  /\ \E t \in First(rest[c]) :
       /\ flags' = [flags EXCEPT ![Cfd(c, t)] = Flags(wait[c])]
       /\ rest' = [rest EXCEPT ![c] = @ \ {t}]
       /\ Enqueue(c, t, Cfd(c, t))
  /\ UNCHANGED <<hotplug, late, ipi, pc, wait, handler, async, calls, asyncs>>

\* smp_call_function_many: one turn of the loop over cfd->cpumask.
ManyTurn(c) ==
  /\ TaskRuns(c) /\ pc[c] = "many"
  /\ \E t \in First(rest[c]) :
       /\ ~Locked(Cfd(c, t))
       /\ flags' = [flags EXCEPT ![Cfd(c, t)] = Flags(wait[c])]
       /\ rest' = [rest EXCEPT ![c] = @ \ {t}]
       /\ Enqueue(c, t, Cfd(c, t))
  /\ UNCHANGED <<hotplug, late, ipi, pc, wait, handler, async, calls, asyncs>>

\* arch_send_call_function_single_ipi, arch_send_call_function_ipi_mask.
Send(c) ==
  /\ TaskRuns(c)
  /\ pc[c] = "send" \/ (pc[c] = "many" /\ rest[c] = {})
  /\ ipi' = ipi \cup cpumask_ipi[c]
  /\ cpumask_ipi' = [cpumask_ipi EXCEPT ![c] = {}]
  /\ \/ /\ wait[c]
        /\ pc' = [pc EXCEPT ![c] = "wait"]
        /\ UNCHANGED <<rest, wait, sent>>
     \/ /\ ~wait[c]
        /\ Continue(c, "single", rest[c], FALSE)
        /\ sent' = [sent EXCEPT ![c] = {}]
  /\ UNCHANGED <<hotplug, late, queue, flags, handler, async, owed, calls, asyncs>>

\* csd_lock_wait for every csd that was queued.
Wait(c) ==
  /\ TaskRuns(c) /\ pc[c] = "wait"
  /\ \A csd \in sent[c] : ~Locked(csd)
  /\ sent' = [sent EXCEPT ![c] = {}]
  /\ Continue(c, "single", rest[c], TRUE)
  /\ UNCHANGED <<hotplug, late, queue, ipi, flags, cpumask_ipi, handler, async,
                 owed, calls, asyncs>>

-----------------------------------------------------------------------------
(* flush_smp_call_function_queue *)

\* llist_del_all, llist_reverse_order
TakeQueue(c) ==
  /\ batch' = [batch EXCEPT ![c] = queue[c]]
  /\ queue' = [queue EXCEPT ![c] = <<>>]
  /\ irq' = [irq EXCEPT ![c] = "next"]

\* Mutant: calls that wait are made with interrupts disabled, so that a CPU that
\* spins in csd_lock_wait serves no interrupt meanwhile.
InterruptNotInWait(c) ==
  \/ /\ hotplug[c] \in {"online", "dead"} /\ ~Stopped /\ irq[c] = "off"
     /\ c \in ipi /\ pc[c] # "wait"
     /\ ipi' = ipi \ {c}
     /\ TakeQueue(c)
     /\ UNCHANGED <<hotplug, late, flags, task, async, owed, calls, asyncs>>
  \/ pc[c] = "wait" /\ UNCHANGED vars

\* generic_smp_call_function_single_interrupt.  The interrupt may also come
\* late, on a CPU that has flushed its queue and left cpu_online_mask; an entry
\* there would be the one that warn_cpu_offline warns of.
Interrupt(c) ==
  /\ hotplug[c] \in {"online", "dead"} /\ ~Stopped /\ irq[c] = "off"
  /\ c \in ipi
  /\ ipi' = ipi \ {c}
  /\ TakeQueue(c)
  /\ UNCHANGED <<hotplug, late, flags, task, async, owed, calls, asyncs>>

HandlerRuns(c) == irq[c] # "off" /\ ~InAsync(c, "irq") /\ (Stopped => c \notin Online)

\* func(info) of a synchronous entry, before csd_unlock.
RunSync(c) ==
  /\ HandlerRuns(c) /\ irq[c] = "next" /\ batch[c] # <<>>
  /\ "SYNCHRONOUS" \in flags[Head(batch[c])]
  /\ irq' = [irq EXCEPT ![c] = "ran"]
  /\ owed' = [owed EXCEPT ![Head(batch[c]).owner] = @ \ {c}]
  /\ UNCHANGED <<hotplug, late, queue, ipi, flags, task, batch, async, calls, asyncs>>

\* Mutant: every entry is unlocked before its function runs.
UnlockEarly(c) ==
  /\ HandlerRuns(c) /\ batch[c] # <<>>
  /\ irq' = [irq EXCEPT ![c] = "next"]
  /\ flags' = [flags EXCEPT ![Head(batch[c])] = {}]
  /\ batch' = [batch EXCEPT ![c] = Tail(@)]
  /\ UNCHANGED <<hotplug, late, queue, ipi, task, async, owed, calls, asyncs>>

\* csd_unlock after the function of a synchronous entry; csd_unlock, then the
\* function, of another.  The entry is not touched again.
Unlock(c) ==
  /\ HandlerRuns(c)
  /\ \/ irq[c] = "ran"
     \/ /\ irq[c] = "next" /\ batch[c] # <<>>
        /\ "SYNCHRONOUS" \notin flags[Head(batch[c])]
  /\ irq' = [irq EXCEPT ![c] = "next"]
  /\ flags' = [flags EXCEPT ![Head(batch[c])] = {}]
  /\ batch' = [batch EXCEPT ![c] = Tail(@)]
  /\ UNCHANGED <<hotplug, late, queue, ipi, task, async, owed, calls, asyncs>>

FlushReturn(c) ==
  /\ HandlerRuns(c) /\ irq[c] = "next" /\ batch[c] = <<>>
  /\ irq' = [irq EXCEPT ![c] = "off"]
  /\ late' = late \ {c}
  /\ UNCHANGED <<hotplug, queue, ipi, flags, task, batch, async, owed, calls, asyncs>>

-----------------------------------------------------------------------------
(* smp_call_function_single_async: the owner of the object calls it when the *)
(* previous call has released the csd.                                       *)

AsyncCall(c, ctx, o, t) ==
  /\ \/ ctx = "task" /\ TaskRuns(c) /\ pc[c] = "idle"
     \/ ctx = "irq" /\ HandlerRuns(c) /\ irq[c] # "off"
  /\ async[o].st = "idle" /\ ~Locked(Obj(o))
  /\ asyncs < MaxAsync /\ asyncs' = asyncs + 1
  /\ async' = [async EXCEPT ![o] = [st |-> "exec", cpu |-> c, ctx |-> ctx, to |-> t]]
  /\ flags' = [flags EXCEPT ![Obj(o)] = {"LOCK"}]
  /\ UNCHANGED <<hotplug, late, queue, ipi, task, handler, owed, calls>>

\* The context inside the call may take a step.
AsyncRuns(c, ctx) ==
  \/ ctx = "task" /\ irq[c] = "off" /\ ~Stopped
  \/ ctx = "irq" /\ (Stopped => c \notin Online)

\* generic_exec_single
AsyncExec(o) ==
  LET c == async[o].cpu
      t == async[o].to
  IN  /\ async[o].st = "exec" /\ AsyncRuns(c, async[o].ctx)
      /\ \/ /\ t = c \/ t \notin Online
            /\ flags' = [flags EXCEPT ![Obj(o)] = {}]
            /\ async' = [async EXCEPT ![o] = NoCall]
            /\ UNCHANGED queue
         \/ /\ t # c /\ t \in Online
            /\ queue' = [queue EXCEPT ![t] = Append(@, Obj(o))]
            /\ async' = [async EXCEPT ![o] =
                           IF queue[t] = <<>> THEN [@ EXCEPT !.st = "send"] ELSE NoCall]
            /\ UNCHANGED flags
      /\ UNCHANGED <<hotplug, late, ipi, task, handler, owed, calls, asyncs>>

AsyncSend(o) ==
  /\ async[o].st = "send" /\ AsyncRuns(async[o].cpu, async[o].ctx)
  /\ ipi' = ipi \cup {async[o].to}
  /\ async' = [async EXCEPT ![o] = NoCall]
  /\ UNCHANGED <<hotplug, late, queue, flags, task, handler, owed, calls, asyncs>>

-----------------------------------------------------------------------------
(* CPU hotplug *)

\* The CPU hotplug lock lets one CPU at a time go down or come up.
HotplugIdle == \A c \in CPUS : hotplug[c] \in {"online", "off"}

\* stop_machine has all CPUs; the dying one leaves cpu_online_mask and calls
\* smpcfd_dying_cpu, that is, flush_smp_call_function_queue(false).
TakeDown(t) ==
  /\ t \in Online \cap HOTPLUG /\ Online # {t} /\ HotplugIdle /\ late = {}
  /\ \A c \in Online :
       pc[c] = "idle" /\ irq[c] = "off" /\ ~InAsync(c, "task")
  /\ hotplug' = [hotplug EXCEPT ![t] = "dying"]
  /\ TakeQueue(t)
  /\ UNCHANGED <<late, ipi, flags, task, async, owed, calls, asyncs>>

\* stop_machine ends: the other CPUs enable interrupts again.
StopEnd(t) ==
  /\ hotplug[t] = "dying" /\ irq[t] = "off"
  /\ hotplug' = [hotplug EXCEPT ![t] = "dead"]
  /\ late' = ipi \cap Online
  /\ UNCHANGED <<queue, ipi, flags, task, handler, async, owed, calls, asyncs>>

\* smpcfd_dead_cpu frees cfd_data of t.  The guard on late is an assumption on
\* stop_machine and the interrupt hardware, not code of smp.c: by the time the
\* callback runs, the other CPUs have had their interrupts enabled for long
\* enough that those pending when stop_machine ended have been served.
Dead(t) ==
  /\ hotplug[t] = "dead" /\ irq[t] = "off" /\ late = {}
  /\ hotplug' = [hotplug EXCEPT ![t] = "off"]
  /\ UNCHANGED <<late, queue, ipi, flags, task, handler, async, owed, calls, asyncs>>

\* smpcfd_prepare_cpu, when its allocations succeed.
Prepare(t) ==
  /\ hotplug[t] = "off" /\ HotplugIdle
  /\ hotplug' = [hotplug EXCEPT ![t] = "prepared"]
  /\ UNCHANGED <<late, queue, ipi, flags, task, handler, async, owed, calls, asyncs>>

BringUp(t) ==
  /\ hotplug[t] = "prepared" /\ ~Stopped
  /\ hotplug' = [hotplug EXCEPT ![t] = "online"]
  /\ UNCHANGED <<late, queue, ipi, flags, task, handler, async, owed, calls, asyncs>>

-----------------------------------------------------------------------------

Call(c) ==
  \E w \in BOOLEAN :
    \/ \E t \in CPUS : CallSingle(c, t, w)
    \/ \E mask \in MASKS :
         CallAny(c, mask, w) \/ CallOneByOne(c, mask, w) \/ CallMany(c, mask, w)

TaskStep(c) == Single(c) \/ ManyTurn(c) \/ Send(c) \/ Wait(c)

HandlerStep(c) == RunSync(c) \/ Unlock(c) \/ FlushReturn(c)

AsyncStep(o) == AsyncExec(o) \/ AsyncSend(o)

Hotplug(t) == TakeDown(t) \/ StopEnd(t) \/ Dead(t) \/ Prepare(t) \/ BringUp(t)

Next ==
  \/ (\E c \in CALLERS : Call(c))
  \/ \E c \in CPUS : TaskStep(c) \/ Interrupt(c) \/ HandlerStep(c) \/ Hotplug(c)
  \/ \E c \in SENDERS, ctx \in {"task", "irq"}, o \in OBJS, t \in CPUS : AsyncCall(c, ctx, o, t)
  \/ \E o \in OBJS : AsyncStep(o)

Spec == Init /\ [][Next]_vars

\* What CPU c executes.
CpuStep(c) ==
  \/ TaskStep(c) \/ (c \in Online /\ Interrupt(c)) \/ HandlerStep(c) \/ StopEnd(c)
  \/ \E o \in OBJS : async[o].cpu = c /\ AsyncStep(o)

\* A CPU that has something to execute goes on executing; nothing is assumed of
\* which of its contexts it prefers, nor that one that has gone offline still
\* takes an interrupt.
Fairness == \A c \in CPUS : WF_vars(CpuStep(c))

FairSpec == Spec /\ Fairness

-----------------------------------------------------------------------------
(* Properties *)

HOTPLUG_STATE == {"online", "dying", "dead", "off", "prepared"}

\* Someone is between the llist_add that found the queue of t empty and the IPI.
AboutToSend(t) ==
  \/ \E c \in CPUS : t \in cpumask_ipi[c]
  \/ \E o \in OBJS : async[o].st = "send" /\ async[o].to = t

\* generic_exec_single and smp_call_function_many send no interrupt to a CPU
\* whose queue is not empty, and smpcfd_dying_cpu has to "ensure that the outgoing
\* CPU doesn't go offline with work still pending", so that no late interrupt finds
\* "pending callbacks on an offline CPU".  No entry is stranded: a CPU
\* with entries in its queue is online, and the interrupt that will take them is
\* pending or its sender is about to send it, whoever else adds to the queue or
\* flushes it meanwhile.
NoLostIpi ==
  \A t \in CPUS : queue[t] # <<>> => t \in Online /\ (t \in ipi \/ AboutToSend(t))

\* The entries the handler of t will come across.
Linked(t) == batch[t] \o queue[t]

\* The memory of csd has not gone away: the call that has it on its stack has not
\* returned, and the cfd_data of its CPU is allocated.
Alive(csd) ==
  /\ csd.kind = "stack" => pc[csd.owner] \in {"send", "wait"} /\ wait[csd.owner]
  /\ csd.kind = "cfd" => hotplug[csd.owner] # "off"

\* "csd_lock/csd_unlock used to serialize access to per-cpu csd resources": a
\* csd is linked in one place at most, and as long as the handler of a CPU may
\* come across it, it is locked and its memory is there, although callers return
\* early, CPUs die and smpcfd_dead_cpu frees theirs.
CsdOwned ==
  \A t \in CPUS : \A i \in DOMAIN Linked(t) :
    LET csd == Linked(t)[i] IN
      /\ Locked(csd) /\ Alive(csd)
      /\ \A u \in CPUS : \A j \in DOMAIN Linked(u) :
           Linked(u)[j] = csd => u = t /\ j = i

\* "If @wait is true, then returns once @func has returned": a task has left a
\* call that waits, or goes on to the next CPU, only when the function has run on
\* every CPU it was sent to.
WaitedRan ==
  \A c \in CPUS : owed[c] # {} => wait[c] /\ pc[c] \in {"many", "send", "wait"}

\* Every call returns: CPUs that wait for one another, or for a csd that is still
\* in use, serve each other's interrupts meanwhile.
CallReturns == \A c \in CPUS : pc[c] # "idle" ~> pc[c] = "idle"

=============================================================================
