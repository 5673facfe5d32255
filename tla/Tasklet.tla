------------------------------- MODULE Tasklet -------------------------------
(***************************************************************************)
(* Tasklets of new/kernel/softirq.c and new/include/linux/interrupt.h.     *)
(*                                                                         *)
(* A tasklet is a deferred function with two state bits and a disable      *)
(* count.  It is linked into a list of the CPU that scheduled it and run   *)
(* by that CPU's softirq handler.  Only three things synchronise the CPUs: *)
(* the atomic bits SCHED and RUN, the atomic count, and the rule that a    *)
(* CPU's lists are touched by that CPU alone, with its interrupts off.     *)
(*                                                                         *)
(* A context is either a CPU, whose steps are those of __do_softirq and    *)
(* tasklet_action_common on that CPU, or a task, which stands for any      *)
(* caller of the tasklet API (process, interrupt handler or tasklet        *)
(* function).  One step is one atomic operation on the shared state, or    *)
(* one section that runs with the interrupts of the CPU disabled.          *)
(***************************************************************************)
EXTENDS Naturals, Sequences, FiniteSets

CONSTANTS
  CPUS,        \* possible CPUs
  TASKS,       \* callers of the tasklet API
  TASKLETS,    \* tasklet_struct objects
  KILLABLE,    \* tasklets whose owner calls tasklet_kill_immediate
  NULL,        \* "no tasklet"
  MaxSched,    \* bound: calls of tasklet_schedule in a behaviour
  MaxStop      \* bound: calls of tasklet_disable, tasklet_kill and
               \* tasklet_kill_immediate, and CPU deaths

ASSUME ContextAssumption ==
  /\ CPUS \cap TASKS = {}
  /\ IsFiniteSet(TASKS)
  /\ NULL \notin TASKLETS
  /\ KILLABLE \subseteq TASKLETS
  /\ MaxSched \in Nat /\ MaxStop \in Nat

CTX == CPUS \cup TASKS

\* The two softirqs that serve tasklets; each names a per-CPU list head,
\* tasklet_hi_vec and tasklet_vec.  "list" is the local variable of
\* tasklet_action_common that holds the entries taken off a head.
PRIO == {"HI", "TASKLET"}
LISTS == PRIO \cup {"list"}

VARIABLES
  sched,     \* bit TASKLET_STATE_SCHED of each tasklet
  run,       \* bit TASKLET_STATE_RUN of each tasklet
  count,     \* disable count of each tasklet
  queue,     \* queue[c][l]: list l of CPU c
  pending,   \* __softirq_pending of each CPU, restricted to PRIO
  todo,      \* the local copy of pending in __do_softirq
  cpustate,  \* hotplug state of each CPU
  pc, arg, prio,     \* of each context: control point, tasklet, softirq
  scheds, stops      \* calls made so far, see MaxSched and MaxStop

vars == <<sched, run, count, queue, pending, todo, cpustate, pc, arg, prio,
          scheds, stops>>

CpuPC == {"idle", "dispatch", "next", "check", "clear", "func",
          "unlock_requeue", "requeue", "bug"}
TaskPC == {"idle", "schedule", "enqueue", "nosync", "disable_wait",
           "disabled", "kill", "kill_yield", "kill_wait", "kill_clear", "bug"}

\* softirq_init, tasklet_init: empty lists, no bit set, tasklets enabled.
Init ==
  /\ sched = [t \in TASKLETS |-> FALSE]
  /\ run = [t \in TASKLETS |-> FALSE]
  /\ count = [t \in TASKLETS |-> 0]
  /\ queue = [c \in CPUS |-> [l \in LISTS |-> <<>>]]
  /\ pending = [c \in CPUS |-> {}]
  /\ todo = [c \in CPUS |-> {}]
  /\ cpustate = [c \in CPUS |-> "online"]
  /\ pc = [x \in CTX |-> "idle"]
  /\ arg = [x \in CTX |-> NULL]
  /\ prio = [x \in CTX |-> "TASKLET"]
  /\ scheds = 0
  /\ stops = 0

Goto(x, label) == pc' = [pc EXCEPT ![x] = label]

\* Context x leaves a function: the locals go out of scope.
Return(x, label) ==
  /\ Goto(x, label)
  /\ arg' = [arg EXCEPT ![x] = NULL]
  /\ prio' = [prio EXCEPT ![x] = "TASKLET"]

\* list insertion at the tail followed by raising the softirq, with the
\* interrupts of c disabled.
AppendAndRaise(c, nr, t) ==
  /\ queue' = [queue EXCEPT ![c][nr] = Append(@, t)]
  /\ pending' = [pending EXCEPT ![c] = @ \cup {nr}]

-----------------------------------------------------------------------------
(* tasklet_schedule and tasklet_hi_schedule *)

\* A caller enters tasklet_schedule(t) or tasklet_hi_schedule(t).
Schedule(k, t, nr) ==
  /\ pc[k] = "idle"
  /\ scheds < MaxSched
  /\ scheds' = scheds + 1
  /\ Goto(k, "schedule")
  /\ arg' = [arg EXCEPT ![k] = t]
  /\ prio' = [prio EXCEPT ![k] = nr]
  /\ UNCHANGED <<sched, run, count, queue, pending, todo, cpustate, stops>>

\* Mutant: the result of test_and_set_bit is ignored.
TestAndSetSchedIgnored(k) ==
  /\ pc[k] = "schedule"
  /\ sched' = [sched EXCEPT ![arg[k]] = TRUE]
  /\ Goto(k, "enqueue")
  /\ UNCHANGED <<run, count, queue, pending, todo, cpustate, arg, prio, scheds, stops>>

\* test_and_set_bit(TASKLET_STATE_SCHED): only the caller that sets the bit
\* goes on to link the tasklet.
TestAndSetSched(k) ==
  /\ pc[k] = "schedule"
  /\ sched' = [sched EXCEPT ![arg[k]] = TRUE]
  /\ \/ /\ sched[arg[k]]
        /\ Return(k, "idle")
     \/ /\ ~sched[arg[k]]
        /\ Goto(k, "enqueue")
        /\ UNCHANGED <<arg, prio>>
  /\ UNCHANGED <<run, count, queue, pending, todo, cpustate, scheds, stops>>

\* __tasklet_schedule_common: link at the tail of this CPU's list and raise.
\* A preemptible caller may have migrated since it set the bit, so "this
\* CPU" is any online one.
Enqueue(k, c) ==
  /\ pc[k] = "enqueue"
  /\ cpustate[c] = "online"
  /\ AppendAndRaise(c, prio[k], arg[k])
  /\ Return(k, "idle")
  /\ UNCHANGED <<sched, run, count, todo, cpustate, scheds, stops>>

-----------------------------------------------------------------------------
(* tasklet_disable_nosync, tasklet_disable, tasklet_enable *)

\* tasklet_disable_nosync: count the disabler and return at once.
DisableNosync(k, t) ==
  /\ pc[k] = "idle"
  /\ stops < MaxStop
  /\ stops' = stops + 1
  /\ count' = [count EXCEPT ![t] = @ + 1]
  /\ arg' = [arg EXCEPT ![k] = t]
  /\ Goto(k, "nosync")
  /\ UNCHANGED <<sched, run, queue, pending, todo, cpustate, prio, scheds>>

\* tasklet_disable: count the disabler, then wait for RUN to be clear.
Disable(k, t) ==
  /\ pc[k] = "idle"
  /\ stops < MaxStop
  /\ stops' = stops + 1
  /\ count' = [count EXCEPT ![t] = @ + 1]
  /\ arg' = [arg EXCEPT ![k] = t]
  /\ Goto(k, "disable_wait")
  /\ UNCHANGED <<sched, run, queue, pending, todo, cpustate, prio, scheds>>

\* Mutant: tasklet_disable without tasklet_unlock_wait.
DisableNoWait(k) ==
  /\ pc[k] = "disable_wait"
  /\ Goto(k, "disabled")
  /\ UNCHANGED <<sched, run, count, queue, pending, todo, cpustate, arg, prio, scheds, stops>>

\* tasklet_unlock_wait in tasklet_disable observes RUN clear.
DisableWait(k) ==
  /\ pc[k] = "disable_wait"
  /\ ~run[arg[k]]
  /\ Goto(k, "disabled")
  /\ UNCHANGED <<sched, run, count, queue, pending, todo, cpustate, arg, prio,
                 scheds, stops>>

\* tasklet_enable, called once by whoever disabled.
Enable(k) ==
  /\ pc[k] \in {"nosync", "disabled"}
  /\ count' = [count EXCEPT ![arg[k]] = @ - 1]
  /\ Return(k, "idle")
  /\ UNCHANGED <<sched, run, queue, pending, todo, cpustate, scheds, stops>>

-----------------------------------------------------------------------------
(* tasklet_kill *)

\* A process enters tasklet_kill(t).
Kill(k, t) ==
  /\ pc[k] = "idle"
  /\ stops < MaxStop
  /\ stops' = stops + 1
  /\ arg' = [arg EXCEPT ![k] = t]
  /\ Goto(k, "kill")
  /\ UNCHANGED <<sched, run, count, queue, pending, todo, cpustate, prio,
                 scheds>>

\* Mutant: one test_and_set_bit instead of the loop.
KillTestAndSetOnce(k) ==
  /\ pc[k] = "kill"
  /\ sched' = [sched EXCEPT ![arg[k]] = TRUE]
  /\ Goto(k, "kill_wait")
  /\ UNCHANGED <<run, count, queue, pending, todo, cpustate, arg, prio, scheds, stops>>

\* while (test_and_set_bit(SCHED)): the killer takes the bit if it is clear.
KillTestAndSet(k) ==
  /\ pc[k] = "kill"
  /\ sched' = [sched EXCEPT ![arg[k]] = TRUE]
  /\ Goto(k, IF sched[arg[k]] THEN "kill_yield" ELSE "kill_wait")
  /\ UNCHANGED <<run, count, queue, pending, todo, cpustate, arg, prio,
                 scheds, stops>>

\* do yield() while (test_bit(SCHED)).
KillYield(k) ==
  /\ pc[k] = "kill_yield"
  /\ ~sched[arg[k]]
  /\ Goto(k, "kill")
  /\ UNCHANGED <<sched, run, count, queue, pending, todo, cpustate, arg, prio,
                 scheds, stops>>

\* Mutant: tasklet_kill without tasklet_unlock_wait.
KillNoWait(k) ==
  /\ pc[k] = "kill_wait"
  /\ Goto(k, "kill_clear")
  /\ UNCHANGED <<sched, run, count, queue, pending, todo, cpustate, arg, prio, scheds, stops>>

\* tasklet_unlock_wait in tasklet_kill observes RUN clear.
KillWait(k) ==
  /\ pc[k] = "kill_wait"
  /\ ~run[arg[k]]
  /\ Goto(k, "kill_clear")
  /\ UNCHANGED <<sched, run, count, queue, pending, todo, cpustate, arg, prio,
                 scheds, stops>>

\* Mutant: tasklet_kill keeps the bit.
KillKeepsSched(k) ==
  /\ pc[k] = "kill_clear"
  /\ Return(k, "idle")
  /\ UNCHANGED <<sched, run, count, queue, pending, todo, cpustate, scheds, stops>>

\* clear_bit(SCHED): tasklet_kill returns.
KillClear(k) ==
  /\ pc[k] = "kill_clear"
  /\ sched' = [sched EXCEPT ![arg[k]] = FALSE]
  /\ Return(k, "idle")
  /\ UNCHANGED <<run, count, queue, pending, todo, cpustate, scheds, stops>>

-----------------------------------------------------------------------------
(* __do_softirq and tasklet_action_common on CPU c *)

\* __do_softirq: copy the pending mask, clear it, enable interrupts.
DoSoftirq(c) ==
  /\ pc[c] = "idle"
  /\ cpustate[c] = "online"
  /\ pending[c] # {}
  /\ todo' = [todo EXCEPT ![c] = pending[c]]
  /\ pending' = [pending EXCEPT ![c] = {}]
  /\ Goto(c, "dispatch")
  /\ UNCHANGED <<sched, run, count, queue, cpustate, arg, prio, scheds, stops>>

\* The next handler of the copied mask, HI_SOFTIRQ before TASKLET_SOFTIRQ:
\* take the whole list off the head with interrupts disabled.
TakeList(c, nr) ==
  /\ pc[c] = "dispatch"
  /\ nr \in todo[c]
  /\ nr = "TASKLET" => "HI" \notin todo[c]
  /\ todo' = [todo EXCEPT ![c] = @ \ {nr}]
  /\ prio' = [prio EXCEPT ![c] = nr]
  /\ queue' = [queue EXCEPT ![c]["list"] = queue[c][nr], ![c][nr] = <<>>]
  /\ Goto(c, "next")
  /\ UNCHANGED <<sched, run, count, pending, cpustate, arg, scheds, stops>>

\* No handler left in the copied mask: __do_softirq ends its pass.
SoftirqDone(c) ==
  /\ pc[c] = "dispatch"
  /\ todo[c] = {}
  /\ Goto(c, "idle")
  /\ UNCHANGED <<sched, run, count, queue, pending, todo, cpustate, arg, prio,
                 scheds, stops>>

\* Mutant: tasklet_trylock always succeeds, as when CONFIG_SMP is unset.
TryLockAlways(c) ==
  /\ pc[c] = "next"
  /\ queue[c]["list"] # <<>>
  /\ LET t == Head(queue[c]["list"]) IN
       /\ queue' = [queue EXCEPT ![c]["list"] = Tail(@)]
       /\ arg' = [arg EXCEPT ![c] = t]
       /\ run' = [run EXCEPT ![t] = TRUE]
       /\ Goto(c, "check")
  /\ UNCHANGED <<sched, count, pending, todo, cpustate, prio, scheds, stops>>

\* while (list): advance past t, then tasklet_trylock(t).
TryLock(c) ==
  /\ pc[c] = "next"
  /\ queue[c]["list"] # <<>>
  /\ LET t == Head(queue[c]["list"]) IN
       /\ queue' = [queue EXCEPT ![c]["list"] = Tail(@)]
       /\ arg' = [arg EXCEPT ![c] = t]
       /\ run' = [run EXCEPT ![t] = TRUE]
       /\ Goto(c, IF run[t] THEN "requeue" ELSE "check")
  /\ UNCHANGED <<sched, count, pending, todo, cpustate, prio, scheds, stops>>

\* The list is exhausted: the handler returns to __do_softirq.
ListDone(c) ==
  /\ pc[c] = "next"
  /\ queue[c]["list"] = <<>>
  /\ Return(c, "dispatch")
  /\ UNCHANGED <<sched, run, count, queue, pending, todo, cpustate, scheds,
                 stops>>

\* if (!atomic_read(&t->count))
CheckCount(c) ==
  /\ pc[c] = "check"
  /\ Goto(c, IF count[arg[c]] = 0 THEN "clear" ELSE "unlock_requeue")
  /\ UNCHANGED <<sched, run, count, queue, pending, todo, cpustate, arg, prio,
                 scheds, stops>>

\* Mutant: the bit is tested and not cleared.
ClearSchedNot(c) ==
  /\ pc[c] = "clear"
  /\ Goto(c, IF sched[arg[c]] THEN "func" ELSE "bug")
  /\ UNCHANGED <<sched, run, count, queue, pending, todo, cpustate, arg, prio, scheds, stops>>

\* if (!test_and_clear_bit(SCHED)) BUG(), then call t->func.
ClearSched(c) ==
  /\ pc[c] = "clear"
  /\ sched' = [sched EXCEPT ![arg[c]] = FALSE]
  /\ Goto(c, IF sched[arg[c]] THEN "func" ELSE "bug")
  /\ UNCHANGED <<run, count, queue, pending, todo, cpustate, arg, prio,
                 scheds, stops>>

\* t->func returns; tasklet_unlock(t); continue.
FuncReturn(c) ==
  /\ pc[c] = "func"
  /\ run' = [run EXCEPT ![arg[c]] = FALSE]
  /\ Goto(c, "next")
  /\ UNCHANGED <<sched, count, queue, pending, todo, cpustate, arg, prio,
                 scheds, stops>>

\* Mutant: a tasklet found disabled stays locked.
UnlockDisabledNot(c) ==
  /\ pc[c] = "unlock_requeue"
  /\ Goto(c, "requeue")
  /\ UNCHANGED <<sched, run, count, queue, pending, todo, cpustate, arg, prio, scheds, stops>>

\* tasklet_unlock(t) of a tasklet found disabled.
UnlockDisabled(c) ==
  /\ pc[c] = "unlock_requeue"
  /\ run' = [run EXCEPT ![arg[c]] = FALSE]
  /\ Goto(c, "requeue")
  /\ UNCHANGED <<sched, count, queue, pending, todo, cpustate, arg, prio,
                 scheds, stops>>

\* Mutant: the softirq is not raised again.
RequeueQuietly(c) ==
  /\ pc[c] = "requeue"
  /\ queue' = [queue EXCEPT ![c][prio[c]] = Append(@, arg[c])]
  /\ Goto(c, "next")
  /\ UNCHANGED <<sched, run, count, pending, todo, cpustate, arg, prio, scheds, stops>>

\* Put t back at the tail of this CPU's head and raise the softirq again.
Requeue(c) ==
  /\ pc[c] = "requeue"
  /\ AppendAndRaise(c, prio[c], arg[c])
  /\ Goto(c, "next")
  /\ UNCHANGED <<sched, run, count, todo, cpustate, arg, prio, scheds, stops>>

-----------------------------------------------------------------------------
(* CPU hotplug *)

\* CPU c is taken down once it no longer runs softirqs.  The pending mask and
\* the lists of c stay as they are.
CpuDie(c) ==
  /\ cpustate[c] = "online"
  /\ pc[c] = "idle"
  /\ \E d \in CPUS \ {c} : cpustate[d] = "online"
  /\ stops < MaxStop
  /\ stops' = stops + 1
  /\ cpustate' = [cpustate EXCEPT ![c] = "dead"]
  /\ UNCHANGED <<sched, run, count, queue, pending, todo, pc, arg, prio,
                 scheds>>

\* Mutant: the lists of the dead CPU are not emptied.
TakeoverKeeps(c, d) ==
  /\ cpustate[c] = "dead" /\ cpustate[d] = "online" /\ pc[d] = "idle"
  /\ queue' = [queue EXCEPT
       ![d] = [l \in LISTS |-> IF l \in PRIO THEN @[l] \o queue[c][l] ELSE @[l]]]
  /\ pending' = [pending EXCEPT ![d] = PRIO]
  /\ cpustate' = [cpustate EXCEPT ![c] = "offline"]
  /\ UNCHANGED <<sched, run, count, todo, pc, arg, prio, scheds, stops>>

\* Mutant: the tasklets of the dead CPU are dropped.
TakeoverDrops(c, d) ==
  /\ cpustate[c] = "dead" /\ cpustate[d] = "online" /\ pc[d] = "idle"
  /\ queue' = [queue EXCEPT ![c] = [l \in LISTS |-> IF l \in PRIO THEN <<>> ELSE @[l]]]
  /\ pending' = [pending EXCEPT ![d] = PRIO]
  /\ cpustate' = [cpustate EXCEPT ![c] = "offline"]
  /\ UNCHANGED <<sched, run, count, todo, pc, arg, prio, scheds, stops>>

\* takeover_tasklets(c), called by the hotplug thread on CPU d, which is then
\* not inside __do_softirq, with the interrupts of d disabled.
Takeover(c, d) ==
  /\ cpustate[c] = "dead"
  /\ cpustate[d] = "online"
  /\ pc[d] = "idle"
  /\ queue' = [queue EXCEPT
       ![d] = [l \in LISTS |-> IF l \in PRIO THEN @[l] \o queue[c][l] ELSE @[l]],
       ![c] = [l \in LISTS |-> IF l \in PRIO THEN <<>> ELSE @[l]]]
  /\ pending' = [pending EXCEPT ![d] = PRIO]
  /\ cpustate' = [cpustate EXCEPT ![c] = "offline"]
  /\ UNCHANGED <<sched, run, count, todo, pc, arg, prio, scheds, stops>>

\* CPU c comes back; its pending mask was never cleared.
CpuUp(c) ==
  /\ cpustate[c] = "offline"
  /\ cpustate' = [cpustate EXCEPT ![c] = "online"]
  /\ UNCHANGED <<sched, run, count, queue, pending, todo, pc, arg, prio,
                 scheds, stops>>

\* The list q without its first occurrence of t.
Unlink(q, t) ==
  LET i == CHOOSE j \in DOMAIN q : q[j] = t /\ \A m \in 1..(j-1) : q[m] # t
  IN  SubSeq(q, 1, i - 1) \o SubSeq(q, i + 1, Len(q))

\* tasklet_kill_immediate(t, c): searches tasklet_vec of the dead CPU only,
\* and BUG()s when the scheduled tasklet is not there.
KillImmediate(k, t, c) ==
  /\ pc[k] = "idle"
  /\ cpustate[c] = "dead"
  /\ stops < MaxStop
  /\ stops' = stops + 1
  /\ LET q == queue[c]["TASKLET"] IN
       \/ /\ run[t] \/ (sched[t] /\ \A i \in DOMAIN q : q[i] # t)
          /\ Goto(k, "bug")
          /\ UNCHANGED queue
       \/ /\ ~run[t] /\ ~sched[t]
          /\ UNCHANGED <<pc, queue>>
       \/ /\ ~run[t] /\ sched[t]
          /\ \E i \in DOMAIN q : q[i] = t
          /\ queue' = [queue EXCEPT ![c]["TASKLET"] = Unlink(q, t)]
          /\ UNCHANGED pc
  /\ UNCHANGED <<sched, run, count, pending, todo, cpustate, arg, prio,
                 scheds>>

-----------------------------------------------------------------------------

\* Steps a context takes to finish a call it has begun.
TaskStep(k) ==
  \/ TestAndSetSched(k)
  \/ \E c \in CPUS : Enqueue(k, c)
  \/ DisableWait(k)
  \/ Enable(k)
  \/ KillTestAndSet(k)
  \/ KillYield(k)
  \/ KillWait(k)
  \/ KillClear(k)

\* Calls a context may make.
TaskCall(k, t) ==
  \/ \E nr \in PRIO : Schedule(k, t, nr)
  \/ DisableNosync(k, t)
  \/ Disable(k, t)
  \/ Kill(k, t)

CpuStep(c) ==
  \/ DoSoftirq(c)
  \/ \E nr \in PRIO : TakeList(c, nr)
  \/ SoftirqDone(c)
  \/ TryLock(c)
  \/ ListDone(c)
  \/ CheckCount(c)
  \/ ClearSched(c)
  \/ FuncReturn(c)
  \/ UnlockDisabled(c)
  \/ Requeue(c)

Hotplug(c) ==
  \/ CpuDie(c)
  \/ \E d \in CPUS : Takeover(c, d)
  \/ CpuUp(c)
  \/ \E k \in TASKS, t \in KILLABLE : KillImmediate(k, t, c)

Next ==
  \/ \E k \in TASKS : TaskStep(k) \/ \E t \in TASKLETS : TaskCall(k, t)
  \/ \E c \in CPUS : CpuStep(c) \/ Hotplug(c)

Spec == Init /\ [][Next]_vars

\* A CPU keeps serving its pending mask (module Softirq is about why), tasklet
\* functions return, a call that was begun goes on, whoever disables enables
\* again, and a hotplug operation completes.  Nothing is assumed of the poll in
\* tasklet_disable: a CPU that has the disabled tasklet on its list sets and
\* clears RUN for ever, and no poll need fall where it is clear.
Fairness ==
  /\ \A c \in CPUS : WF_vars(CpuStep(c))
  /\ \A k \in TASKS : WF_vars(TaskStep(k))
  /\ \A c \in CPUS : WF_vars(\E d \in CPUS : Takeover(c, d))

FairSpec == Spec /\ Fairness

-----------------------------------------------------------------------------
(* Properties *)

\* Type of the state.
TypeOK ==
  /\ sched \in [TASKLETS -> BOOLEAN]
  /\ run \in [TASKLETS -> BOOLEAN]
  /\ count \in [TASKLETS -> Nat]
  /\ queue \in [CPUS -> [LISTS -> Seq(TASKLETS)]]
  /\ pending \in [CPUS -> SUBSET PRIO]
  /\ todo \in [CPUS -> SUBSET PRIO]
  /\ cpustate \in [CPUS -> {"online", "dead", "offline"}]
  /\ pc \in [CTX -> CpuPC \cup TaskPC]
  /\ arg \in [CTX -> TASKLETS \cup {NULL}]
  /\ prio \in [CTX -> PRIO]
  /\ \A c \in CPUS : pc[c] \in CpuPC
  /\ \A k \in TASKS : pc[k] \in TaskPC
  /\ scheds \in 0..MaxSched
  /\ stops \in 0..MaxStop

\* CPU c is inside the function of tasklet t.
Executing(c, t) == pc[c] = "func" /\ arg[c] = t

\* Tasklet t is linked in some list.
Linked(t) == \E c \in CPUS, l \in LISTS :
               \E i \in DOMAIN queue[c][l] : queue[c][l][i] = t

\* No tasklet is at two places of the lists.
UniqueLinks ==
  \A c, d \in CPUS, l, m \in LISTS :
    \A i \in DOMAIN queue[c][l], j \in DOMAIN queue[d][m] :
      queue[c][l][i] = queue[d][m][j] => c = d /\ l = m /\ i = j

\* Context x alone answers for bit SCHED of t: it is about to link t, has
\* unlinked it and not yet cleared the bit, or took the bit in tasklet_kill.
Holds(x, t) ==
  /\ arg[x] = t
  /\ pc[x] \in {"enqueue", "check", "clear", "unlock_requeue", "requeue",
                "kill_wait", "kill_clear"}

\* interrupt.h: "Tasklet is strictly serialized wrt itself": the function of a
\* tasklet never runs on two CPUs at once, however it is rescheduled,
\* requeued or moved between CPUs meanwhile.
Serialized ==
  \A c, d \in CPUS, t \in TASKLETS :
    Executing(c, t) /\ Executing(d, t) => c = d

\* tasklet_action_common: the BUG() for a listed tasklet whose SCHED bit is
\* already clear is never reached.
NoBug == \A c \in CPUS : pc[c] # "bug"

\* Bit SCHED is a token: while it is set, the tasklet is in exactly one list,
\* at one place, or one context answers for it, never both and never two.
\* A second link would splice the two lists through the shared next pointer;
\* none at all would make every later tasklet_schedule a no-op.  Only a
\* tasklet removed by tasklet_kill_immediate may be in no place.
SchedIsToken ==
  /\ \A t \in TASKLETS :
       /\ Linked(t) => sched[t]
       /\ \A x \in CTX : Holds(x, t) => sched[t]
       /\ sched[t] /\ t \notin KILLABLE =>
            Linked(t) \/ \E x \in CTX : Holds(x, t)
       /\ \A x \in CTX : Holds(x, t) => ~Linked(t)
       /\ \A x, y \in CTX : Holds(x, t) /\ Holds(y, t) => x = y
  /\ UniqueLinks

\* tasklet_disable: from its return to the matching tasklet_enable the
\* function of the tasklet runs nowhere.
DisableExcludes ==
  \A k \in TASKS, c \in CPUS :
    pc[k] = "disabled" => ~Executing(c, arg[k])

\* tasklet_kill: when it is about to return, the tasklet is in no list, runs
\* nowhere, and no caller is on its way to link it.
KillQuiesces ==
  \A k \in TASKS : pc[k] = "kill_clear" =>
    /\ ~Linked(arg[k])
    /\ \A c \in CPUS : ~Executing(c, arg[k])
    /\ \A x \in CTX \ {k} : ~Holds(x, arg[k])

\* A nonempty list of an online CPU always has its softirq raised, or about to
\* be served: no schedule, requeue or takeover leaves a tasklet stranded.
QueuedIsRaised ==
  \A c \in CPUS, nr \in PRIO :
    cpustate[c] = "online" /\ queue[c][nr] # <<>>
      => nr \in pending[c] \cup todo[c]

\* No tasklet_disable waits for ever.  The bare poll of tasklet_unlock_wait
\* does not promise it (see DisableReturns), so it is the premise of the two
\* properties below: a disabler that never returns never enables again.
DisablersReturn == \A k \in TASKS : []<>(pc[k] # "disable_wait")

\* interrupt.h: a scheduled tasklet "is guaranteed to be executed on some cpu
\* at least once after this", also when its CPU dies before running it,
\* provided whoever disables it gets to enable it again.
ScheduledExecutes ==
  DisablersReturn =>
    \A t \in TASKLETS \ KILLABLE :
      Linked(t) \/ (\E k \in TASKS : pc[k] = "enqueue" /\ arg[k] = t)
        ~> \E c \in CPUS : Executing(c, t)

\* tasklet_kill returns, once callers stop scheduling the tasklet (MaxSched)
\* and everyone who disabled it has enabled it.
KillReturns ==
  DisablersReturn => \A k \in TASKS : pc[k] = "kill" ~> pc[k] = "idle"

\* tasklet_disable can wait for ever in one way only: a CPU has the disabled
\* tasklet on its list and takes RUN, finds count nonzero, releases RUN and
\* requeues the tasklet again and again, and every poll falls where RUN is set.
\* In particular RUN is never left set, and without that CPU the call returns.
DisableReturns ==
  \A k \in TASKS, t \in TASKLETS :
    <>[](pc[k] = "disable_wait" /\ arg[k] = t) =>
      /\ []<>~run[t]
      /\ []<>(\E c \in CPUS : pc[c] = "requeue" /\ arg[c] = t)

\* tasklet_kill_immediate, taken literally: of a tasklet that does not run and
\* is "scheduled for execution on @cpu", at either priority, it "removes the
\* tasklet _immediately_", so that it never ends in BUG().
KillImmediateRemoves ==
  [][\A k \in TASKS, t \in KILLABLE, c \in CPUS :
       /\ KillImmediate(k, t, c)
       /\ ~run[t]
       /\ \E nr \in PRIO : \E i \in DOMAIN queue[c][nr] : queue[c][nr][i] = t
       => pc'[k] # "bug"]_vars

-----------------------------------------------------------------------------
(* The promise to the clients: SCHED is the claim, an execution takes it. *)
Service == INSTANCE TaskletService WITH
  owed <- {t \in TASKLETS : sched[t]},
  executing <- {t \in TASKLETS : \E c \in CPUS : Executing(c, t)}

\* The lists, bits and CPUs of softirq.c implement the promise: an execution
\* starts only on a claim, uses it up, and never overlaps another one of the
\* same tasklet; tasklet_kill gives its claim back only when nothing runs.
ImplementsService == Service!Spec

-----------------------------------------------------------------------------
(* The inductive invariant of module TaskletProofs. *)

Busy == {"check", "clear", "func", "unlock_requeue", "requeue"}
Locked(c) == pc[c] \in {"check", "clear", "func", "unlock_requeue"}
Disablers(t) ==
  {k \in TASKS : arg[k] = t /\ pc[k] \in {"nosync", "disable_wait", "disabled"}}

\* A context inside a call has a tasklet to work on.
ArgOK ==
  /\ \A c \in CPUS : pc[c] \in Busy => arg[c] \in TASKLETS
  /\ \A k \in TASKS : pc[k] \notin {"idle", "bug"} => arg[k] \in TASKLETS

\* RUN is a lock: whoever is between tasklet_trylock and tasklet_unlock owns it.
RunIsLock ==
  /\ \A c \in CPUS : Locked(c) => run[arg[c]]
  /\ \A c, d \in CPUS : Locked(c) /\ Locked(d) /\ arg[c] = arg[d] => c = d

\* count counts the disablers; once tasklet_disable has returned, no CPU is
\* past the check of count.
DisableInv ==
  /\ \A t \in TASKLETS : count[t] = Cardinality(Disablers(t))
  /\ \A k \in TASKS, c \in CPUS :
       pc[k] = "disabled" /\ pc[c] \in {"clear", "func"} => arg[k] # arg[c]

\* Once tasklet_kill has seen RUN clear the function does not start again.
KillInv ==
  \A k \in TASKS, c \in CPUS :
    pc[k] = "kill_clear" /\ pc[c] = "func" => arg[k] # arg[c]

\* The local list and mask are empty outside their functions, and a CPU that
\* is not online has left them; takeover_tasklets empties its lists.
IdleInv ==
  \A c \in CPUS :
    /\ pc[c] \in {"idle", "dispatch"} => queue[c]["list"] = <<>>
    /\ pc[c] = "idle" => todo[c] = {}
    /\ cpustate[c] # "online" => pc[c] = "idle"
    /\ cpustate[c] = "offline" => \A nr \in PRIO : queue[c][nr] = <<>>

\* Strengthening of the safety properties that every step preserves.
Inv ==
  /\ TypeOK
  /\ ArgOK
  /\ RunIsLock
  /\ NoBug
  /\ SchedIsToken
  /\ DisableInv
  /\ KillInv
  /\ IdleInv
  /\ QueuedIsRaised

=============================================================================
