---------------------------- MODULE KthreadWorker ----------------------------
(***************************************************************************)
(* One kthread worker (kernel/kthread.c): a thread that takes works off a  *)
(* list and runs them, and the tasks that queue, delay, modify, flush and  *)
(* cancel works and destroy the worker.                                    *)
(*                                                                         *)
(* Every section under worker->lock is one step; the places where a        *)
(* function drops the lock (around del_timer_sync, around the flush of a   *)
(* cancel) are where steps of the others come in between.  The flush work  *)
(* on the stack of task p is the node p itself.  A work function may queue *)
(* its own work again any number of times before it returns.               *)
(*                                                                         *)
(* The callers keep to three documented rules: a delayed work is cancelled *)
(* only with kthread_cancel_delayed_work_sync; nobody uses the worker once *)
(* kthread_destroy_worker has been called, and no timer is pending then;   *)
(* and, when Synchronized, "the caller is supposed to synchronize"         *)
(* kthread_mod_delayed_work with a cancel of the same work.                *)
(***************************************************************************)
EXTENDS Naturals, Sequences, FiniteSets

CONSTANTS WORKS,         \* plain works
          DWORKS,        \* delayed works, each with a timer
          CALLERS,       \* the tasks
          NoWork,        \* NULL
          Synchronized   \* cancel and mod of a delayed work are synchronized

ASSUME SetsAssumption == /\ WORKS \cap DWORKS = {}
                         /\ (WORKS \cup DWORKS) \cap CALLERS = {}
                         /\ NoWork \notin WORKS \cup DWORKS \cup CALLERS
                         /\ IsFiniteSet(CALLERS)
                         /\ Synchronized \in BOOLEAN

Works == WORKS \cup DWORKS
Nodes == Works \cup CALLERS

VARIABLES work_list,      \* worker->work_list
          delayed,        \* the nodes on worker->delayed_work_list
          timer_pending,  \* delayed works whose timer is armed
          timer_running,  \* delayed works whose timer function was called
          bound,          \* works with work->worker set
          canceling,      \* work->canceling
          current_work,   \* worker->current_work
          task,           \* worker->task is set
          tstate,         \* state of the worker thread
          wpc,            \* where the worker thread is
          stop,           \* KTHREAD_SHOULD_STOP
          call,           \* what each task is calling, and where it is
          done,           \* tasks whose flush work has completed
          ahead           \* history: what a flush has to wait for

vars == <<work_list, delayed, timer_pending, timer_running, bound, canceling,
          current_work, task, tstate, wpc, stop, call, done, ahead>>

lists   == <<work_list, delayed>>
timers  == <<timer_pending, timer_running>>
thread  == <<current_work, task, wpc, stop>>
flushes == <<done, ahead>>

Idle == [fn |-> "none", at |-> "-", work |-> NoWork, delay |-> 0]

At(p, fn, at, w, delay) ==
    call' = [call EXCEPT ![p] = [fn |-> fn, at |-> at, work |-> w, delay |-> delay]]

Goto(p, at) == call' = [call EXCEPT ![p].at = at]

Return(p) == call' = [call EXCEPT ![p] = Idle]

Closing == \E p \in CALLERS : call[p].fn = "destroy"

\* A task may start a call.
Ready(p) == call[p] = Idle /\ wpc # "freed" /\ ~Closing

Init == /\ work_list = <<>> /\ delayed = {}
        /\ timer_pending = {} /\ timer_running = {}
        /\ bound = {}
        /\ canceling = [w \in Works |-> 0]
        /\ current_work = NoWork
        /\ task \in BOOLEAN      \* kthread_create_worker, or kthread_init_worker
        /\ tstate = "running" /\ wpc = "start" /\ stop = FALSE
        /\ call = [p \in CALLERS |-> Idle]
        /\ done = {}
        /\ ahead = [p \in CALLERS |-> {}]

-----------------------------------------------------------------------------
(* Lists: include/linux/list.h, a list as the sequence of its nodes *)

Contains(list, n) == \E i \in 1..Len(list) : list[i] = n

InsertAt(list, i, n) == SubSeq(list, 1, i - 1) \o <<n>> \o SubSeq(list, i, Len(list))

RemoveAt(list, i) == SubSeq(list, 1, i - 1) \o SubSeq(list, i + 1, Len(list))

\* Where node n is on list, if it is on it.
Position(list, n) == CHOOSE i \in DOMAIN list : list[i] = n

list_del_init(list, n) == IF Contains(list, n) THEN RemoveAt(list, Position(list, n)) ELSE list

OnList(n) == n \in delayed \/ Contains(work_list, n)

queuing_blocked(w) == OnList(w) \/ canceling[w] > 0

\* The wake-up of kthread_insert_work.
WakeIfIdle == tstate' = IF current_work = NoWork /\ task THEN "running" ELSE tstate

\* Mutant: list_add, at the head.
QueueOnHead(list, w) == work_list' = <<w>> \o list /\ WakeIfIdle

\* kthread_insert_work at the tail of list.
QueueOn(list, w) == work_list' = Append(list, w) /\ WakeIfIdle

\* __kthread_queue_delayed_work; list and dlist are the lists before it.
QueueDelayed(w, delay, list, dlist) ==
    /\ bound' = bound \cup {w}
    /\ \/ /\ delay = 0
          /\ QueueOn(list, w) /\ delayed' = dlist
          /\ UNCHANGED timer_pending
       \/ /\ delay > 0
          /\ delayed' = dlist \cup {w} /\ work_list' = list
          /\ timer_pending' = timer_pending \cup {w}
          /\ UNCHANGED tstate

\* A queued instance of w that is taken off the list is not waited for.
Unqueued(w) == [p \in CALLERS |-> ahead[p] \ {<<w, "queued">>}]

-----------------------------------------------------------------------------
(* Queueing *)

QueueWork(p, w) ==
    /\ Ready(p) /\ ~queuing_blocked(w)
    /\ QueueOn(work_list, w)
    /\ bound' = bound \cup {w}
    /\ UNCHANGED <<delayed, timers, canceling, thread, call, flushes>>

QueueDelayedWork(p, w, delay) ==
    /\ Ready(p) /\ ~queuing_blocked(w)
    /\ QueueDelayed(w, delay, work_list, delayed)
    /\ UNCHANGED <<timer_running, canceling, thread, call, flushes>>

\* The timer softirq detaches the timer and calls its function.
TimerExpire(w) ==
    /\ w \in timer_pending /\ w \notin timer_running
    /\ timer_pending' = timer_pending \ {w}
    /\ timer_running' = timer_running \cup {w}
    /\ UNCHANGED <<lists, bound, canceling, thread, tstate, call, flushes>>

\* kthread_delayed_work_timer_fn; it does not look at canceling.
TimerFn(w) ==
    /\ w \in timer_running
    /\ timer_running' = timer_running \ {w}
    /\ delayed' = delayed \ {w}
    /\ QueueOn(list_del_init(work_list, w), w)
    /\ UNCHANGED <<timer_pending, bound, canceling, thread, call, flushes>>

-----------------------------------------------------------------------------
(* Flushing *)

\* Mutant: the flush work goes in front of the work on work_list.
FlushInsertBefore(p, w) ==
    /\ IF Contains(work_list, w)
       THEN /\ work_list' = InsertAt(work_list, Position(work_list, w), p)
            /\ UNCHANGED delayed
       ELSE work_list' = <<p>> \o work_list /\ UNCHANGED delayed
    /\ WakeIfIdle
    /\ ahead' = [ahead EXCEPT ![p] =
                    (IF OnList(w) THEN {<<w, "queued">>} ELSE {})
                    \cup (IF wpc = "run" /\ current_work = w
                          THEN {<<w, "running">>} ELSE {})]

\* kthread_flush_work inserts the flush work behind w when w is on a list,
\* and at the head of work_list when w is executing.
FlushInsert(p, w) ==
    /\ IF Contains(work_list, w)
       THEN /\ work_list' = InsertAt(work_list, Position(work_list, w) + 1, p)
            /\ UNCHANGED delayed
       ELSE IF w \in delayed
       THEN delayed' = delayed \cup {p} /\ UNCHANGED work_list
       ELSE work_list' = <<p>> \o work_list /\ UNCHANGED delayed
    /\ WakeIfIdle
    /\ ahead' = [ahead EXCEPT ![p] =
                    (IF OnList(w) THEN {<<w, "queued">>} ELSE {})
                    \cup (IF wpc = "run" /\ current_work = w
                          THEN {<<w, "running">>} ELSE {})]

FlushNoop(w) == ~OnList(w) /\ current_work # w

\* The public call; there is none for delayed works.
FlushWork(p, w) ==
    /\ Ready(p) /\ w \in bound /\ ~FlushNoop(w)
    /\ FlushInsert(p, w)
    /\ At(p, "flush", "wait", w, 0)
    /\ UNCHANGED <<timers, bound, canceling, thread, done>>

\* kthread_flush_worker, also the first step of kthread_destroy_worker.
FlushAll(p) ==
    /\ QueueOn(work_list, p)
    /\ ahead' = [ahead EXCEPT ![p] =
           {<<w, "queued">> : w \in {v \in Works : Contains(work_list, v)}}
           \cup {<<w, "running">> : w \in {v \in Works : wpc = "run" /\ v = current_work}}]
    /\ UNCHANGED <<delayed, timers, bound, canceling, thread, done>>

FlushWorker(p) ==
    /\ Ready(p)
    /\ FlushAll(p)
    /\ At(p, "flush", "wait", NoWork, 0)

\* wait_for_completion(&fwork.done) returns.
FlushDone(p) ==
    /\ call[p].at = "wait" /\ p \in done
    /\ done' = done \ {p}
    /\ CASE call[p].fn = "flush"   -> Return(p)
         [] call[p].fn = "cancel"  -> Goto(p, "flushed")
         [] call[p].fn = "destroy" -> Goto(p, "stop")
    /\ UNCHANGED <<lists, timers, bound, canceling, thread, tstate, ahead>>

-----------------------------------------------------------------------------
(* Cancelling and modifying *)

\* The rule for callers: no cancel while the work is being modified.
CancelAllowed(w) ==
    Synchronized => \A q \in CALLERS : ~(call[q].fn = "mod" /\ call[q].work = w)

\* __kthread_cancel_work up to the unlock: queueing is blocked.
CancelBlocks(p, fn, w, delay) ==
    /\ canceling' = [canceling EXCEPT ![w] = @ + 1]
    /\ At(p, fn, "timer", w, delay)
    /\ UNCHANGED <<lists, timers, bound, thread, tstate, flushes>>

\* Mutant: del_timer, which does not wait.
DelTimerAsync(p) ==
    /\ call[p].at = "timer"
    /\ timer_pending' = timer_pending \ {call[p].work}
    /\ Goto(p, "relock")
    /\ UNCHANGED <<lists, timer_running, bound, canceling, thread, tstate, flushes>>

\* del_timer_sync waits for a running timer function.
DelTimer(p) ==
    /\ call[p].at = "timer" /\ call[p].work \notin timer_running
    /\ timer_pending' = timer_pending \ {call[p].work}
    /\ Goto(p, "relock")
    /\ UNCHANGED <<lists, timer_running, bound, canceling, thread, tstate, flushes>>

\* Mutant: an executing work is not waited for.
CancelRemovesOnly(p, w, n) ==
    /\ work_list' = list_del_init(work_list, w) /\ delayed' = delayed \ {w}
    /\ ahead' = Unqueued(w)
    /\ canceling' = [canceling EXCEPT ![w] = n] /\ Return(p)
    /\ UNCHANGED <<timers, bound, thread, tstate, done>>

\* __kthread_cancel_work_sync once the timer is gone: take the work off its
\* list; when it is executing, block queueing again and flush it.
CancelRemoves(p, w, n) ==
    /\ work_list' = list_del_init(work_list, w) /\ delayed' = delayed \ {w}
    /\ ahead' = Unqueued(w)
    /\ IF current_work # w
       THEN canceling' = [canceling EXCEPT ![w] = n] /\ Return(p)
       ELSE canceling' = [canceling EXCEPT ![w] = n + 1]
            /\ At(p, "cancel", "flush", w, 0)
    /\ UNCHANGED <<timers, bound, thread, tstate, done>>

CancelWorkSync(p, w) == /\ Ready(p) /\ w \in bound
                        /\ CancelRemoves(p, w, canceling[w])

CancelDelayedWorkSync(p, w) == /\ Ready(p) /\ w \in bound /\ CancelAllowed(w)
                               /\ CancelBlocks(p, "cancel", w, 0)

CancelRelock(p) ==
    /\ call[p].at = "relock" /\ call[p].fn = "cancel"
    /\ CancelRemoves(p, call[p].work, canceling[call[p].work] - 1)

CancelFlush(p) ==
    LET w == call[p].work
    IN /\ call[p].at = "flush"
       /\ IF FlushNoop(w)
          THEN UNCHANGED <<lists, tstate, ahead>> /\ Goto(p, "flushed")
          ELSE FlushInsert(p, w) /\ Goto(p, "wait")
       /\ UNCHANGED <<timers, bound, canceling, thread, done>>

CancelReturn(p) ==
    /\ call[p].at = "flushed"
    /\ canceling' = [canceling EXCEPT ![call[p].work] = @ - 1]
    /\ Return(p)
    /\ UNCHANGED <<lists, timers, bound, thread, tstate, flushes>>

\* kthread_mod_delayed_work: fast_queue, or cancel first; it gives up when
\* the work is being cancelled.
ModDelayedWork(p, w, delay) ==
    /\ Ready(p)
    /\ \/ /\ w \notin bound
          /\ QueueDelayed(w, delay, work_list, delayed)
          /\ UNCHANGED <<timer_running, canceling, thread, call, flushes>>
       \/ /\ w \in bound /\ canceling[w] = 0
          /\ CancelBlocks(p, "mod", w, delay)

ModRelock(p) ==
    LET w == call[p].work
    IN /\ call[p].at = "relock" /\ call[p].fn = "mod"
       /\ canceling' = [canceling EXCEPT ![w] = @ - 1]
       /\ QueueDelayed(w, call[p].delay, list_del_init(work_list, w), delayed \ {w})
       /\ ahead' = Unqueued(w)
       /\ Return(p)
       /\ UNCHANGED <<timer_running, thread, done>>

-----------------------------------------------------------------------------
(* The worker thread: kthread_worker_fn *)

WorkerStart ==
    /\ wpc = "start"
    /\ task' = TRUE /\ wpc' = "repeat"
    /\ UNCHANGED <<lists, timers, bound, canceling, current_work, tstate, stop, call, flushes>>

\* set_current_state(TASK_INTERRUPTIBLE)
WorkerRepeat ==
    /\ wpc = "repeat"
    /\ tstate' = "interruptible" /\ wpc' = "check"
    /\ UNCHANGED <<lists, timers, bound, canceling, current_work, task, stop, call, flushes>>

\* kthread_should_stop; the thread that stops clears worker->task.
WorkerCheck ==
    /\ wpc = "check"
    /\ IF stop THEN tstate' = "running" /\ task' = FALSE /\ wpc' = "exited"
               ELSE wpc' = "take" /\ UNCHANGED <<tstate, task>>
    /\ UNCHANGED <<lists, timers, bound, canceling, current_work, stop, call, flushes>>

\* The locked section, and the return to TASK_RUNNING when there is a work.
WorkerTake ==
    /\ wpc = "take"
    /\ IF work_list = <<>>
       THEN /\ current_work' = NoWork /\ wpc' = "schedule"
            /\ UNCHANGED <<work_list, tstate, ahead>>
       ELSE LET w == Head(work_list)
            IN /\ current_work' = w /\ work_list' = Tail(work_list)
               /\ tstate' = "running" /\ wpc' = "run"
               /\ ahead' = [p \in CALLERS |->
                     IF <<w, "queued">> \in ahead[p]
                     THEN (ahead[p] \ {<<w, "queued">>}) \cup {<<w, "running">>}
                     ELSE ahead[p]]
    /\ UNCHANGED <<delayed, timers, bound, canceling, task, stop, call, done>>

\* A work function queues its own work again.
WorkerRequeue ==
    /\ wpc = "run" /\ current_work \in Works
    /\ ~queuing_blocked(current_work) /\ ~Closing
    /\ IF current_work \in WORKS
       THEN QueueOn(work_list, current_work) /\ UNCHANGED <<delayed, timer_pending, bound>>
       ELSE \E delay \in {0, 1} : QueueDelayed(current_work, delay, work_list, delayed)
    /\ UNCHANGED <<timer_running, canceling, thread, call, flushes>>

\* The work function returns; kthread_flush_work_fn completes the flush.
\* current_work keeps its value until the next work is taken.
WorkerFinish ==
    /\ wpc = "run"
    /\ wpc' = "repeat"
    /\ done' = IF current_work \in CALLERS THEN done \cup {current_work} ELSE done
    /\ ahead' = [p \in CALLERS |-> ahead[p] \ {<<current_work, "running">>}]
    /\ UNCHANGED <<lists, timers, bound, canceling, current_work, task, tstate, stop, call>>

\* schedule() returns once the thread is runnable.
WorkerSchedule ==
    /\ wpc = "schedule" /\ tstate = "running"
    /\ wpc' = "repeat"
    /\ UNCHANGED <<lists, timers, bound, canceling, current_work, task, tstate, stop, call, flushes>>

-----------------------------------------------------------------------------
(* Destroying and creating the worker *)

DestroyWorker(p) ==
    /\ Ready(p) /\ task
    /\ \A q \in CALLERS : call[q] = Idle
    /\ delayed = {}
    /\ FlushAll(p)
    /\ At(p, "destroy", "wait", NoWork, 0)

\* kthread_stop
DestroyStops(p) ==
    /\ call[p].at = "stop"
    /\ stop' = TRUE /\ tstate' = "running"
    /\ Goto(p, "exit")
    /\ UNCHANGED <<lists, timers, bound, canceling, current_work, task, wpc, flushes>>

DestroyFrees(p) ==
    /\ call[p].at = "exit" /\ wpc = "exited"
    /\ wpc' = "freed"
    /\ Return(p)
    /\ UNCHANGED <<lists, timers, bound, canceling, current_work, task, tstate, stop, flushes>>

\* __kthread_create_worker, with the works initialized for the new worker.
CreateWorker ==
    /\ wpc = "freed"
    /\ work_list' = <<>> /\ bound' = {} /\ current_work' = NoWork
    /\ task' = TRUE /\ tstate' = "running" /\ wpc' = "start" /\ stop' = FALSE
    /\ UNCHANGED <<delayed, timers, canceling, call, flushes>>

-----------------------------------------------------------------------------

WorkerStep == \/ WorkerStart \/ WorkerRepeat \/ WorkerCheck \/ WorkerTake
              \/ WorkerFinish \/ WorkerSchedule

\* The rest of a call that has begun.
CallStep(p) == \/ FlushDone(p) \/ DelTimer(p) \/ CancelRelock(p) \/ CancelFlush(p)
               \/ CancelReturn(p) \/ ModRelock(p) \/ DestroyStops(p) \/ DestroyFrees(p)

NewCall(p) == \/ \E w \in WORKS : \/ QueueWork(p, w) \/ FlushWork(p, w)
                                  \/ CancelWorkSync(p, w)
              \/ \E w \in DWORKS : \/ CancelDelayedWorkSync(p, w)
                                   \/ \E delay \in {0, 1} : \/ QueueDelayedWork(p, w, delay)
                                                            \/ ModDelayedWork(p, w, delay)
              \/ FlushWorker(p) \/ DestroyWorker(p)

Next == \/ WorkerStep \/ WorkerRequeue \/ CreateWorker
        \/ \E p \in CALLERS : CallStep(p) \/ NewCall(p)
        \/ \E w \in DWORKS : TimerExpire(w) \/ TimerFn(w)

Spec == Init /\ [][Next]_vars

\* The worker thread is scheduled and work functions return; a timer function
\* that was called runs; a task inside a call is scheduled.  No timer has to
\* expire and no task has to make a call.
FairSpec == /\ Spec
            /\ WF_vars(WorkerStep)
            /\ \A w \in DWORKS : WF_vars(TimerFn(w))
            /\ \A p \in CALLERS : WF_vars(CallStep(p))

-----------------------------------------------------------------------------
(* Properties *)

Executing(w) == wpc = "run" /\ current_work = w

\* A timer that is armed, or whose function has begun, belongs to a work on
\* delayed_work_list: the assertion of kthread_delayed_work_timer_fn, across
\* cancels and modifications that have dropped the lock.
TimerFindsWork == timer_pending \cup timer_running \subseteq delayed

\* A cancel of w by p returns in this step: one that had to drop the lock, or
\* one of a plain work, which may return from the section it was called in.
CancelReturning(p, w) ==
    /\ call'[p] = Idle
    /\ \/ call[p].fn = "cancel" /\ call[p].work = w
       \/ w \in WORKS /\ CancelWorkSync(p, w)

\* When kthread_cancel_work_sync or kthread_cancel_delayed_work_sync returns,
\* the work is on no list, its timer is off and it is not executing, even if
\* its function queues it again.
CancelDone ==
    [][\A p \in CALLERS, w \in Works :
          CancelReturning(p, w)
          => ~(OnList(w) \/ w \in timer_pending \cup timer_running \/ Executing(w))']_vars

\* A flush completes only after every execution that it was asked to wait for
\* has ended: those queued or running at the call of kthread_flush_work,
\* kthread_flush_worker or kthread_destroy_worker.
FlushWaits == \A p \in done : ahead[p] = {}

\* Every flush, cancel, modification and destruction returns.
OperationsReturn == \A p \in CALLERS : []<>(call[p] = Idle)
=============================================================================
