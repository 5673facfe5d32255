# A verification project for the annotated kernel sources

The repository is an annotated copy of Linux kernel sources (`src/new`), older
kernels (`src/bak`) and tools. This directory holds TLA+ models of the parts of
`src/new` whose correctness rests on interleavings: deferred work (softirqs and
tasklets), cross-CPU calls, kernel threads and their workers, the CPU death
handshake and memory pools. TLC checks them on small instances; TLAPS proves the
main safety properties of the tasklets, the softirq core, the CPU death
handshake, the memory pools, the cross-CPU queues, the hotplug threads and the
kernel thread workers for every instance.

## The system and its parts

| Part | Source | State | Operations | What makes it hard |
|---|---|---|---|---|
| Tasklets | `kernel/softirq.c`, `include/linux/interrupt.h` | bits SCHED and RUN and a disable count per tasklet; two lists per CPU | schedule, hi_schedule, disable(_nosync), enable, kill, kill_immediate, the handler, takeover on CPU death | three lock-free words per tasklet decide who may touch a shared next pointer |
| Softirqs, ksoftirqd | `kernel/softirq.c` | pending mask, preempt_count, ksoftirqd's task state | raise, local_bh_disable/enable, irq_enter/exit, `__do_softirq`, the ksoftirqd loop | contexts nest on one CPU; the mask is read with interrupts enabled; a wakeup can be lost |
| CPU death | `kernel/smpboot.c` | `cpu_hotplug_state` per CPU | wait_death, report_death, check_up_prepare, set_state_online | a timeout races the report it waits for |
| Memory pools | `mm/mempool.c` | curr_nr, min_nr, the array, a wait queue | create, alloc, free, resize, destroy | an unlocked test on a possibly stale value; the lock is dropped in the middle of resize |
| Hotplug threads | `kernel/smpboot.c` | per-CPU thread, HP_THREAD status | create, park, unpark, stop, register | park/unpark/stop racing the thread's sleep |
| Cross-CPU calls | `kernel/smp.c` | per-CPU lock-less queue, csd lock | single, async, many, flush | queue empty to non-empty decides who sends the interrupt |
| Kernel threads and workers | `kernel/kthread.c` | flags and completions per thread; work lists | create, park, stop; queue, delay, flush, cancel | cancellation racing timers and the running work |
| Wait queues | `kernel/sched/wait.c` | lists of entries | prepare_to_wait, wake_up, finish_wait | exclusive waiters, bookmarks, removal without the lock |
| Scheduler, workqueues, RCU, irq, time, mm, fs, drivers, lib, arch | the rest of `src/new` | | | see "Not modelled" |

They interact as follows. `tasklet_schedule` raises a softirq; `__do_softirq`
runs the tasklet handler; ksoftirqd is a hotplug thread whose loop is
`smpboot_thread_fn`; a dead CPU's tasklets are taken over by the CPU that runs
the hotplug callback. Hotplug threads are kernel threads that CPU hotplug parks
and unparks; a worker is a kernel thread with a list of works; both wait for
completions. A CPU that goes down flushes its queue of cross-CPU calls.
`mempool_alloc` sleeps on a wait queue.

## Modules

| Module | Models | Against the code |
|---|---|---|
| `Tasklet` | the tasklet layer on several CPUs | one step per atomic operation or section with interrupts disabled; `queue[c]` holds the lists of CPU `c` and the local list of `tasklet_action_common`; a task is any caller |
| `TaskletService` | what interrupt.h promises clients | abstract: a set of tasklets owed an execution, a set executing |
| `TaskletSteps`, `TaskletProofs` | lemmas about the lists and the steps, theorems about `Tasklet` | |
| `Softirq` | softirq processing on one CPU | `stack` holds the interrupt and `__do_softirq` frames on top of the current thread; the three parts of preempt_count are variables |
| `CpuDeath` | the hotplug state word and both sides of the handshake | one step per atomic operation |
| `CpuDeathProofs` | theorems about `CpuDeath` | |
| `Mempool` | a memory pool and its users | one step per locked section; elements are counted |
| `SmpCall` | cross-CPU calls: queues, csds, IPIs, tasks and handlers of all CPUs | one step per access to a queue or a csd's flags; a csd is named by where its memory is |
| `Kthread` | kthreadd, creation, park, unpark and stop of threads | one step per access to shared state; `call` is where the controlling task is |
| `HotplugThread` | per-CPU threads, composed with `Kthread` by EXTENDS | registration, hotplug callbacks and `smpboot_thread_fn`; `hpc` is where the control task is between its calls of `Kthread` functions |
| `KthreadWorker` | a worker, its works, timers and users | one step per section under `worker->lock` |
| `SoftirqProofs`, `MempoolProofs`, `SmpCallProofs`, `HotplugThreadProofs`, `KthreadWorkerProofs` | theorems about the modules they are named after | |
| `MC*` | instances for TLC | |

Definitions whose comment begins with "Mutant" are wrong versions of the
definition that follows them. They are used by no specification; substituting
one for its original makes a property fail, which shows that the property
depends on that piece of the code.

### Choices worth knowing

- **Tasklet.** `tasklet_schedule` sets SCHED and links the tasklet in two
  steps, and the caller may migrate in between. `tasklet_disable` polls RUN, and
  a CPU that has the disabled tasklet on its list sets and clears RUN on every
  pass: nothing in the code makes a poll fall where it is clear. So no fairness
  beyond weak fairness is assumed of the poll, `DisableReturns` says that this is
  the only way the call can fail to return, and `ScheduledExecutes` and
  `KillReturns` have as premise that no disabler waits for ever
  (`DisablersReturn`). Without the premise both fail. CPU death (`CpuDie`, `CpuUp`) is
  external; `Takeover` is `takeover_tasklets`, run on a CPU that is not inside
  `__do_softirq`. `KILLABLE` are the tasklets whose owner calls
  `tasklet_kill_immediate`; for them SCHED may stay set with nobody answering
  for it, which is what the code does.
- **Softirq.** All data is per CPU, so one CPU is the whole system. Whether time
  is up or a reschedule is due is a choice at the end of every pass. The task,
  the softirq handlers and the interrupt handlers are arbitrary code.
  `force_irqthreads` is chosen initially. The build without
  `CONFIG_TRACE_IRQFLAGS` is modelled: it has more interleavings.
- **Mempool.** The unlocked read of `curr_nr` in `mempool_free` returns any
  value `curr_nr` has had since the element was allocated, which is what the
  barriers described in its comment allow. On the path where the underlying
  allocator succeeds `mempool_alloc` has no barrier, so the value read when such
  an element is freed is any that `curr_nr` can have. The underlying allocator
  may fail at any time. An element that is freed is kept for nobody, so a process
  that others overtake again and again may never get one: `AllocReturns` says
  that this is the only way.
- **CpuDeath.** The callers are architecture code outside the repository; both
  permitted kinds, with and without error checking, are modelled. That a booted
  CPU fails to come up is not.

- **SmpCall.** A CPU's task makes one call at a time, since preemption is
  disabled inside one, and its IPI handler interrupts it anywhere. An IPI is
  pending as soon as it is sent; when it is served is free. A function called on
  the caller's own CPU changes no state of this module. The asynchronous call of
  an object whose csd is still locked (the WARN in
  `smp_call_function_single_async`) is excluded: owners serialize. CPUs go down
  in stop_machine, when no call is in progress, one at a time (`HotplugIdle`, the
  hotplug lock). `late` are the CPUs with an interrupt pending when stop_machine
  ended. That `smpcfd_dead_cpu` runs after they have served it (`Dead`) is an
  assumption on stop_machine and the interrupt hardware: `smp.c` itself does not
  wait, and without it `CsdOwned` fails. An interrupt may also come late on the CPU
  that went offline; it finds an empty queue. `smp_call_function_many` reads the
  mask a second time after the fast path, when its caller may have changed it to
  any other, the empty one included.
- **Kthread, HotplugThread.** One control task at a time, as the hotplug lock and
  `smpboot_threads_lock` ensure; kthreadd and the threads run beside it, and
  anyone may wake a thread at any time (`Kick`). Waking a thread bound to a CPU
  that is not online costs it its binding, as the scheduler does. Failure to
  allocate `smpboot_thread_data` is the same case as failure to create.
  Whether the descriptor has park and unpark callbacks is chosen initially. The
  `create` callback changes nothing here; that the thread has scheduled out before
  it is called is a guard of `StoreThread`.
- **KthreadWorker.** The flush work on a task's stack is the task's own node in
  the lists. Callers keep to the documented rules: a delayed work is cancelled
  only with `kthread_cancel_delayed_work_sync`, a worker being destroyed has no
  other users and no timer pending, and cancel and mod of one work are
  synchronized (`Synchronized`). `ahead` is a history variable: what a flush was
  asked to wait for. The few list operations are defined in the module itself, by
  index, because the proofs reason about them.

## Runs

| Run | Instance | Shows |
|---|---|---|
| `tasklet` | 2 CPUs, 2 callers, 1 tasklet, 2 schedules, 2 stops (disable, kill or CPU death) | all safety properties, refinement of `TaskletService`, and liveness |
| `tasklet_hotplug` | 2 CPUs, 1 caller, 2 tasklets, 3 schedules, 2 stops | lists of both priorities through death, takeover and return of CPUs; the inductive invariant |
| `tasklet_kill_immediate` | same | violated: `tasklet_kill_immediate` reaches BUG() for a tasklet in `tasklet_hi_vec` of the dead CPU |
| `softirq` | 2 softirqs (one in SOFTIRQ_NOW_MASK), 2 passes, nesting 2 | nesting, exclusion, exact counts, no stranded softirq, termination and service |
| `cpu_death` | one CPU of each kind | agreement, honest return codes, termination |
| `mempool` | 3 processes, pools of 1 or 2, 4 elements, no bound on calls | reserve, no lost wakeup, allocations return unless overtaken for ever |
| `mempool_resize` | 2 processes and 1 resizer, sizes 1 to 3 | bounds and conservation under resize |
| `mempool_two_resizers` | 2 resizers, sizes 1 to 4 | violated: min_nr exceeds the array |
| `smp_call` | 3 CPUs, 2 of them calling, 1 sending asynchronously and going down; 2 calls, 1 asynchronous | no lost IPI, csd ownership, synchronous calls are synchronous, calls return |
| `hotplug_thread` | 2 CPUs, 2 thread structures, no bound on operations | requests freed once, callbacks on their CPU, parked threads stay parked, operations return |
| `hotplug_thread_bind` | same | violated: stopping an unparked per-CPU thread warns |
| `kthread_worker` | 1 plain and 1 delayed work, 3 tasks, no bound on calls | timers find their work, flushes wait, cancel is final, calls return |

### Disagreements between code and comments

- `KillImmediateRemoves`: `tasklet_kill_immediate` is documented to remove a
  tasklet "scheduled for execution on @cpu"; it searches `tasklet_vec` only, so
  one queued by `tasklet_hi_schedule` ends in BUG() (softirq.c:825).
- `BindFindsInactive`: `kthread_unpark` binds a per-CPU thread on the assumption
  that it is parked, and `kthread_stop` calls it for threads that are not, which
  `smpboot_destroy_threads` does for every online CPU: WARN_ON(1) at
  kthread.c:432. Nothing else goes wrong: the binding is unchanged, as
  `OnItsCpu` shows.
- `CapacityOK` with two resizers: the shrinking loop stores `min_nr` without
  testing it again after it dropped the lock, although the growing path expects
  "other resize"; `min_nr` can end up larger than the array (mempool.c:319). With
  one resizer it holds.

Three more disagreements are known and have no run:

- interrupt.h:758 guarantees an execution after every `tasklet_schedule`; one
  that falls between `tasklet_kill`'s test_and_set_bit and clear_bit is dropped
  (softirq.c:691). `ScheduledExecutes` is what holds.
- "Waiters happen iff curr_nr is 0" (mempool.c:518), but `mempool_resize` adds
  elements and wakes nobody (mempool.c:350): with a resizer and this invariant
  alone in `MCMempool.cfg`, TLC reports `NoLostWakeup` violated.
- A `kthread_mod_delayed_work` in its unlocked window meets a cancel of the same
  work: with `Synchronized` FALSE in `MCKthreadWorker.cfg`, TLC reports
  `TimerFindsWork` violated. kthread.c:1111 asks callers to synchronize the two.

### Bounds and fairness

Bounds. Two CPUs suffice for every pairwise race on a tasklet, because a tasklet
is in one list at a time; two schedules give one execution overlapping the next
request, three give requeueing behind another tasklet. `MaxStop` 2 lets a kill
race a disable, another kill, or a death. In `Softirq` there is no bound on
interrupts or raises; two passes are the smallest number with a restart, and two
nested bottom-half sections the smallest with an inner enable. In `Mempool`
three processes give a waiter, a holder and a third party with a stale value;
calls are not bounded. Nor are they in `cpu_death`, `hotplug_thread` and
`kthread_worker`. In `SmpCall` two calls give two callers that wait for each other, or
one that reuses its csds, and three CPUs the smallest mask with two targets.

Deadlock is checked where the system never stops (`softirq`, `cpu_death`,
`mempool`, `mempool_resize`, `smp_call`, where CPUs go down and come back,
`hotplug_thread`, `kthread_worker`); in `Tasklet` the bounds on calls make
behaviours end.

Fairness. `Tasklet`: CPUs serve their pending mask (justified by `Softirq`),
callers go on with the calls they begin as far as these let them, whoever has
disabled enables, hotplug operations complete; all weak fairness, so that a poll
of RUN may for ever miss the moments when it is clear. `Softirq`: interrupt handlers return, interrupted code makes progress
between interrupts (strong fairness: interrupts may come for ever, not so thick
that nothing else runs), the scheduler runs a runnable ksoftirqd. `Mempool`:
calls go on and holders free; the five second timeout is given no fairness, so
that the wakeups alone must suffice, and nothing makes others stop allocating. `CpuDeath`: both sides execute. `SmpCall`: a
CPU with something to execute goes on executing, with nothing assumed about which
of its contexts it prefers, nor that a CPU that is not online takes an interrupt;
nobody has to make a call or take a CPU down.
`HotplugThread`: the control task, kthreadd and runnable threads run; nobody has
to begin an operation, be killed or wake a thread. `KthreadWorker`: the worker
thread runs and work functions return, a timer function that has been called
runs, tasks inside a call go on; timers need not expire.

## Proofs

`TaskletProofs` proves, for every set of CPUs and tasklets, every finite set of
callers and any bounds, that `Spec` implies `[]Inv`, and from `Inv` the safety
properties of `Tasklet`; `Refinement` proves that `Tasklet` implements
`TaskletService`. The argument:

- SCHED is a token (`SchedIsToken`): while it is set, either one list entry or
  one context answers for the tasklet. Serialization and the absence of BUG()
  need this of every list at once, which is why `UniqueLinks` quantifies over all
  pairs of entries. Its preservation is by kind of step: a step that links
  (`TokenLink`), takes a list (`TokenTake`), drops (`TokenDrop`) or unlinks
  (`TokenUnlink`) an entry.
- RUN is a lock (`RunIsLock`) held between `tasklet_trylock` and
  `tasklet_unlock`.
- `count` is the number of disablers, and a CPU past the check of `count` has
  none against it that has finished waiting (`DisableInv`); the step that
  matters is `DisableWait`, which sees RUN clear.
- A killer that has seen RUN clear holds SCHED, so nobody can take the tasklet
  (`KillInv`).
- The local list and mask are empty outside their functions, and dead CPUs are
  idle (`IdleInv`), which `QueuedIsRaised` needs.

The assumptions are `ContextAssumption`: CPUs and callers are different, callers
are finitely many, NULL is no tasklet.

`CpuDeathProofs` proves the invariant `Inv` of `CpuDeath`, which lists the values
of the word and of both sides' results in each phase of a CPU's life, and from
it `Agreement`, `UpOnlyDead` and the action property `CheckTells`.

The lemmas are in `TaskletSteps` (lists, types, frames, RUN and SCHED step by
step); `TaskletProofs` has the theorems.

`SoftirqProofs` proves `NoNesting`, `BhExcludes`, `CountIsContext` and
`NoStranded` for every set of softirqs and all bounds. The invariant describes the
stack of contexts (at most one `__do_softirq` frame, a handler only on top),
what each frame contributes to the three parts of preempt_count, and where
ksoftirqd is when it is the one to answer for a pending softirq. Exclusion and
nesting follow from the counts; that nothing is stranded needs ksoftirqd's state
at each point of its loop, because a wakeup between its test and `schedule()` must
not be lost. The assumptions are `SoftirqAssumption`.

`MempoolProofs` proves, for every number of processes, `BoundedByMin` and
`Conserved` whatever resizes the pool, `CapacityOK` for at most one resizer, and
`NoLostWakeup` and `Reserve` for a pool that is not resized; the two hypotheses
are needed, as the disagreements above show for `CapacityOK` and `NoLostWakeup`.
`Reserve` is the deep one: its strengthening counts the holders that are certain
to return their element to the pool because every value of `curr_nr` they may
still see is below `min_nr`; the pool and those holders together always make up
the reserve.

`SmpCallProofs` proves `NoLostIpi` for every set of CPUs and every bound, by an
invariant that adds where tasks can be when a CPU is taken down: a call in progress
is made by an online CPU, and the loop of `smp_call_function_many`, which does not
look at the online mask again, has only online CPUs left. It then proves
`CsdOwned` and `WaitedRan` with a second invariant, `CsdInv`, which follows a csd
from the queue into the batch that a handler has taken. Every csd that is linked
anywhere is linked once, is locked and has its memory (`Held`). For the csd on a
caller's stack that is because the caller is still waiting (`StackOK`). For the
csds that `smpcfd_dead_cpu` frees it is because only CPUs whose interrupt was
pending when stop_machine ended (`late`) can still have one, and, by the
assumption in `Dead`, the callback runs after they have handled it (`DeadOK`). A caller that waits for a CPU has a
csd there whose function has not been called (`WaitOK`).

`HotplugThreadProofs` proves `CreateFreedOnce`, `OnItsCpu` and `ParkHolds` for any
CPUs and threads; `KthreadAssumption` says only that both are numbered, and
nothing bounds the operations. None of the three is inductive. Who frees a
request depends on which of creator, kthreadd and new thread has seen `done`
cleared, so `Requests` says for each place of the three what is allocated and who
still looks at it. Whether a thread may be on its CPU depends on what the control
task is doing to it: `Control` ties the place of the control task to the threads
stored per CPU, and `Threads` says of every thread where it can be, given its
flags, its binding, its completions and whether its CPU is online. The steps that
matter are the two ends of `kthread_park` and the wake-up by a stranger (`Kick`),
which must find a parked thread going back to sleep.

`KthreadWorkerProofs` is about any works and any finite set of tasks under the
rule `Synchronized`. It proves `TimerFindsWork` with the invariant `TimerInv`:
`canceling` is the number of tasks that cancel or modify the work, so nobody can
arm the timer between one's `del_timer_sync` and its next taking of the lock. It
then proves `FlushWaits` and the action property `CancelDone` with `FlushInv`,
which needs `TimerInv`:

- every node is on the list at most once, and never on both lists (`ListsOK`);
- the flush work of a task is on the list, running or done only while the task
  waits, and only one of the three (`NodeOK`);
- a queued instance that a flush waits for stands in front of the flush work on
  the list, and a running one runs while the flush work is still on it
  (`AheadOK`). The worker takes from the head, so the flush work runs last;
- a work whose cancel has gone on to flush is on no list, because `canceling`
  stays up, and the execution the cancel met is waited for (`CancelOK`). A
  cancel that has nothing to wait for returns in the step that takes the work off
  the lists, and `CancelDone` is about that return too.

What the list operations do to membership and order (`Appended`, `Inserted`,
`TakenOut`, `Deleted`, `Popped`) is proved once from the definitions of the
operators.

Only model-checked: the liveness properties, since liveness under fairness is out
of the prover's reach, and the three violated properties, which do not hold.

## Not modelled

Wait queues (exclusive waiters, bookmarks), scheduler classes, workqueues, RCU,
irq descriptors, time keeping, processes and signals, memory management below the
pools, file systems, drivers, libraries and architecture code: each is a project
of its own, its state is beyond small instances, or it is sequential code or
hardware access; PROJECT.json gives the reason for each. `src/bak` and
`src/tools` are superseded or vendored copies. Softirqs and tasklets are not
composed into one model: `Tasklet` assumes of `__do_softirq` what `Softirq` shows,
that a raised softirq is served. Within the modelled files: irq_work,
`smp_call_on_cpu` and `wake_up_all_idle_cpus`; self-parking hotplug threads;
freezing of threads and workers; `kthread_flush_work` on a delayed work;
statistics, tracing, lockdep, tasklet_hrtimer, early boot before ksoftirqd
exists, and the poisoning of pool elements.
