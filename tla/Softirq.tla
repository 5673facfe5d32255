------------------------------- MODULE Softirq -------------------------------
(***************************************************************************)
(* Softirq processing on one CPU: new/kernel/softirq.c, with the loop of   *)
(* ksoftirqd from smpboot_thread_fn in new/kernel/smpboot.c.  All the data *)
(* is per CPU, so one CPU is the whole system; what interleaves are its    *)
(* contexts: a task, ksoftirqd, interrupts, and __do_softirq called from   *)
(* any of them.                                                            *)
(*                                                                         *)
(* stack holds the contexts entered on top of the current thread, the      *)
(* innermost first.  An interrupt is taken wherever interrupts are         *)
(* enabled, that is, on any top except another interrupt; a section with   *)
(* interrupts disabled is therefore one step.  The handler of a softirq,   *)
(* the body of an interrupt handler and the task are arbitrary code that   *)
(* raises softirqs and disables bottom halves.                             *)
(***************************************************************************)
EXTENDS Integers, Sequences

CONSTANTS
  SOFTIRQS,            \* softirq numbers in use
  NOW,                 \* those of SOFTIRQ_NOW_MASK, served synchronously
  MAX_SOFTIRQ_RESTART, \* passes of one __do_softirq (10 in the code)
  MaxBh                \* bound: nesting of local_bh_disable in one context

ASSUME SoftirqAssumption ==
  /\ SOFTIRQS \subseteq Nat
  /\ NOW \subseteq SOFTIRQS
  /\ MAX_SOFTIRQ_RESTART \in Nat \ {0}
  /\ MaxBh \in Nat

VARIABLES
  pending,     \* __softirq_pending
  stack,       \* contexts on top of the current thread, innermost first
  hardirq,     \* preempt_count: hardirq part
  softirq,     \* preempt_count: softirq part, in units of SOFTIRQ_OFFSET
  preempt,     \* preempt_count: preemption part
  current,     \* the thread on the CPU
  taskpc,      \* where the task is in local_bh_enable, or "run"
  held,        \* local_bh_disable calls the task has yet to undo
  kspc,        \* where ksoftirqd is in its loop
  ksstate,     \* its task state
  ksonrq,      \* whether it is on the run queue
  force_irqthreads   \* boot parameter, never changed

vars == <<pending, stack, hardirq, softirq, preempt, current, taskpc, held,
          kspc, ksstate, ksonrq, force_irqthreads>>

\* SOFTIRQ_DISABLE_OFFSET is twice SOFTIRQ_OFFSET.
SOFTIRQ_OFFSET == 1
SOFTIRQ_DISABLE_OFFSET == 2

\* A frame of __do_softirq: between two handlers ("loop") or in the handler
\* of nr ("action"), entered with softirq count prev; todo is the local
\* pending, left is max_restart.
SoftirqFrame(p, n) ==
  [pc |-> "loop", todo |-> p, nr |-> 0, prev |-> 0, left |-> n]

\* A frame of an interrupt: in its handler, or past irq_exit.
IrqFrame(label) ==
  [pc |-> label, todo |-> {}, nr |-> 0, prev |-> 0, left |-> 0]

IsSoftirq(f) == f.pc \in {"loop", "action"}
Top == Head(stack)

Init ==
  /\ pending = {}
  /\ stack = <<>>
  /\ hardirq = 0 /\ softirq = 0 /\ preempt = 0
  /\ current = "task"
  /\ taskpc = "run"
  /\ held = 0
  /\ kspc = "loop" /\ ksstate = "RUNNING" /\ ksonrq = TRUE
  /\ force_irqthreads \in BOOLEAN

in_interrupt == hardirq + softirq > 0

\* wakeup_softirqd: nothing to do for a thread that is marked running.
wakeup_softirqd ==
  /\ ksstate' = "RUNNING"
  /\ ksonrq' = (ksonrq \/ ksstate # "RUNNING")

\* ksoftirqd_running(p): leave p to the running ksoftirqd.
ksoftirqd_running(p) == p \cap NOW = {} /\ ksstate = "RUNNING"

\* Mutant: __do_softirq does not disable bottom halves.
EnterUncounted(s) ==
  /\ stack' = <<SoftirqFrame(pending, MAX_SOFTIRQ_RESTART)>> \o s
  /\ pending' = {}
  /\ UNCHANGED softirq

\* Entry of __do_softirq up to local_irq_enable, on top of the frames s.
EnterDoSoftirq(s) ==
  /\ stack' = <<SoftirqFrame(pending, MAX_SOFTIRQ_RESTART)>> \o s
  /\ pending' = {}
  /\ softirq' = softirq + SOFTIRQ_OFFSET

-----------------------------------------------------------------------------
(* raise_softirq, local_bh_disable *)

InTask == stack = <<>> /\ current = "task"
InAction == stack # <<>> /\ Top.pc = "action"
InHandler == stack # <<>> /\ Top.pc = "handler"

\* raise_softirq(nr) by the task, a softirq handler or an interrupt handler.
RaiseSoftirq(nr) ==
  /\ (InTask /\ taskpc = "run") \/ InAction \/ InHandler
  /\ pending' = pending \cup {nr}
  /\ \/ in_interrupt /\ UNCHANGED <<ksstate, ksonrq>>
     \/ ~in_interrupt /\ wakeup_softirqd
  /\ UNCHANGED <<stack, hardirq, softirq, preempt, current, taskpc, held,
                 kspc, force_irqthreads>>

\* local_bh_disable by the task.
BhDisable ==
  /\ InTask /\ taskpc = "run" /\ held < MaxBh
  /\ held' = held + 1
  /\ softirq' = softirq + SOFTIRQ_DISABLE_OFFSET
  /\ UNCHANGED <<pending, stack, hardirq, preempt, current, taskpc, kspc,
                 ksstate, ksonrq, force_irqthreads>>

\* local_bh_disable by a softirq handler.
ActionBhDisable ==
  /\ InAction /\ softirq < Top.prev + MaxBh * SOFTIRQ_DISABLE_OFFSET
  /\ softirq' = softirq + SOFTIRQ_DISABLE_OFFSET
  /\ UNCHANGED <<pending, stack, hardirq, preempt, current, taskpc, held,
                 kspc, ksstate, ksonrq, force_irqthreads>>

-----------------------------------------------------------------------------
(* __local_bh_enable_ip *)

\* preempt_count_sub(cnt - 1): softirqs are on, preemption still off.
BhEnable ==
  /\ InTask /\ taskpc = "run" /\ held > 0
  /\ held' = held - 1
  /\ softirq' = softirq - SOFTIRQ_DISABLE_OFFSET
  /\ preempt' = preempt + 1
  /\ taskpc' = "bh_check"
  /\ UNCHANGED <<pending, stack, hardirq, current, kspc, ksstate, ksonrq,
                 force_irqthreads>>

\* if (!in_interrupt() && local_softirq_pending()), interrupts enabled.
BhCheck ==
  /\ InTask /\ taskpc = "bh_check"
  /\ taskpc' = IF ~in_interrupt /\ pending # {} THEN "bh_do" ELSE "bh_dec"
  /\ UNCHANGED <<pending, stack, hardirq, softirq, preempt, current, held,
                 kspc, ksstate, ksonrq, force_irqthreads>>

\* do_softirq: reads the mask again with interrupts disabled.
BhDoSoftirq ==
  /\ InTask /\ taskpc = "bh_do"
  /\ taskpc' = "bh_dec"
  /\ \/ /\ ~in_interrupt /\ pending # {} /\ ~ksoftirqd_running(pending)
        /\ EnterDoSoftirq(stack)
     \/ /\ in_interrupt \/ pending = {} \/ ksoftirqd_running(pending)
        /\ UNCHANGED <<pending, stack, softirq>>
  /\ UNCHANGED <<hardirq, preempt, current, held, kspc, ksstate, ksonrq,
                 force_irqthreads>>

\* preempt_count_dec(), preempt_check_resched().
BhDone ==
  /\ InTask /\ taskpc = "bh_dec"
  /\ preempt' = preempt - 1
  /\ taskpc' = "run"
  /\ UNCHANGED <<pending, stack, hardirq, softirq, current, held, kspc,
                 ksstate, ksonrq, force_irqthreads>>

\* local_bh_enable by a softirq handler: still in_interrupt, nothing to do.
ActionBhEnable ==
  /\ InAction /\ softirq > Top.prev
  /\ softirq' = softirq - SOFTIRQ_DISABLE_OFFSET
  /\ UNCHANGED <<pending, stack, hardirq, preempt, current, taskpc, held,
                 kspc, ksstate, ksonrq, force_irqthreads>>

-----------------------------------------------------------------------------
(* __do_softirq, after its entry *)

\* ffs(pending): call the handler of the lowest bit, remember preempt_count.
Action(nr) ==
  /\ stack # <<>> /\ Top.pc = "loop"
  /\ nr \in Top.todo /\ \A m \in Top.todo : nr <= m
  /\ stack' = [stack EXCEPT ![1] = [Top EXCEPT !.pc = "action", !.nr = nr,
                 !.todo = Top.todo \ {nr}, !.prev = softirq]]
  /\ UNCHANGED <<pending, hardirq, softirq, preempt, current, taskpc, held,
                 kspc, ksstate, ksonrq, force_irqthreads>>

\* Mutant: an unbalanced preempt_count is not restored.
ActionReturnUnbalanced ==
  /\ InAction
  /\ stack' = [stack EXCEPT ![1] = [Top EXCEPT !.pc = "loop", !.nr = 0, !.prev = 0]]
  /\ UNCHANGED <<pending, hardirq, softirq, preempt, current, taskpc, held, kspc,
                 ksstate, ksonrq, force_irqthreads>>

\* The handler returns; a preempt_count it left unbalanced is restored.
ActionReturn ==
  /\ InAction
  /\ softirq' = Top.prev
  /\ stack' = [stack EXCEPT ![1] = [Top EXCEPT !.pc = "loop", !.nr = 0, !.prev = 0]]
  /\ UNCHANGED <<pending, hardirq, preempt, current, taskpc, held, kspc,
                 ksstate, ksonrq, force_irqthreads>>

\* Mutant: ksoftirqd is not woken for what is left.
SoftirqEndNoWake ==
  /\ stack # <<>> /\ Top.pc = "loop" /\ Top.todo = {}
  /\ stack' = Tail(stack)
  /\ softirq' = softirq - SOFTIRQ_OFFSET
  /\ UNCHANGED <<pending, hardirq, preempt, current, taskpc, held, kspc,
                 ksstate, ksonrq, force_irqthreads>>

\* Mutant: the passes are not counted.
SoftirqEndUncounted ==
  /\ stack # <<>> /\ Top.pc = "loop" /\ Top.todo = {}
  /\ \/ /\ pending # {}
        /\ stack' = [stack EXCEPT ![1] = SoftirqFrame(pending, Top.left)]
        /\ pending' = {}
        /\ UNCHANGED softirq
     \/ /\ pending = {}
        /\ stack' = Tail(stack)
        /\ softirq' = softirq - SOFTIRQ_OFFSET
        /\ UNCHANGED pending
  /\ UNCHANGED <<hardirq, preempt, current, taskpc, held, kspc, ksstate, ksonrq,
                 force_irqthreads>>

\* All handlers called, interrupts disabled.  With new bits pending start
\* over unless time is up, a reschedule is due (either may be the case at any
\* moment) or this was the last pass; otherwise wake ksoftirqd and return.
SoftirqEnd ==
  /\ stack # <<>> /\ Top.pc = "loop" /\ Top.todo = {}
  /\ \/ /\ pending # {} /\ Top.left - 1 # 0
        /\ stack' = [stack EXCEPT ![1] = SoftirqFrame(pending, Top.left - 1)]
        /\ pending' = {}
        /\ UNCHANGED <<softirq, ksstate, ksonrq>>
     \/ /\ \/ pending # {} /\ wakeup_softirqd
           \/ pending = {} /\ UNCHANGED <<ksstate, ksonrq>>
        /\ stack' = Tail(stack)
        /\ softirq' = softirq - SOFTIRQ_OFFSET
        /\ UNCHANGED pending
  /\ UNCHANGED <<hardirq, preempt, current, taskpc, held, kspc, force_irqthreads>>

-----------------------------------------------------------------------------
(* Interrupts *)

\* irq_enter.  What tick_irq_enter raises for an idle CPU is raised with
\* bottom halves disabled, as by the handler.
IrqEnter ==
  /\ stack # <<>> => IsSoftirq(Top)
  /\ stack' = <<IrqFrame("handler")>> \o stack
  /\ hardirq' = hardirq + 1
  /\ UNCHANGED <<pending, softirq, preempt, current, taskpc, held, kspc,
                 ksstate, ksonrq, force_irqthreads>>

\* Mutant: in_irq() is tested instead of in_interrupt().
IrqExitInIrq ==
  /\ InHandler
  /\ hardirq' = hardirq - 1
  /\ LET s == <<IrqFrame("return")>> \o Tail(stack)
     IN \/ hardirq' = 0 /\ pending # {} /\ EnterDoSoftirq(s)
        \/ /\ hardirq' # 0 \/ pending = {}
           /\ stack' = s
           /\ UNCHANGED <<pending, softirq>>
  /\ UNCHANGED <<preempt, current, taskpc, held, kspc, ksstate, ksonrq,
                 force_irqthreads>>

\* irq_exit, invoke_softirq.
IrqExit ==
  /\ InHandler
  /\ hardirq' = hardirq - 1
  /\ LET s == <<IrqFrame("return")>> \o Tail(stack)
         invoke == hardirq' + softirq = 0 /\ pending # {} /\ ~ksoftirqd_running(pending)
     IN \/ /\ invoke /\ ~force_irqthreads
           /\ EnterDoSoftirq(s)
           /\ UNCHANGED <<ksstate, ksonrq>>
        \/ /\ invoke /\ force_irqthreads
           /\ wakeup_softirqd
           /\ stack' = s
           /\ UNCHANGED <<pending, softirq>>
        \/ /\ ~invoke
           /\ stack' = s
           /\ UNCHANGED <<pending, softirq, ksstate, ksonrq>>
  /\ UNCHANGED <<preempt, current, taskpc, held, kspc, force_irqthreads>>

\* Return from the interrupt to the code it interrupted.
IrqReturn ==
  /\ stack # <<>> /\ Top.pc = "return"
  /\ stack' = Tail(stack)
  /\ UNCHANGED <<pending, hardirq, softirq, preempt, current, taskpc, held,
                 kspc, ksstate, ksonrq, force_irqthreads>>

-----------------------------------------------------------------------------
(* ksoftirqd: smpboot_thread_fn, ksoftirqd_should_run, run_ksoftirqd *)

InKsoftirqd == stack = <<>> /\ current = "ksoftirqd"

\* set_current_state(TASK_INTERRUPTIBLE)
KsSetState ==
  /\ InKsoftirqd /\ kspc = "loop"
  /\ ksstate' = "INTERRUPTIBLE"
  /\ kspc' = "preempt_disable"
  /\ UNCHANGED <<pending, stack, hardirq, softirq, preempt, current, taskpc,
                 held, ksonrq, force_irqthreads>>

\* preempt_disable(); it may be preempted before, in its new state.
KsPreemptDisable ==
  /\ InKsoftirqd /\ kspc = "preempt_disable"
  /\ preempt' = preempt + 1
  /\ kspc' = "check"
  /\ UNCHANGED <<pending, stack, hardirq, softirq, current, taskpc, held,
                 ksstate, ksonrq, force_irqthreads>>

\* ksoftirqd_should_run: run, or get ready to sleep.
KsCheck ==
  /\ InKsoftirqd /\ kspc = "check"
  /\ preempt' = preempt - 1
  /\ \/ /\ pending # {}
        /\ ksstate' = "RUNNING"
        /\ kspc' = "run"
     \/ /\ pending = {}
        /\ kspc' = "schedule"
        /\ UNCHANGED ksstate
  /\ UNCHANGED <<pending, stack, hardirq, softirq, current, taskpc, held,
                 ksonrq, force_irqthreads>>

\* Mutant: a wakeup before schedule() is lost.
KsScheduleAlways ==
  /\ InKsoftirqd /\ kspc = "schedule"
  /\ kspc' = "loop"
  /\ ksonrq' = FALSE
  /\ current' = "task"
  /\ UNCHANGED <<pending, stack, hardirq, softirq, preempt, taskpc, held,
                 ksstate, force_irqthreads>>

\* schedule(): sleep, unless woken since the state was set.
KsSchedule ==
  /\ InKsoftirqd /\ kspc = "schedule"
  /\ kspc' = "loop"
  /\ \/ /\ ksstate = "INTERRUPTIBLE"
        /\ ksonrq' = FALSE
        /\ current' = "task"
     \/ /\ ksstate = "RUNNING"
        /\ UNCHANGED <<ksonrq, current>>
  /\ UNCHANGED <<pending, stack, hardirq, softirq, preempt, taskpc, held,
                 ksstate, force_irqthreads>>

\* run_ksoftirqd: the mask is read again with interrupts disabled.
KsRun ==
  /\ InKsoftirqd /\ kspc = "run"
  /\ kspc' = "loop"
  /\ \/ pending # {} /\ EnterDoSoftirq(stack)
     \/ pending = {} /\ UNCHANGED <<pending, stack, softirq>>
  /\ UNCHANGED <<hardirq, preempt, current, taskpc, held, ksstate, ksonrq,
                 force_irqthreads>>

-----------------------------------------------------------------------------

\* The scheduler puts thread t on the CPU; not in an atomic context.
Switch(t) ==
  /\ stack = <<>> /\ hardirq + softirq + preempt = 0
  /\ current # t
  /\ t = "ksoftirqd" => ksonrq
  /\ current' = t
  /\ UNCHANGED <<pending, stack, hardirq, softirq, preempt, taskpc, held,
                 kspc, ksstate, ksonrq, force_irqthreads>>

KsStep == KsSetState \/ KsPreemptDisable \/ KsCheck \/ KsSchedule \/ KsRun
BhEnableStep == BhCheck \/ BhDoSoftirq \/ BhDone
IrqStep == IrqExit \/ IrqReturn

Next ==
  \/ \E nr \in SOFTIRQS : RaiseSoftirq(nr) \/ Action(nr)
  \/ BhDisable \/ ActionBhDisable \/ ActionBhEnable
  \/ BhEnable \/ BhEnableStep
  \/ ActionReturn \/ SoftirqEnd
  \/ IrqEnter \/ IrqStep
  \/ KsStep
  \/ \E t \in {"task", "ksoftirqd"} : Switch(t)

Spec == Init /\ [][Next]_vars

\* Interrupt handlers return; interrupts do not come so thick that the code
\* they interrupt makes no progress, hence strong fairness for it; softirq
\* handlers return, the task leaves its bottom-half-disabled sections, the
\* outermost one included, and the scheduler gives a runnable ksoftirqd the CPU.
Fairness ==
  /\ WF_vars(IrqStep)
  /\ SF_vars(\E nr \in SOFTIRQS : Action(nr)) /\ SF_vars(ActionReturn)
  /\ SF_vars(SoftirqEnd)
  /\ SF_vars(BhEnable) /\ SF_vars(BhEnable /\ held = 1) /\ SF_vars(BhEnableStep)
  /\ SF_vars(KsStep) /\ SF_vars(Switch("ksoftirqd"))

FairSpec == Spec /\ Fairness

-----------------------------------------------------------------------------
(* Properties *)

Frame == [pc : {"loop", "action", "handler", "return"}, todo : SUBSET SOFTIRQS,
          nr : SOFTIRQS \cup {0}, prev : Nat, left : 0..MAX_SOFTIRQ_RESTART]

Serving == {i \in DOMAIN stack : IsSoftirq(stack[i])}

\* Softirqs are serialized on a CPU: whatever interrupts __do_softirq, and
\* whichever of local_bh_enable, irq_exit and ksoftirqd comes upon pending
\* bits meanwhile, a second __do_softirq is never entered.
NoNesting == \A i, j \in Serving : i = j

\* local_bh_disable keeps softirqs off the CPU: while the task holds it, no
\* __do_softirq is entered on any path, and none is on the stack.
BhExcludes == held > 0 => Serving = {}

\* preempt_count always tells the context: its softirq part is the sum of the
\* task's sections, one SOFTIRQ_OFFSET for a running __do_softirq and the
\* sections of its handler, even after a handler that returned unbalanced.
CountIsContext ==
  /\ softirq % 2 = IF Serving = {} THEN 0 ELSE 1
  /\ Serving = {} => softirq = held * SOFTIRQ_DISABLE_OFFSET
  /\ \A i \in Serving : stack[i].pc = "loop" => softirq = SOFTIRQ_OFFSET

\* No raised softirq is forgotten: in a thread, outside local_bh_disable and
\* local_bh_enable, either nothing is pending or ksoftirqd is on its way.
NoStranded ==
  stack = <<>> /\ held = 0 /\ taskpc = "run" /\ pending # {}
    => ksonrq /\ (ksstate = "RUNNING" \/ kspc \in {"preempt_disable", "check"})

\* __do_softirq returns, "to make sure we eventually return from this method",
\* even if every handler raises softirqs again and jiffies stand still.
SoftirqReturns == Serving # {} ~> Serving = {}

\* Every raised softirq is served, wherever it was raised.
PendingServed ==
  \A nr \in SOFTIRQS :
    nr \in pending ~> \E i \in Serving : stack[i].pc = "action" /\ stack[i].nr = nr

=============================================================================
