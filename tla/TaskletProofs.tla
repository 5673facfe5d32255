--------------------------- MODULE TaskletProofs ----------------------------
(***************************************************************************)
(* The theorems about module Tasklet, for any number of CPUs, callers and  *)
(* tasklets and any bounds.                                                *)
(***************************************************************************)
EXTENDS TaskletSteps

(* tasklet_disable and tasklet_kill. *)

\* The disablers of a tasklet are finitely many.
LEMMA DisablersFinite == \A t \in TASKLETS : IsFiniteSet(Disablers(t))
  BY FS_Subset, ContextAssumption, Zenon DEF Disablers

\* A tasklet with count zero has no disabler.
LEMMA NoDisabler ==
  ASSUME DisableInv, NEW t \in TASKLETS, count[t] = 0
  PROVE  Disablers(t) = {}
  BY DisablersFinite, FS_EmptySet, Zenon DEF DisableInv

\* A caller's step keeps count equal to the number of disablers.
LEMMA TaskCounts ==
  ASSUME Inv, NEW k \in TASKS, TaskStep(k) \/ \E t \in TASKLETS : TaskCall(k, t)
  PROVE  \A u \in TASKLETS : count'[u] = Cardinality(Disablers(u)')
<1>0. /\ k \in CTX /\ pc \in [CTX -> CpuPC \cup TaskPC]
      /\ arg \in [CTX -> TASKLETS \cup {NULL}]
      /\ pc[k] \notin {"idle", "bug"} => arg[k] \in TASKLETS
      /\ count \in [TASKLETS -> Nat]
      /\ \A u \in TASKLETS : count[u] = Cardinality(Disablers(u))
  BY Zenon DEF Inv, TypeOK, ArgOK, CTX, DisableInv
<1>1. \A j \in TASKS \ {k} : pc'[j] = pc[j] /\ arg'[j] = arg[j]
  BY TaskFrame, Zenon DEF CTX
<1>2. ASSUME NEW t \in TASKLETS, DisableNosync(k, t) \/ Disable(k, t)
      PROVE  \A u \in TASKLETS : count'[u] = Cardinality(Disablers(u)')
  <2>1. /\ pc[k] = "idle" /\ pc'[k] \in {"nosync", "disable_wait"} /\ arg'[k] = t
        /\ count' = [count EXCEPT ![t] = @ + 1]
    BY <1>0, <1>2, Zenon DEF DisableNosync, Disable, Goto
  <2>2. Disablers(t)' = Disablers(t) \cup {k} /\ k \notin Disablers(t)
    BY <1>1, <2>1, Zenon DEF Disablers
  <2>3. Cardinality(Disablers(t)') = Cardinality(Disablers(t)) + 1
    BY <2>2, DisablersFinite, FS_AddElement, Zenon
  <2>4. \A u \in TASKLETS \ {t} : Disablers(u)' = Disablers(u)
    BY <1>1, <2>1, Zenon DEF Disablers
  <2> QED
    BY <1>0, <2>1, <2>3, <2>4, Zenon
<1>3. CASE Enable(k)
  <2>1. /\ pc[k] \in {"nosync", "disabled"} /\ pc'[k] = "idle" /\ arg[k] \in TASKLETS
        /\ count' = [count EXCEPT ![arg[k]] = @ - 1]
    BY <1>0, <1>3, Zenon DEF Enable, Goto, Return
  <2> DEFINE t == arg[k]
  <2>3. \A u \in TASKLETS : Disablers(u)' = Disablers(u) \ {k}
    BY <1>1, <2>1, Zenon DEF Disablers
  <2>4. k \in Disablers(t) /\ \A u \in TASKLETS \ {t} : k \notin Disablers(u)
    BY <2>1, Zenon DEF Disablers
  <2>5. Cardinality(Disablers(t) \ {k}) = Cardinality(Disablers(t)) - 1
    BY <2>1, <2>4, DisablersFinite, FS_RemoveElement, Zenon
  <2>6. \A u \in TASKLETS \ {t} : Disablers(u) \ {k} = Disablers(u)
    BY <2>4, Zenon
  <2>7. ASSUME NEW u \in TASKLETS PROVE count'[u] = Cardinality(Disablers(u)')
    <3>1. CASE u = t
      BY <1>0, <2>1, <2>3, <2>5, <3>1, Zenon
    <3>2. CASE u # t
      BY <1>0, <2>1, <2>3, <2>6, <3>2, Zenon
    <3> QED
      BY <3>1, <3>2, Zenon
  <2> QED
    BY <2>7, Zenon
<1>4. CASE ~Enable(k) /\ ~(\E t \in TASKLETS : DisableNosync(k, t) \/ Disable(k, t))
  <2>1. count' = count
    BY <1>4, Zenon DEF TaskStep, TaskCall, TestAndSetSched, Enqueue, DisableWait, KillTestAndSet,
       KillYield, KillWait, KillClear, Schedule, Kill
  <2>2. \/ /\ pc[k] = "disable_wait" /\ pc'[k] = "disabled" /\ arg'[k] = arg[k]
        \/ /\ pc[k] \notin {"nosync", "disable_wait", "disabled"}
           /\ pc'[k] \notin {"nosync", "disable_wait", "disabled"}
    BY <1>0, <1>4, Zenon DEF TaskStep, TaskCall, TestAndSetSched, Enqueue, DisableWait,
       KillTestAndSet, KillYield, KillWait, KillClear, Schedule, Kill, Goto, Return
  <2>3. \A u \in TASKLETS : Disablers(u)' = Disablers(u)
    BY <1>1, <2>2, Zenon DEF Disablers
  <2> QED
    BY <1>0, <2>1, <2>3, Zenon
<1> QED
  BY <1>2, <1>3, <1>4, Zenon

\* tasklet_disable still excludes the function after any step.
LEMMA DisableStep ==
  ASSUME Inv, Next
  PROVE  DisableInv'
<1>0. /\ DisableInv /\ RunIsLock /\ pc \in [CTX -> CpuPC \cup TaskPC]
      /\ count \in [TASKLETS -> Nat]
      /\ \A d \in CPUS : pc[d] \in Busy => arg[d] \in TASKLETS
  BY Zenon DEF Inv, TypeOK, ArgOK
<1>1. ASSUME NEW k \in TASKS, TaskStep(k) \/ \E t \in TASKLETS : TaskCall(k, t)
      PROVE  DisableInv'
  <2>1. \A x \in CTX \ {k} : pc'[x] = pc[x] /\ arg'[x] = arg[x]
    BY <1>1, TaskFrame, Zenon
  <2>2. k \in CTX /\ k \notin CPUS /\ CPUS \subseteq CTX /\ TASKS \subseteq CTX
    BY ContextAssumption, Zenon DEF CTX
  <2>3. pc'[k] = "disabled" => pc[k] = "disable_wait" /\ arg'[k] = arg[k] /\ ~run[arg[k]]
    BY <1>0, <1>1, <2>2, Zenon DEF TaskStep, TaskCall, TestAndSetSched, Enqueue, DisableWait, Enable,
       KillTestAndSet, KillYield, KillWait, KillClear, Schedule, DisableNosync, Disable,
       Kill, Goto, Return
  <2>4. ASSUME NEW j \in TASKS, NEW c \in CPUS, pc'[j] = "disabled",
               pc'[c] \in {"clear", "func"}
        PROVE  arg'[j] # arg'[c]
    <3>1. pc[c] \in {"clear", "func"} /\ arg'[c] = arg[c]
      BY <2>1, <2>2, <2>4, Zenon
    <3>2. run[arg[c]]
      BY <1>0, <3>1, Zenon DEF RunIsLock, Locked
    <3>3. CASE j = k
      BY <2>3, <2>4, <3>1, <3>2, <3>3, Zenon
    <3>4. CASE j # k
      BY <1>0, <2>1, <2>2, <2>4, <3>1, <3>4, Zenon DEF DisableInv
    <3> QED
      BY <3>3, <3>4, Zenon
  <2> QED
    BY <1>1, <2>4, TaskCounts, Zenon DEF DisableInv
<1>2. ASSUME NEW c \in CPUS, CpuStep(c) PROVE DisableInv'
  <2>1. /\ \A x \in CTX \ {c} : pc'[x] = pc[x] /\ arg'[x] = arg[x]
        /\ \A k \in TASKS : pc'[k] = pc[k] /\ arg'[k] = arg[k]
        /\ count' = count
    BY <1>2, CpuFrame, Zenon
  <2>2. \A u \in TASKLETS : Disablers(u)' = Disablers(u)
    BY <2>1, Zenon DEF Disablers
  <2>3. \/ pc'[c] \notin {"clear", "func"}
        \/ pc[c] = "clear" /\ arg'[c] = arg[c]
        \/ pc[c] = "check" /\ arg'[c] = arg[c] /\ count[arg[c]] = 0
    BY <1>0, <1>2, Zenon DEF CpuStep, DoSoftirq, TakeList, SoftirqDone, TryLock, ListDone,
       CheckCount, ClearSched, FuncReturn, UnlockDisabled, Requeue, Goto, Return, CTX
  <2>4. ASSUME NEW j \in TASKS, NEW d \in CPUS, pc'[j] = "disabled",
               pc'[d] \in {"clear", "func"}
        PROVE  arg'[j] # arg'[d]
    <3>1. CASE d # c
      BY <1>0, <2>1, <2>4, <3>1, Zenon DEF DisableInv, CTX
    <3>2. CASE d = c /\ pc[c] = "clear" /\ arg'[c] = arg[c]
      BY <1>0, <2>1, <2>4, <3>2, Zenon DEF DisableInv
    <3>3. CASE d = c /\ pc[c] = "check" /\ arg'[c] = arg[c] /\ count[arg[c]] = 0
      <4>1. arg[c] \in TASKLETS
        BY <1>0, <3>3, Zenon DEF Busy
      <4>2. j \notin Disablers(arg[c])
        BY <1>0, <3>3, <4>1, NoDisabler, Zenon
      <4> QED
        BY <2>1, <2>4, <3>3, <4>2, Zenon DEF Disablers
    <3> QED
      BY <2>3, <2>4, <3>1, <3>2, <3>3, Zenon
  <2> QED
    BY <1>0, <2>1, <2>2, <2>4, Zenon DEF DisableInv
<1>3. ASSUME NEW c \in CPUS, Hotplug(c) PROVE DisableInv'
  <2>1. /\ count' = count /\ arg' = arg
        /\ \A d \in CPUS : pc'[d] = pc[d]
        /\ \A x \in CTX : pc'[x] = pc[x] \/ (pc'[x] = "bug" /\ pc[x] = "idle")
    BY <1>3, HotplugFrame, Zenon
  <2>2. \A u \in TASKLETS : Disablers(u)' = Disablers(u)
    BY <2>1, Zenon DEF Disablers, CTX
  <2> QED
    BY <1>0, <2>1, <2>2, Zenon DEF DisableInv, CTX
<1> QED
  BY <1>1, <1>2, <1>3, Zenon DEF Next

\* After any step a killer about to return still has a quiet tasklet.
LEMMA KillStep ==
  ASSUME Inv, Next
  PROVE  KillInv'
<1>0. /\ KillInv /\ RunIsLock /\ SchedIsToken /\ pc \in [CTX -> CpuPC \cup TaskPC]
      /\ \A d \in CPUS : pc[d] \in Busy => arg[d] \in TASKLETS
      /\ CPUS \subseteq CTX /\ TASKS \subseteq CTX
      /\ \A d \in CPUS, j \in TASKS : d # j
  BY ContextAssumption, Zenon DEF Inv, TypeOK, ArgOK, CTX
<1>1. ASSUME NEW k \in TASKS, TaskStep(k) \/ \E t \in TASKLETS : TaskCall(k, t)
      PROVE  KillInv'
  <2>1. \A x \in CTX \ {k} : pc'[x] = pc[x] /\ arg'[x] = arg[x]
    BY <1>1, TaskFrame, Zenon
  <2>2. pc'[k] = "kill_clear" => arg'[k] = arg[k] /\ ~run[arg[k]]
    BY <1>0, <1>1, Zenon DEF TaskStep, TaskCall, TestAndSetSched, Enqueue, DisableWait, Enable,
       KillTestAndSet, KillYield, KillWait, KillClear, Schedule, DisableNosync, Disable,
       Kill, Goto, Return
  <2>3. ASSUME NEW j \in TASKS, NEW c \in CPUS, pc'[j] = "kill_clear", pc'[c] = "func"
        PROVE  arg'[j] # arg'[c]
    <3>1. pc[c] = "func" /\ arg'[c] = arg[c] /\ run[arg[c]]
      BY <1>0, <2>1, <2>3, Zenon DEF RunIsLock, Locked
    <3>2. CASE j = k
      BY <2>2, <2>3, <3>1, <3>2, Zenon
    <3>3. CASE j # k
      BY <1>0, <2>1, <2>3, <3>1, <3>3, Zenon DEF KillInv
    <3> QED
      BY <3>2, <3>3, Zenon
  <2> QED
    BY <2>3, Zenon DEF KillInv
<1>2. ASSUME NEW c \in CPUS, CpuStep(c) PROVE KillInv'
  <2>1. /\ \A x \in CTX \ {c} : pc'[x] = pc[x] /\ arg'[x] = arg[x]
        /\ \A k \in TASKS : pc'[k] = pc[k] /\ arg'[k] = arg[k]
    BY <1>2, CpuFrame, Zenon
  <2>2. pc'[c] = "func" => pc[c] = "clear" /\ arg'[c] = arg[c]
    BY <1>0, <1>2, Zenon DEF CpuStep, DoSoftirq, TakeList, SoftirqDone, TryLock, ListDone,
       CheckCount, ClearSched, FuncReturn, UnlockDisabled, Requeue, Goto, Return
  <2>3. ASSUME NEW j \in TASKS, NEW d \in CPUS, pc'[j] = "kill_clear", pc'[d] = "func"
        PROVE  arg'[j] # arg'[d]
    <3>1. CASE d # c
      BY <1>0, <2>1, <2>3, <3>1, Zenon DEF KillInv
    <3>2. CASE d = c
      <4>1. arg[c] \in TASKLETS /\ Holds(c, arg[c])
        BY <1>0, <2>2, <2>3, <3>2, Zenon DEF Busy, Holds
      <4>2. ~Holds(j, arg[c])
        BY <1>0, <4>1, Zenon DEF SchedIsToken
      <4> QED
        BY <2>1, <2>2, <2>3, <3>2, <4>2, Zenon DEF Holds
    <3> QED
      BY <3>1, <3>2, Zenon
  <2> QED
    BY <2>3, Zenon DEF KillInv
<1>3. ASSUME NEW c \in CPUS, Hotplug(c) PROVE KillInv'
  <2>1. /\ arg' = arg
        /\ \A x \in CTX : pc'[x] = pc[x] \/ (pc'[x] = "bug" /\ pc[x] = "idle")
    BY <1>3, HotplugFrame, Zenon
  <2> QED
    BY <1>0, <2>1, Zenon DEF KillInv
<1> QED
  BY <1>1, <1>2, <1>3, Zenon DEF Next

-----------------------------------------------------------------------------
(* Nothing is stranded. *)

\* Idle and absent CPUs, and the raised softirqs, after a step of a caller.
LEMMA TaskRaised ==
  ASSUME Inv, NEW k \in TASKS, TaskStep(k) \/ \E t \in TASKLETS : TaskCall(k, t)
  PROVE  IdleInv' /\ QueuedIsRaised'
<1>0. /\ IdleInv /\ QueuedIsRaised /\ k \in CTX /\ PRIO \subseteq LISTS /\ "list" \notin PRIO
      /\ "list" \in LISTS
      /\ pc[k] \notin {"idle", "bug"} => arg[k] \in TASKLETS
  BY Zenon DEF Inv, ArgOK, CTX, PRIO, LISTS
<1>1. /\ \A d \in CPUS : pc'[d] = pc[d]
      /\ todo' = todo /\ cpustate' = cpustate
  BY TaskFrame, Zenon
<1>2. ASSUME NEW c \in CPUS, Enqueue(k, c) PROVE IdleInv' /\ QueuedIsRaised'
  <2>1. cpustate[c] = "online" /\ AppendAndRaise(c, prio[k], arg[k]) /\ Holds(k, arg[k])
        /\ arg[k] \in TASKLETS
    BY <1>0, <1>2, Zenon DEF Enqueue, Holds
  <2>2. /\ \A d \in CPUS, m \in LISTS : d # c \/ m # prio[k] => queue'[d][m] = queue[d][m]
        /\ prio[k] \in PRIO
        /\ pending'[c] = pending[c] \cup {prio[k]}
        /\ \A d \in CPUS : d # c => pending'[d] = pending[d]
    BY <1>0, <2>1, AppendAndRaiseEffect, Zenon
  <2>3. \A d \in CPUS : queue'[d]["list"] = queue[d]["list"]
    BY <1>0, <2>2, Zenon
  <2>4. IdleInv'
    BY <1>0, <1>1, <2>1, <2>2, <2>3 DEF IdleInv
  <2>5. QueuedIsRaised'
    BY <1>0, <1>1, <2>1, <2>2, Zenon DEF QueuedIsRaised
  <2> QED
    BY <2>4, <2>5, Zenon
<1>3. CASE ~\E c \in CPUS : Enqueue(k, c)
  <2>1. queue' = queue /\ pending' = pending
    BY <1>3, Zenon DEF TaskStep, TaskCall, TestAndSetSched, DisableWait, Enable, KillTestAndSet,
       KillYield, KillWait, KillClear, Schedule, DisableNosync, Disable, Kill
  <2> QED
    BY <1>0, <1>1, <2>1, Zenon DEF IdleInv, QueuedIsRaised
<1> QED
  BY <1>2, <1>3, Zenon

\* The same after a step of a CPU.
LEMMA CpuRaised ==
  ASSUME Inv, NEW c \in CPUS, CpuStep(c)
  PROVE  IdleInv' /\ QueuedIsRaised'
<1>0. /\ IdleInv /\ QueuedIsRaised /\ QueueType /\ UniqueLinks
      /\ c \in CTX /\ CPUS \subseteq CTX
      /\ PRIO \subseteq LISTS /\ "list" \notin PRIO /\ "list" \in LISTS
      /\ pc \in [CTX -> CpuPC \cup TaskPC]
      /\ todo \in [CPUS -> SUBSET PRIO] /\ pending \in [CPUS -> SUBSET PRIO]
      /\ pc[c] \in Busy => arg[c] \in TASKLETS
  BY Zenon DEF Inv, TypeOK, ArgOK, CTX, PRIO, LISTS, QueueType, SchedIsToken
<1>1. /\ \A d \in CPUS \ {c} : pc'[d] = pc[d]
      /\ cpustate' = cpustate
  BY CpuFrame, Zenon DEF CTX
<1>2. cpustate[c] = "online"
  BY <1>0, Zenon DEF IdleInv, CpuStep, DoSoftirq, TakeList, SoftirqDone, TryLock, ListDone,
     CheckCount, ClearSched, FuncReturn, UnlockDisabled, Requeue
<1>3. CASE DoSoftirq(c)
  <2>1. /\ pc[c] = "idle" /\ pc'[c] = "dispatch" /\ queue' = queue
        /\ todo' = [todo EXCEPT ![c] = pending[c]]
        /\ pending' = [pending EXCEPT ![c] = {}]
    BY <1>0, <1>3, Zenon DEF DoSoftirq, Goto
  <2>2. IdleInv'
    BY <1>0, <1>1, <1>2, <2>1, Zenon DEF IdleInv
  <2>3. todo[c] = {}
    BY <1>0, <2>1, Zenon DEF IdleInv
  <2>4. QueuedIsRaised'
    BY <1>0, <1>1, <2>1, <2>3, Zenon DEF QueuedIsRaised
  <2> QED
    BY <2>2, <2>4, Zenon
<1>4. ASSUME NEW nr \in PRIO, TakeList(c, nr) PROVE IdleInv' /\ QueuedIsRaised'
  <2>1. /\ pc[c] = "dispatch" /\ pc'[c] = "next" /\ pending' = pending
        /\ todo' = [todo EXCEPT ![c] = @ \ {nr}]
    BY <1>0, <1>4, Zenon DEF TakeList, Goto
  <2>2. queue[c]["list"] = <<>>
    BY <1>0, <2>1, Zenon DEF IdleInv
  <2>3. /\ queue'[c][nr] = <<>>
        /\ \A d \in CPUS, m \in PRIO : d # c \/ m # nr => queue'[d][m] = queue[d][m]
        /\ \A d \in CPUS : d # c => queue'[d]["list"] = queue[d]["list"]
    BY <1>0, <1>4, <2>2, TakeLinks, Zenon DEF TakeList
  <2>4. IdleInv'
    BY <1>0, <1>1, <1>2, <2>1, <2>3 DEF IdleInv
  <2>5. QueuedIsRaised'
    BY <1>0, <1>1, <2>1, <2>3 DEF QueuedIsRaised
  <2> QED
    BY <2>4, <2>5, Zenon
<1>5. CASE TryLock(c)
  <2>1. pc'[c] \in {"requeue", "check"} /\ pending' = pending /\ todo' = todo
    BY <1>0, <1>5, Zenon DEF TryLock, Goto
  <2>2. /\ \A d \in CPUS, m \in PRIO : queue'[d][m] = queue[d][m]
        /\ \A d \in CPUS : d # c => queue'[d]["list"] = queue[d]["list"]
    BY <1>0, <1>5, PopLinks, Zenon DEF TryLock
  <2> QED
    BY <1>0, <1>1, <1>2, <2>1, <2>2 DEF IdleInv, QueuedIsRaised
<1>6. CASE Requeue(c)
  <2>1. pc'[c] = "next" /\ AppendAndRaise(c, prio[c], arg[c]) /\ Holds(c, arg[c])
        /\ arg[c] \in TASKLETS /\ todo' = todo
    BY <1>0, <1>6, Zenon DEF Requeue, Holds, Busy, Goto
  <2>2. /\ \A d \in CPUS, m \in LISTS : d # c \/ m # prio[c] => queue'[d][m] = queue[d][m]
        /\ prio[c] \in PRIO
        /\ pending'[c] = pending[c] \cup {prio[c]}
        /\ \A d \in CPUS : d # c => pending'[d] = pending[d]
    BY <1>0, <2>1, AppendAndRaiseEffect, Zenon
  <2>3. IdleInv'
    BY <1>0, <1>1, <1>2, <2>1, <2>2 DEF IdleInv
  <2>4. QueuedIsRaised'
    BY <1>0, <1>1, <2>1, <2>2 DEF QueuedIsRaised
  <2> QED
    BY <2>3, <2>4, Zenon
<1>7. CASE SoftirqDone(c)
  <2>1. pc[c] = "dispatch" /\ todo[c] = {} /\ UNCHANGED <<queue, pending, todo>>
    BY <1>7, Zenon DEF SoftirqDone
  <2> QED
    BY <1>0, <1>1, <1>2, <2>1, Zenon DEF IdleInv, QueuedIsRaised
<1>8. CASE ListDone(c)
  <2>1. /\ pc'[c] = "dispatch" /\ queue[c]["list"] = <<>>
        /\ UNCHANGED <<queue, pending, todo>>
    BY <1>0, <1>8, Zenon DEF ListDone, Return, Goto
  <2> QED
    BY <1>0, <1>1, <1>2, <2>1, Zenon DEF IdleInv, QueuedIsRaised
<1>9. CASE CheckCount(c) \/ ClearSched(c) \/ FuncReturn(c) \/ UnlockDisabled(c)
  <2>1. pc'[c] \notin {"idle", "dispatch"} /\ UNCHANGED <<queue, pending, todo>>
    BY <1>0, <1>9, Zenon DEF CheckCount, ClearSched, FuncReturn, UnlockDisabled, Goto
  <2> QED
    BY <1>0, <1>1, <1>2, <2>1, Zenon DEF IdleInv, QueuedIsRaised
<1> QED
  BY <1>3, <1>4, <1>5, <1>6, <1>7, <1>8, <1>9, Zenon DEF CpuStep

\* The same after a hotplug step.
LEMMA HotplugRaised ==
  ASSUME Inv, NEW c \in CPUS, Hotplug(c)
  PROVE  IdleInv' /\ QueuedIsRaised'
<1>0. /\ IdleInv /\ QueuedIsRaised
      /\ PRIO \subseteq LISTS /\ "list" \notin PRIO /\ "list" \in LISTS
      /\ cpustate \in [CPUS -> {"online", "dead", "offline"}]
      /\ pending \in [CPUS -> SUBSET PRIO]
  BY Zenon DEF Inv, TypeOK, PRIO, LISTS
<1>1. todo' = todo /\ \A d \in CPUS : pc'[d] = pc[d]
  BY HotplugFrame, Zenon
<1>2. CASE CpuDie(c) \/ CpuUp(c)
  <2>1. UNCHANGED <<queue, pending>>
    BY <1>2, Zenon DEF CpuDie, CpuUp
  <2>2. \/ cpustate' = [cpustate EXCEPT ![c] = "dead"] /\ pc[c] = "idle"
        \/ cpustate' = [cpustate EXCEPT ![c] = "online"] /\ cpustate[c] = "offline"
    BY <1>2, Zenon DEF CpuDie, CpuUp
  <2> QED
    BY <1>0, <1>1, <2>1, <2>2 DEF IdleInv, QueuedIsRaised
<1>3. ASSUME NEW d \in CPUS, Takeover(c, d) PROVE IdleInv' /\ QueuedIsRaised'
  <2>1. /\ cpustate[c] = "dead" /\ cpustate[d] = "online"
        /\ pending' = [pending EXCEPT ![d] = PRIO]
        /\ cpustate' = [cpustate EXCEPT ![c] = "offline"]
    BY <1>3, Zenon DEF Takeover
  <2>2. ListsMoved(c, d)
    BY <1>3, TakeoverLists, Zenon
  <2>3. /\ \A x \in CPUS : queue'[x]["list"] = queue[x]["list"]
        /\ \A nr \in PRIO : queue'[c][nr] = <<>>
        /\ \A x \in CPUS \ {c, d}, nr \in PRIO : queue'[x][nr] = queue[x][nr]
    BY <1>0, <2>2, Zenon DEF ListsMoved
  <2>4. IdleInv'
    BY <1>0, <1>1, <2>1, <2>3 DEF IdleInv
  <2>5. QueuedIsRaised'
    BY <1>0, <1>1, <2>1, <2>3 DEF QueuedIsRaised
  <2> QED
    BY <2>4, <2>5, Zenon
<1>4. ASSUME NEW k \in TASKS, NEW t \in KILLABLE, KillImmediate(k, t, c)
      PROVE IdleInv' /\ QueuedIsRaised'
  <2>1. cpustate[c] = "dead" /\ UNCHANGED <<cpustate, pending>>
    BY <1>4, Zenon DEF KillImmediate
  <2>2. \A d \in CPUS, m \in LISTS : d # c \/ m # "TASKLET" => queue'[d][m] = queue[d][m]
    BY <1>4, KillImmediateEffect, Zenon
  <2> QED
    BY <1>0, <1>1, <2>1, <2>2 DEF IdleInv, QueuedIsRaised
<1> QED
  BY <1>2, <1>3, <1>4, Zenon DEF Hotplug

-----------------------------------------------------------------------------
(* The theorems *)

\* The invariant holds in the initial state.
LEMMA InitInv == Init => Inv
<1> SUFFICES ASSUME Init PROVE Inv
  BY Zenon
<1>1. TypeOK /\ ArgOK
  BY InitType, Zenon
<1>2. RunIsLock /\ NoBug /\ KillInv /\ IdleInv /\ QueuedIsRaised
  BY ContextAssumption, Zenon DEF Init, RunIsLock, NoBug, KillInv, IdleInv, QueuedIsRaised,
     Locked, CTX, LISTS
<1>3. SchedIsToken
  BY DEF Init, SchedIsToken, UniqueLinks, Linked, Holds, CTX
<1>4. DisableInv
  <2>1. \A t \in TASKLETS : Disablers(t) = {}
    BY Zenon DEF Init, Disablers, CTX
  <2> QED
    BY <2>1, FS_EmptySet, Zenon DEF Init, DisableInv, CTX
<1> QED
  BY <1>1, <1>2, <1>3, <1>4, Zenon DEF Inv

\* Every step preserves the invariant.
LEMMA NextInv == Inv /\ [Next]_vars => Inv'
<1> SUFFICES ASSUME Inv, [Next]_vars PROVE Inv'
  BY Zenon
<1>1. CASE Next
  <2>1. TypeOK' /\ ArgOK'
    BY <1>1, TaskStepType, TaskCallType, CpuStepType, HotplugType, Zenon DEF Next
  <2>2. SchedIsToken'
    BY <1>1, TaskToken, CpuToken, HotplugToken, Zenon DEF Next
  <2>3. NoBug'
    <3>1. ASSUME NEW k \in TASKS, TaskStep(k) \/ \E t \in TASKLETS : TaskCall(k, t)
          PROVE NoBug'
      BY <3>1, TaskFrame, Zenon DEF Inv, NoBug
    <3>2. ASSUME NEW c \in CPUS, CpuStep(c) PROVE NoBug'
      BY <3>2, CpuFrame, CpuToken, Zenon DEF Inv, NoBug, CTX
    <3>3. ASSUME NEW c \in CPUS, Hotplug(c) PROVE NoBug'
      BY <3>3, HotplugFrame, Zenon DEF Inv, NoBug
    <3> QED
      BY <1>1, <3>1, <3>2, <3>3, Zenon DEF Next
  <2>4. IdleInv' /\ QueuedIsRaised'
    BY <1>1, TaskRaised, CpuRaised, HotplugRaised, Zenon DEF Next
  <2> QED
    BY <1>1, <2>1, <2>2, <2>3, <2>4, LockStep, DisableStep, KillStep, Zenon DEF Inv
<1>2. CASE UNCHANGED vars
  <2>1. TypeOK' /\ ArgOK' /\ NoBug'
    BY <1>2, Zenon DEF vars, Inv, TypeOK, ArgOK, NoBug
  <2>2. RunIsLock' /\ KillInv'
    BY <1>2, Zenon DEF vars, Inv, RunIsLock, Locked, KillInv
  <2>3. SchedIsToken'
    <3>1. /\ \A t \in TASKLETS : Linked(t)' <=> Linked(t)
          /\ \A x \in CTX, t \in TASKLETS : Holds(x, t)' <=> Holds(x, t)
          /\ UniqueLinks' <=> UniqueLinks
      BY <1>2 DEF vars, Linked, Holds, UniqueLinks
    <3> QED
      BY <1>2, <3>1, Zenon DEF vars, Inv, SchedIsToken
  <2>4. DisableInv'
    BY <1>2, Zenon DEF vars, Inv, DisableInv, Disablers
  <2>5. IdleInv' /\ QueuedIsRaised'
    BY <1>2, Zenon DEF vars, Inv, IdleInv, QueuedIsRaised
  <2> QED
    BY <2>1, <2>2, <2>3, <2>4, <2>5, Zenon DEF Inv
<1> QED
  BY <1>1, <1>2, Zenon

\* For any CPUs, callers and tasklets, every reachable state of the tasklet
\* layer satisfies the inductive invariant.
THEOREM Invariance == Spec => []Inv
  BY InitInv, NextInv, PTL DEF Spec

\* Types: every list, bit and control point keeps its type.
THEOREM TypeCorrect == Spec => []TypeOK
<1>1. Inv => TypeOK
  BY Zenon DEF Inv
<1> QED
  BY <1>1, Invariance, PTL

\* tasklet_trylock serializes each tasklet with respect to itself.
THEOREM TaskletSerialized == Spec => []Serialized
<1>1. Inv => Serialized
  BY Zenon DEF Inv, RunIsLock, Locked, Serialized, Executing
<1> QED
  BY <1>1, Invariance, PTL

\* The BUG() in tasklet_action_common is unreachable.
THEOREM BugUnreachable == Spec => []NoBug
<1>1. Inv => NoBug
  BY Zenon DEF Inv
<1> QED
  BY <1>1, Invariance, PTL

\* A set SCHED bit has exactly one owner: one list entry or one context.
THEOREM OneOwner == Spec => []SchedIsToken
<1>1. Inv => SchedIsToken
  BY Zenon DEF Inv
<1> QED
  BY <1>1, Invariance, PTL

\* Between the return of tasklet_disable and tasklet_enable the tasklet does
\* not run.
THEOREM DisableWorks == Spec => []DisableExcludes
<1>1. Inv => DisableExcludes
  BY Zenon DEF Inv, DisableInv, DisableExcludes, Executing
<1> QED
  BY <1>1, Invariance, PTL

\* tasklet_kill returns only when the tasklet is neither queued nor running.
THEOREM KillWorks == Spec => []KillQuiesces
<1>1. Inv => KillQuiesces
  <2> SUFFICES ASSUME Inv, NEW k \in TASKS, pc[k] = "kill_clear"
               PROVE  /\ ~Linked(arg[k])
                      /\ \A c \in CPUS : ~Executing(c, arg[k])
                      /\ \A x \in CTX \ {k} : ~Holds(x, arg[k])
    BY Zenon DEF KillQuiesces
  <2>1. k \in CTX /\ arg[k] \in TASKLETS /\ Holds(k, arg[k])
    BY Zenon DEF Inv, ArgOK, CTX, Holds
  <2>2. \A c \in CPUS : ~Executing(c, arg[k])
    BY Zenon DEF Inv, KillInv, Executing
  <2> QED
    BY <2>1, <2>2, Zenon DEF Inv, SchedIsToken
<1> QED
  BY <1>1, Invariance, PTL

\* No tasklet sits in a list of an online CPU whose softirq is not raised.
THEOREM NothingStranded == Spec => []QueuedIsRaised
<1>1. Inv => QueuedIsRaised
  BY Zenon DEF Inv
<1> QED
  BY <1>1, Invariance, PTL

-----------------------------------------------------------------------------
(* Refinement of TaskletService *)

Owed == {t \in TASKLETS : sched[t]}
Active == {t \in TASKLETS : \E c \in CPUS : Executing(c, t)}

\* A caller's step claims a tasklet, gives a claim back or stutters.
LEMMA TaskRefines ==
  ASSUME Inv, NEW k \in TASKS, TaskStep(k) \/ \E t \in TASKLETS : TaskCall(k, t)
  PROVE  [Service!Next]_(Service!svars)
<1>0. /\ sched \in [TASKLETS -> BOOLEAN] /\ KillInv
      /\ pc[k] \notin {"idle", "bug"} => arg[k] \in TASKLETS
  BY Zenon DEF Inv, TypeOK, ArgOK
<1>1. Active' = Active
  BY TaskFrame, Zenon DEF Active, Executing
<1>2. CASE TestAndSetSched(k) \/ KillTestAndSet(k)
  <2>1. arg[k] \in TASKLETS /\ sched' = [sched EXCEPT ![arg[k]] = TRUE]
    BY <1>0, <1>2, Zenon DEF TestAndSetSched, KillTestAndSet
  <2>2. Owed' = Owed \cup {arg[k]}
    BY <1>0, <2>1, Zenon DEF Owed
  <2>3. CASE arg[k] \in Owed
    BY <1>1, <2>2, <2>3, Zenon DEF Service!svars, Owed, Active
  <2>4. CASE arg[k] \notin Owed
    <3>1. Service!Claim(arg[k])
      BY <1>1, <2>2, <2>4, Zenon DEF Service!Claim, Owed, Active
    <3> QED
      <4>1. arg[k] \in TASKLETS
        BY <2>1, Zenon
      <4> QED
        BY <4>1, <3>1, Zenon DEF Service!Next, Service!Claim
  <2> QED
    BY <2>3, <2>4, Zenon
<1>3. CASE KillClear(k)
  <2>1. arg[k] \in TASKLETS /\ pc[k] = "kill_clear"
        /\ sched' = [sched EXCEPT ![arg[k]] = FALSE]
    BY <1>0, <1>3, Zenon DEF KillClear
  <2>2. Owed' = Owed \ {arg[k]}
    BY <1>0, <2>1, Zenon DEF Owed
  <2>3. arg[k] \in Owed \ Active
    <3>1. k \in CTX /\ Holds(k, arg[k])
      BY <2>1, Zenon DEF Holds, CTX
    <3>2. sched[arg[k]]
      BY <2>1, <3>1, Zenon DEF Inv, SchedIsToken
    <3>3. \A c \in CPUS : ~Executing(c, arg[k])
      BY <1>0, <2>1, Zenon DEF KillInv, Executing
    <3> QED
      BY <2>1, <3>2, <3>3, Zenon DEF Owed, Active
  <2>4. Service!Withdraw(arg[k])
    BY <1>1, <2>2, <2>3, Zenon DEF Service!Withdraw, Owed, Active
  <2> QED
    <3>1. arg[k] \in TASKLETS
      BY <2>1, Zenon
    <3> QED
      BY <3>1, <2>4, Zenon DEF Service!Next, Service!Withdraw
<1>4. CASE ~(TestAndSetSched(k) \/ KillTestAndSet(k) \/ KillClear(k))
  <2>1. sched' = sched
    BY <1>4, Zenon DEF TaskStep, TaskCall, Enqueue, DisableWait, Enable, KillYield, KillWait,
       Schedule, DisableNosync, Disable, Kill
  <2> QED
    BY <1>1, <2>1, Zenon DEF Service!svars, Active
<1> QED
  BY <1>2, <1>3, <1>4, Zenon

\* A CPU's step starts an execution that was owed, ends one, or stutters.
LEMMA CpuRefines ==
  ASSUME Inv, NEW c \in CPUS, CpuStep(c)
  PROVE  [Service!Next]_(Service!svars)
<1>0. /\ sched \in [TASKLETS -> BOOLEAN] /\ RunIsLock /\ c \in CTX
      /\ pc[c] \in Busy => arg[c] \in TASKLETS
      /\ pc \in [CTX -> CpuPC \cup TaskPC]
  BY Zenon DEF Inv, TypeOK, ArgOK, CTX
<1>1. \A d \in CPUS \ {c}, t \in TASKLETS : Executing(d, t)' <=> Executing(d, t)
  BY CpuFrame, Zenon DEF Executing, CTX
<1>2. CASE ClearSched(c)
  <2>1. /\ arg[c] \in TASKLETS /\ pc[c] = "clear" /\ arg' = arg
        /\ sched' = [sched EXCEPT ![arg[c]] = FALSE]
        /\ pc'[c] = IF sched[arg[c]] THEN "func" ELSE "bug"
    BY <1>0, <1>2, Zenon DEF ClearSched, Busy, Goto
  <2>2. sched[arg[c]] /\ pc'[c] = "func"
    BY <2>1, CpuToken, Zenon
  <2>3. Owed' = Owed \ {arg[c]}
    BY <1>0, <2>1, Zenon DEF Owed
  <2>4. \A d \in CPUS : ~Executing(d, arg[c])
    BY <1>0, <2>1, Zenon DEF RunIsLock, Locked, Executing
  <2>5. \A t \in TASKLETS : Executing(c, t)' <=> t = arg[c]
    BY <2>1, <2>2, Zenon DEF Executing
  <2>6. \A t \in TASKLETS : ~Executing(c, t)
    BY <2>1, Zenon DEF Executing
  <2>7. Active' = Active \cup {arg[c]}
    BY <1>1, <2>1, <2>5, <2>6, Zenon DEF Active
  <2>8. Service!Start(arg[c])
    BY <2>1, <2>2, <2>3, <2>4, <2>7, Zenon DEF Service!Start, Owed, Active
  <2> QED
    <3>1. arg[c] \in TASKLETS
      BY <2>1, Zenon
    <3> QED
      BY <3>1, <2>8, Zenon DEF Service!Next, Service!Start
<1>3. CASE FuncReturn(c)
  <2>1. /\ arg[c] \in TASKLETS /\ pc[c] = "func" /\ pc'[c] = "next" /\ sched' = sched
    BY <1>0, <1>3, Zenon DEF FuncReturn, Busy, Goto
  <2>2. \A t \in TASKLETS : ~Executing(c, t)'
    BY <2>1, Zenon DEF Executing
  <2>3. \A t \in TASKLETS : Executing(c, t) <=> t = arg[c]
    BY <2>1, Zenon DEF Executing
  <2>4. \A d \in CPUS \ {c} : ~Executing(d, arg[c])
    BY <1>0, <2>1, Zenon DEF RunIsLock, Locked, Executing
  <2>5. Active' = Active \ {arg[c]} /\ arg[c] \in Active
    BY <1>1, <2>1, <2>2, <2>3, <2>4, Zenon DEF Active
  <2>6. Service!Finish(arg[c])
    BY <2>1, <2>5, Zenon DEF Service!Finish, Active
  <2> QED
    <3>1. arg[c] \in TASKLETS
      BY <2>1, Zenon
    <3> QED
      BY <3>1, <2>6, Zenon DEF Service!Next
<1>4. CASE ~(ClearSched(c) \/ FuncReturn(c))
  <2>1. sched' = sched /\ pc[c] # "func" /\ pc'[c] # "func"
    BY <1>0, <1>4, Zenon DEF CpuStep, DoSoftirq, TakeList, SoftirqDone, TryLock, ListDone,
       CheckCount, UnlockDisabled, Requeue, Goto, Return
  <2>2. Active' = Active
    BY <1>1, <2>1, Zenon DEF Active, Executing
  <2> QED
    BY <2>1, <2>2, Zenon DEF Service!svars, Active
<1> QED
  BY <1>2, <1>3, <1>4, Zenon

\* The per-CPU lists, the bits SCHED and RUN and the handlers implement the
\* service: every step maps to a step of TaskletService or to a stutter.
THEOREM Refinement == Spec => ImplementsService
<1>1. Init => Service!Init
  BY Zenon DEF Init, Service!Init, Executing, CTX
<1>2. Inv /\ [Next]_vars => [Service!Next]_(Service!svars)
  <2> SUFFICES ASSUME Inv, [Next]_vars PROVE [Service!Next]_(Service!svars)
    BY Zenon
  <2>1. ASSUME NEW c \in CPUS, Hotplug(c) PROVE UNCHANGED Service!svars
    BY <2>1, HotplugFrame, Zenon DEF Service!svars, Executing
  <2>2. CASE UNCHANGED vars
    BY <2>2, Zenon DEF vars, Service!svars, Executing
  <2> QED
    BY <2>1, <2>2, TaskRefines, CpuRefines, Zenon DEF Next
<1> QED
  BY <1>1, <1>2, Invariance, PTL DEF Spec, ImplementsService, Service!Spec

=============================================================================
