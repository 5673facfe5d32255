------------------------------- MODULE Kthread -------------------------------
(***************************************************************************)
(* Kernel threads, new/kernel/kthread.c: creation through kthreadd, and    *)
(* the stop and park protocol between a thread and the task that controls  *)
(* it.  The control task calls one function at a time; call says where in  *)
(* it the task is and "none" that it is in none.  What the thread function *)
(* does is left to the module that extends this one, which enters it at    *)
(* "loop".                                                                 *)
(*                                                                         *)
(* A thread and the kthread_create_info it was created with have the same  *)
(* name.  A step is what happens between two accesses to shared state; a   *)
(* wakeup changes the state of a thread and makes it runnable at once.     *)
(***************************************************************************)
EXTENDS Integers, Sequences

CONSTANTS
  CPUS,        \* possible CPUs, numbered
  THREADS      \* names of threads, numbered

ASSUME KthreadAssumption == CPUS \subseteq Nat /\ THREADS \subseteq Nat

NoThread == -1
NoCpu == -1

VARIABLES
  online,      \* CPUs that are online
  list,        \* kthread_create_list
  kdpc,        \* where kthreadd is
  kdstate,     \* task state of kthreadd
  mem,         \* the kthread_create_info that are allocated
  done,        \* those whose ->done is not NULL
  completed,   \* those whose completion has been signalled
  result,      \* ->result: "task" or "error"
  tpc,         \* where each thread is, "none" if it does not exist
  tstate,      \* its task state
  asleep,      \* threads that schedule() has taken off the run queue
  flags,       \* kthread->flags
  cpu,         \* kthread->cpu
  bound,       \* threads whose affinity is cpu
  parked,      \* threads whose completion ->parked has been signalled
  call,        \* where the control task is
  thr,         \* the thread it deals with
  ret          \* what the last function has returned

kd == <<list, kdpc, kdstate>>
create == <<mem, done, completed, result>>
thread == <<tpc, tstate, asleep, flags, cpu, bound, parked>>
control == <<call, thr, ret>>

KInit ==
  /\ list = <<>> /\ kdpc = "set" /\ kdstate = "RUNNING"
  /\ mem = {} /\ done = {} /\ completed = {}
  /\ result = [t \in THREADS |-> "error"]
  /\ tpc = [t \in THREADS |-> "none"]
  /\ tstate = [t \in THREADS |-> "RUNNING"]
  /\ asleep = {}
  /\ flags = [t \in THREADS |-> {}]
  /\ cpu = [t \in THREADS |-> NoCpu]
  /\ bound = {} /\ parked = {}
  /\ call = "none" /\ thr = NoThread /\ ret = "ok"

\* What a loop in ascending order comes to next, if anything.
First(S) == {n \in S : \A m \in S : n <= m}

Goto(t, label) == tpc' = [tpc EXCEPT ![t] = label]
SetState(t, s) == tstate' = [tstate EXCEPT ![t] = s]

NORMAL == {"INTERRUPTIBLE", "UNINTERRUPTIBLE"}

\* try_to_wake_up(t, states).  A thread bound to a CPU that is not online is put
\* on another one and loses its affinity (select_fallback_rq).
Wake(t, states) ==
  \/ /\ tstate[t] \in states
     /\ SetState(t, "RUNNING")
     /\ asleep' = asleep \ {t}
     /\ bound' = IF t \in asleep /\ cpu[t] \notin online THEN bound \ {t} ELSE bound
  \/ /\ tstate[t] \notin states
     /\ UNCHANGED <<tstate, asleep, bound>>

\* schedule() of thread t, which goes on at label.
Schedule(t, label) ==
  /\ asleep' = IF tstate[t] = "RUNNING" THEN asleep ELSE asleep \cup {t}
  /\ Goto(t, label)

\* Thread t is at label and on a CPU.
At(t, label) == tpc[t] = label /\ t \notin asleep

-----------------------------------------------------------------------------
(* __kthread_create_on_node, kthread_create_on_cpu *)

Free == {t \in THREADS : tpc[t] = "none" /\ t \notin mem}

\* A request goes on kthread_create_list; or there is no memory for it.
Create ==
  /\ call = "create"
  /\ \/ /\ thr' \in First(Free)
        /\ mem' = mem \cup {thr'}
        /\ done' = done \cup {thr'}
        /\ list' = Append(list, thr')
        /\ call' = "kdwake"
        /\ UNCHANGED ret
     \/ /\ call' = "none" /\ ret' = "error"
        /\ UNCHANGED <<thr, mem, done, list>>
  /\ UNCHANGED <<online, kdpc, kdstate, completed, result, thread>>

\* wake_up_process(kthreadd_task)
CreateWake ==
  /\ call = "kdwake"
  /\ kdstate' = "RUNNING"
  /\ call' = "wait"
  /\ UNCHANGED <<online, list, kdpc, create, thread, thr, ret>>

\* wait_for_completion_killable, wait_for_completion
CreateWait ==
  /\ call \in {"wait", "wait2"} /\ thr \in completed
  /\ completed' = completed \ {thr}
  /\ call' = "result"
  /\ UNCHANGED <<online, kd, mem, done, result, thread, thr, ret>>

\* SIGKILL while waiting, before the completion.
CreateKilled ==
  /\ call = "wait" /\ thr \notin completed
  /\ call' = "killed"
  /\ UNCHANGED <<online, kd, create, thread, thr, ret>>

\* Mutant: a killed creator frees the request itself.
CreateXchgFrees ==
  /\ call = "killed"
  /\ done' = done \ {thr}
  /\ \/ thr \in done /\ mem' = mem \ {thr} /\ call' = "none" /\ ret' = "error"
     \/ thr \notin done /\ call' = "wait2" /\ UNCHANGED <<mem, ret>>
  /\ UNCHANGED <<online, kd, completed, result, thread, thr>>

\* xchg(&create->done, NULL): leave the request to the other side, or wait for it.
CreateXchg ==
  /\ call = "killed"
  /\ done' = done \ {thr}
  /\ \/ thr \in done /\ call' = "none" /\ ret' = "error"
     \/ thr \notin done /\ call' = "wait2" /\ UNCHANGED ret
  /\ UNCHANGED <<online, kd, mem, completed, result, thread, thr>>

\* kfree(create)
CreateResult ==
  /\ call = "result"
  /\ mem' = mem \ {thr}
  /\ result' = [result EXCEPT ![thr] = "error"]
  /\ \/ result[thr] = "task" /\ call' = "bind" /\ UNCHANGED ret
     \/ result[thr] = "error" /\ call' = "none" /\ ret' = "error"
  /\ UNCHANGED <<online, kd, done, completed, thread, thr>>

\* kthread_bind(p, c) waits for the thread to be off its CPU; KTHREAD_IS_PER_CPU.
CreateBind(c) ==
  /\ call = "bind" /\ (tstate[thr] = "UNINTERRUPTIBLE" => thr \in asleep)
  /\ bound' = IF tstate[thr] = "UNINTERRUPTIBLE" THEN bound \cup {thr} ELSE bound
  /\ cpu' = [cpu EXCEPT ![thr] = c]
  /\ flags' = [flags EXCEPT ![thr] = @ \cup {"PER_CPU"}]
  /\ call' = "none" /\ ret' = "ok"
  /\ UNCHANGED <<online, kd, create, tpc, tstate, asleep, parked, thr>>

-----------------------------------------------------------------------------
(* kthread_park, kthread_unpark, kthread_stop *)

\* kthread_park: the flag; it refuses a thread that exits or is to park already.
Park ==
  /\ call = "park"
  /\ LET refused == "SHOULD_PARK" \in flags[thr] \/ tpc[thr] = "exited" IN
       /\ flags' = IF refused THEN flags ELSE [flags EXCEPT ![thr] = @ \cup {"SHOULD_PARK"}]
       /\ call' = IF refused THEN "none" ELSE "parkwake"
       /\ ret' = IF refused THEN "error" ELSE ret
  /\ UNCHANGED <<online, kd, create, tpc, tstate, asleep, cpu, bound, parked, thr>>

ParkWake ==
  /\ call = "parkwake"
  /\ Wake(thr, NORMAL)
  /\ call' = "parkwait"
  /\ UNCHANGED <<online, kd, create, tpc, flags, cpu, parked, thr, ret>>

\* wait_for_completion(&kthread->parked)
ParkWait ==
  /\ call = "parkwait" /\ thr \in parked
  /\ parked' = parked \ {thr}
  /\ call' = "parkidle"
  /\ UNCHANGED <<online, kd, create, tpc, tstate, asleep, flags, cpu, bound, thr, ret>>

\* Mutant: the completion alone is taken for the thread being off its CPU.
ParkIdleAtOnce ==
  /\ call = "parkidle"
  /\ call' = "none" /\ ret' = "ok"
  /\ UNCHANGED <<online, kd, create, thread, thr>>

\* wait_task_inactive(k, TASK_PARKED)
ParkIdle ==
  /\ call = "parkidle" /\ (tstate[thr] = "PARKED" => thr \in asleep)
  /\ call' = "none" /\ ret' = "ok"
  /\ UNCHANGED <<online, kd, create, thread, thr>>

\* Mutant: the thread is not bound again.
UnparkUnbound ==
  /\ call = "unpark" /\ (tstate[thr] = "PARKED" => thr \in asleep)
  /\ call' = "clear"
  /\ UNCHANGED <<online, kd, create, thread, thr, ret>>

\* __kthread_bind(k, kthread->cpu, TASK_PARKED): waits for a parked thread to be
\* off its CPU; warns and leaves the affinity alone if the thread is not parked.
UnparkBind ==
  /\ call = "unpark" /\ (tstate[thr] = "PARKED" => thr \in asleep)
  /\ bound' = IF tstate[thr] = "PARKED" /\ "PER_CPU" \in flags[thr]
              THEN bound \cup {thr} ELSE bound
  /\ call' = "clear"
  /\ UNCHANGED <<online, kd, create, tpc, tstate, asleep, flags, cpu, parked, thr, ret>>

UnparkClear ==
  /\ call = "clear"
  /\ flags' = [flags EXCEPT ![thr] = @ \ {"SHOULD_PARK"}]
  /\ call' = "unparkwake"
  /\ UNCHANGED <<online, kd, create, tpc, tstate, asleep, cpu, bound, parked, thr, ret>>

\* wake_up_state(k, TASK_PARKED); kthread_stop goes on from here.
UnparkWake ==
  /\ call = "unparkwake"
  /\ Wake(thr, {"PARKED"})
  /\ \/ "SHOULD_STOP" \in flags[thr] /\ call' = "stopwake" /\ UNCHANGED ret
     \/ "SHOULD_STOP" \notin flags[thr] /\ call' = "none" /\ ret' = "ok"
  /\ UNCHANGED <<online, kd, create, tpc, flags, cpu, parked, thr>>

\* Mutant: kthread_stop does not unpark.
StopParked ==
  /\ call = "stop"
  /\ flags' = [flags EXCEPT ![thr] = @ \cup {"SHOULD_STOP"}]
  /\ call' = "stopwake"
  /\ UNCHANGED <<online, kd, create, tpc, tstate, asleep, cpu, bound, parked, thr, ret>>

Stop ==
  /\ call = "stop"
  /\ flags' = [flags EXCEPT ![thr] = @ \cup {"SHOULD_STOP"}]
  /\ call' = "unpark"
  /\ UNCHANGED <<online, kd, create, tpc, tstate, asleep, cpu, bound, parked, thr, ret>>

StopWake ==
  /\ call = "stopwake"
  /\ Wake(thr, NORMAL)
  /\ call' = "stopwait"
  /\ UNCHANGED <<online, kd, create, tpc, flags, cpu, parked, thr, ret>>

\* wait_for_completion(&kthread->exited); the last reference to the thread goes.
StopWait ==
  /\ call = "stopwait" /\ tpc[thr] = "exited"
  /\ Goto(thr, "none")
  /\ flags' = [flags EXCEPT ![thr] = {}]
  /\ cpu' = [cpu EXCEPT ![thr] = NoCpu]
  /\ bound' = bound \ {thr} /\ parked' = parked \ {thr}
  /\ call' = "none" /\ ret' = "ok"
  /\ UNCHANGED <<online, kd, create, tstate, asleep, thr>>

-----------------------------------------------------------------------------
(* kthreadd *)

KdSet ==
  /\ kdpc = "set"
  /\ kdstate' = "INTERRUPTIBLE" /\ kdpc' = "test"
  /\ UNCHANGED <<online, list, create, thread, control>>

KdTest ==
  /\ kdpc = "test"
  /\ \/ list = <<>> /\ kdpc' = "sleep" /\ UNCHANGED kdstate
     \/ list # <<>> /\ kdpc' = "drain" /\ kdstate' = "RUNNING"
  /\ UNCHANGED <<online, list, create, thread, control>>

\* schedule() has returned.
KdWoken ==
  /\ kdpc = "sleep" /\ kdstate = "RUNNING"
  /\ kdpc' = "drain"
  /\ UNCHANGED <<online, list, kdstate, create, thread, control>>

\* Take a request; create_kthread forks the thread, or fails and tells the creator
\* before it takes the next one.
KdFork ==
  /\ kdpc = "drain" /\ \A t \in THREADS : tpc[t] \notin {"failed", "faildone"}
  /\ \/ list = <<>> /\ kdpc' = "set" /\ UNCHANGED <<list, tpc, tstate>>
     \/ /\ list # <<>>
        /\ list' = Tail(list)
        /\ \/ Goto(Head(list), "start") /\ SetState(Head(list), "RUNNING")
           \/ Goto(Head(list), "failed") /\ UNCHANGED tstate
        /\ UNCHANGED kdpc
  /\ UNCHANGED <<online, kdstate, create, asleep, flags, cpu, bound, parked, control>>

\* create_kthread after a failed fork, and kthread(), which may have no memory for
\* its struct kthread, take ->done; if the creator was killed they free the request.
TakeDone(t) ==
  /\ tpc[t] \in {"start", "failed"}
  /\ done' = done \ {t}
  /\ \/ /\ t \notin done
        /\ mem' = mem \ {t}
        /\ Goto(t, "none")
     \/ /\ t \in done
        /\ \/ tpc[t] = "failed" /\ Goto(t, "faildone")
           \/ tpc[t] = "start" /\ (Goto(t, "error") \/ Goto(t, "created"))
        /\ UNCHANGED mem
  /\ UNCHANGED <<online, kd, completed, result, tstate, asleep, flags, cpu, bound, parked, control>>

\* ->result and complete(done): a new thread, or an error.
Complete(t) ==
  /\ tpc[t] \in {"error", "faildone", "created"}
  /\ completed' = completed \cup {t}
  /\ \/ /\ tpc[t] # "created"
        /\ result' = [result EXCEPT ![t] = "error"]
        /\ Goto(t, "none")
        /\ UNCHANGED tstate
     \/ /\ tpc[t] = "created"
        /\ result' = [result EXCEPT ![t] = "task"]
        /\ SetState(t, "UNINTERRUPTIBLE")
        /\ Goto(t, "csched")
  /\ UNCHANGED <<online, kd, mem, done, asleep, flags, cpu, bound, parked, control>>

-----------------------------------------------------------------------------
(* kthread() after its creation, and __kthread_parkme *)

FirstSchedule(t) ==
  /\ At(t, "csched")
  /\ Schedule(t, "woken")
  /\ UNCHANGED <<online, kd, create, tstate, flags, cpu, bound, parked, control>>

\* Exit without calling the thread function if it is to stop.
FirstWoken(t) ==
  /\ At(t, "woken")
  /\ Goto(t, IF "SHOULD_STOP" \in flags[t] THEN "exited" ELSE "pkset")
  /\ UNCHANGED <<online, kd, create, tstate, asleep, flags, cpu, bound, parked, control>>

ParkSet(t) ==
  /\ At(t, "pkset")
  /\ SetState(t, "PARKED")
  /\ Goto(t, "pktest")
  /\ UNCHANGED <<online, kd, create, asleep, flags, cpu, bound, parked, control>>

ParkTest(t) ==
  /\ At(t, "pktest")
  /\ \/ /\ "SHOULD_PARK" \in flags[t]
        /\ parked' = parked \cup {t}
        /\ Goto(t, "pksched")
        /\ UNCHANGED tstate
     \/ /\ "SHOULD_PARK" \notin flags[t]
        /\ SetState(t, "RUNNING")
        /\ Goto(t, "loop")
        /\ UNCHANGED parked
  /\ UNCHANGED <<online, kd, create, asleep, flags, cpu, bound, control>>

ParkSchedule(t) ==
  /\ At(t, "pksched")
  /\ Schedule(t, "pkset")
  /\ UNCHANGED <<online, kd, create, tstate, flags, cpu, bound, parked, control>>

-----------------------------------------------------------------------------

Kthreadd == KdSet \/ KdTest \/ KdWoken \/ KdFork

ThreadStep(t) ==
  TakeDone(t) \/ Complete(t) \/ FirstSchedule(t) \/ FirstWoken(t)
    \/ ParkSet(t) \/ ParkTest(t) \/ ParkSchedule(t)

ControlStep(c) ==
  \/ Create \/ CreateWake \/ CreateWait \/ CreateXchg \/ CreateResult \/ CreateBind(c)
  \/ Park \/ ParkWake \/ ParkWait \/ ParkIdle
  \/ UnparkBind \/ UnparkClear \/ UnparkWake
  \/ Stop \/ StopWake \/ StopWait

=============================================================================
