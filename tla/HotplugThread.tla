---------------------------- MODULE HotplugThread ----------------------------
(***************************************************************************)
(* The per-CPU threads of new/kernel/smpboot.c: registration, the CPU      *)
(* hotplug callbacks that create, park and unpark the threads, and the     *)
(* thread function smpboot_thread_fn, on top of Kthread.  One descriptor   *)
(* is enough: the threads of two descriptors meet only in the lists.       *)
(*                                                                         *)
(* smpboot_threads_lock and the CPU hotplug lock let one control task at a *)
(* time be in these functions.                                             *)
(***************************************************************************)
EXTENDS Kthread

VARIABLES
  ht_park,     \* the descriptor has park and unpark callbacks
  registered,  \* the descriptor is on hotplug_threads
  store,       \* ht->store: the thread of each CPU
  status,      \* td->status of each thread
  hpc,         \* where the control task is
  op,          \* what it does: "register", "unregister", "up" or "down"
  hcpu,        \* the CPU it deals with
  todo         \* CPUs left in its loop

kvars == <<online, kd, create, thread, control>>
smpboot == <<registered, store, hpc, op, hcpu, todo>>
vars == <<kvars, smpboot, ht_park, status>>

Init ==
  /\ KInit
  /\ online = CPUS
  /\ ht_park \in BOOLEAN
  /\ registered = FALSE
  /\ store = [c \in CPUS |-> NoThread]
  /\ status = [t \in THREADS |-> "NONE"]
  /\ hpc = "idle" /\ op = "none" /\ hcpu = NoCpu /\ todo = {}

Idle == hpc = "idle"

\* Call a function of Kthread for thread t.
Call(function, t) ==
  /\ call' = function
  /\ thr' = t
  /\ UNCHANGED <<online, kd, create, thread, ret>>

Created == {c \in CPUS : store[c] # NoThread}

-----------------------------------------------------------------------------
(* smpboot_register_percpu_thread, smpboot_unregister_percpu_thread *)

Register ==
  /\ Idle /\ ~registered
  /\ hpc' = "next" /\ op' = "register" /\ todo' = online
  /\ UNCHANGED <<kvars, registered, store, hcpu, ht_park, status>>

\* The loop over the CPUs that are online.
RegisterNext ==
  /\ hpc = "next" /\ call = "none"
  /\ \/ /\ todo = {}
        /\ registered' = TRUE
        /\ hpc' = "finish"
        /\ UNCHANGED <<kvars, hcpu>>
     \/ /\ hcpu' \in First(todo)
        /\ hpc' = "create"
        /\ Call("create", NoThread)
        /\ UNCHANGED registered
  /\ UNCHANGED <<store, op, todo, ht_park, status>>

\* __smpboot_create_thread, after kthread_create_on_cpu: kthread_park.
CreateThread ==
  /\ hpc = "create" /\ call = "none"
  /\ \/ /\ ret = "ok"
        /\ Call("park", thr)
        /\ status' = [status EXCEPT ![thr] = "NONE"]
        /\ hpc' = "store"
        /\ UNCHANGED todo
     \/ /\ ret = "error"
        /\ hpc' = IF op = "register" THEN "destroy" ELSE "finish"
        /\ todo' = Created
        /\ UNCHANGED <<kvars, status>>
  /\ UNCHANGED <<registered, store, op, hcpu, ht_park>>

\* The thread is stored.  Before ht->create, wait_task_inactive(TASK_PARKED) waits
\* for a parked thread to have scheduled out, and gives up (WARN_ON) on one in
\* another state; the callback itself changes nothing here.  Then
\* smpboot_register_percpu_thread unparks the thread.
StoreThread ==
  /\ hpc = "store" /\ call = "none"
  /\ tstate[thr] = "PARKED" => thr \in asleep
  /\ store' = [store EXCEPT ![hcpu] = thr]
  /\ \/ /\ op = "register"
        /\ Call("unpark", thr)
        /\ todo' = todo \ {hcpu}
        /\ hpc' = "next"
     \/ /\ op = "up"
        /\ hpc' = "up"
        /\ UNCHANGED <<kvars, todo>>
  /\ UNCHANGED <<registered, op, hcpu, ht_park, status>>

Unregister ==
  /\ Idle /\ registered
  /\ registered' = FALSE
  /\ hpc' = "destroy" /\ op' = "unregister" /\ todo' = Created
  /\ UNCHANGED <<kvars, store, hcpu, ht_park, status>>

\* smpboot_destroy_threads
Destroy ==
  /\ hpc = "destroy" /\ call = "none"
  /\ \/ /\ todo = {}
        /\ hpc' = "finish"
        /\ UNCHANGED <<kvars, hcpu>>
     \/ /\ hcpu' \in First(todo)
        /\ Call("stop", store[hcpu'])
        /\ hpc' = "stopped"
  /\ UNCHANGED <<registered, store, op, todo, ht_park, status>>

DestroyNext ==
  /\ hpc = "stopped" /\ call = "none"
  /\ store' = [store EXCEPT ![hcpu] = NoThread]
  /\ todo' = todo \ {hcpu}
  /\ hpc' = "destroy"
  /\ UNCHANGED <<kvars, registered, op, hcpu, ht_park, status>>

-----------------------------------------------------------------------------
(* CPU hotplug: smpboot_create_threads and smpboot_unpark_threads when a CPU *)
(* comes up, smpboot_park_threads when it goes down.                         *)

CpuUp(c) ==
  /\ Idle /\ c \notin online
  /\ op' = "up" /\ hcpu' = c
  /\ \/ /\ registered /\ store[c] = NoThread
        /\ hpc' = "create"
        /\ Call("create", NoThread)
     \/ /\ ~registered \/ store[c] # NoThread
        /\ hpc' = "up"
        /\ UNCHANGED kvars
  /\ UNCHANGED <<registered, store, todo, ht_park, status>>

UnparkThreads ==
  \/ registered /\ call' = "unpark" /\ thr' = store[hcpu]
  \/ ~registered /\ UNCHANGED <<call, thr>>

CpuOnline ==
  /\ hpc = "up" /\ call = "none"
  /\ online' = online \cup {hcpu}
  /\ UnparkThreads
  /\ hpc' = "finish"
  /\ UNCHANGED <<kd, create, thread, ret, registered, store, op, hcpu, todo,
                 ht_park, status>>

CpuDown(c) ==
  /\ Idle /\ c \in online /\ online # {c}
  /\ op' = "down" /\ hcpu' = c /\ hpc' = "down"
  /\ \/ registered /\ store[c] # NoThread /\ Call("park", store[c])
     \/ (~registered \/ store[c] = NoThread) /\ UNCHANGED kvars
  /\ UNCHANGED <<registered, store, todo, ht_park, status>>

\* The CPU is gone; or a later step of its removal fails and it is brought back.
CpuOffline ==
  /\ hpc = "down" /\ call = "none"
  /\ \/ online' = online \ {hcpu} /\ UNCHANGED <<call, thr>>
     \/ UnparkThreads /\ UNCHANGED online
  /\ hpc' = "finish"
  /\ UNCHANGED <<kd, create, thread, ret, registered, store, op, hcpu, todo,
                 ht_park, status>>

\* The control task drops its locks.
Finish ==
  /\ hpc = "finish" /\ call = "none"
  /\ hpc' = "idle" /\ op' = "none" /\ hcpu' = NoCpu /\ todo' = {}
  /\ thr' = NoThread /\ ret' = "ok"
  /\ UNCHANGED <<online, kd, create, thread, call, registered, store, ht_park, status>>

-----------------------------------------------------------------------------
(* smpboot_thread_fn *)

LoopSet(t) ==
  /\ At(t, "loop")
  /\ SetState(t, "INTERRUPTIBLE")
  /\ Goto(t, "stop?")
  /\ UNCHANGED <<online, kd, create, asleep, flags, cpu, bound, parked, control,
                 smpboot, ht_park, status>>

\* kthread_should_stop: cleanup, if setup was called, and exit.
LoopStop(t) ==
  /\ At(t, "stop?")
  /\ \/ "SHOULD_STOP" \in flags[t] /\ SetState(t, "RUNNING") /\ Goto(t, "cleanup")
     \/ "SHOULD_STOP" \notin flags[t] /\ Goto(t, "park?") /\ UNCHANGED tstate
  /\ UNCHANGED <<online, kd, create, asleep, flags, cpu, bound, parked, control,
                 smpboot, ht_park, status>>

\* kthread_should_park; otherwise the callback that status calls for, or what
\* thread_should_run decides: the thread function or schedule().
LoopPark(t) ==
  /\ At(t, "park?")
  /\ \E next \in
        IF "SHOULD_PARK" \in flags[t]
        THEN {IF ht_park /\ status[t] = "ACTIVE" THEN "park" ELSE "pkset"}
        ELSE CASE status[t] = "NONE" -> {"setup"}
               [] status[t] = "PARKED" -> {"unpark"}
               [] status[t] = "ACTIVE" -> {"run", "sched"} :
       /\ Goto(t, next)
       /\ IF next = "sched" THEN UNCHANGED tstate ELSE SetState(t, "RUNNING")
  /\ UNCHANGED <<online, kd, create, asleep, flags, cpu, bound, parked, control,
                 smpboot, ht_park, status>>

LoopSchedule(t) ==
  /\ At(t, "sched")
  /\ Schedule(t, "loop")
  /\ UNCHANGED <<online, kd, create, tstate, flags, cpu, bound, parked, control,
                 smpboot, ht_park, status>>

\* ht->setup, ht->park, ht->unpark, ht->thread_fn and ht->cleanup.
Callback(t) ==
  /\ \/ /\ At(t, "setup") \/ At(t, "unpark")
        /\ status' = [status EXCEPT ![t] = "ACTIVE"]
        /\ Goto(t, "loop")
     \/ /\ At(t, "park")
        /\ status' = [status EXCEPT ![t] = "PARKED"]
        /\ Goto(t, "pkset")
     \/ /\ At(t, "run")
        /\ Goto(t, "loop")
        /\ UNCHANGED status
     \/ /\ At(t, "cleanup")
        /\ status' = [status EXCEPT ![t] = "NONE"]
        /\ Goto(t, "exited")
  /\ UNCHANGED <<online, kd, create, tstate, asleep, flags, cpu, bound, parked, control,
                 smpboot, ht_park>>

\* Someone has work for the thread of CPU c and wakes it.
Kick(c) ==
  /\ store[c] # NoThread
  /\ Wake(store[c], NORMAL)
  /\ UNCHANGED <<online, kd, create, tpc, flags, cpu, parked, control, smpboot,
                 ht_park, status>>

-----------------------------------------------------------------------------

Begin == Register \/ Unregister \/ \E c \in CPUS : CpuUp(c) \/ CpuDown(c)

Continue ==
  RegisterNext \/ CreateThread \/ StoreThread \/ Destroy \/ DestroyNext
    \/ CpuOnline \/ CpuOffline \/ Finish

LoopStep(t) ==
  LoopSet(t) \/ LoopStop(t) \/ LoopPark(t) \/ LoopSchedule(t) \/ Callback(t)

rest == <<smpboot, ht_park, status>>

ControlTask == Continue \/ (ControlStep(hcpu) /\ UNCHANGED rest)
KthreaddTask == Kthreadd /\ UNCHANGED rest
Thread(t) == LoopStep(t) \/ (ThreadStep(t) /\ UNCHANGED rest)

Next ==
  \/ Begin \/ ControlTask \/ (CreateKilled /\ UNCHANGED rest) \/ KthreaddTask
  \/ \E t \in THREADS : Thread(t)
  \/ \E c \in CPUS : Kick(c)

Spec == Init /\ [][Next]_vars

\* The control task, kthreadd and every thread that is runnable get to run.
\* Nobody has to begin an operation, to be killed or to wake a thread.
Fairness ==
  /\ WF_vars(ControlTask) /\ WF_vars(KthreaddTask)
  /\ \A t \in THREADS : WF_vars(Thread(t))

FairSpec == Spec /\ Fairness

-----------------------------------------------------------------------------
(* Properties *)

\* Someone will look at the request t again: it is listed, kthreadd or the new
\* thread has not answered yet, or the creator waits for the answer.
InUse(t) ==
  \/ \E i \in DOMAIN list : list[i] = t
  \/ tpc[t] \in {"start", "failed", "faildone", "error", "created"}
  \/ thr = t /\ call \in {"kdwake", "wait", "killed", "wait2", "result"}

\* "If user was SIGKILLed, I release the structure": a kthread_create_info is
\* there as long as one of creator, kthreadd and thread will look at it, and is
\* freed when the last of them is through, whoever that is after a SIGKILL.
CreateFreedOnce == \A t \in THREADS : t \in mem <=> InUse(t)

\* BUG_ON(td->cpu != smp_processor_id()): the callbacks of a hotplug thread run on
\* its own CPU, and that is online, although the thread was created and parked
\* elsewhere while the CPU was down.
OnItsCpu ==
  \A t \in THREADS :
    tpc[t] \in {"setup", "park", "unpark", "run", "sched"} =>
      t \in bound /\ cpu[t] \in online

\* The control task is inside kthread_park, kthread_unpark or kthread_stop of t.
Changing(t) == thr = t /\ call \notin {"none", "unpark"}

\* "wait for that schedule() to complete and the task to get scheduled out": from
\* the return of kthread_park until kthread_unpark a thread is off the CPU in
\* TASK_PARKED, whoever wakes it meanwhile; and the threads of CPUs that are not
\* online are parked.
ParkHolds ==
  \A c \in Created :
    LET t == store[c] IN
      /\ "SHOULD_PARK" \in flags[t] /\ ~Changing(t) => t \in asleep /\ tstate[t] = "PARKED"
      /\ c \notin online /\ hpc # "stopped" => "SHOULD_PARK" \in flags[t]

\* __kthread_bind_mask: WARN_ON(1) if the thread is not inactive in the expected
\* state, "It's safe because the task is inactive".
BindFindsInactive ==
  /\ call = "unpark" /\ "PER_CPU" \in flags[thr] => tstate[thr] = "PARKED"
  /\ call = "bind" => tstate[thr] = "UNINTERRUPTIBLE"

\* Registering, unregistering and CPU hotplug come to an end: neither creating,
\* parking nor stopping a thread misses the wakeup or completion it waits for.
OperationsReturn == hpc # "idle" ~> hpc = "idle"

=============================================================================
