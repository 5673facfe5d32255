------------------------ MODULE HotplugThreadProofs ------------------------
(***************************************************************************)
(* Proofs about HotplugThread, for any sets of CPUs and threads: creation  *)
(* requests are freed once, the callbacks of a per-CPU thread run on its   *)
(* CPU, and a parked thread stays parked.                                  *)
(*                                                                         *)
(* HotplugInv has three parts.  Requests follows a kthread_create_info     *)
(* between its creator, kthreadd and the new thread.  Control relates the  *)
(* place of the control task to the threads stored per CPU.  Threads says  *)
(* of every thread where it can be, given its flags, what the control task *)
(* is doing to it and whether its CPU is online.                           *)
(***************************************************************************)
EXTENDS HotplugThread, TLAPS

\* Where a request and a thread can be: kthreadd has taken the request, has a
\* result for it, or the thread has not run its function yet.
Pending == {"start", "failed"}
Answering == {"faildone", "error", "created"}
Fresh == {"none", "csched"} \cup Pending \cup Answering

\* Inside __kthread_parkme, inside the loop of smpboot_thread_fn, and of that where
\* the thread must be on its CPU.
Parking == {"pkset", "pktest", "pksched"}
OnCpu == {"setup", "park", "unpark", "run", "sched"}
Looping == {"loop", "stop?", "park?", "cleanup", "exited"} \cup OnCpu

\* Where the thread of a CPU that is not online can be.
Leaving == {"pkset", "pktest", "loop", "stop?", "cleanup", "exited", "none"}
Labels == {"woken"} \cup Fresh \cup Parking \cup Looping

Flags == {"SHOULD_PARK", "SHOULD_STOP", "PER_CPU"}

\* Where the control task is in __kthread_create_on_node with a request, in
\* kthread_unpark and in kthread_park past setting the flag.
Creating == {"kdwake", "wait", "killed", "wait2", "result"}
Unparking == {"unpark", "clear", "unparkwake"}
InPark == {"parkwake", "parkwait", "parkidle"}

\* The types of the variables the invariant is about.
TypeOK ==
  /\ online \subseteq CPUS
  /\ list \in Seq(THREADS)
  /\ mem \subseteq THREADS
  /\ result \in [THREADS -> {"task", "error"}]
  /\ tpc \in [THREADS -> Labels]
  /\ tstate \in [THREADS -> {"RUNNING", "INTERRUPTIBLE", "UNINTERRUPTIBLE", "PARKED"}]
  /\ flags \in [THREADS -> SUBSET Flags]
  /\ cpu \in [THREADS -> CPUS \cup {NoCpu}]
  /\ status \in [THREADS -> {"NONE", "ACTIVE", "PARKED"}]
  /\ thr \in THREADS \cup {NoThread}
  /\ store \in [CPUS -> THREADS \cup {NoThread}]
  /\ hcpu \in CPUS \cup {NoCpu}
  /\ todo \subseteq CPUS

-----------------------------------------------------------------------------
(* The request *)

\* The request is in kthread_create_list; its creator has not given up.
Listed(t) == \E i \in 1..Len(list) : list[i] = t
Asks(t) == thr = t /\ call \in Creating

\* No request is in kthread_create_list twice.
ListOnce == \A i, j \in 1..Len(list) : list[i] = list[j] => i = j

\* Whoever has yet to look at a request keeps it allocated.  create->done is set as
\* long as the creator wants an answer and nobody has taken it; completion is the
\* answerer's last access.
Request(t) ==
  /\ t \in mem <=> Listed(t) \/ tpc[t] \in Pending \cup Answering \/ Asks(t)
  /\ Listed(t) => tpc[t] = "none"
  /\ Listed(t) \/ tpc[t] \in Pending =>
       /\ t \in done <=> Asks(t)
       /\ t \notin completed
       /\ Asks(t) => call \in {"kdwake", "wait", "killed"}
  /\ tpc[t] \in Answering => t \notin completed
  /\ tpc[t] \in Answering \/ t \in completed => t \notin done /\ Asks(t) /\ call # "result"
  /\ t \in done => Listed(t) \/ tpc[t] \in Pending

-----------------------------------------------------------------------------
(* The control task *)

\* Which function of Kthread runs for which step of smpboot.c.
CallOK ==
  \/ hpc = "idle" /\ call = "none" /\ op = "none"
  \/ hpc = "next" /\ op = "register" /\ call \in Unparking \cup {"none"}
  \/ /\ hpc = "create" /\ op \in {"register", "up"}
     /\ call \in Creating \cup {"create", "bind", "none"}
  \/ /\ hpc = "store" /\ op \in {"register", "up"}
     /\ call \in InPark \cup {"park", "none"}
  \/ hpc = "destroy" /\ op \in {"register", "unregister"} /\ call = "none"
  \/ /\ hpc = "stopped" /\ op \in {"register", "unregister"}
     /\ call \in Unparking \cup {"stop", "stopwake", "stopwait", "none"}
  \/ hpc = "up" /\ op = "up" /\ call = "none"
  \/ hpc = "down" /\ op = "down" /\ call \in InPark \cup {"park", "none"}
  \/ hpc = "finish" /\ call \in Unparking \cup {"none"}

\* Thread t is in ht->store of some CPU.
Stored(t) == \E c \in CPUS : store[c] = t

\* The control task has a thread that is not stored yet.
HasNew ==
  \/ hpc = "create" /\ call \in Creating \cup {"bind"}
  \/ hpc = "create" /\ call = "none" /\ ret = "ok"
  \/ hpc = "store"

\* The thread that the control task deals with: a new one, or that of CPU hcpu.
TargetOK ==
  /\ \A c, d \in CPUS : store[c] = store[d] /\ store[c] # NoThread => c = d
  /\ HasNew => thr \in THREADS /\ ~Stored(thr)
  /\ hpc \in {"create", "store"} => hcpu \in CPUS /\ store[hcpu] = NoThread
  /\ call \in Unparking => hcpu \in CPUS /\ store[hcpu] = thr /\ thr \in THREADS
  /\ call \in Unparking /\ hpc # "stopped" => hcpu \in online
  /\ hpc = "down" => hcpu \in online
  /\ hpc = "down" /\ call # "none" => store[hcpu] = thr /\ thr \in THREADS
  /\ hpc = "stopped" => hcpu \in todo /\ store[hcpu] = thr /\ thr \in THREADS
  /\ hpc = "up" => hcpu \in CPUS \ online

\* Which CPUs have a thread: all that are online once the descriptor is registered,
\* those the loop has done during registration, those left during destruction.
RegOK ==
  /\ registered => \A c \in online : store[c] # NoThread
  /\ hpc = "up" /\ registered => store[hcpu] # NoThread
  /\ ~registered /\ hpc \in {"idle", "finish", "up", "down"} =>
       \A c \in CPUS : store[c] = NoThread
  /\ hpc \in {"destroy", "stopped"} =>
       ~registered /\ \A c \in CPUS : store[c] # NoThread <=> c \in todo
  /\ op = "register" /\ hpc # "finish" => ~registered
  /\ hpc \in {"create", "store"} /\ op = "up" => registered /\ hcpu \notin online
  /\ hpc \in {"next", "create", "store"} /\ op = "register" =>
       /\ todo \subseteq online
       /\ \A c \in CPUS : store[c] # NoThread <=> c \in online \ todo
  /\ hpc \in {"create", "store"} /\ op = "register" => hcpu \in todo

-----------------------------------------------------------------------------
(* A thread *)

\* KTHREAD_SHOULD_PARK and KTHREAD_SHOULD_STOP.
SP(t) == "SHOULD_PARK" \in flags[t]
ST(t) == "SHOULD_STOP" \in flags[t]

\* The thread sleeps in __kthread_parkme.
Parked(t) == t \in asleep /\ tstate[t] = "PARKED" /\ tpc[t] = "pkset"

\* What a thread's place says about its own state and flags.
Local(t) ==
  /\ t \in asleep => \/ tpc[t] = "woken" /\ tstate[t] = "UNINTERRUPTIBLE"
                     \/ tpc[t] = "pkset" /\ tstate[t] = "PARKED"
                     \/ tpc[t] = "loop" /\ tstate[t] = "INTERRUPTIBLE"
  /\ tpc[t] = "csched" => tstate[t] = "UNINTERRUPTIBLE"
  /\ tpc[t] = "pksched" => tstate[t] = "PARKED" /\ SP(t)
  /\ tpc[t] = "pktest" /\ tstate[t] # "PARKED" => ST(t)
  /\ tpc[t] \in {"stop?", "park?", "sched"} => tstate[t] \in {"INTERRUPTIBLE", "RUNNING"}
  /\ tpc[t] \in Fresh => flags[t] = {}
  /\ tpc[t] = "woken" /\ t \notin asleep => SP(t)
  /\ tpc[t] \in {"cleanup", "exited"} => ST(t)

\* A flag is set because the control task is at it, or because the thread is parked.
Flagged(t) ==
  /\ ST(t) => hpc = "stopped" /\ thr = t /\ call \notin {"none", "stop"}
  /\ SP(t) => Parked(t) \/ (thr = t /\ call \in InPark)
  /\ t \in parked =>
       thr = t /\ call \in {"parkwake", "parkwait"} /\ (tpc[t] = "pksched" \/ Parked(t))

\* A thread that is about to sleep or sleeps before its function is called.
Newborn(t) ==
  /\ tpc[t] = "csched" \/ (tpc[t] = "woken" /\ t \in asleep)
  /\ flags[t] = {}

\* What the control task relies on about the thread it deals with.
Chosen(t) ==
  thr = t =>
    /\ call = "park" => ~SP(t)
    /\ call \in InPark => SP(t)
    /\ call = "parkidle" => tpc[t] = "pksched" \/ Parked(t)
    /\ call = "result" \/ t \in completed =>
         IF result[t] = "task" THEN Newborn(t) ELSE tpc[t] = "none"
    /\ call = "bind" => Newborn(t)
    /\ hpc = "create" /\ call = "none" /\ ret = "ok" =>
         tpc[t] = "woken" /\ t \in asleep /\ ~SP(t)
    /\ hpc = "store" /\ call = "park" => tpc[t] = "woken" /\ t \in asleep
    /\ hpc = "store" /\ call # "park" => SP(t) /\ tpc[t] \in Parking \cup {"woken"}
    /\ (hpc = "create" /\ call = "none" /\ ret = "ok") \/ hpc = "store" =>
         cpu[t] = hcpu /\ "PER_CPU" \in flags[t] /\ (hcpu \in online => t \in bound)
    /\ call \in Unparking /\ hpc # "stopped" => Parked(t) /\ (call # "unparkwake" => SP(t))
    /\ call = "unparkwake" => ~SP(t)
    /\ hpc = "stopped" /\ call \notin {"none", "stop"} => ST(t)
    /\ hpc = "stopped" /\ call = "none" => tpc[t] = "none" /\ t \notin mem

\* A thread that is stored for CPU c.
Home(c, t) ==
  /\ tpc[t] = "none" => hpc = "stopped" /\ call = "none" /\ hcpu = c
  /\ tpc[t] # "none" =>
       cpu[t] = c /\ "PER_CPU" \in flags[t] /\ tpc[t] \in Parking \cup Looping
  /\ c \in online /\ tpc[t] # "none" =>
       t \in bound \/ (call = "unpark" /\ thr = t /\ Parked(t))
  /\ c \in online /\ SP(t) => hcpu = c /\ (call \in {"unpark", "clear"} \/ hpc = "down")
  /\ c \notin online => SP(t) \/ (hpc = "stopped" /\ hcpu = c)
  /\ c \notin online => tpc[t] \in Leaving
  /\ c \notin online /\ ~SP(t) /\ tpc[t] # "none" => ST(t)
  /\ hpc = "down" /\ call = "none" /\ hcpu = c => SP(t)

\* A thread that runs its function is stored, or is being parked before that.
Homed(t) ==
  /\ tpc[t] \in Looping \cup Parking =>
       Stored(t) \/ (hpc = "store" /\ thr = t /\ tpc[t] \in Parking)
  /\ \A c \in CPUS : store[c] = t => Home(c, t)

ThreadOK(t) == Local(t) /\ Flagged(t) /\ Chosen(t) /\ Homed(t)

\* The inductive invariant.
Requests == ListOnce /\ \A t \in THREADS : Request(t)
Control == CallOK /\ TargetOK /\ RegOK
Threads == \A t \in THREADS : ThreadOK(t)
HotplugInv == TypeOK /\ Requests /\ Control /\ Threads

-----------------------------------------------------------------------------
(* What a step leaves alone *)

\* A step does not touch thread t.
Same(t) ==
  /\ tpc'[t] = tpc[t] /\ tstate'[t] = tstate[t] /\ flags'[t] = flags[t]
  /\ cpu'[t] = cpu[t] /\ result'[t] = result[t]
  /\ t \in asleep' <=> t \in asleep
  /\ t \in bound' <=> t \in bound
  /\ t \in parked' <=> t \in parked
  /\ t \in completed' <=> t \in completed
  /\ t \in mem' <=> t \in mem

\* The control task stays where it is.
Steady == UNCHANGED <<online, registered, store, hpc, op, hcpu, todo, call, thr, ret>>

\* What is said of the control task holds as long as it does not move.
LEMMA SteadyControl ==
  ASSUME Control, Steady
  PROVE  Control'
<1>1. CallOK'
  BY Zenon DEF Control, CallOK, Steady
<1>2. TargetOK'
  <2>1. HasNew' <=> HasNew
    BY Zenon DEF HasNew, Steady
  <2>2. \A t : Stored(t)' <=> Stored(t)
    BY Zenon DEF Stored, Steady
  <2> QED
    BY <2>1, <2>2, Zenon DEF Control, TargetOK, Steady
<1>3. RegOK'
  BY Zenon DEF Control, RegOK, Steady
<1> QED
  BY <1>1, <1>2, <1>3, Zenon DEF Control

\* A thread that nobody touches, while the control task does not move.
LEMMA SteadyThread ==
  ASSUME NEW t \in THREADS, ThreadOK(t), Same(t), Steady
  PROVE  ThreadOK(t)'
<1>1. Local(t)'
  BY Zenon DEF ThreadOK, Local, Same, SP, ST
<1>2. Flagged(t)'
  BY Zenon DEF ThreadOK, Flagged, Same, SP, ST, Parked, Steady
<1>3. Chosen(t)'
  BY Zenon DEF ThreadOK, Chosen, Same, SP, ST, Parked, Newborn, Steady
<1>4. Homed(t)'
  BY Zenon DEF ThreadOK, Homed, Home, Same, SP, ST, Parked, Stored, Steady
<1> QED
  BY <1>1, <1>2, <1>3, <1>4, Zenon DEF ThreadOK

\* The places of a thread that concern its request.
Answered == {"none"} \cup Pending \cup Answering

\* A request that nobody touches, while its creator does not move.
LEMMA SteadyRequest ==
  ASSUME NEW t \in THREADS, Request(t), UNCHANGED list,
         t \in mem' <=> t \in mem, t \in done' <=> t \in done,
         t \in completed' <=> t \in completed,
         \/ UNCHANGED <<call, thr>>
         \/ call \notin Creating /\ call' \notin Creating
         \/ t # thr /\ t # thr',
         tpc'[t] = tpc[t] \/ (tpc[t] \notin Answered /\ tpc'[t] \notin Answered)
  PROVE  Request(t)'
<1>1. Asks(t)' <=> Asks(t)
  BY Zenon DEF Asks
<1>2. Asks(t) => call' = call
  BY Zenon DEF Asks
<1>3. Listed(t)' <=> Listed(t)
  BY Zenon DEF Listed
<1>4. CASE tpc'[t] = tpc[t]
  BY <1>1, <1>2, <1>3, <1>4, Zenon DEF Request
<1>5. CASE tpc[t] \notin Answered /\ tpc'[t] \notin Answered
  <2>1. ~Listed(t) /\ tpc[t] \notin Pending \cup Answering
    BY <1>5, Zenon DEF Request, Answered
  <2>2. tpc'[t] \notin Pending \cup Answering
    BY <1>5, Zenon DEF Answered
  <2> QED
    BY <2>1, <2>2, <1>1, <1>2, <1>3, Zenon DEF Request
<1> QED
  BY <1>4, <1>5, Zenon

\* While the control task is inside a function of Kthread for one thread, what it
\* does there is nothing to another one.
LEMMA Bystander ==
  ASSUME NEW t \in THREADS, ThreadOK(t), Same(t), Control, t # thr, call # "none",
         UNCHANGED <<online, registered, store, hpc, op, hcpu, todo, thr>>
  PROVE  ThreadOK(t)'
<1>1. Local(t)'
  BY Zenon DEF ThreadOK, Local, Same, SP, ST
<1>2. Flagged(t)'
  BY Zenon DEF ThreadOK, Flagged, Same, SP, ST, Parked
<1>3. Chosen(t)'
  BY Zenon DEF Chosen
<1>4. Homed(t)'
  <2>1. ASSUME NEW c \in CPUS, store[c] = t
        PROVE  Home(c, t)'
    <3>1. Home(c, t)
      BY <2>1, Zenon DEF ThreadOK, Homed
    <3>2. ~(hpc = "stopped" /\ hcpu = c) /\ ~(hcpu = c /\ call \in {"unpark", "clear"})
      BY <2>1, Zenon DEF Control, TargetOK, Unparking
    <3>3. ~(hpc = "down" /\ hcpu = c)
      BY <2>1, Zenon DEF Control, TargetOK
    <3> QED
      BY <3>1, <3>2, <3>3, Zenon DEF Home, Same, SP, ST, Parked
  <2> QED
    BY <2>1, Zenon DEF ThreadOK, Homed, Same, Stored
<1> QED
  BY <1>1, <1>2, <1>3, <1>4, Zenon DEF ThreadOK

-----------------------------------------------------------------------------
(* Steps of a thread *)

\* A step of one thread keeps the invariant if it keeps what is said of that thread.
LEMMA OneThread ==
  ASSUME HotplugInv, NEW t \in THREADS, TypeOK', Requests', Steady,
         \A u \in THREADS \ {t} : Same(u), ThreadOK(t)'
  PROVE  HotplugInv'
<1>1. Control'
  BY SteadyControl, Zenon DEF HotplugInv
<1>2. ASSUME NEW u \in THREADS, u # t PROVE ThreadOK(u)'
  <2>1. u \in THREADS \ {t}
    BY <1>2, Zenon
  <2> QED
    BY <2>1, SteadyThread, Zenon DEF HotplugInv, Threads
<1> QED
  BY <1>1, <1>2, Zenon DEF HotplugInv, Threads

\* The step of a thread that has been created.
LEMMA ThreadRuns ==
  ASSUME HotplugInv, NEW t \in THREADS, TypeOK', Steady,
         UNCHANGED <<list, mem, done, completed>>,
         tpc[t] \notin Answered, tpc'[t] \notin Answered,
         \A u \in THREADS \ {t} : Same(u), ThreadOK(t)'
  PROVE  HotplugInv'
<1>1. ListOnce'
  BY Zenon DEF HotplugInv, Requests, ListOnce
<1>2. ASSUME NEW u \in THREADS PROVE Request(u)'
  <2>1. tpc'[u] = tpc[u] \/ (tpc[u] \notin Answered /\ tpc'[u] \notin Answered)
    BY Zenon DEF Same
  <2> QED
    BY <2>1, SteadyRequest, Zenon DEF HotplugInv, Requests, Steady
<1> QED
  BY <1>1, <1>2, OneThread, Zenon DEF Requests

\* kthread_park runs for a thread that is not stored yet or whose CPU is going down.
LEMMA ParkTargets ==
  ASSUME HotplugInv, NEW t \in THREADS, thr = t, call \in InPark \cup {"park"}
  PROVE  /\ hpc = "store" => ~Stored(t)
         /\ hpc # "store" => hpc = "down" /\ hcpu \in online /\ store[hcpu] = t
         /\ \A c \in CPUS : store[c] = t => hpc = "down" /\ c \in online /\ c = hcpu
         /\ ~ST(t)
<1>1. hpc = "store" \/ hpc = "down"
  BY Zenon DEF HotplugInv, Control, CallOK, InPark, Unparking, Creating
<1>2. hpc = "store" => ~Stored(t)
  BY Zenon DEF HotplugInv, Control, TargetOK, HasNew
<1>3. hpc = "down" => hcpu \in online /\ hcpu \in CPUS /\ store[hcpu] = t
  <2>1. call # "none"
    BY Zenon DEF InPark
  <2>2. online \subseteq CPUS
    BY Zenon DEF HotplugInv, TypeOK
  <2> QED
    BY <2>1, <2>2, Zenon DEF HotplugInv, Control, TargetOK
<1>4. t # NoThread
  BY KthreadAssumption DEF NoThread
<1>5. ASSUME NEW c \in CPUS, store[c] = t
      PROVE  hpc = "down" /\ c \in online /\ c = hcpu
  <2>1. hpc = "down"
    BY <1>1, <1>2, <1>5, Zenon DEF Stored
  <2>2. c = hcpu
    BY <2>1, <1>3, <1>4, <1>5, Zenon DEF HotplugInv, Control, TargetOK
  <2> QED
    BY <2>1, <2>2, <1>3, Zenon
<1>6. ~ST(t)
  BY <1>1, Zenon DEF HotplugInv, Threads, ThreadOK, Flagged
<1> QED
  BY <1>1, <1>2, <1>3, <1>5, <1>6, Zenon

\* A thread that is to park and is not parked has kthread_park waiting for it.
LEMMA ParkedElsewhere ==
  ASSUME HotplugInv, NEW t \in THREADS, SP(t), ~Parked(t)
  PROVE  thr = t /\ call \in InPark /\ ~ST(t)
BY ParkTargets, Zenon DEF HotplugInv, Threads, ThreadOK, Flagged

-----------------------------------------------------------------------------
(* kthread(), __kthread_parkme and smpboot_thread_fn *)

\* The new thread sleeps in kthread().
LEMMA FirstScheduleStep ==
  ASSUME HotplugInv, NEW t \in THREADS, FirstSchedule(t), UNCHANGED rest
  PROVE  HotplugInv'
<1>1. /\ t \notin asleep
      /\ tpc[t] = "csched" /\ tpc' = [tpc EXCEPT ![t] = "woken"]
      /\ asleep' = IF tstate[t] = "RUNNING" THEN asleep ELSE asleep \cup {t}
      /\ UNCHANGED <<list, mem, done, completed, result, tstate, flags, cpu, bound, parked, status>>
      /\ Steady
  BY Zenon DEF FirstSchedule, At, Goto, SetState, Schedule, SP, ST, Steady, kd, create, control,
               smpboot, rest
<1>2. TypeOK'
  BY <1>1 DEF HotplugInv, TypeOK, Steady, Labels, Fresh, Parking, Looping, OnCpu
<1>3. \A u \in THREADS \ {t} : Same(u)
  BY <1>1 DEF HotplugInv, TypeOK, Same
<1>4. ThreadOK(t)
  BY Zenon DEF HotplugInv, Threads
<1>5. tpc'[t] = "woken" /\ t \in asleep'
  BY <1>1, <1>4 DEF HotplugInv, TypeOK, ThreadOK, Local
<1>6. Local(t)'
  BY <1>1, <1>4, <1>5, Zenon
  DEF ThreadOK, Local, SP, ST, Fresh, Pending, Answering
<1>7. Flagged(t)'
  BY <1>1, <1>4, <1>5, Zenon
  DEF ThreadOK, Flagged, SP, ST, Parked, Steady
<1>8. Chosen(t)'
  BY <1>1, <1>4, <1>5, Zenon
  DEF ThreadOK, Chosen, SP, ST, Parked, Steady, Newborn, Parking
<1>9. Homed(t)'
  BY <1>1, <1>4, <1>5, Zenon
  DEF ThreadOK, Homed, Home, SP, ST, Parked, Steady, Stored, Parking, Looping, OnCpu, Leaving
<1> QED
  BY <1>1, <1>2, <1>3, <1>5, <1>6, <1>7, <1>8, <1>9, ThreadRuns, Zenon
  DEF ThreadOK, Answered, Pending, Answering

\* The new thread is woken and goes to __kthread_parkme or to its function.
LEMMA FirstWokenStep ==
  ASSUME HotplugInv, NEW t \in THREADS, FirstWoken(t), UNCHANGED rest
  PROVE  HotplugInv'
<1>1. /\ t \notin asleep
      /\ tpc[t] = "woken" /\ tpc' = [tpc EXCEPT ![t] = IF ST(t) THEN "exited" ELSE "pkset"]
      /\ UNCHANGED <<list, mem, done, completed, result, tstate, asleep, flags, cpu, bound,
                     parked, status>>
      /\ Steady
  BY Zenon DEF FirstWoken, At, Goto, SetState, Schedule, SP, ST, Steady, kd, create, control,
               smpboot, rest
<1>2. TypeOK'
  BY <1>1 DEF HotplugInv, TypeOK, Steady, Labels, Fresh, Parking, Looping, OnCpu
<1>3. \A u \in THREADS \ {t} : Same(u)
  BY <1>1 DEF HotplugInv, TypeOK, Same
<1>4. ThreadOK(t)
  BY Zenon DEF HotplugInv, Threads
<1>5. tpc'[t] = "pkset" /\ hpc = "store" /\ thr = t /\ SP(t)
  <2>1. SP(t) /\ ~Parked(t)
    BY <1>1, <1>4, Zenon DEF ThreadOK, Local, Parked
  <2>2. thr = t /\ call \in InPark /\ ~ST(t)
    BY <2>1, ParkedElsewhere, Zenon
  <2>3. hpc = "store"
    <3>1. SUFFICES ASSUME hpc # "store" PROVE FALSE
      BY Zenon
    <3>2. hcpu \in CPUS /\ store[hcpu] = t
      BY <3>1, <2>2, ParkTargets DEF HotplugInv, TypeOK
    <3> QED
      BY <3>2, <1>1, <1>4, Zenon DEF ThreadOK, Homed, Home, Parking, Looping, OnCpu
  <2>4. tpc'[t] = "pkset"
    BY <1>1, <2>2 DEF HotplugInv, TypeOK
  <2> QED
    BY <2>1, <2>2, <2>3, <2>4, Zenon
<1>6. Local(t)'
  BY <1>1, <1>4, <1>5, Zenon
  DEF ThreadOK, Local, SP, ST, Fresh, Pending, Answering
<1>7. Flagged(t)'
  BY <1>1, <1>4, <1>5, Zenon
  DEF ThreadOK, Flagged, SP, ST, Parked, Steady
<1>8. Chosen(t)'
  BY <1>1, <1>4, <1>5, Zenon
  DEF ThreadOK, Chosen, SP, ST, Parked, Steady, Newborn, Parking
<1>9. Homed(t)'
  BY <1>1, <1>4, <1>5, Zenon
  DEF ThreadOK, Homed, Home, SP, ST, Parked, Steady, Stored, Parking, Looping, OnCpu, Leaving
<1> QED
  BY <1>1, <1>2, <1>3, <1>5, <1>6, <1>7, <1>8, <1>9, ThreadRuns, Zenon
  DEF ThreadOK, Answered, Pending, Answering

\* __kthread_parkme sets TASK_PARKED.
LEMMA ParkSetStep ==
  ASSUME HotplugInv, NEW t \in THREADS, ParkSet(t), UNCHANGED rest
  PROVE  HotplugInv'
<1>1. /\ t \notin asleep
      /\ tpc[t] = "pkset" /\ tpc' = [tpc EXCEPT ![t] = "pktest"]
      /\ tstate' = [tstate EXCEPT ![t] = "PARKED"]
      /\ UNCHANGED <<list, mem, done, completed, result, asleep, flags, cpu, bound, parked, status>>
      /\ Steady
  BY Zenon DEF ParkSet, At, Goto, SetState, Schedule, SP, ST, Steady, kd, create, control,
               smpboot, rest
<1>2. TypeOK'
  BY <1>1 DEF HotplugInv, TypeOK, Steady, Labels, Fresh, Parking, Looping, OnCpu
<1>3. \A u \in THREADS \ {t} : Same(u)
  BY <1>1 DEF HotplugInv, TypeOK, Same
<1>4. ThreadOK(t)
  BY Zenon DEF HotplugInv, Threads
<1>5. tpc'[t] = "pktest" /\ tstate'[t] = "PARKED"
  BY <1>1, <1>4 DEF HotplugInv, TypeOK
<1>6. Local(t)'
  BY <1>1, <1>4, <1>5, Zenon
  DEF ThreadOK, Local, SP, ST, Fresh, Pending, Answering
<1>7. Flagged(t)'
  BY <1>1, <1>4, <1>5, Zenon
  DEF ThreadOK, Flagged, SP, ST, Parked, Steady
<1>8. Chosen(t)'
  BY <1>1, <1>4, <1>5, Zenon
  DEF ThreadOK, Chosen, SP, ST, Parked, Steady, Newborn, Parking
<1>9. Homed(t)'
  BY <1>1, <1>4, <1>5, Zenon
  DEF ThreadOK, Homed, Home, SP, ST, Parked, Steady, Stored, Parking, Looping, OnCpu, Leaving
<1> QED
  BY <1>1, <1>2, <1>3, <1>5, <1>6, <1>7, <1>8, <1>9, ThreadRuns, Zenon
  DEF ThreadOK, Answered, Pending, Answering

\* __kthread_parkme tests the flag, and completes kthread->parked or returns.
LEMMA ParkTestStep ==
  ASSUME HotplugInv, NEW t \in THREADS, ParkTest(t), UNCHANGED rest
  PROVE  HotplugInv'
<1>1. /\ t \notin asleep
      /\ tpc[t] = "pktest"
      /\ \/ /\ SP(t) /\ parked' = parked \cup {t} /\ tpc' = [tpc EXCEPT ![t] = "pksched"]
            /\ UNCHANGED tstate
         \/ /\ ~SP(t) /\ tstate' = [tstate EXCEPT ![t] = "RUNNING"]
            /\ tpc' = [tpc EXCEPT ![t] = "loop"] /\ UNCHANGED parked
      /\ UNCHANGED <<list, mem, done, completed, result, asleep, flags, cpu, bound, status>>
      /\ Steady
  BY Zenon DEF ParkTest, At, Goto, SetState, Schedule, SP, ST, Steady, kd, create, control,
               smpboot, rest
<1>2. TypeOK'
  BY <1>1 DEF HotplugInv, TypeOK, Steady, Labels, Fresh, Parking, Looping, OnCpu
<1>3. \A u \in THREADS \ {t} : Same(u)
  BY <1>1 DEF HotplugInv, TypeOK, Same
<1>4. ThreadOK(t)
  BY Zenon DEF HotplugInv, Threads
<1>5. \/ SP(t) /\ tpc'[t] = "pksched" /\ tstate'[t] = "PARKED" /\ thr = t
           /\ call \in {"parkwake", "parkwait"} /\ \A c \in CPUS : store[c] = t => c \in online
      \/ ~SP(t) /\ tpc'[t] = "loop" /\ tstate'[t] = "RUNNING" /\ Stored(t) /\ UNCHANGED parked
  <2>1. CASE SP(t)
    <3>1. thr = t /\ call \in InPark /\ ~ST(t)
      BY <1>1, <2>1, ParkedElsewhere, Zenon DEF Parked
    <3>2. call # "parkidle"
      BY <1>1, <1>4, <3>1, Zenon DEF ThreadOK, Chosen, Parked
    <3>3. tstate[t] = "PARKED"
      BY <1>1, <1>4, <3>1, Zenon DEF ThreadOK, Local
    <3>4. \A c \in CPUS : store[c] = t => c \in online
      BY <3>1, ParkTargets, Zenon
    <3>5. tpc'[t] = "pksched" /\ tstate'[t] = tstate[t]
      BY <1>1, <2>1 DEF HotplugInv, TypeOK
    <3> QED
      BY <2>1, <3>1, <3>2, <3>3, <3>4, <3>5, Zenon DEF InPark
  <2>2. CASE ~SP(t)
    <3>1. Stored(t)
      BY <1>1, <1>4, <2>2, Zenon DEF ThreadOK, Homed, Chosen, Parking
    <3>2. tpc'[t] = "loop" /\ tstate'[t] = "RUNNING"
      BY <1>1, <2>2 DEF HotplugInv, TypeOK
    <3> QED
      BY <1>1, <2>2, <3>1, <3>2, Zenon
  <2> QED
    BY <2>1, <2>2, Zenon
<1>6. CASE SP(t) /\ tpc'[t] = "pksched" /\ tstate'[t] = "PARKED" /\ thr = t
           /\ call \in {"parkwake", "parkwait"} /\ \A c \in CPUS : store[c] = t => c \in online
  <2>1. Local(t)'
    BY <1>1, <1>4, <1>5, <1>6, Zenon
    DEF ThreadOK, Local, SP, ST, Fresh, Pending, Answering
  <2>2. Flagged(t)'
    BY <1>1, <1>4, <1>5, <1>6, Zenon
    DEF ThreadOK, Flagged, SP, ST, Parked, Steady
  <2>3. Chosen(t)'
    BY <1>1, <1>4, <1>5, <1>6, Zenon
    DEF ThreadOK, Chosen, SP, ST, Parked, Steady, Newborn, Parking
  <2>4. Homed(t)'
    BY <1>1, <1>4, <1>5, <1>6, Zenon
    DEF ThreadOK, Homed, Home, SP, ST, Parked, Steady, Stored, Parking, Looping, OnCpu, Leaving
  <2> QED
    BY <1>1, <1>2, <1>3, <1>6, <2>1, <2>2, <2>3, <2>4, ThreadRuns, Zenon
    DEF ThreadOK, Answered, Pending, Answering
<1>7. CASE ~SP(t) /\ tpc'[t] = "loop" /\ tstate'[t] = "RUNNING" /\ Stored(t) /\ UNCHANGED parked
  <2>1. Local(t)'
    BY <1>1, <1>4, <1>5, <1>7, Zenon
    DEF ThreadOK, Local, SP, ST, Fresh, Pending, Answering
  <2>2. Flagged(t)'
    BY <1>1, <1>4, <1>5, <1>7, Zenon
    DEF ThreadOK, Flagged, SP, ST, Parked, Steady
  <2>3. Chosen(t)'
    BY <1>1, <1>4, <1>5, <1>7, Zenon
    DEF ThreadOK, Chosen, SP, ST, Parked, Steady, Newborn, Parking
  <2>4. Homed(t)'
    BY <1>1, <1>4, <1>5, <1>7, Zenon
    DEF ThreadOK, Homed, Home, SP, ST, Parked, Steady, Stored, Parking, Looping, OnCpu, Leaving
  <2> QED
    BY <1>1, <1>2, <1>3, <1>7, <2>1, <2>2, <2>3, <2>4, ThreadRuns, Zenon
    DEF ThreadOK, Answered, Pending, Answering
<1> QED
  BY <1>5, <1>6, <1>7, Zenon

\* __kthread_parkme sleeps.
LEMMA ParkScheduleStep ==
  ASSUME HotplugInv, NEW t \in THREADS, ParkSchedule(t), UNCHANGED rest
  PROVE  HotplugInv'
<1>1. /\ t \notin asleep
      /\ tpc[t] = "pksched" /\ tpc' = [tpc EXCEPT ![t] = "pkset"]
      /\ asleep' = IF tstate[t] = "RUNNING" THEN asleep ELSE asleep \cup {t}
      /\ UNCHANGED <<list, mem, done, completed, result, tstate, flags, cpu, bound, parked, status>>
      /\ Steady
  BY Zenon DEF ParkSchedule, At, Goto, SetState, Schedule, SP, ST, Steady, kd, create, control,
               smpboot, rest
<1>2. TypeOK'
  BY <1>1 DEF HotplugInv, TypeOK, Steady, Labels, Fresh, Parking, Looping, OnCpu
<1>3. \A u \in THREADS \ {t} : Same(u)
  BY <1>1 DEF HotplugInv, TypeOK, Same
<1>4. ThreadOK(t)
  BY Zenon DEF HotplugInv, Threads
<1>5. tpc'[t] = "pkset" /\ t \in asleep' /\ tstate[t] = "PARKED"
  BY <1>1, <1>4 DEF HotplugInv, TypeOK, ThreadOK, Local
<1>6. Local(t)'
  BY <1>1, <1>4, <1>5, Zenon
  DEF ThreadOK, Local, SP, ST, Fresh, Pending, Answering
<1>7. Flagged(t)'
  BY <1>1, <1>4, <1>5, Zenon
  DEF ThreadOK, Flagged, SP, ST, Parked, Steady
<1>8. Chosen(t)'
  BY <1>1, <1>4, <1>5, Zenon
  DEF ThreadOK, Chosen, SP, ST, Parked, Steady, Newborn, Parking
<1>9. Homed(t)'
  BY <1>1, <1>4, <1>5, Zenon
  DEF ThreadOK, Homed, Home, SP, ST, Parked, Steady, Stored, Parking, Looping, OnCpu, Leaving
<1> QED
  BY <1>1, <1>2, <1>3, <1>5, <1>6, <1>7, <1>8, <1>9, ThreadRuns, Zenon
  DEF ThreadOK, Answered, Pending, Answering

\* smpboot_thread_fn sets TASK_INTERRUPTIBLE.
LEMMA LoopSetStep ==
  ASSUME HotplugInv, NEW t \in THREADS, LoopSet(t)
  PROVE  HotplugInv'
<1>1. /\ t \notin asleep
      /\ tpc[t] = "loop" /\ tpc' = [tpc EXCEPT ![t] = "stop?"]
      /\ tstate' = [tstate EXCEPT ![t] = "INTERRUPTIBLE"]
      /\ UNCHANGED <<list, mem, done, completed, result, asleep, flags, cpu, bound, parked, status>>
      /\ Steady
  BY Zenon DEF LoopSet, At, Goto, SetState, Schedule, SP, ST, Steady, kd, create, control,
               smpboot, rest
<1>2. TypeOK'
  BY <1>1 DEF HotplugInv, TypeOK, Steady, Labels, Fresh, Parking, Looping, OnCpu
<1>3. \A u \in THREADS \ {t} : Same(u)
  BY <1>1 DEF HotplugInv, TypeOK, Same
<1>4. ThreadOK(t)
  BY Zenon DEF HotplugInv, Threads
<1>5. tpc'[t] = "stop?" /\ tstate'[t] = "INTERRUPTIBLE"
  BY <1>1, <1>4 DEF HotplugInv, TypeOK
<1>6. Local(t)'
  BY <1>1, <1>4, <1>5, Zenon
  DEF ThreadOK, Local, SP, ST, Fresh, Pending, Answering
<1>7. Flagged(t)'
  BY <1>1, <1>4, <1>5, Zenon
  DEF ThreadOK, Flagged, SP, ST, Parked, Steady
<1>8. Chosen(t)'
  BY <1>1, <1>4, <1>5, Zenon
  DEF ThreadOK, Chosen, SP, ST, Parked, Steady, Newborn, Parking
<1>9. Homed(t)'
  BY <1>1, <1>4, <1>5, Zenon
  DEF ThreadOK, Homed, Home, SP, ST, Parked, Steady, Stored, Parking, Looping, OnCpu, Leaving
<1> QED
  BY <1>1, <1>2, <1>3, <1>5, <1>6, <1>7, <1>8, <1>9, ThreadRuns, Zenon
  DEF ThreadOK, Answered, Pending, Answering

\* smpboot_thread_fn tests kthread_should_stop().
LEMMA LoopStopStep ==
  ASSUME HotplugInv, NEW t \in THREADS, LoopStop(t)
  PROVE  HotplugInv'
<1>1. /\ t \notin asleep
      /\ tpc[t] = "stop?"
      /\ \/ ST(t) /\ tstate' = [tstate EXCEPT ![t] = "RUNNING"] /\ tpc' = [tpc EXCEPT ![t] = "cleanup"]
         \/ ~ST(t) /\ tpc' = [tpc EXCEPT ![t] = "park?"] /\ UNCHANGED tstate
      /\ UNCHANGED <<list, mem, done, completed, result, asleep, flags, cpu, bound, parked, status>>
      /\ Steady
  BY Zenon DEF LoopStop, At, Goto, SetState, Schedule, SP, ST, Steady, kd, create, control,
               smpboot, rest
<1>2. TypeOK'
  BY <1>1 DEF HotplugInv, TypeOK, Steady, Labels, Fresh, Parking, Looping, OnCpu
<1>3. \A u \in THREADS \ {t} : Same(u)
  BY <1>1 DEF HotplugInv, TypeOK, Same
<1>4. ThreadOK(t)
  BY Zenon DEF HotplugInv, Threads
<1>5. \/ ST(t) /\ tpc'[t] = "cleanup"
      \/ ~ST(t) /\ tpc'[t] = "park?" /\ UNCHANGED tstate /\ \A c \in CPUS : store[c] = t => c \in online
  <2>1. CASE ST(t)
    BY <1>1, <2>1 DEF HotplugInv, TypeOK
  <2>2. CASE ~ST(t)
    <3>1. ASSUME NEW c \in CPUS, store[c] = t, c \notin online
          PROVE  FALSE
      <4>1. SP(t)
        BY <1>1, <1>4, <2>2, <3>1, Zenon DEF ThreadOK, Homed, Home
      <4> QED
        BY <1>1, <3>1, <4>1, ParkedElsewhere, ParkTargets, Zenon DEF Parked
    <3>2. tpc'[t] = "park?" /\ UNCHANGED tstate
      BY <1>1, <2>2 DEF HotplugInv, TypeOK
    <3> QED
      BY <2>2, <3>1, <3>2, Zenon
  <2> QED
    BY <2>1, <2>2, Zenon
<1>6. CASE ST(t) /\ tpc'[t] = "cleanup"
  <2>1. Local(t)'
    BY <1>1, <1>4, <1>5, <1>6, Zenon
    DEF ThreadOK, Local, SP, ST, Fresh, Pending, Answering
  <2>2. Flagged(t)'
    BY <1>1, <1>4, <1>5, <1>6, Zenon
    DEF ThreadOK, Flagged, SP, ST, Parked, Steady
  <2>3. Chosen(t)'
    BY <1>1, <1>4, <1>5, <1>6, Zenon
    DEF ThreadOK, Chosen, SP, ST, Parked, Steady, Newborn, Parking
  <2>4. Homed(t)'
    BY <1>1, <1>4, <1>5, <1>6, Zenon
    DEF ThreadOK, Homed, Home, SP, ST, Parked, Steady, Stored, Parking, Looping, OnCpu, Leaving
  <2> QED
    BY <1>1, <1>2, <1>3, <1>6, <2>1, <2>2, <2>3, <2>4, ThreadRuns, Zenon
    DEF ThreadOK, Answered, Pending, Answering
<1>7. CASE ~ST(t) /\ tpc'[t] = "park?" /\ UNCHANGED tstate
      /\ \A c \in CPUS : store[c] = t => c \in online
  <2>1. Local(t)'
    BY <1>1, <1>4, <1>5, <1>7, Zenon
    DEF ThreadOK, Local, SP, ST, Fresh, Pending, Answering
  <2>2. Flagged(t)'
    BY <1>1, <1>4, <1>5, <1>7, Zenon
    DEF ThreadOK, Flagged, SP, ST, Parked, Steady
  <2>3. Chosen(t)'
    BY <1>1, <1>4, <1>5, <1>7, Zenon
    DEF ThreadOK, Chosen, SP, ST, Parked, Steady, Newborn, Parking
  <2>4. Homed(t)'
    BY <1>1, <1>4, <1>5, <1>7, Zenon
    DEF ThreadOK, Homed, Home, SP, ST, Parked, Steady, Stored, Parking, Looping, OnCpu, Leaving
  <2> QED
    BY <1>1, <1>2, <1>3, <1>7, <2>1, <2>2, <2>3, <2>4, ThreadRuns, Zenon
    DEF ThreadOK, Answered, Pending, Answering
<1> QED
  BY <1>5, <1>6, <1>7, Zenon

\* smpboot_thread_fn sleeps.
LEMMA LoopScheduleStep ==
  ASSUME HotplugInv, NEW t \in THREADS, LoopSchedule(t)
  PROVE  HotplugInv'
<1>1. /\ t \notin asleep
      /\ tpc[t] = "sched" /\ tpc' = [tpc EXCEPT ![t] = "loop"]
      /\ asleep' = IF tstate[t] = "RUNNING" THEN asleep ELSE asleep \cup {t}
      /\ UNCHANGED <<list, mem, done, completed, result, tstate, flags, cpu, bound, parked, status>>
      /\ Steady
  BY Zenon DEF LoopSchedule, At, Goto, SetState, Schedule, SP, ST, Steady, kd, create, control,
               smpboot, rest
<1>2. TypeOK'
  BY <1>1 DEF HotplugInv, TypeOK, Steady, Labels, Fresh, Parking, Looping, OnCpu
<1>3. \A u \in THREADS \ {t} : Same(u)
  BY <1>1 DEF HotplugInv, TypeOK, Same
<1>4. ThreadOK(t)
  BY Zenon DEF HotplugInv, Threads
<1>5. tpc'[t] = "loop" /\ (t \in asleep' <=> tstate[t] # "RUNNING")
  BY <1>1, <1>4 DEF HotplugInv, TypeOK, ThreadOK, Local
<1>6. Local(t)'
  BY <1>1, <1>4, <1>5, Zenon
  DEF ThreadOK, Local, SP, ST, Fresh, Pending, Answering
<1>7. Flagged(t)'
  BY <1>1, <1>4, <1>5, Zenon
  DEF ThreadOK, Flagged, SP, ST, Parked, Steady
<1>8. Chosen(t)'
  BY <1>1, <1>4, <1>5, Zenon
  DEF ThreadOK, Chosen, SP, ST, Parked, Steady, Newborn, Parking
<1>9. Homed(t)'
  BY <1>1, <1>4, <1>5, Zenon
  DEF ThreadOK, Homed, Home, SP, ST, Parked, Steady, Stored, Parking, Looping, OnCpu, Leaving
<1> QED
  BY <1>1, <1>2, <1>3, <1>5, <1>6, <1>7, <1>8, <1>9, ThreadRuns, Zenon
  DEF ThreadOK, Answered, Pending, Answering

\* smpboot_thread_fn tests kthread_should_park() and its status.
LEMMA LoopParkStep ==
  ASSUME HotplugInv, NEW t \in THREADS, LoopPark(t)
  PROVE  HotplugInv'
<1>1. /\ t \notin asleep
      /\ tpc[t] = "park?"
      /\ \E next \in OnCpu \cup {"pkset"} :
           /\ tpc' = [tpc EXCEPT ![t] = next]
           /\ IF next = "sched" THEN UNCHANGED tstate ELSE tstate' = [tstate EXCEPT ![t] = "RUNNING"]
      /\ UNCHANGED <<list, mem, done, completed, result, asleep, flags, cpu, bound, parked, status>>
      /\ Steady
  <2>1. status[t] \in {"NONE", "ACTIVE", "PARKED"}
    BY DEF HotplugInv, TypeOK
  <2> QED
    BY <2>1, Zenon DEF LoopPark, At, Goto, SetState, Steady, OnCpu, kd, create, control, smpboot
<1>2. TypeOK'
  BY <1>1 DEF HotplugInv, TypeOK, Steady, Labels, Fresh, Parking, Looping, OnCpu
<1>3. \A u \in THREADS \ {t} : Same(u)
  BY <1>1 DEF HotplugInv, TypeOK, Same
<1>4. ThreadOK(t)
  BY Zenon DEF HotplugInv, Threads
<1>5. /\ tpc'[t] \in OnCpu \cup {"pkset"}
      /\ tpc'[t] = "sched" => tstate'[t] = tstate[t]
  BY <1>1 DEF HotplugInv, TypeOK
<1>6. Local(t)'
  BY <1>1, <1>4, <1>5, Zenon
  DEF ThreadOK, Local, SP, ST, Fresh, Pending, Answering, OnCpu
<1>7. Flagged(t)'
  BY <1>1, <1>4, <1>5, Zenon
  DEF ThreadOK, Flagged, SP, ST, Parked, Steady
<1>8. Chosen(t)'
  BY <1>1, <1>4, <1>5, Zenon
  DEF ThreadOK, Chosen, SP, ST, Parked, Steady, Newborn, Parking
<1>9. Homed(t)'
  BY <1>1, <1>4, <1>5, Zenon
  DEF ThreadOK, Homed, Home, SP, ST, Parked, Steady, Stored, Parking, Looping, OnCpu, Leaving
<1> QED
  BY <1>1, <1>2, <1>3, <1>5, <1>6, <1>7, <1>8, <1>9, ThreadRuns, Zenon
  DEF ThreadOK, Answered, Pending, Answering, OnCpu

\* smpboot_thread_fn calls a callback of the descriptor.
LEMMA CallbackStep ==
  ASSUME HotplugInv, NEW t \in THREADS, Callback(t)
  PROVE  HotplugInv'
<1>1. /\ t \notin asleep
      /\ \/ /\ tpc[t] \in {"setup", "unpark", "park", "run"}
            /\ \E next \in {"loop", "pkset"} : tpc' = [tpc EXCEPT ![t] = next]
         \/ tpc[t] = "cleanup" /\ tpc' = [tpc EXCEPT ![t] = "exited"]
      /\ \/ UNCHANGED status
         \/ \E s \in {"NONE", "ACTIVE", "PARKED"} : status' = [status EXCEPT ![t] = s]
      /\ UNCHANGED <<list, mem, done, completed, result, tstate, asleep, flags, cpu, bound, parked>>
      /\ Steady
  BY Zenon DEF Callback, At, Goto, SetState, Schedule, SP, ST, Steady, kd, create, control,
               smpboot, rest
<1>2. TypeOK'
  BY <1>1 DEF HotplugInv, TypeOK, Steady, Labels, Fresh, Parking, Looping, OnCpu
<1>3. \A u \in THREADS \ {t} : Same(u)
  BY <1>1 DEF HotplugInv, TypeOK, Same
<1>4. ThreadOK(t)
  BY Zenon DEF HotplugInv, Threads
<1>5. \/ tpc[t] \in OnCpu /\ tpc'[t] \in {"loop", "pkset"}
      \/ tpc[t] = "cleanup" /\ tpc'[t] = "exited"
  BY <1>1 DEF HotplugInv, TypeOK, OnCpu
<1>6. CASE tpc[t] \in OnCpu /\ tpc'[t] \in {"loop", "pkset"}
  <2>1. Local(t)'
    BY <1>1, <1>4, <1>5, <1>6, Zenon
    DEF ThreadOK, Local, SP, ST, Fresh, Pending, Answering
  <2>2. Flagged(t)'
    BY <1>1, <1>4, <1>5, <1>6, Zenon
    DEF ThreadOK, Flagged, SP, ST, Parked, Steady
  <2>3. Chosen(t)'
    BY <1>1, <1>4, <1>5, <1>6, Zenon
    DEF ThreadOK, Chosen, SP, ST, Parked, Steady, Newborn, Parking
  <2>4. Homed(t)'
    BY <1>1, <1>4, <1>5, <1>6, Zenon
    DEF ThreadOK, Homed, Home, SP, ST, Parked, Steady, Stored, Parking, Looping, OnCpu, Leaving
  <2> QED
    BY <1>1, <1>2, <1>3, <1>6, <2>1, <2>2, <2>3, <2>4, ThreadRuns, Zenon
    DEF ThreadOK, Answered, Pending, Answering
<1>7. CASE tpc[t] = "cleanup" /\ tpc'[t] = "exited"
  <2>1. Local(t)'
    BY <1>1, <1>4, <1>5, <1>7, Zenon
    DEF ThreadOK, Local, SP, ST, Fresh, Pending, Answering
  <2>2. Flagged(t)'
    BY <1>1, <1>4, <1>5, <1>7, Zenon
    DEF ThreadOK, Flagged, SP, ST, Parked, Steady
  <2>3. Chosen(t)'
    BY <1>1, <1>4, <1>5, <1>7, Zenon
    DEF ThreadOK, Chosen, SP, ST, Parked, Steady, Newborn, Parking
  <2>4. Homed(t)'
    BY <1>1, <1>4, <1>5, <1>7, Zenon
    DEF ThreadOK, Homed, Home, SP, ST, Parked, Steady, Stored, Parking, Looping, OnCpu, Leaving
  <2> QED
    BY <1>1, <1>2, <1>3, <1>7, <2>1, <2>2, <2>3, <2>4, ThreadRuns, Zenon
    DEF ThreadOK, Answered, Pending, Answering
<1> QED
  BY <1>5, <1>6, <1>7, Zenon

-----------------------------------------------------------------------------
(* Wakeups, kthreadd and the answer to a request *)

\* What try_to_wake_up changes.
LEMMA WakeDoes ==
  ASSUME TypeOK, NEW t \in THREADS, NEW states, Wake(t, states)
  PROVE  /\ tstate' \in [THREADS -> {"RUNNING", "INTERRUPTIBLE", "UNINTERRUPTIBLE", "PARKED"}]
         /\ tstate'[t] = IF tstate[t] \in states THEN "RUNNING" ELSE tstate[t]
         /\ t \in asleep' <=> t \in asleep /\ tstate[t] \notin states
         /\ t \in bound' => t \in bound
         /\ t \in bound /\ t \notin bound' =>
              tstate[t] \in states /\ t \in asleep /\ cpu[t] \notin online
         /\ \A u \in THREADS \ {t} : /\ tstate'[u] = tstate[u]
                                     /\ u \in asleep' <=> u \in asleep
                                     /\ u \in bound' <=> u \in bound
<1>1. CASE tstate[t] \in states
  BY <1>1 DEF Wake, SetState, TypeOK
<1>2. CASE tstate[t] \notin states
  BY <1>2 DEF Wake, TypeOK
<1> QED
  BY <1>1, <1>2, Zenon

\* Somebody wakes a thread.
LEMMA KickStep ==
  ASSUME HotplugInv, NEW c \in CPUS, Kick(c)
  PROVE  HotplugInv'
<1>1. PICK t \in THREADS :
        /\ store[c] = t /\ Wake(t, NORMAL)
        /\ UNCHANGED <<list, mem, done, completed, result, tpc, flags, cpu, parked, status>>
        /\ Steady
  <2>1. store[c] \in THREADS
    BY DEF HotplugInv, TypeOK, Kick
  <2> QED
    BY <2>1, Zenon DEF Kick, Steady, kd, create, control, smpboot
<1>2. /\ tstate' \in [THREADS -> {"RUNNING", "INTERRUPTIBLE", "UNINTERRUPTIBLE", "PARKED"}]
      /\ tstate'[t] = IF tstate[t] \in NORMAL THEN "RUNNING" ELSE tstate[t]
      /\ t \in asleep' <=> t \in asleep /\ tstate[t] \notin NORMAL
      /\ t \in bound' => t \in bound
      /\ t \in bound /\ t \notin bound' =>
           tstate[t] \in NORMAL /\ t \in asleep /\ cpu[t] \notin online
  BY <1>1, WakeDoes, Zenon DEF HotplugInv
<1>3. TypeOK'
  BY <1>1, <1>2, Zenon DEF HotplugInv, TypeOK, Steady
<1>4. \A u \in THREADS \ {t} : Same(u)
  BY <1>1, WakeDoes, Zenon DEF HotplugInv, Same
<1>5. Requests'
  <2>1. ASSUME NEW u \in THREADS PROVE Request(u)'
    BY <1>1, SteadyRequest, Zenon DEF HotplugInv, Requests, Steady
  <2> QED
    BY <1>1, <2>1, Zenon DEF HotplugInv, Requests, ListOnce
<1>6. ThreadOK(t) /\ Home(c, t) /\ Stored(t)
  BY <1>1, Zenon DEF HotplugInv, Threads, ThreadOK, Homed, Stored
<1>7. ~(thr = t /\ HasNew)
  BY <1>6, Zenon DEF HotplugInv, Control, TargetOK
<1>8. Local(t)'
  BY <1>1, <1>2, <1>6, Zenon
  DEF ThreadOK, Local, Home, NORMAL, SP, ST, Fresh, Pending, Answering, Parking, Looping, OnCpu
<1>9. Parked(t)' <=> Parked(t)
  BY <1>1, <1>2, Zenon DEF Parked, NORMAL
<1>10. Flagged(t)'
  BY <1>1, <1>2, <1>6, <1>9, Zenon DEF ThreadOK, Flagged, SP, ST, Steady
<1>11. Chosen(t)'
  <2>1. ~Newborn(t) /\ tpc[t] # "woken"
    BY <1>6, Zenon DEF Home, Newborn, Parking, Looping, OnCpu
  <2> QED
    BY <1>1, <1>2, <1>6, <1>7, <1>9, <2>1, Zenon DEF ThreadOK, Chosen, HasNew, SP, ST, Steady
<1>12. Homed(t)'
  <2>1. ASSUME NEW d \in CPUS, store[d] = t PROVE Home(d, t)'
    <3>1. Home(d, t)
      BY <1>6, <2>1, Zenon DEF ThreadOK, Homed
    <3>2. cpu[t] \notin online => d \notin online \/ tpc[t] = "none"
      BY <3>1, Zenon DEF Home
    <3>3. t \in asleep => tpc[t] # "none"
      BY <1>6, Zenon DEF ThreadOK, Local
    <3> QED
      BY <1>1, <1>2, <1>9, <3>1, <3>2, <3>3, Zenon DEF Home, SP, ST, Steady
  <2> QED
    BY <1>1, <1>6, <2>1, Zenon DEF ThreadOK, Homed, Stored, Steady
<1> QED
  BY <1>1, <1>3, <1>4, <1>5, <1>8, <1>10, <1>11, <1>12, OneThread, Zenon DEF ThreadOK

\* create_kthread, or the new thread, takes ->done of its request.
LEMMA TakeDoneStep ==
  ASSUME HotplugInv, NEW t \in THREADS, TakeDone(t), UNCHANGED rest
  PROVE  HotplugInv'
<1>1. /\ tpc[t] \in Pending /\ done' = done \ {t}
      /\ \/ t \notin done /\ mem' = mem \ {t} /\ tpc' = [tpc EXCEPT ![t] = "none"]
         \/ /\ t \in done /\ UNCHANGED mem
            /\ \E next \in Answering : tpc' = [tpc EXCEPT ![t] = next]
      /\ UNCHANGED <<list, completed, result, tstate, asleep, flags, cpu, bound, parked, status>>
      /\ Steady
  BY Zenon DEF TakeDone, Goto, Pending, Answering, Steady, kd, control, smpboot, rest
<1>2. TypeOK'
  BY <1>1 DEF HotplugInv, TypeOK, Steady, Labels, Fresh
<1>3. \A u \in THREADS \ {t} : Same(u)
  BY <1>1 DEF HotplugInv, TypeOK, Same
<1>4. ThreadOK(t) /\ Request(t)
  BY Zenon DEF HotplugInv, Threads, Requests
<1>5. \/ t \notin done /\ t \notin mem' /\ tpc'[t] = "none"
      \/ t \in done /\ (t \in mem' <=> t \in mem) /\ tpc'[t] \in Answering
  BY <1>1 DEF HotplugInv, TypeOK
<1>6. t \notin done'
  BY <1>1, Zenon
<1>7. Requests'
  <2>1. ASSUME NEW u \in THREADS, u # t PROVE Request(u)'
    <3>1. u \in THREADS \ {t}
      BY <2>1, Zenon
    <3> QED
      BY <1>1, <1>3, <3>1, SteadyRequest, Zenon DEF HotplugInv, Requests, Steady, Same
  <2>2. Request(t)'
    <3>1. Asks(t)' <=> Asks(t)
      BY <1>1, Zenon DEF Asks, Steady
    <3>2. ~Listed(t) /\ ~Listed(t)'
      BY <1>1, <1>4, Zenon DEF Request, Listed, Pending
    <3> QED
      BY <1>1, <1>4, <1>5, <1>6, <3>1, <3>2, Zenon DEF Request, Pending, Answering, Steady
  <2>3. ListOnce'
    BY <1>1, Zenon DEF HotplugInv, Requests, ListOnce
  <2> QED
    BY <2>1, <2>2, <2>3, Zenon DEF Requests
<1>8. Local(t)'
  BY <1>1, <1>4, <1>5, Zenon DEF ThreadOK, Local, SP, ST, Fresh, Pending, Answering
<1>9. flags[t] = {}
  BY <1>1, <1>4, Zenon DEF ThreadOK, Local, Fresh
<1>10. Flagged(t)'
  BY <1>1, <1>4, <1>9, Zenon DEF ThreadOK, Flagged, SP, ST, Parked, Pending, Steady
<1>11. Chosen(t)'
  <2>1. ~(thr = t /\ (call = "result" \/ t \in completed))
    BY <1>1, <1>4, Zenon DEF Request, Asks, Creating
  <2> QED
    BY <1>1, <1>4, <2>1, Zenon
    DEF ThreadOK, Chosen, SP, ST, Parked, Newborn, Steady, Pending, Parking
<1>12. Homed(t)'
  <2>1. ~Stored(t)
    BY <1>1, <1>4, Zenon DEF ThreadOK, Homed, Home, Stored, Pending, Parking, Looping, OnCpu
  <2> QED
    BY <1>1, <1>5, <2>1, Zenon DEF Homed, Stored, Steady, Answering, Parking, Looping, OnCpu
<1> QED
  BY <1>1, <1>2, <1>3, <1>7, <1>8, <1>10, <1>11, <1>12, OneThread, Zenon DEF ThreadOK

\* ->result and complete(done).
LEMMA CompleteStep ==
  ASSUME HotplugInv, NEW t \in THREADS, Complete(t), UNCHANGED rest
  PROVE  HotplugInv'
<1>1. /\ tpc[t] \in Answering /\ completed' = completed \cup {t}
      /\ \/ /\ result' = [result EXCEPT ![t] = "error"]
            /\ tpc' = [tpc EXCEPT ![t] = "none"]
            /\ UNCHANGED tstate
         \/ /\ result' = [result EXCEPT ![t] = "task"]
            /\ tpc' = [tpc EXCEPT ![t] = "csched"]
            /\ tstate' = [tstate EXCEPT ![t] = "UNINTERRUPTIBLE"]
      /\ UNCHANGED <<list, mem, done, asleep, flags, cpu, bound, parked, status>>
      /\ Steady
  BY Zenon DEF Complete, Goto, SetState, Answering, Steady, kd, control, smpboot, rest
<1>2. TypeOK'
  BY <1>1 DEF HotplugInv, TypeOK, Steady, Labels, Fresh
<1>3. \A u \in THREADS \ {t} : Same(u)
  BY <1>1 DEF HotplugInv, TypeOK, Same
<1>4. ThreadOK(t) /\ Request(t)
  BY Zenon DEF HotplugInv, Threads, Requests
<1>5. \/ result'[t] = "error" /\ tpc'[t] = "none" /\ tstate'[t] = tstate[t]
      \/ result'[t] = "task" /\ tpc'[t] = "csched" /\ tstate'[t] = "UNINTERRUPTIBLE"
  BY <1>1 DEF HotplugInv, TypeOK
<1>6. Asks(t) /\ call # "result" /\ ~Listed(t)
  BY <1>1, <1>4, Zenon DEF Request, Answering
<1>7. Requests'
  <2>1. ASSUME NEW u \in THREADS, u # t PROVE Request(u)'
    <3>1. u \in THREADS \ {t}
      BY <2>1, Zenon
    <3> QED
      BY <1>1, <1>3, <3>1, SteadyRequest, Zenon DEF HotplugInv, Requests, Steady, Same
  <2>2. Request(t)'
    <3>1. Asks(t)' /\ call' # "result"
      BY <1>1, <1>6, Zenon DEF Asks, Steady
    <3>2. ~Listed(t)'
      BY <1>1, <1>6, Zenon DEF Listed
    <3> QED
      BY <1>1, <1>4, <1>5, <1>6, <3>1, <3>2, Zenon DEF Request, Pending, Answering, Steady
  <2>3. ListOnce'
    BY <1>1, Zenon DEF HotplugInv, Requests, ListOnce
  <2> QED
    BY <2>1, <2>2, <2>3, Zenon DEF Requests
<1>8. flags[t] = {} /\ t \notin asleep
  BY <1>1, <1>4, Zenon DEF ThreadOK, Local, Fresh, Answering
<1>9. Local(t)'
  BY <1>1, <1>5, <1>8, Zenon DEF Local, SP, ST, Fresh, Pending, Answering
<1>10. Flagged(t)'
  BY <1>1, <1>4, <1>8, Zenon DEF ThreadOK, Flagged, SP, ST, Parked, Answering, Steady
<1>11. Chosen(t)'
  <2>1. call # "bind" /\ call # "none" /\ call \notin Unparking /\ call # "park" /\ call \notin InPark
    BY <1>6, Zenon DEF Asks, Creating, Unparking, InPark
  <2>2. hpc # "stopped" /\ hpc # "store"
    BY <1>6, Zenon DEF HotplugInv, Control, CallOK, Asks, Creating, Unparking, InPark
  <2> QED
    BY <1>1, <1>5, <1>8, <2>1, <2>2, Zenon DEF Chosen, Newborn, Steady, InPark, Unparking
<1>12. Homed(t)'
  <2>1. ~Stored(t)
    BY <1>1, <1>4, Zenon DEF ThreadOK, Homed, Home, Stored, Answering, Parking, Looping, OnCpu
  <2> QED
    BY <1>1, <1>5, <2>1, Zenon DEF Homed, Stored, Steady, Parking, Looping, OnCpu
<1> QED
  BY <1>1, <1>2, <1>3, <1>7, <1>9, <1>10, <1>11, <1>12, OneThread, Zenon DEF ThreadOK

\* Taking the first request off the list.
LEMMA TailListed ==
  ASSUME list \in Seq(THREADS), list # <<>>, ListOnce, list' = Tail(list)
  PROVE  /\ Head(list) \in THREADS /\ Listed(Head(list)) /\ ListOnce'
         /\ \A t : Listed(t)' <=> Listed(t) /\ t # Head(list)
<1>1. Len(list) \in Nat /\ Len(list) >= 1 /\ Len(list') = Len(list) - 1
  OBVIOUS
<1>2. \A i \in 1..Len(list') : list'[i] = list[i + 1] /\ i + 1 \in 1..Len(list)
  BY <1>1
<1>3. Head(list) = list[1] /\ 1 \in 1..Len(list) /\ Head(list) \in THREADS
  BY <1>1
<1>4. Listed(Head(list))
  BY <1>3, Zenon DEF Listed
<1>5. ListOnce'
  BY <1>1, <1>2 DEF ListOnce
<1>6. ASSUME NEW t PROVE Listed(t)' <=> Listed(t) /\ t # Head(list)
  <2>1. ASSUME NEW i \in 1..Len(list'), list'[i] = t PROVE Listed(t) /\ t # Head(list)
    <3>1. i + 1 # 1
      BY <1>1, <2>1
    <3> QED
      BY <1>2, <1>3, <2>1, <3>1, Zenon DEF Listed, ListOnce
  <2>2. ASSUME NEW i \in 1..Len(list), list[i] = t, t # Head(list) PROVE Listed(t)'
    <3>1. i - 1 \in 1..Len(list') /\ (i - 1) + 1 = i
      BY <1>1, <1>3, <2>2
    <3> QED
      BY <1>2, <2>2, <3>1 DEF Listed
  <2> QED
    BY <2>1, <2>2, Zenon DEF Listed
<1> QED
  BY <1>3, <1>4, <1>5, <1>6, Zenon

\* kthreadd takes a request and forks, or fails to.
LEMMA KdForkStep ==
  ASSUME HotplugInv, KdFork, UNCHANGED rest
  PROVE  HotplugInv'
<1>1. /\ UNCHANGED <<mem, done, completed, result, asleep, flags, cpu, bound, parked, status>>
      /\ Steady
  BY Zenon DEF KdFork, Steady, create, control, smpboot, rest
<1>2. CASE UNCHANGED <<list, tpc, tstate>>
  <2>1. TypeOK'
    BY <1>1, <1>2, Zenon DEF HotplugInv, TypeOK, Steady
  <2>2. Requests'
    <3>1. ListOnce'
      BY <1>2, Zenon DEF HotplugInv, Requests, ListOnce
    <3>2. ASSUME NEW t \in THREADS PROVE Request(t)'
      BY <1>1, <1>2, SteadyRequest, Zenon DEF HotplugInv, Requests, Steady
    <3> QED
      BY <3>1, <3>2, Zenon DEF Requests
  <2>3. Control'
    BY <1>1, SteadyControl, Zenon DEF HotplugInv
  <2>4. Threads'
    BY <1>1, <1>2, SteadyThread, Zenon DEF HotplugInv, Threads, Same
  <2> QED
    BY <2>1, <2>2, <2>3, <2>4, Zenon DEF HotplugInv
<1>3. CASE /\ list # <<>> /\ list' = Tail(list)
           /\ \/ Goto(Head(list), "start") /\ SetState(Head(list), "RUNNING")
              \/ Goto(Head(list), "failed") /\ UNCHANGED tstate
  <2>1. list \in Seq(THREADS) /\ ListOnce
    BY Zenon DEF HotplugInv, TypeOK, Requests
  <2>2. PICK t \in THREADS : t = Head(list)
    BY <1>3, <2>1, TailListed, Zenon
  <2>3. Listed(t) /\ ListOnce' /\ \A u : Listed(u)' <=> Listed(u) /\ u # t
    BY <1>3, <2>1, <2>2, TailListed, Zenon
  <2>4. list' \in Seq(THREADS)
    BY <1>3, <2>1
  <2>5. \/ tpc' = [tpc EXCEPT ![t] = "start"] /\ tstate' = [tstate EXCEPT ![t] = "RUNNING"]
        \/ tpc' = [tpc EXCEPT ![t] = "failed"] /\ UNCHANGED tstate
    BY <1>3, <2>2, Zenon DEF Goto, SetState
  <2>6. TypeOK'
    BY <1>1, <2>4, <2>5 DEF HotplugInv, TypeOK, Steady, Labels, Fresh, Pending
  <2>7. \A u \in THREADS \ {t} : Same(u)
    BY <1>1, <2>5 DEF HotplugInv, TypeOK, Same
  <2>8. tpc'[t] \in Pending
    BY <2>5 DEF HotplugInv, TypeOK, Pending
  <2>9. ThreadOK(t) /\ Request(t) /\ tpc[t] = "none" /\ t \in mem
    BY <2>3, Zenon DEF HotplugInv, Threads, Requests, Request
  <2>10. Requests'
    <3>1. ASSUME NEW u \in THREADS, u # t PROVE Request(u)'
      <4>1. tpc'[u] = tpc[u]
        BY <2>7, <3>1, Zenon DEF Same
      <4>2. Request(u)
        BY Zenon DEF HotplugInv, Requests
      <4> QED
        BY <1>1, <2>3, <3>1, <4>1, <4>2, Zenon DEF Request, Asks, Steady
    <3>2. Request(t)'
      BY <1>1, <2>3, <2>8, <2>9, Zenon DEF Request, Asks, Steady, Pending, Answering
    <3> QED
      BY <2>3, <3>1, <3>2, Zenon DEF Requests
  <2>11. flags[t] = {} /\ t \notin asleep
    BY <2>9, Zenon DEF ThreadOK, Local, Fresh
  <2>12. Local(t)'
    BY <1>1, <2>8, <2>11, Zenon DEF Local, Fresh, Pending
  <2>13. Flagged(t)'
    BY <1>1, <2>9, <2>11, Zenon DEF ThreadOK, Flagged, SP, ST, Parked, Steady
  <2>14. Chosen(t)'
    <3>1. ~(thr = t /\ (call = "result" \/ t \in completed))
      BY <2>3, <2>9, Zenon DEF Request, Asks, Creating
    <3> QED
      BY <1>1, <2>9, <3>1, Zenon DEF ThreadOK, Chosen, SP, ST, Parked, Newborn, Steady, Parking
  <2>15. Homed(t)'
    <3>1. ASSUME NEW c \in CPUS, store[c] = t PROVE FALSE
      <4>1. hpc = "stopped" /\ call = "none" /\ hcpu = c
        BY <2>9, <3>1, Zenon DEF ThreadOK, Homed, Home
      <4>2. thr = t
        BY <3>1, <4>1, Zenon DEF HotplugInv, Control, TargetOK
      <4> QED
        BY <2>9, <4>1, <4>2, Zenon DEF ThreadOK, Chosen
    <3> QED
      BY <1>1, <2>8, <3>1, Zenon DEF Homed, Stored, Steady, Pending, Parking, Looping, OnCpu
  <2> QED
    BY <1>1, <2>6, <2>7, <2>10, <2>12, <2>13, <2>14, <2>15, OneThread, Zenon DEF ThreadOK
<1> QED
  BY <1>2, <1>3, Zenon DEF KdFork

-----------------------------------------------------------------------------
(* The control task inside a function of Kthread *)

\* Inside a function of Kthread there is a thread.
LEMMA Target ==
  ASSUME HotplugInv, call \notin {"none", "create"}
  PROVE  thr \in THREADS
BY Zenon DEF HotplugInv, Control, CallOK, TargetOK, HasNew, Creating, Unparking, InPark

\* A step of such a function concerns that thread only.
LEMMA InCall ==
  ASSUME HotplugInv, NEW t \in THREADS, thr = t, call # "none",
         UNCHANGED <<online, registered, store, hpc, op, hcpu, todo, thr>>,
         TypeOK', Requests', CallOK',
         call' \in Unparking => call \in Unparking \cup {"stop"}, HasNew' => HasNew,
         \A u \in THREADS \ {t} : Same(u), ThreadOK(t)'
  PROVE  HotplugInv'
<1>1. call \in Unparking \cup {"stop"} => hcpu \in CPUS /\ store[hcpu] = thr
  <2>1. call = "stop" => hpc = "stopped"
    BY Zenon DEF HotplugInv, Control, CallOK, Creating, Unparking, InPark
  <2> QED
    BY <2>1, Zenon DEF HotplugInv, Control, TargetOK, TypeOK
<1>2. call = "stop" => hpc = "stopped"
  BY Zenon DEF HotplugInv, Control, CallOK, Creating, Unparking, InPark
<1>3. TargetOK'
  BY <1>1, <1>2, Zenon DEF HotplugInv, Control, TargetOK, Stored
<1>4. RegOK'
  BY Zenon DEF HotplugInv, Control, RegOK
<1>5. ASSUME NEW u \in THREADS, u # t PROVE ThreadOK(u)'
  <2>1. Same(u) /\ ThreadOK(u)
    BY <1>5, Zenon DEF HotplugInv, Threads
  <2> QED
    BY <1>5, <2>1, Bystander, Zenon DEF HotplugInv
<1> QED
  BY <1>3, <1>4, <1>5, Zenon DEF HotplugInv, Control, Threads

\* Requests outside creation.
LEMMA QuietRequests ==
  ASSUME HotplugInv, UNCHANGED <<list, mem, done, completed, tpc>>,
         call \notin Creating, call' \notin Creating
  PROVE  Requests'
<1>1. ASSUME NEW u \in THREADS PROVE Request(u)'
  BY SteadyRequest, Zenon DEF HotplugInv, Requests
<1> QED
  BY <1>1, Zenon DEF HotplugInv, Requests, ListOnce

\* A step of a creator concerns its request only.
LEMMA CreatorRequests ==
  ASSUME HotplugInv, NEW t \in THREADS, thr = t, UNCHANGED <<list, tpc, thr>>,
         \A u \in THREADS \ {t} : /\ u \in mem' <=> u \in mem
                                  /\ u \in done' <=> u \in done
                                  /\ u \in completed' <=> u \in completed,
         Request(t)'
  PROVE  Requests'
<1>1. ASSUME NEW u \in THREADS, u # t PROVE Request(u)'
  <2>1. u \in THREADS \ {t}
    BY <1>1, Zenon
  <2> QED
    BY <1>1, <2>1, SteadyRequest, Zenon DEF HotplugInv, Requests
<1> QED
  BY <1>1, Zenon DEF HotplugInv, Requests, ListOnce

\* A thread in creation: nothing but its request is of interest.
LEMMA InCreation ==
  ASSUME HotplugInv, NEW t \in THREADS, thr = t, call \in Creating \cup {"bind"}
  PROVE  hpc = "create" /\ ~Stored(t) /\ tpc[t] \notin Looping \cup Parking
<1>1. hpc = "create"
  BY Zenon DEF HotplugInv, Control, CallOK, Creating, Unparking, InPark
<1>2. ~Stored(t)
  BY <1>1, Zenon DEF HotplugInv, Control, TargetOK, HasNew
<1> QED
  BY <1>1, <1>2, Zenon DEF HotplugInv, Threads, ThreadOK, Homed

\* The wait for an answer goes on.
LEMMA CreateGoesOn ==
  ASSUME HotplugInv, NEW t \in THREADS, thr = t,
         \/ call = "kdwake" /\ call' = "wait"
         \/ call = "wait" /\ call' = "killed",
         UNCHANGED <<online, list, create, thread, thr, ret>>, UNCHANGED rest
  PROVE  HotplugInv'
<1>1. UNCHANGED <<list, mem, done, completed, result, tpc, tstate, asleep, flags, cpu, bound,
                  parked, online, registered, store, hpc, op, hcpu, todo, status, thr, ret>>
  BY Zenon DEF create, thread, smpboot, rest
<1>2. TypeOK'
  BY <1>1, Zenon DEF HotplugInv, TypeOK
<1>3. \A u \in THREADS : Same(u)
  BY <1>1, Zenon DEF Same
<1>4. ThreadOK(t) /\ Request(t)
  BY Zenon DEF HotplugInv, Threads, Requests
<1>5. call \in Creating /\ call' \in Creating /\ call' # "result"
  BY Zenon DEF Creating
<1>6. hpc = "create" /\ ~Stored(t) /\ tpc[t] \notin Looping \cup Parking
  BY <1>5, InCreation, Zenon
<1>7. Request(t)'
  BY <1>1, <1>4, <1>5, Zenon DEF Request, Asks, Listed
<1>8. Requests'
  BY <1>1, <1>7, CreatorRequests, Zenon
<1>9. CallOK' /\ (call' \in Unparking => call \in Unparking) /\ (HasNew' => HasNew)
  BY <1>1, <1>5, <1>6, Zenon DEF HotplugInv, Control, CallOK, HasNew, Creating, Unparking, InPark
<1>10. Local(t)'
  BY <1>1, <1>4, Zenon DEF ThreadOK, Local, SP, ST
<1>11. Flagged(t)'
  BY <1>1, <1>4, <1>6, Zenon DEF ThreadOK, Flagged, SP, ST, Parked, InPark
<1>12. Chosen(t)'
  BY <1>1, <1>4, <1>6, Zenon DEF ThreadOK, Chosen, SP, ST, Parked, Newborn, InPark, Unparking
<1>13. Homed(t)'
  BY <1>1, <1>6, Zenon DEF Homed, Stored
<1> QED
  BY <1>1, <1>2, <1>3, <1>8, <1>9, <1>10, <1>11, <1>12, <1>13, InCall, Zenon DEF ThreadOK

\* The creator finds its request completed, or is killed.
LEMMA CreateWaitStep ==
  ASSUME HotplugInv, CreateWait, UNCHANGED rest
  PROVE  HotplugInv'
<1>1. PICK t \in THREADS :
        /\ thr = t /\ call \in {"wait", "wait2"} /\ t \in completed
        /\ completed' = completed \ {t} /\ call' = "result"
        /\ UNCHANGED <<list, mem, done, result, tpc, tstate, asleep, flags, cpu, bound,
                       parked, online, registered, store, hpc, op, hcpu, todo, status, thr, ret>>
  BY Target, Zenon DEF CreateWait, kd, thread, smpboot, rest
<1>2. TypeOK'
  BY <1>1, Zenon DEF HotplugInv, TypeOK
<1>3. \A u \in THREADS \ {t} : Same(u)
  BY <1>1, Zenon DEF Same
<1>4. ThreadOK(t) /\ Request(t)
  BY Zenon DEF HotplugInv, Threads, Requests
<1>5. call \in Creating /\ call' \in Creating
  BY <1>1, Zenon DEF Creating
<1>6. hpc = "create" /\ ~Stored(t) /\ tpc[t] \notin Looping \cup Parking
  BY <1>1, <1>5, InCreation, Zenon
<1>7. Request(t)'
  BY <1>1, <1>4, <1>5, Zenon DEF Request, Asks, Listed
<1>8. Requests'
  BY <1>1, <1>7, CreatorRequests, Zenon
<1>9. CallOK' /\ call' \notin Unparking /\ (HasNew' => HasNew)
  BY <1>1, <1>5, <1>6, Zenon DEF HotplugInv, Control, CallOK, HasNew, Creating, Unparking, InPark
<1>10. Local(t)'
  BY <1>1, <1>4, Zenon DEF ThreadOK, Local, SP, ST
<1>11. Flagged(t)'
  BY <1>1, <1>4, <1>6, Zenon DEF ThreadOK, Flagged, SP, ST, Parked, InPark
<1>12. Chosen(t)'
  BY <1>1, <1>4, <1>6, Zenon DEF ThreadOK, Chosen, SP, ST, Parked, Newborn, InPark, Unparking
<1>13. Homed(t)'
  BY <1>1, <1>6, Zenon DEF Homed, Stored
<1> QED
  BY <1>1, <1>2, <1>3, <1>8, <1>9, <1>10, <1>11, <1>12, <1>13, InCall, Zenon DEF ThreadOK

\* The killed creator takes create->done, or finds that it comes too late.
LEMMA CreateXchgStep ==
  ASSUME HotplugInv, CreateXchg, UNCHANGED rest
  PROVE  HotplugInv'
<1>1. PICK t \in THREADS :
        /\ thr = t /\ call = "killed" /\ done' = done \ {t}
        /\ \/ t \in done /\ call' = "none" /\ ret' = "error"
           \/ t \notin done /\ call' = "wait2" /\ UNCHANGED ret
        /\ UNCHANGED <<list, mem, completed, result, tpc, tstate, asleep, flags, cpu, bound,
                       parked, online, registered, store, hpc, op, hcpu, todo, status, thr>>
  BY Target, Zenon DEF CreateXchg, kd, thread, smpboot, rest
<1>2. TypeOK'
  BY <1>1, Zenon DEF HotplugInv, TypeOK
<1>3. \A u \in THREADS \ {t} : Same(u)
  BY <1>1, Zenon DEF Same
<1>4. ThreadOK(t) /\ Request(t)
  BY Zenon DEF HotplugInv, Threads, Requests
<1>5. call \in Creating /\ (call' = "wait2" => call' \in Creating)
      /\ (call' = "none" => call' \notin Creating)
  BY <1>1, Zenon DEF Creating
<1>6. hpc = "create" /\ ~Stored(t) /\ tpc[t] \notin Looping \cup Parking
  BY <1>1, <1>5, InCreation, Zenon
<1>7. Request(t)'
  BY <1>1, <1>4, <1>5, Zenon DEF Request, Asks, Listed, Pending, Answering
<1>8. Requests'
  BY <1>1, <1>7, CreatorRequests, Zenon
<1>9. CallOK' /\ call' \notin Unparking /\ (HasNew' => HasNew)
  BY <1>1, <1>5, <1>6, Zenon DEF HotplugInv, Control, CallOK, HasNew, Creating, Unparking, InPark
<1>10. Local(t)'
  BY <1>1, <1>4, Zenon DEF ThreadOK, Local, SP, ST
<1>11. Flagged(t)'
  BY <1>1, <1>4, <1>6, Zenon DEF ThreadOK, Flagged, SP, ST, Parked, InPark
<1>12. Chosen(t)'
  BY <1>1, <1>4, <1>6, Zenon DEF ThreadOK, Chosen, SP, ST, Parked, Newborn, InPark, Unparking
<1>13. Homed(t)'
  BY <1>1, <1>6, Zenon DEF Homed, Stored
<1> QED
  BY <1>1, <1>2, <1>3, <1>8, <1>9, <1>10, <1>11, <1>12, <1>13, InCall, Zenon DEF ThreadOK

\* The creator reads the result and frees the request.
LEMMA CreateResultStep ==
  ASSUME HotplugInv, CreateResult, UNCHANGED rest
  PROVE  HotplugInv'
<1>1. PICK t \in THREADS :
        /\ thr = t /\ call = "result" /\ mem' = mem \ {t}
        /\ result' = [result EXCEPT ![t] = "error"]
        /\ \/ result[t] = "task" /\ call' = "bind" /\ UNCHANGED ret
           \/ result[t] = "error" /\ call' = "none" /\ ret' = "error"
        /\ UNCHANGED <<list, done, completed, tpc, tstate, asleep, flags, cpu, bound,
                       parked, online, registered, store, hpc, op, hcpu, todo, status, thr>>
  BY Target, Zenon DEF CreateResult, kd, thread, smpboot, rest
<1>2. TypeOK'
  BY <1>1 DEF HotplugInv, TypeOK
<1>3. \A u \in THREADS \ {t} : Same(u)
  BY <1>1 DEF HotplugInv, TypeOK, Same
<1>4. ThreadOK(t) /\ Request(t)
  BY Zenon DEF HotplugInv, Threads, Requests
<1>5. call \in Creating /\ call' \notin Creating
  BY <1>1, Zenon DEF Creating
<1>6. hpc = "create" /\ ~Stored(t) /\ tpc[t] \notin Looping \cup Parking
  BY <1>1, <1>5, InCreation, Zenon
<1>7. Request(t)' /\ t \notin completed
  BY <1>1, <1>4, <1>5, Zenon DEF Request, Asks, Listed, Pending, Answering
<1>8. Requests'
  BY <1>1, <1>7, CreatorRequests, Zenon
<1>9. CallOK' /\ call' \notin Unparking /\ (HasNew' => HasNew)
  BY <1>1, <1>5, <1>6, Zenon DEF HotplugInv, Control, CallOK, HasNew, Creating, Unparking, InPark
<1>10. Local(t)'
  BY <1>1, <1>4, Zenon DEF ThreadOK, Local, SP, ST
<1>11. Flagged(t)'
  BY <1>1, <1>4, <1>6, Zenon DEF ThreadOK, Flagged, SP, ST, Parked, InPark
<1>12. Chosen(t)'
  BY <1>1, <1>4, <1>6, <1>7, Zenon
  DEF ThreadOK, Chosen, SP, ST, Parked, Newborn, InPark, Unparking
<1>13. Homed(t)'
  BY <1>1, <1>6, Zenon DEF Homed, Stored
<1> QED
  BY <1>1, <1>2, <1>3, <1>8, <1>9, <1>10, <1>11, <1>12, <1>13, InCall, Zenon DEF ThreadOK

\* kthread_create_on_cpu binds the new thread.
LEMMA CreateBindStep ==
  ASSUME HotplugInv, CreateBind(hcpu), UNCHANGED rest
  PROVE  HotplugInv'
<1>1. PICK t \in THREADS :
        /\ thr = t /\ call = "bind" /\ (tstate[t] = "UNINTERRUPTIBLE" => t \in asleep)
        /\ bound' = IF tstate[t] = "UNINTERRUPTIBLE" THEN bound \cup {t} ELSE bound
        /\ cpu' = [cpu EXCEPT ![t] = hcpu]
        /\ flags' = [flags EXCEPT ![t] = @ \cup {"PER_CPU"}]
        /\ call' = "none" /\ ret' = "ok"
        /\ UNCHANGED <<list, mem, done, completed, result, tpc, tstate, asleep,
                       parked, online, registered, store, hpc, op, hcpu, todo, status, thr>>
  BY Target, Zenon DEF CreateBind, kd, create, smpboot, rest
<1>2. TypeOK'
  BY <1>1 DEF HotplugInv, TypeOK, Flags
<1>3. \A u \in THREADS \ {t} : Same(u)
  BY <1>1 DEF HotplugInv, TypeOK, Same
<1>4. ThreadOK(t) /\ Request(t)
  BY Zenon DEF HotplugInv, Threads, Requests
<1>5. call \notin Creating /\ call' \notin Creating
  BY <1>1, Zenon DEF Creating
<1>6. hpc = "create" /\ ~Stored(t) /\ tpc[t] \notin Looping \cup Parking
  BY <1>1, InCreation, Zenon
<1>7. Requests'
  BY <1>1, <1>5, QuietRequests, Zenon
<1>8. CallOK' /\ call' \notin Unparking /\ (HasNew' => HasNew)
  BY <1>1, <1>5, <1>6, Zenon DEF HotplugInv, Control, CallOK, HasNew, Creating, Unparking, InPark
<1>9. tpc[t] = "woken" /\ t \in asleep /\ flags[t] = {} /\ tstate[t] = "UNINTERRUPTIBLE"
  BY <1>1, <1>4, Zenon DEF ThreadOK, Chosen, Newborn, Local
<1>10. cpu'[t] = hcpu /\ flags'[t] = {"PER_CPU"} /\ t \in bound'
  BY <1>1, <1>9 DEF HotplugInv, TypeOK
<1>11. t \notin completed
  BY <1>4, <1>5, Zenon DEF Request, Asks
<1>12. Local(t)'
  BY <1>1, <1>4, <1>9, Zenon DEF ThreadOK, Local, Fresh, Pending, Answering
<1>13. Flagged(t)'
  BY <1>1, <1>4, <1>10, Zenon DEF ThreadOK, Flagged, SP, ST
<1>14. Chosen(t)'
  BY <1>1, <1>6, <1>9, <1>10, <1>11, Zenon DEF Chosen, SP, InPark, Unparking
<1>15. Homed(t)'
  BY <1>1, <1>6, Zenon DEF Homed, Stored
<1> QED
  BY <1>1, <1>2, <1>3, <1>7, <1>8, <1>12, <1>13, <1>14, <1>15, InCall, Zenon DEF ThreadOK

-----------------------------------------------------------------------------
(* kthread_park *)

\* kthread_park sets the flag.
LEMMA ParkStep ==
  ASSUME HotplugInv, Park, UNCHANGED rest
  PROVE  HotplugInv'
<1>1. PICK t \in THREADS :
        /\ thr = t /\ call = "park"
        /\ LET refused == SP(t) \/ tpc[t] = "exited" IN
             /\ flags' = IF refused THEN flags ELSE [flags EXCEPT ![t] = @ \cup {"SHOULD_PARK"}]
             /\ call' = IF refused THEN "none" ELSE "parkwake"
             /\ ret' = IF refused THEN "error" ELSE ret
        /\ UNCHANGED <<list, mem, done, completed, result, tpc, tstate, asleep, cpu, bound,
                       parked, online, registered, store, hpc, op, hcpu, todo, status, thr>>
  BY Target, Zenon DEF Park, SP, kd, create, smpboot, rest
<1>2. ThreadOK(t) /\ Request(t)
  BY Zenon DEF HotplugInv, Threads, Requests
<1>3. /\ hpc = "store" => ~Stored(t)
      /\ hpc # "store" => hpc = "down" /\ hcpu \in online /\ store[hcpu] = t
      /\ \A c \in CPUS : store[c] = t => hpc = "down" /\ c \in online /\ c = hcpu
      /\ ~ST(t)
  BY <1>1, ParkTargets, Zenon
<1>4. ~SP(t) /\ tpc[t] # "exited"
  BY <1>1, <1>2, <1>3, Zenon DEF ThreadOK, Chosen, Local
<1>5. flags' = [flags EXCEPT ![t] = @ \cup {"SHOULD_PARK"}] /\ call' = "parkwake" /\ ret' = ret
  BY <1>1, <1>4, Zenon
<1>6. TypeOK'
  BY <1>1, <1>5 DEF HotplugInv, TypeOK, Flags
<1>7. \A u \in THREADS \ {t} : Same(u)
  BY <1>1, <1>5 DEF HotplugInv, TypeOK, Same
<1>8. flags'[t] = flags[t] \cup {"SHOULD_PARK"}
  BY <1>5 DEF HotplugInv, TypeOK
<1>9. SP(t)' /\ ~ST(t)' /\ ("PER_CPU" \in flags'[t] <=> "PER_CPU" \in flags[t])
  BY <1>3, <1>8, Zenon DEF SP, ST
<1>10. Requests'
  BY <1>1, <1>5, QuietRequests, Zenon DEF Creating
<1>11. CallOK' /\ call' \notin Unparking /\ (HasNew' => HasNew)
  BY <1>1, <1>5, Zenon DEF HotplugInv, Control, CallOK, HasNew, Creating, Unparking, InPark
<1>12. tpc[t] = "woken" \/ tpc[t] \in Parking \cup Looping
  <2>1. CASE hpc = "store"
    BY <1>1, <1>2, <2>1, Zenon DEF ThreadOK, Chosen
  <2>2. CASE hpc = "down"
    <3>1. hcpu \in CPUS /\ store[hcpu] = t
      BY <1>3, <2>2 DEF HotplugInv, TypeOK
    <3> QED
      BY <1>2, <2>2, <3>1, Zenon DEF ThreadOK, Homed, Home
  <2> QED
    BY <1>3, <2>1, <2>2, Zenon
<1>13. Local(t)'
  <2>1. tpc[t] \notin Fresh
    BY <1>12, Zenon DEF Fresh, Pending, Answering, Parking, Looping, OnCpu
  <2>2. tpc[t] \notin {"cleanup", "exited"} /\ ~(tpc[t] = "pktest" /\ tstate[t] # "PARKED")
    BY <1>2, <1>3, Zenon DEF ThreadOK, Local
  <2> QED
    BY <1>1, <1>2, <1>9, <2>1, <2>2, Zenon DEF ThreadOK, Local, Fresh
<1>14. Flagged(t)'
  BY <1>1, <1>2, <1>5, <1>9, Zenon DEF ThreadOK, Flagged, InPark
<1>15. Chosen(t)'
  <2>1. t \notin completed
    BY <1>1, <1>2, Zenon DEF Request, Asks, Creating
  <2> QED
    BY <1>1, <1>2, <1>3, <1>5, <1>9, <2>1, Zenon DEF ThreadOK, Chosen, InPark, Unparking
<1>16. Homed(t)'
  BY <1>1, <1>2, <1>3, <1>5, <1>9, Zenon DEF ThreadOK, Homed, Home, Stored
<1> QED
  BY <1>1, <1>6, <1>7, <1>10, <1>11, <1>13, <1>14, <1>15, <1>16, InCall, Zenon DEF ThreadOK

\* kthread_park wakes the thread.
LEMMA ParkWakeStep ==
  ASSUME HotplugInv, ParkWake, UNCHANGED rest
  PROVE  HotplugInv'
<1>1. PICK t \in THREADS :
        /\ thr = t /\ call = "parkwake" /\ call' = "parkwait" /\ Wake(t, NORMAL)
        /\ UNCHANGED <<list, mem, done, completed, result, tpc, flags, cpu,
                       parked, online, registered, store, hpc, op, hcpu, todo, status, thr, ret>>
  BY Target, Zenon DEF ParkWake, kd, create, smpboot, rest
<1>2. ThreadOK(t) /\ Request(t)
  BY Zenon DEF HotplugInv, Threads, Requests
<1>3. /\ hpc = "store" => ~Stored(t)
      /\ hpc # "store" => hpc = "down" /\ hcpu \in online /\ store[hcpu] = t
      /\ \A c \in CPUS : store[c] = t => hpc = "down" /\ c \in online /\ c = hcpu
      /\ ~ST(t)
  BY <1>1, ParkTargets, Zenon DEF InPark
<1>4. /\ tstate' \in [THREADS -> {"RUNNING", "INTERRUPTIBLE", "UNINTERRUPTIBLE", "PARKED"}]
      /\ tstate'[t] = IF tstate[t] \in NORMAL THEN "RUNNING" ELSE tstate[t]
      /\ t \in asleep' <=> t \in asleep /\ tstate[t] \notin NORMAL
      /\ t \in bound' => t \in bound
      /\ t \in bound /\ t \notin bound' =>
           tstate[t] \in NORMAL /\ t \in asleep /\ cpu[t] \notin online
  BY <1>1, WakeDoes, Zenon DEF HotplugInv
<1>5. TypeOK'
  BY <1>1, <1>4, Zenon DEF HotplugInv, TypeOK
<1>6. \A u \in THREADS \ {t} : Same(u)
  BY <1>1, WakeDoes, Zenon DEF HotplugInv, Same
<1>7. Requests'
  BY <1>1, QuietRequests, Zenon DEF Creating
<1>8. CallOK' /\ call' \notin Unparking /\ (HasNew' => HasNew)
  BY <1>1, Zenon DEF HotplugInv, Control, CallOK, HasNew, Creating, Unparking, InPark
<1>9. SP(t) /\ SP(t)' /\ ~ST(t)'
  BY <1>1, <1>2, <1>3, Zenon DEF ThreadOK, Chosen, SP, ST, InPark
<1>10. Parked(t)' <=> Parked(t)
  BY <1>1, <1>4, Zenon DEF Parked, NORMAL
<1>11. tpc[t] \notin Fresh
  BY <1>2, <1>9, Zenon DEF ThreadOK, Local, SP
<1>12. Local(t)'
  BY <1>1, <1>2, <1>3, <1>4, <1>9, <1>11, Zenon DEF ThreadOK, Local, NORMAL, Fresh
<1>13. Flagged(t)'
  BY <1>1, <1>2, <1>9, <1>10, Zenon DEF ThreadOK, Flagged, InPark
<1>14. Chosen(t)'
  <2>1. t \notin completed
    BY <1>1, <1>2, Zenon DEF Request, Asks, Creating
  <2>2. hpc = "store" => cpu[t] = hcpu
    BY <1>1, <1>2, Zenon DEF ThreadOK, Chosen
  <2> QED
    BY <1>1, <1>2, <1>3, <1>4, <1>9, <2>1, <2>2, Zenon DEF ThreadOK, Chosen, InPark, Unparking
<1>15. Homed(t)'
  <2>1. ASSUME NEW c \in CPUS, store[c] = t PROVE Home(c, t)'
    <3>1. Home(c, t) /\ hpc = "down" /\ c \in online /\ c = hcpu
      BY <1>2, <1>3, <2>1, Zenon DEF ThreadOK, Homed
    <3>2. cpu[t] = c
      BY <3>1, Zenon DEF Home
    <3> QED
      BY <1>1, <1>4, <1>9, <3>1, <3>2, Zenon DEF Home, SP
  <2> QED
    BY <1>1, <1>2, <2>1, Zenon DEF ThreadOK, Homed, Stored
<1> QED
  BY <1>1, <1>5, <1>6, <1>7, <1>8, <1>12, <1>13, <1>14, <1>15, InCall, Zenon DEF ThreadOK

\* kthread_park waits for kthread->parked.
LEMMA ParkWaitStep ==
  ASSUME HotplugInv, ParkWait, UNCHANGED rest
  PROVE  HotplugInv'
<1>1. PICK t \in THREADS :
        /\ thr = t /\ call = "parkwait" /\ call' = "parkidle"
        /\ t \in parked /\ parked' = parked \ {t}
        /\ UNCHANGED <<list, mem, done, completed, result, tpc, tstate, asleep, flags, cpu, bound,
                       online, registered, store, hpc, op, hcpu, todo, status, thr, ret>>
  BY Target, Zenon DEF ParkWait, kd, create, smpboot, rest
<1>2. ThreadOK(t)
  BY Zenon DEF HotplugInv, Threads
<1>3. TypeOK'
  BY <1>1, Zenon DEF HotplugInv, TypeOK
<1>4. \A u \in THREADS \ {t} : Same(u)
  BY <1>1, Zenon DEF Same
<1>5. Requests'
  BY <1>1, QuietRequests, Zenon DEF Creating
<1>6. CallOK' /\ call' \notin Unparking /\ (HasNew' => HasNew)
  BY <1>1, Zenon DEF HotplugInv, Control, CallOK, HasNew, Creating, Unparking, InPark
<1>7. Local(t)'
  BY <1>1, <1>2, Zenon DEF ThreadOK, Local, SP, ST
<1>8. Flagged(t)'
  BY <1>1, <1>2, Zenon DEF ThreadOK, Flagged, SP, ST, Parked, InPark
<1>9. Chosen(t)'
  BY <1>1, <1>2, Zenon DEF ThreadOK, Flagged, Chosen, SP, ST, Parked, Newborn, InPark, Unparking
<1>10. Homed(t)'
  BY <1>1, <1>2, Zenon DEF ThreadOK, Homed, Home, SP, ST, Parked, Stored
<1> QED
  BY <1>1, <1>3, <1>4, <1>5, <1>6, <1>7, <1>8, <1>9, <1>10, InCall, Zenon DEF ThreadOK

\* kthread_park waits until the thread is off its CPU.
LEMMA ParkIdleStep ==
  ASSUME HotplugInv, ParkIdle, UNCHANGED rest
  PROVE  HotplugInv'
<1>1. PICK t \in THREADS :
        /\ thr = t /\ call = "parkidle" /\ call' = "none" /\ ret' = "ok"
        /\ tstate[t] = "PARKED" => t \in asleep
        /\ UNCHANGED <<list, mem, done, completed, result, tpc, tstate, asleep, flags, cpu, bound,
                       parked, online, registered, store, hpc, op, hcpu, todo, status, thr>>
  BY Target, Zenon DEF ParkIdle, kd, create, thread, smpboot, rest
<1>2. ThreadOK(t)
  BY Zenon DEF HotplugInv, Threads
<1>3. TypeOK'
  BY <1>1, Zenon DEF HotplugInv, TypeOK
<1>4. \A u \in THREADS \ {t} : Same(u)
  BY <1>1, Zenon DEF Same
<1>5. Requests'
  BY <1>1, QuietRequests, Zenon DEF Creating
<1>6. CallOK' /\ call' \notin Unparking /\ (HasNew' => HasNew) /\ hpc \in {"store", "down"}
  BY <1>1, Zenon DEF HotplugInv, Control, CallOK, HasNew, Creating, Unparking, InPark
<1>7. Parked(t) /\ SP(t) /\ t \notin parked
  BY <1>1, <1>2, Zenon DEF ThreadOK, Chosen, Local, Flagged, Parked, InPark
<1>8. Parked(t)' /\ SP(t)'
  BY <1>1, <1>7, Zenon DEF Parked, SP
<1>9. Local(t)'
  BY <1>1, <1>2, Zenon DEF ThreadOK, Local, SP, ST
<1>10. Flagged(t)'
  BY <1>1, <1>2, <1>6, <1>7, <1>8, Zenon DEF ThreadOK, Flagged, ST
<1>11. Chosen(t)'
  BY <1>1, <1>2, <1>6, <1>8, Zenon DEF ThreadOK, Chosen, Newborn, InPark, Unparking
<1>12. Homed(t)'
  BY <1>1, <1>2, <1>6, <1>8, Zenon DEF ThreadOK, Homed, Home, SP, ST, Stored
<1> QED
  BY <1>1, <1>3, <1>4, <1>5, <1>6, <1>9, <1>10, <1>11, <1>12, InCall, Zenon DEF ThreadOK

-----------------------------------------------------------------------------
(* kthread_unpark and kthread_stop *)

\* They run for a thread that is stored.
LEMMA UnparkTargets ==
  ASSUME HotplugInv, NEW t \in THREADS, thr = t,
         call \in Unparking \cup {"stop", "stopwake", "stopwait"}
  PROVE  /\ hcpu \in CPUS /\ store[hcpu] = t
         /\ hpc = "stopped" \/ (hpc \in {"next", "finish"} /\ hcpu \in online)
         /\ call \notin Unparking => hpc = "stopped"
         /\ \A c \in CPUS : store[c] = t => c = hcpu
         /\ tpc[t] \in Parking \cup Looping /\ cpu[t] = hcpu /\ "PER_CPU" \in flags[t]
<1>1. hpc = "stopped" \/ (hpc \in {"next", "finish"} /\ call \in Unparking)
  BY Zenon DEF HotplugInv, Control, CallOK, Creating, Unparking, InPark
<1>2. hcpu \in CPUS /\ store[hcpu] = t /\ (hpc # "stopped" => hcpu \in online)
  BY <1>1, Zenon DEF HotplugInv, Control, TargetOK, TypeOK
<1>3. t # NoThread
  BY KthreadAssumption DEF NoThread
<1>4. \A c \in CPUS : store[c] = t => c = hcpu
  BY <1>2, <1>3, Zenon DEF HotplugInv, Control, TargetOK
<1>5. call # "none"
  BY Zenon DEF Unparking
<1>6. tpc[t] \in Parking \cup Looping /\ cpu[t] = hcpu /\ "PER_CPU" \in flags[t]
  BY <1>2, <1>5, Zenon DEF HotplugInv, Threads, ThreadOK, Homed, Home
<1> QED
  BY <1>1, <1>2, <1>4, <1>6, Zenon

\* kthread_unpark binds a per-CPU thread again.
LEMMA UnparkBindStep ==
  ASSUME HotplugInv, UnparkBind, UNCHANGED rest
  PROVE  HotplugInv'
<1>1. PICK t \in THREADS :
        /\ thr = t /\ call = "unpark" /\ call' = "clear"
        /\ bound' = IF tstate[t] = "PARKED" /\ "PER_CPU" \in flags[t] THEN bound \cup {t} ELSE bound
        /\ UNCHANGED <<list, mem, done, completed, result, tpc, tstate, asleep, flags, cpu,
                       parked, online, registered, store, hpc, op, hcpu, todo, status, thr, ret>>
  BY Target, Zenon DEF UnparkBind, kd, create, smpboot, rest
<1>2. ThreadOK(t)
  BY Zenon DEF HotplugInv, Threads
<1>3. TypeOK'
  BY <1>1, Zenon DEF HotplugInv, TypeOK
<1>4. \A u \in THREADS \ {t} : Same(u)
  BY <1>1, Zenon DEF Same
<1>5. Requests'
  BY <1>1, QuietRequests, Zenon DEF Creating
<1>6. CallOK' /\ call \in Unparking /\ (HasNew' => HasNew)
  BY <1>1, Zenon DEF HotplugInv, Control, CallOK, HasNew, Creating, Unparking, InPark
<1>7. /\ hcpu \in CPUS /\ store[hcpu] = t
      /\ hpc = "stopped" \/ (hpc \in {"next", "finish"} /\ hcpu \in online)
      /\ \A c \in CPUS : store[c] = t => c = hcpu
      /\ tpc[t] \in Parking \cup Looping /\ cpu[t] = hcpu /\ "PER_CPU" \in flags[t]
  BY <1>1, <1>6, UnparkTargets, Zenon
<1>8. t \in bound \/ Parked(t) => t \in bound'
  BY <1>1, <1>7, Zenon DEF Parked
<1>9. Local(t)'
  BY <1>1, <1>2, Zenon DEF ThreadOK, Local, SP, ST
<1>10. Flagged(t)'
  BY <1>1, <1>2, Zenon DEF ThreadOK, Flagged, SP, ST, Parked, InPark
<1>11. Chosen(t)'
  BY <1>1, <1>2, <1>6, <1>7, Zenon DEF ThreadOK, Chosen, SP, ST, Parked, Newborn, InPark
<1>12. Homed(t)'
  BY <1>1, <1>2, <1>7, <1>8, Zenon DEF ThreadOK, Homed, Home, SP, ST, Stored
<1> QED
  BY <1>1, <1>3, <1>4, <1>5, <1>6, <1>9, <1>10, <1>11, <1>12, InCall, Zenon DEF ThreadOK

\* kthread_unpark clears the flag.
LEMMA UnparkClearStep ==
  ASSUME HotplugInv, UnparkClear, UNCHANGED rest
  PROVE  HotplugInv'
<1>1. PICK t \in THREADS :
        /\ thr = t /\ call = "clear" /\ call' = "unparkwake"
        /\ flags' = [flags EXCEPT ![t] = @ \ {"SHOULD_PARK"}]
        /\ UNCHANGED <<list, mem, done, completed, result, tpc, tstate, asleep, cpu, bound,
                       parked, online, registered, store, hpc, op, hcpu, todo, status, thr, ret>>
  BY Target, Zenon DEF UnparkClear, kd, create, smpboot, rest
<1>2. ThreadOK(t)
  BY Zenon DEF HotplugInv, Threads
<1>3. TypeOK'
  BY <1>1 DEF HotplugInv, TypeOK
<1>4. \A u \in THREADS \ {t} : Same(u)
  BY <1>1 DEF HotplugInv, TypeOK, Same
<1>5. flags'[t] = flags[t] \ {"SHOULD_PARK"}
  BY <1>1 DEF HotplugInv, TypeOK
<1>6. ~SP(t)' /\ (ST(t)' <=> ST(t)) /\ ("PER_CPU" \in flags'[t] <=> "PER_CPU" \in flags[t])
  BY <1>5, Zenon DEF SP, ST
<1>7. Requests'
  BY <1>1, QuietRequests, Zenon DEF Creating
<1>8. CallOK' /\ call \in Unparking /\ (HasNew' => HasNew)
  BY <1>1, Zenon DEF HotplugInv, Control, CallOK, HasNew, Creating, Unparking, InPark
<1>9. /\ hcpu \in CPUS /\ store[hcpu] = t
      /\ hpc = "stopped" \/ (hpc \in {"next", "finish"} /\ hcpu \in online)
      /\ \A c \in CPUS : store[c] = t => c = hcpu
      /\ tpc[t] \in Parking \cup Looping /\ cpu[t] = hcpu /\ "PER_CPU" \in flags[t]
  BY <1>1, <1>8, UnparkTargets, Zenon
<1>10. tpc[t] # "pksched" /\ tpc[t] # "woken" /\ tpc[t] \notin Fresh
  <2>1. tpc[t] # "pksched"
    BY <1>1, <1>2, Zenon DEF ThreadOK, Local, Flagged, Parked, InPark
  <2> QED
    BY <1>9, <2>1, Zenon DEF Parking, Looping, OnCpu, Fresh, Pending, Answering
<1>11. Local(t)'
  BY <1>1, <1>2, <1>6, <1>10, Zenon DEF ThreadOK, Local
<1>12. Flagged(t)'
  BY <1>1, <1>2, <1>6, Zenon DEF ThreadOK, Flagged
<1>13. Chosen(t)'
  <2>1. hpc # "stopped" => Parked(t) /\ Parked(t)'
    BY <1>1, <1>2, <1>8, Zenon DEF ThreadOK, Chosen, Parked
  <2>2. t \notin completed
    <3>1. ~Asks(t)
      BY <1>1, Zenon DEF Asks, Creating
    <3> QED
      BY <3>1, Zenon DEF HotplugInv, Requests, Request
  <2> QED
    BY <1>1, <1>2, <1>6, <1>9, <2>1, <2>2, Zenon DEF ThreadOK, Chosen, InPark
<1>14. Homed(t)'
  <2>1. hpc = "stopped" => ST(t)
    BY <1>1, <1>2, Zenon DEF ThreadOK, Chosen
  <2>2. t \in bound \/ hcpu \notin online
    BY <1>1, <1>2, <1>9, Zenon DEF ThreadOK, Homed, Home, Parking, Looping, OnCpu
  <2> QED
    BY <1>1, <1>2, <1>6, <1>9, <2>1, <2>2, Zenon DEF ThreadOK, Homed, Home, Stored
<1> QED
  BY <1>1, <1>3, <1>4, <1>7, <1>8, <1>11, <1>12, <1>13, <1>14, InCall, Zenon DEF ThreadOK

\* kthread_unpark wakes the thread.
LEMMA UnparkWakeStep ==
  ASSUME HotplugInv, UnparkWake, UNCHANGED rest
  PROVE  HotplugInv'
<1>1. PICK t \in THREADS :
        /\ thr = t /\ call = "unparkwake" /\ Wake(t, {"PARKED"})
        /\ \/ ST(t) /\ call' = "stopwake" /\ UNCHANGED ret
           \/ ~ST(t) /\ call' = "none" /\ ret' = "ok"
        /\ UNCHANGED <<list, mem, done, completed, result, tpc, flags, cpu,
                       parked, online, registered, store, hpc, op, hcpu, todo, status, thr>>
  BY Target, Zenon DEF UnparkWake, ST, kd, create, smpboot, rest
<1>2. ThreadOK(t)
  BY Zenon DEF HotplugInv, Threads
<1>3. /\ tstate' \in [THREADS -> {"RUNNING", "INTERRUPTIBLE", "UNINTERRUPTIBLE", "PARKED"}]
      /\ tstate'[t] = IF tstate[t] = "PARKED" THEN "RUNNING" ELSE tstate[t]
      /\ t \in asleep' <=> t \in asleep /\ tstate[t] # "PARKED"
      /\ t \in bound' => t \in bound
      /\ t \in bound /\ t \notin bound' => cpu[t] \notin online
  BY <1>1, WakeDoes, Zenon DEF HotplugInv
<1>4. TypeOK'
  BY <1>1, <1>3, Zenon DEF HotplugInv, TypeOK
<1>5. \A u \in THREADS \ {t} : Same(u)
  BY <1>1, WakeDoes, Zenon DEF HotplugInv, Same
<1>6. Requests'
  BY <1>1, QuietRequests, Zenon DEF Creating
<1>7. call \in Unparking
  BY <1>1, Zenon DEF Unparking
<1>8. /\ hcpu \in CPUS /\ store[hcpu] = t
      /\ hpc = "stopped" \/ (hpc \in {"next", "finish"} /\ hcpu \in online)
      /\ \A c \in CPUS : store[c] = t => c = hcpu
      /\ tpc[t] \in Parking \cup Looping /\ cpu[t] = hcpu /\ "PER_CPU" \in flags[t]
  BY <1>1, <1>7, UnparkTargets, Zenon
<1>9. ~SP(t) /\ ~SP(t)' /\ (ST(t)' <=> ST(t)) /\ (ST(t) <=> hpc = "stopped")
  BY <1>1, <1>2, Zenon DEF ThreadOK, Chosen, Flagged, SP, ST
<1>10. CallOK' /\ (HasNew' => HasNew)
  BY <1>1, <1>8, <1>9, Zenon DEF HotplugInv, Control, CallOK, HasNew, Creating, Unparking, InPark
<1>11. tpc[t] # "csched" /\ tpc[t] # "woken" /\ tpc[t] \notin Fresh
  BY <1>8, Zenon DEF Parking, Looping, OnCpu, Fresh, Pending, Answering
<1>12. Local(t)'
  <2>1. hpc # "stopped" => tpc[t] = "pkset"
    BY <1>2, <1>1, <1>7, Zenon DEF ThreadOK, Chosen, Parked
  <2> QED
    BY <1>1, <1>2, <1>3, <1>9, <1>11, <2>1, Zenon DEF ThreadOK, Local
<1>13. Flagged(t)'
  BY <1>1, <1>2, <1>9, Zenon DEF ThreadOK, Flagged
<1>14. Chosen(t)'
  <2>1. ~Asks(t)
    BY <1>1, Zenon DEF Asks, Creating
  <2>2. t \notin completed
    BY <2>1, Zenon DEF HotplugInv, Requests, Request
  <2> QED
    BY <1>1, <1>8, <1>9, <2>2, Zenon DEF Chosen, InPark, Unparking
<1>15. Homed(t)'
  <2>1. tpc[t] # "none" /\ (t \in bound \/ hcpu \notin online)
    BY <1>1, <1>2, <1>8, Zenon DEF ThreadOK, Homed, Home, Parking, Looping, OnCpu
  <2>2. Home(hcpu, t)
    BY <1>2, <1>8, Zenon DEF ThreadOK, Homed
  <2>3. Home(hcpu, t)'
    BY <1>1, <1>3, <1>8, <1>9, <2>1, <2>2, Zenon DEF Home
  <2> QED
    BY <1>1, <1>8, <2>3, Zenon DEF Homed, Stored
<1> QED
  BY <1>1, <1>4, <1>5, <1>6, <1>7, <1>10, <1>12, <1>13, <1>14, <1>15, InCall, Zenon DEF ThreadOK

\* kthread_stop sets the flag and calls kthread_unpark.
LEMMA StopStep ==
  ASSUME HotplugInv, Stop, UNCHANGED rest
  PROVE  HotplugInv'
<1>1. PICK t \in THREADS :
        /\ thr = t /\ call = "stop" /\ call' = "unpark"
        /\ flags' = [flags EXCEPT ![t] = @ \cup {"SHOULD_STOP"}]
        /\ UNCHANGED <<list, mem, done, completed, result, tpc, tstate, asleep, cpu, bound,
                       parked, online, registered, store, hpc, op, hcpu, todo, status, thr, ret>>
  BY Target, Zenon DEF Stop, kd, create, smpboot, rest
<1>2. ThreadOK(t)
  BY Zenon DEF HotplugInv, Threads
<1>3. TypeOK'
  BY <1>1 DEF HotplugInv, TypeOK, Flags
<1>4. \A u \in THREADS \ {t} : Same(u)
  BY <1>1 DEF HotplugInv, TypeOK, Same
<1>5. flags'[t] = flags[t] \cup {"SHOULD_STOP"}
  BY <1>1 DEF HotplugInv, TypeOK
<1>6. ST(t)' /\ (SP(t)' <=> SP(t)) /\ ("PER_CPU" \in flags'[t] <=> "PER_CPU" \in flags[t])
  BY <1>5, Zenon DEF SP, ST
<1>7. Requests'
  BY <1>1, QuietRequests, Zenon DEF Creating
<1>8. CallOK' /\ (HasNew' => HasNew) /\ call \notin Unparking
  BY <1>1, Zenon DEF HotplugInv, Control, CallOK, HasNew, Creating, Unparking, InPark
<1>9. /\ hcpu \in CPUS /\ store[hcpu] = t /\ hpc = "stopped"
      /\ \A c \in CPUS : store[c] = t => c = hcpu
      /\ tpc[t] \in Parking \cup Looping /\ cpu[t] = hcpu /\ "PER_CPU" \in flags[t]
  BY <1>1, <1>8, UnparkTargets, Zenon
<1>10. tpc[t] \notin Fresh
  BY <1>9, Zenon DEF Parking, Looping, OnCpu, Fresh, Pending, Answering
<1>11. Local(t)'
  BY <1>1, <1>2, <1>6, <1>10, Zenon DEF ThreadOK, Local
<1>12. Flagged(t)'
  BY <1>1, <1>2, <1>6, <1>9, Zenon DEF ThreadOK, Flagged, Parked, InPark
<1>13. Chosen(t)'
  <2>1. ~Asks(t)
    BY <1>1, Zenon DEF Asks, Creating
  <2>2. t \notin completed
    BY <2>1, Zenon DEF HotplugInv, Requests, Request
  <2> QED
    BY <1>1, <1>6, <1>9, <2>2, Zenon DEF Chosen, InPark
<1>14. Homed(t)'
  <2>1. Home(hcpu, t)
    BY <1>2, <1>9, Zenon DEF ThreadOK, Homed
  <2>2. Home(hcpu, t)'
    BY <1>1, <1>6, <1>9, <2>1, Zenon DEF Home
  <2> QED
    BY <1>1, <1>9, <2>2, Zenon DEF Homed, Stored
<1> QED
  BY <1>1, <1>3, <1>4, <1>7, <1>8, <1>11, <1>12, <1>13, <1>14, InCall, Zenon DEF ThreadOK

\* kthread_stop wakes the thread.
LEMMA StopWakeStep ==
  ASSUME HotplugInv, StopWake, UNCHANGED rest
  PROVE  HotplugInv'
<1>1. PICK t \in THREADS :
        /\ thr = t /\ call = "stopwake" /\ call' = "stopwait" /\ Wake(t, NORMAL)
        /\ UNCHANGED <<list, mem, done, completed, result, tpc, flags, cpu,
                       parked, online, registered, store, hpc, op, hcpu, todo, status, thr, ret>>
  BY Target, Zenon DEF StopWake, kd, create, smpboot, rest
<1>2. ThreadOK(t)
  BY Zenon DEF HotplugInv, Threads
<1>3. /\ tstate' \in [THREADS -> {"RUNNING", "INTERRUPTIBLE", "UNINTERRUPTIBLE", "PARKED"}]
      /\ tstate'[t] = IF tstate[t] \in NORMAL THEN "RUNNING" ELSE tstate[t]
      /\ t \in asleep' <=> t \in asleep /\ tstate[t] \notin NORMAL
      /\ t \in bound' => t \in bound
      /\ t \in bound /\ t \notin bound' => cpu[t] \notin online
  BY <1>1, WakeDoes, Zenon DEF HotplugInv
<1>4. TypeOK'
  BY <1>1, <1>3, Zenon DEF HotplugInv, TypeOK
<1>5. \A u \in THREADS \ {t} : Same(u)
  BY <1>1, WakeDoes, Zenon DEF HotplugInv, Same
<1>6. Requests'
  BY <1>1, QuietRequests, Zenon DEF Creating
<1>7. CallOK' /\ (HasNew' => HasNew) /\ call \notin Unparking /\ call' \notin Unparking
  BY <1>1, Zenon DEF HotplugInv, Control, CallOK, HasNew, Creating, Unparking, InPark
<1>8. /\ hcpu \in CPUS /\ store[hcpu] = t /\ hpc = "stopped"
      /\ \A c \in CPUS : store[c] = t => c = hcpu
      /\ tpc[t] \in Parking \cup Looping /\ cpu[t] = hcpu /\ "PER_CPU" \in flags[t]
  BY <1>1, <1>7, UnparkTargets, Zenon
<1>9. tpc[t] # "csched" /\ tpc[t] # "woken" /\ tpc[t] \notin Fresh
  BY <1>8, Zenon DEF Parking, Looping, OnCpu, Fresh, Pending, Answering
<1>10. (Parked(t)' <=> Parked(t)) /\ (SP(t)' <=> SP(t)) /\ (ST(t)' <=> ST(t))
  BY <1>1, <1>3, Zenon DEF Parked, NORMAL, SP, ST
<1>11. Local(t)'
  BY <1>1, <1>2, <1>3, <1>9, <1>10, Zenon DEF ThreadOK, Local, NORMAL
<1>12. Flagged(t)'
  BY <1>1, <1>2, <1>10, Zenon DEF ThreadOK, Flagged, InPark
<1>13. Chosen(t)'
  <2>1. ~Asks(t)
    BY <1>1, Zenon DEF Asks, Creating
  <2>2. t \notin completed
    BY <2>1, Zenon DEF HotplugInv, Requests, Request
  <2> QED
    BY <1>1, <1>2, <1>7, <1>8, <1>10, <2>2, Zenon DEF ThreadOK, Chosen, InPark
<1>14. Homed(t)'
  <2>1. Home(hcpu, t) /\ (t \in bound \/ hcpu \notin online)
    BY <1>1, <1>2, <1>8, Zenon DEF ThreadOK, Homed, Home, Parking, Looping, OnCpu
  <2>2. Home(hcpu, t)'
    BY <1>1, <1>3, <1>8, <1>10, <2>1, Zenon DEF Home
  <2> QED
    BY <1>1, <1>8, <2>2, Zenon DEF Homed, Stored
<1> QED
  BY <1>1, <1>4, <1>5, <1>6, <1>7, <1>11, <1>12, <1>13, <1>14, InCall, Zenon DEF ThreadOK

\* kthread_stop waits for the exit.
LEMMA StopWaitStep ==
  ASSUME HotplugInv, StopWait, UNCHANGED rest
  PROVE  HotplugInv'
<1>1. PICK t \in THREADS :
        /\ thr = t /\ call = "stopwait" /\ call' = "none" /\ tpc[t] = "exited"
        /\ tpc' = [tpc EXCEPT ![t] = "none"]
        /\ flags' = [flags EXCEPT ![t] = {}]
        /\ cpu' = [cpu EXCEPT ![t] = NoCpu]
        /\ bound' = bound \ {t} /\ parked' = parked \ {t}
        /\ UNCHANGED <<list, mem, done, completed, result, tstate, asleep,
                       online, registered, store, hpc, op, hcpu, todo, status, thr>>
  BY Target, Zenon DEF StopWait, Goto, kd, create, smpboot, rest
<1>2. ThreadOK(t) /\ Request(t)
  BY Zenon DEF HotplugInv, Threads, Requests
<1>3. TypeOK'
  BY <1>1 DEF HotplugInv, TypeOK, Labels, Fresh
<1>4. \A u \in THREADS \ {t} : Same(u)
  BY <1>1 DEF HotplugInv, TypeOK, Same
<1>5. tpc'[t] = "none" /\ flags'[t] = {} /\ t \notin parked'
  BY <1>1 DEF HotplugInv, TypeOK
<1>6. call \notin Creating /\ call' \notin Creating
  BY <1>1, Zenon DEF Creating
<1>7. ~Listed(t) /\ t \notin mem /\ t \notin done /\ t \notin completed
  BY <1>1, <1>2, <1>6, Zenon DEF Request, Asks, Pending, Answering
<1>8. Requests'
  <2>1. ASSUME NEW u \in THREADS, u # t PROVE Request(u)'
    <3>1. tpc'[u] = tpc[u]
      BY <1>4, <2>1, Zenon DEF Same
    <3> QED
      BY <1>1, <1>6, <3>1, SteadyRequest, Zenon DEF HotplugInv, Requests
  <2>2. Request(t)'
    BY <1>1, <1>5, <1>6, <1>7, Zenon DEF Request, Asks, Listed, Pending, Answering
  <2> QED
    BY <1>1, <2>1, <2>2, Zenon DEF HotplugInv, Requests, ListOnce
<1>9. CallOK' /\ (HasNew' => HasNew) /\ call \notin Unparking /\ call' \notin Unparking
  BY <1>1, Zenon DEF HotplugInv, Control, CallOK, HasNew, Creating, Unparking, InPark
<1>10. /\ hcpu \in CPUS /\ store[hcpu] = t /\ hpc = "stopped"
       /\ \A c \in CPUS : store[c] = t => c = hcpu
  BY <1>1, <1>9, UnparkTargets, Zenon
<1>11. t \notin asleep
  BY <1>1, <1>2, Zenon DEF ThreadOK, Local
<1>12. Local(t)'
  BY <1>1, <1>5, <1>11, Zenon DEF Local
<1>13. Flagged(t)'
  BY <1>5, Zenon DEF Flagged, SP, ST
<1>14. Chosen(t)'
  BY <1>1, <1>5, <1>7, <1>9, <1>10, Zenon DEF Chosen, InPark, Unparking
<1>15. Homed(t)'
  <2>1. Home(hcpu, t)'
    BY <1>1, <1>5, <1>10, Zenon DEF Home, SP, ST, Leaving
  <2> QED
    BY <1>1, <1>5, <1>10, <2>1, Zenon DEF Homed, Parking, Looping, OnCpu
<1> QED
  BY <1>1, <1>3, <1>4, <1>8, <1>9, <1>12, <1>13, <1>14, <1>15, InCall, Zenon DEF ThreadOK

-----------------------------------------------------------------------------
(* The control task between two calls *)

\* A stored thread that nobody is parking, unparking or stopping.
AtRest(c, t) ==
  /\ cpu[t] = c /\ "PER_CPU" \in flags[t]
  /\ tpc[t] # "none" /\ tpc[t] \in Parking \cup Looping
  /\ IF c \in online THEN t \in bound /\ ~SP(t) ELSE Parked(t) /\ SP(t)

\* What holds of every thread between two calls.
LEMMA Resting ==
  ASSUME HotplugInv, NEW t \in THREADS, call \in {"none", "create"}
  PROVE  /\ ~ST(t) /\ t \notin parked /\ (SP(t) => Parked(t))
         /\ \A c \in CPUS : /\ store[c] = t /\ hpc # "down"
                            /\ ~(hpc = "stopped" /\ hcpu = c)
                            => AtRest(c, t)
<1>1. ThreadOK(t)
  BY Zenon DEF HotplugInv, Threads
<1>2. call = "create" => hpc = "create"
  BY Zenon DEF HotplugInv, Control, CallOK, Creating, Unparking, InPark
<1>3. ~ST(t) /\ t \notin parked /\ (SP(t) => Parked(t))
  BY <1>1, <1>2, Zenon DEF ThreadOK, Flagged, InPark
<1>4. ASSUME NEW c \in CPUS, store[c] = t, hpc # "down", ~(hpc = "stopped" /\ hcpu = c)
      PROVE  AtRest(c, t)
  <2>1. Home(c, t)
    BY <1>1, <1>4, Zenon DEF ThreadOK, Homed
  <2> QED
    BY <1>3, <1>4, <2>1, Zenon DEF Home, AtRest
<1> QED
  BY <1>3, <1>4, Zenon

\* No thread changes, and no request either.
Still == UNCHANGED <<tpc, tstate, asleep, flags, cpu, bound, parked>>
Untouched == Still /\ UNCHANGED <<list, mem, done, completed, result>>

\* A thread at rest is at home wherever the control task goes.
LEMMA RestHome ==
  ASSUME NEW c, NEW t, AtRest(c, t), Still, c \in online' <=> c \in online,
         ~(hpc' = "down" /\ call' = "none" /\ hcpu' = c)
  PROVE  Home(c, t)'
BY Zenon DEF AtRest, Still, Home, SP, ST, Parked, Leaving

\* A step of the control task that touches no thread and no request.
LEMMA Moves ==
  ASSUME HotplugInv, call \in {"none", "create"}, call' \notin Creating, Untouched,
         TypeOK', Control', \A t \in THREADS : Chosen(t)' /\ Homed(t)'
  PROVE  HotplugInv'
<1>1. call \notin Creating
  BY Zenon DEF Creating
<1>2. Requests'
  BY <1>1, QuietRequests, Zenon DEF Untouched, Still
<1>3. ASSUME NEW t \in THREADS PROVE Local(t)' /\ Flagged(t)'
  <2>1. Local(t)
    BY Zenon DEF HotplugInv, Threads, ThreadOK
  <2>2. Local(t)'
    BY <2>1, Zenon DEF Local, SP, ST, Untouched, Still
  <2>3. Flagged(t)'
    BY Resting, Zenon DEF Flagged, SP, ST, Parked, Untouched, Still
  <2> QED
    BY <2>2, <2>3, Zenon
<1> QED
  BY <1>2, <1>3, Zenon DEF HotplugInv, Threads, ThreadOK

\* The usual step: nothing is stored or taken out and no CPU comes or goes.
LEMMA StayHome ==
  ASSUME HotplugInv, call \in {"none", "create"}, Still, UNCHANGED <<store, online>>,
         hpc \notin {"store", "stopped", "down"},
         \A c \in CPUS : hpc' = "down" /\ call' = "none" /\ hcpu' = c => store[c] = NoThread,
         NEW t \in THREADS
  PROVE  Homed(t)'
<1>1. t # NoThread
  BY KthreadAssumption DEF NoThread
<1>2. ASSUME NEW c \in CPUS, store[c] = t PROVE Home(c, t)'
  BY <1>1, <1>2, Resting, RestHome, Zenon
<1>3. tpc[t] \in Looping \cup Parking => Stored(t)
  BY Zenon DEF HotplugInv, Threads, ThreadOK, Homed
<1> QED
  BY <1>2, <1>3, Zenon DEF Homed, Stored, Still

\* Nobody is answered who does not ask.
LEMMA CompletedFor ==
  ASSUME HotplugInv, call \notin Creating, NEW t \in THREADS
  PROVE  t \notin completed
BY Zenon DEF HotplugInv, Requests, Request, Asks

\* smpboot_register_percpu_thread begins.
LEMMA RegisterStep ==
  ASSUME HotplugInv, Register
  PROVE  HotplugInv'
<1>1. /\ hpc = "idle" /\ ~registered /\ hpc' = "next" /\ op' = "register" /\ todo' = online
      /\ Untouched /\ UNCHANGED <<online, call, thr, ret, registered, store, hcpu, status>>
  BY Zenon DEF Register, Idle, Untouched, Still, kvars, kd, create, thread, control
<1>2. call = "none" /\ call \notin Creating
  BY <1>1, Zenon DEF HotplugInv, Control, CallOK, Creating
<1>3. TypeOK'
  BY <1>1, Zenon DEF HotplugInv, TypeOK, Untouched, Still
<1>4. CallOK'
  BY <1>1, <1>2, Zenon DEF CallOK
<1>5. TargetOK'
  BY <1>1, <1>2, Zenon DEF HotplugInv, Control, TargetOK, HasNew, Unparking
<1>6. RegOK'
  <2>1. \A c \in CPUS : store[c] = NoThread
    BY <1>1, Zenon DEF HotplugInv, Control, RegOK
  <2> QED
    BY <1>1, <2>1, Zenon DEF RegOK
<1>7. ASSUME NEW t \in THREADS PROVE Chosen(t)' /\ Homed(t)'
  <2>1. Chosen(t)'
    BY <1>1, <1>2, CompletedFor, Zenon DEF Chosen, InPark, Unparking, Untouched, Still
  <2>2. Homed(t)'
    BY <1>1, <1>2, StayHome, Zenon DEF Untouched
  <2> QED
    BY <2>1, <2>2, Zenon
<1> QED
  BY <1>1, <1>2, <1>3, <1>4, <1>5, <1>6, <1>7, Moves, Zenon DEF Control

\* The first CPU of a set is in it.
LEMMA FirstIn ==
  ASSUME NEW S, NEW n \in First(S)
  PROVE  n \in S
BY Zenon DEF First

\* smpboot_register_percpu_thread unparks a thread and comes to the next CPU.
LEMMA RegisterNextStep ==
  ASSUME HotplugInv, RegisterNext
  PROVE  HotplugInv'
<1>1. /\ hpc = "next" /\ call = "none" /\ op = "register" /\ ~registered
      /\ todo \subseteq online
      /\ \A c \in CPUS : store[c] # NoThread <=> c \in online \ todo
  BY Zenon DEF RegisterNext, HotplugInv, Control, CallOK, RegOK
<1>2. Untouched /\ UNCHANGED <<online, ret, store, op, todo, status>>
  BY Zenon DEF RegisterNext, Call, Untouched, Still, kvars, kd, create, thread, control
<1>3. online \subseteq CPUS
  BY Zenon DEF HotplugInv, TypeOK
<1>4. CASE todo = {} /\ registered' = TRUE /\ hpc' = "finish" /\ UNCHANGED <<call, thr, hcpu>>
  <2>1. TypeOK'
    BY <1>2, <1>4, Zenon DEF HotplugInv, TypeOK, Untouched, Still
  <2>2. CallOK'
    BY <1>1, <1>4, Zenon DEF CallOK
  <2>3. TargetOK'
    BY <1>1, <1>2, <1>4, Zenon DEF HotplugInv, Control, TargetOK, HasNew, Unparking
  <2>4. RegOK'
    <3>1. \A c \in online : store[c] # NoThread
      BY <1>1, <1>3, <1>4, Zenon
    <3> QED
      BY <1>1, <1>2, <1>4, <3>1, Zenon DEF RegOK
  <2>5. ASSUME NEW t \in THREADS PROVE Chosen(t)' /\ Homed(t)'
    <3>1. t \notin completed
      BY <1>1, CompletedFor, Zenon DEF Creating
    <3>2. Chosen(t)'
      BY <1>1, <1>2, <1>4, <3>1, Zenon DEF Chosen, InPark, Unparking, Untouched, Still
    <3>3. Homed(t)'
      BY <1>1, <1>2, <1>4, StayHome, Zenon DEF Untouched
    <3> QED
      BY <3>2, <3>3, Zenon
  <2>6. call' \notin Creating
    BY <1>1, <1>4, Zenon DEF Creating
  <2> QED
    BY <1>1, <1>2, <2>1, <2>2, <2>3, <2>4, <2>5, <2>6, Moves, Zenon DEF Control
<1>5. CASE /\ hcpu' \in First(todo) /\ hpc' = "create" /\ call' = "create" /\ thr' = NoThread
           /\ UNCHANGED registered
  <2>1. hcpu' \in todo /\ hcpu' \in CPUS /\ store[hcpu'] = NoThread
    BY <1>1, <1>3, <1>5, FirstIn, Zenon
  <2>2. TypeOK'
    BY <1>2, <1>5, <2>1, Zenon DEF HotplugInv, TypeOK, Untouched, Still
  <2>3. CallOK'
    BY <1>1, <1>2, <1>5, Zenon DEF CallOK
  <2>4. TargetOK'
    BY <1>1, <1>2, <1>5, <2>1, Zenon DEF HotplugInv, Control, TargetOK, HasNew, Unparking, Creating
  <2>5. RegOK'
    BY <1>1, <1>2, <1>5, <2>1, Zenon DEF HotplugInv, Control, RegOK
  <2>6. ASSUME NEW t \in THREADS PROVE Chosen(t)' /\ Homed(t)'
    <3>1. t # NoThread
      BY KthreadAssumption DEF NoThread
    <3>2. Homed(t)'
      BY <1>1, <1>2, <1>5, StayHome, Zenon DEF Untouched
    <3> QED
      BY <1>5, <3>1, <3>2, Zenon DEF Chosen
  <2>7. call' \notin Creating
    BY <1>5, Zenon DEF Creating
  <2> QED
    BY <1>1, <1>2, <2>2, <2>3, <2>4, <2>5, <2>6, <2>7, Moves, Zenon DEF Control
<1> QED
  BY <1>4, <1>5, Zenon DEF RegisterNext, Call, kvars, control

\* __smpboot_create_thread has the new thread, or an error.
LEMMA CreateThreadStep ==
  ASSUME HotplugInv, CreateThread
  PROVE  HotplugInv'
<1>1. /\ hpc = "create" /\ call = "none" /\ op \in {"register", "up"}
      /\ hcpu \in CPUS /\ store[hcpu] = NoThread
  BY Zenon DEF CreateThread, HotplugInv, Control, CallOK, TargetOK
<1>2. Untouched /\ UNCHANGED <<online, thr, ret, registered, store, op, hcpu>>
  BY Zenon DEF CreateThread, Call, Untouched, Still, kvars, kd, create, thread, control
<1>3. ASSUME NEW t \in THREADS PROVE t \notin completed
  BY <1>1, CompletedFor, Zenon DEF Creating
<1>4. CASE /\ ret = "ok" /\ call' = "park" /\ hpc' = "store" /\ UNCHANGED todo
           /\ status' = [status EXCEPT ![thr] = "NONE"]
  <2>1. HasNew
    BY <1>1, <1>4, Zenon DEF HasNew
  <2>2. TypeOK'
    BY <1>2, <1>4, Zenon DEF HotplugInv, TypeOK, Untouched, Still
  <2>3. CallOK'
    BY <1>1, <1>2, <1>4, Zenon DEF CallOK
  <2>4. TargetOK'
    BY <1>1, <1>2, <1>4, <2>1, Zenon DEF HotplugInv, Control, TargetOK, Stored, Unparking
  <2>5. RegOK'
    BY <1>1, <1>2, <1>4, Zenon DEF HotplugInv, Control, RegOK
  <2>6. ASSUME NEW t \in THREADS PROVE Chosen(t)' /\ Homed(t)'
    <3>1. Chosen(t)
      BY Zenon DEF HotplugInv, Threads, ThreadOK
    <3>2. Chosen(t)'
      BY <1>1, <1>2, <1>3, <1>4, <3>1, Zenon DEF Chosen, InPark, Unparking, Untouched, Still, SP
    <3>3. Homed(t)'
      BY <1>1, <1>2, <1>4, StayHome, Zenon DEF Untouched
    <3> QED
      BY <3>2, <3>3, Zenon
  <2>7. call' \notin Creating
    BY <1>4, Zenon DEF Creating
  <2> QED
    BY <1>1, <1>2, <2>2, <2>3, <2>4, <2>5, <2>6, <2>7, Moves, Zenon DEF Control
<1>5. CASE /\ ret = "error" /\ hpc' = IF op = "register" THEN "destroy" ELSE "finish"
           /\ todo' = Created /\ UNCHANGED <<call, status>>
  <2>1. Created \subseteq CPUS /\ \A c \in CPUS : store[c] # NoThread <=> c \in Created
    BY Zenon DEF Created
  <2>2. TypeOK'
    BY <1>2, <1>5, <2>1, Zenon DEF HotplugInv, TypeOK, Untouched, Still
  <2>3. CallOK'
    BY <1>1, <1>2, <1>5, Zenon DEF CallOK
  <2>4. TargetOK'
    BY <1>1, <1>2, <1>5, Zenon DEF HotplugInv, Control, TargetOK, HasNew, Unparking
  <2>5. RegOK'
    BY <1>1, <1>2, <1>5, <2>1, Zenon DEF HotplugInv, Control, RegOK
  <2>6. ASSUME NEW t \in THREADS PROVE Chosen(t)' /\ Homed(t)'
    <3>1. Chosen(t)'
      BY <1>1, <1>2, <1>3, <1>5, Zenon DEF Chosen, InPark, Unparking, Untouched, Still
    <3>2. Homed(t)'
      BY <1>1, <1>2, <1>5, StayHome, Zenon DEF Untouched
    <3> QED
      BY <3>1, <3>2, Zenon
  <2>7. call' \notin Creating
    BY <1>1, <1>5, Zenon DEF Creating
  <2> QED
    BY <1>1, <1>2, <2>2, <2>3, <2>4, <2>5, <2>6, <2>7, Moves, Zenon DEF Control
<1> QED
  BY <1>4, <1>5, Zenon DEF CreateThread, Call, kvars, control

\* __smpboot_create_thread stores the parked thread.
LEMMA StoreThreadStep ==
  ASSUME HotplugInv, StoreThread
  PROVE  HotplugInv'
<1>1. /\ hpc = "store" /\ call = "none" /\ op \in {"register", "up"}
      /\ hcpu \in CPUS /\ store[hcpu] = NoThread
  BY Zenon DEF StoreThread, HotplugInv, Control, CallOK, TargetOK
<1>2. Untouched /\ UNCHANGED <<online, thr, ret, registered, op, hcpu, status>>
  BY Zenon DEF StoreThread, Call, Untouched, Still, kvars, kd, create, thread, control
<1>3. PICK t \in THREADS : thr = t /\ ~Stored(t) /\ store' = [store EXCEPT ![hcpu] = t]
  BY <1>1, Zenon DEF StoreThread, HotplugInv, Control, TargetOK, HasNew
<1>4. \/ op = "register" /\ call' = "unpark" /\ todo' = todo \ {hcpu} /\ hpc' = "next"
      \/ op = "up" /\ hpc' = "up" /\ UNCHANGED <<call, todo>>
  BY Zenon DEF StoreThread, Call, kvars, control
<1>5. t # NoThread
  BY KthreadAssumption DEF NoThread
<1>6. /\ store' \in [CPUS -> THREADS \cup {NoThread}] /\ store'[hcpu] = t
      /\ \A c \in CPUS : c # hcpu => store'[c] = store[c]
  BY <1>1, <1>3 DEF HotplugInv, TypeOK
<1>7. /\ op = "register" => hcpu \in online /\ hcpu \in todo /\ ~registered
      /\ op = "up" => hcpu \notin online /\ registered
  BY <1>1, Zenon DEF HotplugInv, Control, RegOK
<1>8. TypeOK'
  BY <1>2, <1>4, <1>6, Zenon DEF HotplugInv, TypeOK, Untouched, Still
<1>9. CallOK'
  BY <1>1, <1>2, <1>4, Zenon DEF CallOK, Unparking
<1>10. TargetOK'
  <2>1. \A c, d \in CPUS : store'[c] = store'[d] /\ store'[c] # NoThread => c = d
    BY <1>3, <1>5, <1>6, Zenon DEF HotplugInv, Control, TargetOK, Stored
  <2> QED
    BY <1>1, <1>2, <1>3, <1>4, <1>6, <1>7, <2>1, Zenon DEF TargetOK, HasNew, Unparking
<1>11. RegOK'
  <2>1. CASE op = "register"
    <3>1. /\ todo' = todo \ {hcpu} /\ hpc' = "next" /\ todo \subseteq online
          /\ \A c \in CPUS : store[c] # NoThread <=> c \in online \ todo
      BY <1>1, <1>4, <2>1, Zenon DEF HotplugInv, Control, RegOK
    <3>2. \A c \in CPUS : store'[c] # NoThread <=> c \in online' \ todo'
      BY <1>2, <1>5, <1>6, <1>7, <2>1, <3>1, Zenon
    <3> QED
      BY <1>2, <1>7, <2>1, <3>1, <3>2, Zenon DEF RegOK
  <2>2. CASE op = "up"
    <3>1. \A c \in online : c \in CPUS /\ c # hcpu /\ store[c] # NoThread
      BY <1>7, <2>2, Zenon DEF HotplugInv, Control, RegOK, TypeOK
    <3> QED
      BY <1>2, <1>4, <1>5, <1>6, <1>7, <2>2, <3>1, Zenon DEF RegOK
  <2> QED
    BY <1>1, <2>1, <2>2, Zenon
<1>12. Parked(t) /\ SP(t) /\ cpu[t] = hcpu /\ "PER_CPU" \in flags[t] /\ (hcpu \in online => t \in bound)
  BY <1>1, <1>3, Resting, Zenon DEF HotplugInv, Threads, ThreadOK, Chosen
<1>13. Parked(t)' /\ SP(t)'
  BY <1>2, <1>12, Zenon DEF Untouched, Still, Parked, SP
<1>14. ASSUME NEW u \in THREADS PROVE Chosen(u)' /\ Homed(u)'
  <2>1. u \notin completed
    BY <1>1, CompletedFor, Zenon DEF Creating
  <2>2. Chosen(u)'
    BY <1>1, <1>2, <1>3, <1>4, <1>13, <2>1, Zenon DEF Chosen, InPark, Unparking, Untouched, Still
  <2>3. CASE u = t
    <3>1. Home(hcpu, t)'
      BY <1>2, <1>3, <1>4, <1>7, <1>12, <1>13, Zenon
      DEF Home, Parked, Untouched, Still, Parking, Leaving
    <3>2. \A c \in CPUS : store'[c] = t => c = hcpu
      BY <1>3, <1>6, Zenon DEF Stored
    <3> QED
      BY <1>1, <1>2, <1>6, <2>2, <2>3, <3>1, <3>2, Zenon DEF Homed, Stored
  <2>4. CASE u # t
    <3>1. ASSUME NEW c \in CPUS, store'[c] = u PROVE Home(c, u)'
      <4>1. store[c] = u
        BY <1>6, <2>4, <3>1, Zenon
      <4> QED
        BY <1>1, <1>2, <1>4, <4>1, Resting, RestHome, Zenon DEF Untouched
    <3>2. tpc[u] \in Looping \cup Parking => Stored(u)
      BY <1>3, <2>4, Zenon DEF HotplugInv, Threads, ThreadOK, Homed
    <3>3. u # NoThread
      BY KthreadAssumption DEF NoThread
    <3>4. Stored(u) => Stored(u)'
      BY <1>1, <1>6, <3>3, Zenon DEF Stored
    <3> QED
      BY <1>2, <2>2, <3>1, <3>2, <3>4, Zenon DEF Homed, Untouched, Still
  <2> QED
    BY <2>3, <2>4, Zenon
<1>15. call' \notin Creating
  BY <1>1, <1>4, Zenon DEF Creating
<1> QED
  BY <1>1, <1>2, <1>8, <1>9, <1>10, <1>11, <1>14, <1>15, Moves, Zenon DEF Control

\* smpboot_unregister_percpu_thread begins.
LEMMA UnregisterStep ==
  ASSUME HotplugInv, Unregister
  PROVE  HotplugInv'
<1>1. /\ hpc = "idle" /\ registered' = FALSE /\ hpc' = "destroy" /\ op' = "unregister"
      /\ todo' = Created
      /\ Untouched /\ UNCHANGED <<online, call, thr, ret, store, hcpu, status>>
  BY Zenon DEF Unregister, Idle, Untouched, Still, kvars, kd, create, thread, control
<1>2. call = "none" /\ call \notin Creating
  BY <1>1, Zenon DEF HotplugInv, Control, CallOK, Creating
<1>3. Created \subseteq CPUS /\ \A c \in CPUS : store[c] # NoThread <=> c \in Created
  BY Zenon DEF Created
<1>4. TypeOK'
  BY <1>1, <1>3, Zenon DEF HotplugInv, TypeOK, Untouched, Still
<1>5. CallOK'
  BY <1>1, <1>2, Zenon DEF CallOK
<1>6. TargetOK'
  BY <1>1, <1>2, Zenon DEF HotplugInv, Control, TargetOK, HasNew, Unparking
<1>7. RegOK'
  BY <1>1, <1>3, Zenon DEF RegOK
<1>8. ASSUME NEW t \in THREADS PROVE Chosen(t)' /\ Homed(t)'
  <2>1. Chosen(t)'
    BY <1>1, <1>2, CompletedFor, Zenon DEF Chosen, InPark, Unparking, Untouched, Still
  <2>2. Homed(t)'
    BY <1>1, <1>2, StayHome, Zenon DEF Untouched
  <2> QED
    BY <2>1, <2>2, Zenon
<1> QED
  BY <1>1, <1>2, <1>4, <1>5, <1>6, <1>7, <1>8, Moves, Zenon DEF Control

\* smpboot_destroy_threads comes to the next thread.
LEMMA DestroyStep ==
  ASSUME HotplugInv, Destroy
  PROVE  HotplugInv'
<1>1. /\ hpc = "destroy" /\ call = "none" /\ op \in {"register", "unregister"} /\ ~registered
      /\ \A c \in CPUS : store[c] # NoThread <=> c \in todo
  BY Zenon DEF Destroy, HotplugInv, Control, CallOK, RegOK
<1>2. Untouched /\ UNCHANGED <<online, ret, registered, store, op, todo, status>>
  BY Zenon DEF Destroy, Call, Untouched, Still, kvars, kd, create, thread, control
<1>3. ASSUME NEW t \in THREADS PROVE t \notin completed
  BY <1>1, CompletedFor, Zenon DEF Creating
<1>4. CASE todo = {} /\ hpc' = "finish" /\ UNCHANGED <<call, thr, hcpu>>
  <2>1. TypeOK'
    BY <1>2, <1>4, Zenon DEF HotplugInv, TypeOK, Untouched, Still
  <2>2. CallOK'
    BY <1>1, <1>4, Zenon DEF CallOK
  <2>3. TargetOK'
    BY <1>1, <1>2, <1>4, Zenon DEF HotplugInv, Control, TargetOK, HasNew, Unparking
  <2>4. RegOK'
    BY <1>1, <1>2, <1>4, Zenon DEF RegOK
  <2>5. ASSUME NEW t \in THREADS PROVE Chosen(t)' /\ Homed(t)'
    <3>1. Chosen(t)'
      BY <1>1, <1>2, <1>3, <1>4, Zenon DEF Chosen, InPark, Unparking, Untouched, Still
    <3>2. Homed(t)'
      BY <1>1, <1>2, <1>4, StayHome, Zenon DEF Untouched
    <3> QED
      BY <3>1, <3>2, Zenon
  <2>6. call' \notin Creating
    BY <1>1, <1>4, Zenon DEF Creating
  <2> QED
    BY <1>1, <1>2, <2>1, <2>2, <2>3, <2>4, <2>5, <2>6, Moves, Zenon DEF Control
<1>5. CASE hcpu' \in First(todo) /\ call' = "stop" /\ thr' = store[hcpu'] /\ hpc' = "stopped"
  <2>1. hcpu' \in todo /\ hcpu' \in CPUS /\ thr' \in THREADS
    <3>1. hcpu' \in todo
      BY <1>5, FirstIn, Zenon
    <3>2. hcpu' \in CPUS
      BY <3>1, Zenon DEF HotplugInv, TypeOK
    <3>3. store[hcpu'] \in THREADS \cup {NoThread}
      BY <3>2 DEF HotplugInv, TypeOK
    <3> QED
      BY <1>1, <1>5, <3>1, <3>2, <3>3, Zenon
  <2>2. TypeOK'
    BY <1>2, <1>5, <2>1, Zenon DEF HotplugInv, TypeOK, Untouched, Still
  <2>3. CallOK'
    BY <1>1, <1>2, <1>5, Zenon DEF CallOK
  <2>4. TargetOK'
    BY <1>1, <1>2, <1>5, <2>1, Zenon DEF HotplugInv, Control, TargetOK, HasNew, Unparking
  <2>5. RegOK'
    BY <1>1, <1>2, <1>5, Zenon DEF RegOK
  <2>6. ASSUME NEW t \in THREADS PROVE Chosen(t)' /\ Homed(t)'
    <3>1. Chosen(t)'
      BY <1>2, <1>3, <1>5, Zenon DEF Chosen, InPark, Unparking, Untouched, Still
    <3>2. Homed(t)'
      BY <1>1, <1>2, <1>5, StayHome, Zenon DEF Untouched
    <3> QED
      BY <3>1, <3>2, Zenon
  <2>7. call' \notin Creating
    BY <1>5, Zenon DEF Creating
  <2> QED
    BY <1>1, <1>2, <2>2, <2>3, <2>4, <2>5, <2>6, <2>7, Moves, Zenon DEF Control
<1> QED
  BY <1>4, <1>5, Zenon DEF Destroy, Call, kvars, control

\* smpboot_destroy_threads drops the thread it stopped.
LEMMA DestroyNextStep ==
  ASSUME HotplugInv, DestroyNext
  PROVE  HotplugInv'
<1>1. /\ hpc = "stopped" /\ call = "none" /\ op \in {"register", "unregister"} /\ ~registered
      /\ \A c \in CPUS : store[c] # NoThread <=> c \in todo
      /\ hcpu \in todo /\ hcpu \in CPUS /\ hpc' = "destroy" /\ todo' = todo \ {hcpu}
  BY Zenon DEF DestroyNext, HotplugInv, TypeOK, Control, CallOK, RegOK, TargetOK
<1>2. Untouched /\ UNCHANGED <<online, call, thr, ret, registered, op, hcpu, status>>
  BY Zenon DEF DestroyNext, Untouched, Still, kvars, kd, create, thread, control
<1>3. PICK t \in THREADS : thr = t /\ store[hcpu] = t /\ store' = [store EXCEPT ![hcpu] = NoThread]
  BY <1>1, Zenon DEF DestroyNext, HotplugInv, Control, TargetOK
<1>4. /\ store' \in [CPUS -> THREADS \cup {NoThread}] /\ store'[hcpu] = NoThread
      /\ \A c \in CPUS : c # hcpu => store'[c] = store[c]
  BY <1>1, <1>3 DEF HotplugInv, TypeOK
<1>5. TypeOK'
  BY <1>1, <1>2, <1>4, Zenon DEF HotplugInv, TypeOK, Untouched, Still
<1>6. CallOK'
  BY <1>1, <1>2, Zenon DEF CallOK
<1>7. TargetOK'
  <2>1. \A c, d \in CPUS : store'[c] = store'[d] /\ store'[c] # NoThread => c = d
    BY <1>4, Zenon DEF HotplugInv, Control, TargetOK
  <2> QED
    BY <1>1, <1>2, <2>1, Zenon DEF TargetOK, HasNew, Unparking
<1>8. RegOK'
  BY <1>1, <1>2, <1>4, Zenon DEF RegOK
<1>9. ASSUME NEW u \in THREADS PROVE Chosen(u)' /\ Homed(u)'
  <2>1. u \notin completed
    BY <1>1, CompletedFor, Zenon DEF Creating
  <2>2. Chosen(u)'
    BY <1>1, <1>2, <2>1, Zenon DEF Chosen, InPark, Unparking, Untouched, Still
  <2>3. u # NoThread
    BY KthreadAssumption DEF NoThread
  <2>4. ASSUME NEW c \in CPUS, store'[c] = u PROVE Home(c, u)'
    <3>1. store[c] = u /\ c # hcpu
      BY <1>4, <2>3, <2>4, Zenon
    <3> QED
      BY <1>1, <1>2, <3>1, Resting, RestHome, Zenon DEF Untouched
  <2>5. tpc[u] \in Looping \cup Parking => Stored(u)'
    <3>1. u = t => tpc[u] = "none"
      BY <1>1, <1>3, Zenon DEF HotplugInv, Threads, ThreadOK, Chosen
    <3>2. tpc[u] \in Looping \cup Parking => Stored(u) /\ u # t
      BY <1>1, <3>1, Zenon DEF HotplugInv, Threads, ThreadOK, Homed, Looping, OnCpu, Parking
    <3> QED
      BY <1>3, <1>4, <3>2, Zenon DEF Stored
  <2> QED
    BY <1>2, <2>2, <2>4, <2>5, Zenon DEF Homed, Untouched, Still
<1>10. call' \notin Creating
  BY <1>1, <1>2, Zenon DEF Creating
<1> QED
  BY <1>1, <1>2, <1>5, <1>6, <1>7, <1>8, <1>9, <1>10, Moves, Zenon DEF Control

-----------------------------------------------------------------------------
(* CPU hotplug *)

\* smpboot_create_threads on the way up of a CPU.
LEMMA CpuUpStep ==
  ASSUME HotplugInv, NEW c \in CPUS, CpuUp(c)
  PROVE  HotplugInv'
<1>1. /\ hpc = "idle" /\ c \notin online /\ op' = "up" /\ hcpu' = c
      /\ Untouched /\ UNCHANGED <<online, ret, registered, store, todo, status>>
  BY Zenon DEF CpuUp, Idle, Call, Untouched, Still, kvars, kd, create, thread, control
<1>2. call = "none" /\ call \notin Creating
  BY <1>1, Zenon DEF HotplugInv, Control, CallOK, Creating
<1>3. \/ /\ registered /\ store[c] = NoThread
         /\ hpc' = "create" /\ call' = "create" /\ thr' = NoThread
      \/ /\ ~registered \/ store[c] # NoThread
         /\ hpc' = "up" /\ UNCHANGED <<call, thr>>
  BY Zenon DEF CpuUp, Call, kvars, control
<1>4. TypeOK'
  BY <1>1, <1>3, Zenon DEF HotplugInv, TypeOK, Untouched, Still
<1>5. CallOK'
  BY <1>1, <1>2, <1>3, Zenon DEF CallOK
<1>6. TargetOK'
  BY <1>1, <1>2, <1>3, Zenon DEF HotplugInv, Control, TargetOK, HasNew, Unparking, Creating
<1>7. RegOK'
  <2>1. /\ registered => \A d \in online : store[d] # NoThread
        /\ ~registered => \A d \in CPUS : store[d] = NoThread
    BY <1>1, Zenon DEF HotplugInv, Control, RegOK
  <2> QED
    BY <1>1, <1>3, <2>1, Zenon DEF RegOK
<1>8. ASSUME NEW t \in THREADS PROVE Chosen(t)' /\ Homed(t)'
  <2>1. t # NoThread
    BY KthreadAssumption DEF NoThread
  <2>2. Chosen(t)'
    BY <1>1, <1>2, <1>3, <2>1, CompletedFor, Zenon DEF Chosen, InPark, Unparking, Untouched
  <2>3. Homed(t)'
    BY <1>1, <1>2, <1>3, StayHome, Zenon DEF Untouched
  <2> QED
    BY <2>2, <2>3, Zenon
<1>9. call' \notin Creating
  BY <1>2, <1>3, Zenon DEF Creating
<1> QED
  BY <1>1, <1>2, <1>4, <1>5, <1>6, <1>7, <1>8, <1>9, Moves, Zenon DEF Control

\* smpboot_unpark_threads for a CPU that is now online.
LEMMA CpuOnlineStep ==
  ASSUME HotplugInv, CpuOnline
  PROVE  HotplugInv'
<1>1. /\ hpc = "up" /\ call = "none" /\ op = "up" /\ hpc' = "finish"
      /\ online' = online \cup {hcpu}
      /\ Untouched /\ UNCHANGED <<ret, registered, store, op, hcpu, todo, status>>
  BY Zenon DEF CpuOnline, HotplugInv, Control, CallOK, Untouched, Still, kd, create, thread
<1>2. hcpu \in CPUS /\ hcpu \notin online
  BY <1>1, Zenon DEF HotplugInv, Control, TargetOK
<1>3. \/ registered /\ call' = "unpark" /\ thr' = store[hcpu]
      \/ ~registered /\ UNCHANGED <<call, thr>>
  BY Zenon DEF CpuOnline, UnparkThreads
<1>4. /\ registered => (\A d \in online : store[d] # NoThread) /\ store[hcpu] # NoThread
      /\ ~registered => \A d \in CPUS : store[d] = NoThread
  BY <1>1, Zenon DEF HotplugInv, Control, RegOK
<1>5. registered => store[hcpu] \in THREADS
  BY <1>2, <1>4 DEF HotplugInv, TypeOK
<1>6. TypeOK'
  BY <1>1, <1>2, <1>3, <1>5, Zenon DEF HotplugInv, TypeOK, Untouched, Still
<1>7. CallOK'
  BY <1>1, <1>3, Zenon DEF CallOK, Unparking
<1>8. TargetOK'
  BY <1>1, <1>2, <1>3, <1>5, Zenon DEF HotplugInv, Control, TargetOK, HasNew, Unparking
<1>9. RegOK'
  BY <1>1, <1>4, Zenon DEF RegOK
<1>10. ASSUME NEW t \in THREADS, NEW c \in CPUS, store[c] = t PROVE AtRest(c, t)
  BY <1>1, <1>10, Resting, Zenon
<1>11. ASSUME NEW t \in THREADS PROVE Chosen(t)' /\ Homed(t)'
  <2>1. t \notin completed /\ t # NoThread
    BY <1>1, CompletedFor, KthreadAssumption DEF Creating, NoThread
  <2>2. store[hcpu] = t => Parked(t)' /\ SP(t)'
    BY <1>1, <1>2, <1>10, Zenon DEF AtRest, Parked, SP, Untouched, Still
  <2>3. Chosen(t)'
    BY <1>1, <1>3, <2>1, <2>2, Zenon DEF Chosen, InPark, Unparking, Untouched
  <2>4. ASSUME NEW c \in CPUS, store'[c] = t PROVE Home(c, t)'
    <3>1. store[c] = t /\ AtRest(c, t) /\ registered
      BY <1>1, <1>4, <1>10, <2>1, <2>4, Zenon
    <3>2. CASE c = hcpu
      BY <1>1, <1>2, <1>3, <2>2, <3>1, <3>2, Zenon DEF Home, AtRest, Untouched, Still
    <3>3. CASE c # hcpu
      BY <1>1, <3>1, <3>3, RestHome, Zenon DEF Untouched
    <3> QED
      BY <3>2, <3>3, Zenon
  <2>5. tpc[t] \in Looping \cup Parking => Stored(t)
    BY <1>1, Zenon DEF HotplugInv, Threads, ThreadOK, Homed
  <2> QED
    BY <1>1, <2>3, <2>4, <2>5, Zenon DEF Homed, Stored, Untouched, Still
<1>12. call' \notin Creating
  BY <1>1, <1>3, Zenon DEF Creating
<1> QED
  BY <1>1, <1>6, <1>7, <1>8, <1>9, <1>11, <1>12, Moves, Zenon DEF Control

\* smpboot_park_threads for a CPU that goes down.
LEMMA CpuDownStep ==
  ASSUME HotplugInv, NEW c \in CPUS, CpuDown(c)
  PROVE  HotplugInv'
<1>1. /\ hpc = "idle" /\ c \in online /\ op' = "down" /\ hcpu' = c /\ hpc' = "down"
      /\ Untouched /\ UNCHANGED <<online, ret, registered, store, todo, status>>
  BY Zenon DEF CpuDown, Idle, Call, Untouched, Still, kvars, kd, create, thread, control
<1>2. call = "none" /\ call \notin Creating
  BY <1>1, Zenon DEF HotplugInv, Control, CallOK, Creating
<1>3. /\ registered => \A d \in online : store[d] # NoThread
      /\ ~registered => \A d \in CPUS : store[d] = NoThread
  BY <1>1, Zenon DEF HotplugInv, Control, RegOK
<1>4. \/ registered /\ store[c] # NoThread /\ call' = "park" /\ thr' = store[c]
      \/ ~registered /\ store[c] = NoThread /\ UNCHANGED <<call, thr>>
  BY <1>1, <1>3, Zenon DEF CpuDown, Call, kvars, control
<1>5. store[c] \in THREADS \cup {NoThread}
  BY DEF HotplugInv, TypeOK
<1>6. TypeOK'
  BY <1>1, <1>4, <1>5, Zenon DEF HotplugInv, TypeOK, Untouched, Still
<1>7. CallOK'
  BY <1>1, <1>2, <1>4, Zenon DEF CallOK
<1>8. TargetOK'
  BY <1>1, <1>2, <1>4, <1>5, Zenon DEF HotplugInv, Control, TargetOK, HasNew, Unparking
<1>9. RegOK'
  BY <1>1, <1>3, Zenon DEF RegOK
<1>10. ASSUME NEW t \in THREADS PROVE Chosen(t)' /\ Homed(t)'
  <2>1. t \notin completed
    BY <1>2, CompletedFor, Zenon
  <2>2. store[c] = t => ~SP(t)
    BY <1>1, <1>2, Resting, Zenon DEF AtRest
  <2>3. Chosen(t)'
    BY <1>1, <1>2, <1>4, <2>1, <2>2, Zenon DEF Chosen, InPark, Unparking, Untouched, Still, SP
  <2>4. Homed(t)'
    BY <1>1, <1>2, <1>4, StayHome, Zenon DEF Untouched
  <2> QED
    BY <2>3, <2>4, Zenon
<1>11. call' \notin Creating
  BY <1>2, <1>4, Zenon DEF Creating
<1> QED
  BY <1>1, <1>2, <1>6, <1>7, <1>8, <1>9, <1>10, <1>11, Moves, Zenon DEF Control

\* The CPU is taken out of the online mask, or stays.
LEMMA CpuOfflineStep ==
  ASSUME HotplugInv, CpuOffline
  PROVE  HotplugInv'
<1>1. /\ hpc = "down" /\ call = "none" /\ op = "down" /\ hpc' = "finish"
      /\ Untouched /\ UNCHANGED <<ret, registered, store, op, hcpu, todo, status>>
  BY Zenon DEF CpuOffline, HotplugInv, Control, CallOK, Untouched, Still, kd, create, thread
<1>2. hcpu \in online /\ hcpu \in CPUS
  BY <1>1, Zenon DEF HotplugInv, Control, TargetOK, TypeOK
<1>3. /\ registered => \A d \in online : store[d] # NoThread
      /\ ~registered => \A d \in CPUS : store[d] = NoThread
  BY <1>1, Zenon DEF HotplugInv, Control, RegOK
<1>4. \/ online' = online \ {hcpu} /\ UNCHANGED <<call, thr>>
      \/ registered /\ call' = "unpark" /\ thr' = store[hcpu] /\ UNCHANGED online
      \/ ~registered /\ UNCHANGED <<call, thr, online>>
  BY Zenon DEF CpuOffline, UnparkThreads
<1>5. registered => store[hcpu] \in THREADS
  BY <1>2, <1>3 DEF HotplugInv, TypeOK
<1>6. TypeOK'
  BY <1>1, <1>4, <1>5, Zenon DEF HotplugInv, TypeOK, Untouched, Still
<1>7. CallOK'
  BY <1>1, <1>4, Zenon DEF CallOK, Unparking
<1>8. TargetOK'
  BY <1>1, <1>2, <1>4, <1>5, Zenon DEF HotplugInv, Control, TargetOK, HasNew, Unparking
<1>9. RegOK'
  BY <1>1, <1>3, <1>4, Zenon DEF RegOK
<1>10. ASSUME NEW t \in THREADS PROVE Chosen(t)' /\ Homed(t)'
  <2>1. ThreadOK(t) /\ t \notin completed /\ t # NoThread
    <3>1. t \notin completed
      BY <1>1, CompletedFor, Zenon DEF Creating
    <3>2. t # NoThread
      BY KthreadAssumption DEF NoThread
    <3> QED
      BY <3>1, <3>2, Zenon DEF HotplugInv, Threads
  <2>2. store[hcpu] = t => Parked(t) /\ SP(t) /\ Parked(t)' /\ SP(t)'
    <3>1. store[hcpu] = t => SP(t)
      BY <1>1, <1>2, <2>1, Zenon DEF ThreadOK, Homed, Home
    <3> QED
      BY <1>1, <3>1, Resting, Zenon DEF Parked, SP, Untouched, Still
  <2>3. Chosen(t)'
    BY <1>1, <1>4, <2>1, <2>2, Zenon DEF Chosen, InPark, Unparking, Untouched
  <2>4. ASSUME NEW c \in CPUS, store'[c] = t PROVE Home(c, t)'
    <3>1. Home(c, t) /\ store[c] = t /\ registered
      BY <1>1, <1>3, <2>1, <2>4, Zenon DEF ThreadOK, Homed
    <3>2. CASE c = hcpu
      <4>1. tpc[t] = "pkset" /\ cpu[t] = c /\ "PER_CPU" \in flags[t] /\ t \in bound
        BY <1>1, <1>2, <2>2, <3>1, <3>2, Zenon DEF Home, Parked
      <4> QED
        BY <1>1, <1>4, <2>2, <3>1, <3>2, <4>1, Zenon
        DEF Home, Untouched, Still, Parking, Leaving
    <3>3. CASE c # hcpu
      <4>1. AtRest(c, t)
        BY <1>1, <3>1, <3>3, Resting, Zenon DEF Home, AtRest
      <4>2. c \in online' <=> c \in online
        BY <1>4, <3>3, Zenon
      <4> QED
        BY <1>1, <4>1, <4>2, RestHome, Zenon DEF Untouched
    <3> QED
      BY <3>2, <3>3, Zenon
  <2>5. tpc[t] \in Looping \cup Parking => Stored(t)
    BY <1>1, <2>1, Zenon DEF ThreadOK, Homed
  <2> QED
    BY <1>1, <2>3, <2>4, <2>5, Zenon DEF Homed, Stored, Untouched, Still
<1>11. call' \notin Creating
  BY <1>1, <1>4, Zenon DEF Creating
<1> QED
  BY <1>1, <1>6, <1>7, <1>8, <1>9, <1>10, <1>11, Moves, Zenon DEF Control

\* An operation of the control task returns.
LEMMA FinishStep ==
  ASSUME HotplugInv, Finish
  PROVE  HotplugInv'
<1>1. /\ hpc = "finish" /\ call = "none" /\ hpc' = "idle" /\ op' = "none" /\ hcpu' = NoCpu
      /\ todo' = {} /\ thr' = NoThread
      /\ Untouched /\ UNCHANGED <<online, call, registered, store, status>>
  BY Zenon DEF Finish, Untouched, Still, kd, create, thread
<1>2. TypeOK'
  BY <1>1, Zenon DEF HotplugInv, TypeOK, Untouched, Still
<1>3. CallOK'
  BY <1>1, Zenon DEF CallOK
<1>4. TargetOK'
  BY <1>1, Zenon DEF HotplugInv, Control, TargetOK, HasNew, Unparking
<1>5. RegOK'
  <2>1. /\ registered => \A d \in online : store[d] # NoThread
        /\ ~registered => \A d \in CPUS : store[d] = NoThread
    BY <1>1, Zenon DEF HotplugInv, Control, RegOK
  <2> QED
    BY <1>1, <2>1, Zenon DEF RegOK
<1>6. ASSUME NEW t \in THREADS PROVE Chosen(t)' /\ Homed(t)'
  <2>1. t # NoThread
    BY KthreadAssumption DEF NoThread
  <2>2. Homed(t)'
    BY <1>1, StayHome, Zenon DEF Untouched
  <2> QED
    BY <1>1, <2>1, <2>2, Zenon DEF Chosen
<1>7. call' \notin Creating
  BY <1>1, Zenon DEF Creating
<1> QED
  BY <1>1, <1>2, <1>3, <1>4, <1>5, <1>6, <1>7, Moves, Zenon DEF Control

-----------------------------------------------------------------------------
(* __kthread_create_on_node puts a request on the list *)

\* Adding a request to the list.
LEMMA AppendListed ==
  ASSUME list \in Seq(THREADS), ListOnce, NEW t \in THREADS, ~Listed(t), list' = Append(list, t)
  PROVE  /\ list' \in Seq(THREADS) /\ ListOnce'
         /\ \A u : Listed(u)' <=> Listed(u) \/ u = t
<1>1. Len(list) \in Nat /\ Len(list') = Len(list) + 1 /\ list' \in Seq(THREADS)
  OBVIOUS
<1>2. list'[Len(list')] = t /\ Len(list') \in 1..Len(list')
  BY <1>1
<1>3. \A i \in 1..Len(list') : i = Len(list') \/ i \in 1..Len(list)
  BY <1>1
<1>4. \A i \in 1..Len(list) : list'[i] = list[i] /\ i \in 1..Len(list')
  BY <1>1
<1>5. ListOnce'
  <2>1. ASSUME NEW i \in 1..Len(list'), NEW j \in 1..Len(list'), list'[i] = list'[j]
        PROVE  i = j
    <3>1. CASE i \in 1..Len(list) /\ j \in 1..Len(list)
      BY <1>4, <2>1, <3>1, Zenon DEF ListOnce
    <3>2. CASE i = Len(list') /\ j \in 1..Len(list)
      BY <1>2, <1>4, <2>1, <3>2, Zenon DEF Listed
    <3>3. CASE i \in 1..Len(list) /\ j = Len(list')
      BY <1>2, <1>4, <2>1, <3>3, Zenon DEF Listed
    <3> QED
      BY <1>3, <3>1, <3>2, <3>3, Zenon
  <2> QED
    BY <2>1, Zenon DEF ListOnce
<1>6. ASSUME NEW u PROVE Listed(u)' <=> Listed(u) \/ u = t
  BY <1>2, <1>3, <1>4, Zenon DEF Listed
<1> QED
  BY <1>1, <1>5, <1>6, Zenon

\* __kthread_create_on_node adds a request.
LEMMA CreateStep ==
  ASSUME HotplugInv, Create, UNCHANGED rest
  PROVE  HotplugInv'
<1>1. /\ call = "create" /\ hpc = "create" /\ op \in {"register", "up"} /\ call \notin Creating
      /\ Still /\ UNCHANGED <<online, completed, result, registered, store, hpc, op, hcpu, todo, status>>
  BY Zenon DEF Create, HotplugInv, Control, CallOK, Creating, Unparking, InPark, Still, thread,
               smpboot, rest
<1>2. CASE call' = "none" /\ ret' = "error" /\ UNCHANGED <<thr, mem, done, list>>
  <2>1. TypeOK'
    BY <1>1, <1>2, Zenon DEF HotplugInv, TypeOK, Still
  <2>2. CallOK'
    BY <1>1, <1>2, Zenon DEF CallOK
  <2>3. TargetOK'
    BY <1>1, <1>2, Zenon DEF HotplugInv, Control, TargetOK, HasNew, Unparking, Creating
  <2>4. RegOK'
    BY <1>1, Zenon DEF HotplugInv, Control, RegOK
  <2>5. ASSUME NEW t \in THREADS PROVE Chosen(t)' /\ Homed(t)'
    <3>1. Chosen(t)'
      BY <1>1, <1>2, CompletedFor, Zenon DEF Chosen, InPark, Unparking
    <3>2. Homed(t)'
      BY <1>1, <1>2, StayHome, Zenon
    <3> QED
      BY <3>1, <3>2, Zenon
  <2>6. call' \notin Creating
    BY <1>2, Zenon DEF Creating
  <2> QED
    BY <1>1, <1>2, <2>1, <2>2, <2>3, <2>4, <2>5, <2>6, Moves, Zenon DEF Control, Untouched
<1>3. CASE /\ thr' \in First(Free) /\ mem' = mem \cup {thr'} /\ done' = done \cup {thr'}
           /\ list' = Append(list, thr') /\ call' = "kdwake" /\ UNCHANGED ret
  <2>1. PICK t \in THREADS : thr' = t /\ tpc[t] = "none" /\ t \notin mem
    BY <1>3, FirstIn, Zenon DEF Free
  <2>2. ThreadOK(t) /\ Request(t)
    BY Zenon DEF HotplugInv, Threads, Requests
  <2>3. ~Listed(t) /\ t \notin completed /\ t \notin done
    BY <1>1, <2>1, <2>2, Zenon DEF Request, Asks, Pending
  <2>4. list \in Seq(THREADS) /\ ListOnce
    BY Zenon DEF HotplugInv, TypeOK, Requests
  <2>5. list' \in Seq(THREADS) /\ ListOnce' /\ \A u : Listed(u)' <=> Listed(u) \/ u = t
    BY <1>3, <2>1, <2>3, <2>4, AppendListed, Zenon
  <2>6. call' \in Creating
    BY <1>3, Zenon DEF Creating
  <2>7. ~Stored(t)
    BY <1>1, <2>1, <2>2, Zenon DEF ThreadOK, Homed, Home, Stored
  <2>8. TypeOK'
    BY <1>1, <1>3, <2>1, <2>5, Zenon DEF HotplugInv, TypeOK, Still
  <2>9. Requests'
    <3>1. ASSUME NEW u \in THREADS, u # t PROVE Request(u)'
      <4>1. ~Asks(u) /\ ~Asks(u)'
        BY <1>1, <2>1, <3>1, Zenon DEF Asks
      <4>2. Request(u)
        BY Zenon DEF HotplugInv, Requests
      <4> QED
        BY <1>1, <1>3, <2>1, <2>5, <3>1, <4>1, <4>2, Zenon DEF Request, Still
    <3>2. Request(t)'
      <4>1. Asks(t)' /\ call' = "kdwake"
        BY <1>3, <2>1, <2>6, Zenon DEF Asks
      <4> QED
        BY <1>1, <1>3, <2>1, <2>3, <2>5, <4>1, Zenon DEF Request, Still, Answering
    <3> QED
      BY <2>5, <3>1, <3>2, Zenon DEF Requests
  <2>10. Control'
    <3>1. CallOK'
      BY <1>1, <2>6, Zenon DEF CallOK
    <3>2. TargetOK'
      BY <1>1, <1>3, <2>1, <2>7, Zenon DEF HotplugInv, Control, TargetOK, HasNew, Stored, Unparking
    <3>3. RegOK'
      BY <1>1, Zenon DEF HotplugInv, Control, RegOK
    <3> QED
      BY <3>1, <3>2, <3>3, Zenon DEF Control
  <2>11. ASSUME NEW u \in THREADS PROVE ThreadOK(u)'
    <3>1. Local(u)'
      BY <1>1, Zenon DEF HotplugInv, Threads, ThreadOK, Local, SP, ST, Still
    <3>2. Flagged(u)'
      BY <1>1, Resting, Zenon DEF Flagged, SP, ST, Parked, Still
    <3>3. Chosen(u)'
      BY <1>1, <1>3, <2>1, <2>3, Zenon DEF Chosen, InPark, Unparking
    <3>4. Homed(u)'
      BY <1>1, <1>3, StayHome, Zenon
    <3> QED
      BY <3>1, <3>2, <3>3, <3>4, Zenon DEF ThreadOK
  <2> QED
    BY <2>8, <2>9, <2>10, <2>11, Zenon DEF HotplugInv, Threads
<1> QED
  BY <1>2, <1>3, Zenon DEF Create

-----------------------------------------------------------------------------

\* The invariant holds initially.
LEMMA HotplugInit ==
  ASSUME Init
  PROVE  HotplugInv
<1> USE DEF Init, KInit
<1>1. TypeOK
  BY DEF TypeOK, Labels, Fresh, NoThread, NoCpu
<1>2. ASSUME NEW t \in THREADS
      PROVE  /\ tpc[t] = "none" /\ flags[t] = {} /\ t \notin asleep /\ ~Listed(t) /\ thr # t
             /\ ~Stored(t)
  <2>1. t # NoThread
    BY KthreadAssumption DEF NoThread
  <2>2. ~Listed(t)
    BY DEF Listed
  <2> QED
    BY <2>1, <2>2 DEF Stored
<1>3. Requests
  <2>1. ListOnce
    BY DEF ListOnce
  <2>2. ASSUME NEW t \in THREADS PROVE Request(t)
    BY <1>2, <2>2, Zenon DEF Request, Asks, Pending, Answering
  <2> QED
    BY <2>1, <2>2, Zenon DEF Requests
<1>4. Control
  <2>1. \A c \in CPUS : store[c] = NoThread
    OBVIOUS
  <2>2. CallOK
    BY Zenon DEF CallOK
  <2>3. TargetOK
    BY <2>1, Zenon DEF TargetOK, HasNew, Unparking
  <2>4. RegOK
    BY <2>1, Zenon DEF RegOK
  <2> QED
    BY <2>2, <2>3, <2>4, Zenon DEF Control
<1>5. ASSUME NEW t \in THREADS PROVE ThreadOK(t)
  <2>1. Local(t)
    BY <1>2, Zenon DEF Local
  <2>2. Flagged(t)
    BY <1>2, Zenon DEF Flagged, SP, ST
  <2>3. Chosen(t)
    BY <1>2, Zenon DEF Chosen
  <2>4. Homed(t)
    BY <1>2, Zenon DEF Homed, Stored, Looping, OnCpu, Parking
  <2> QED
    BY <2>1, <2>2, <2>3, <2>4, Zenon DEF ThreadOK
<1> QED
  BY <1>1, <1>3, <1>4, <1>5, Zenon DEF HotplugInv, Threads

\* Steps that change nothing the invariant speaks of.
LEMMA Stutters ==
  ASSUME HotplugInv, Still, Steady,
         UNCHANGED <<list, mem, done, completed, result, status>>
  PROVE  HotplugInv'
<1>1. TypeOK'
  BY Zenon DEF HotplugInv, TypeOK, Still, Steady
<1>2. Requests'
  BY Zenon DEF HotplugInv, Requests, ListOnce, Request, Listed, Asks, Still, Steady
<1>3. Control'
  BY SteadyControl, Zenon DEF HotplugInv
<1>4. Threads'
  BY SteadyThread, Zenon DEF HotplugInv, Threads, Same, Still
<1> QED
  BY <1>1, <1>2, <1>3, <1>4, Zenon DEF HotplugInv

\* Every step keeps the invariant.
LEMMA HotplugNext ==
  ASSUME HotplugInv, [Next]_vars
  PROVE  HotplugInv'
<1>1. CASE Begin
  BY <1>1, RegisterStep, UnregisterStep, CpuUpStep, CpuDownStep, Zenon DEF Begin
<1>2. CASE Continue
  BY <1>2, RegisterNextStep, CreateThreadStep, StoreThreadStep, DestroyStep, DestroyNextStep,
     CpuOnlineStep, CpuOfflineStep, FinishStep, Zenon DEF Continue
<1>3. CASE (CreateWake \/ CreateKilled) /\ UNCHANGED rest
  <2>1. \/ call = "kdwake" /\ call' = "wait"
        \/ call = "wait" /\ call' = "killed"
    BY <1>3, Zenon DEF CreateWake, CreateKilled
  <2>2. UNCHANGED <<online, list, create, thread, thr, ret>>
    BY <1>3, Zenon DEF CreateWake, CreateKilled, kd
  <2>3. PICK t \in THREADS : thr = t
    BY <2>1, Target, Zenon
  <2> QED
    BY <1>3, <2>1, <2>2, <2>3, CreateGoesOn, Zenon
<1>4. CASE ControlStep(hcpu) /\ UNCHANGED rest
  BY <1>3, <1>4, CreateStep, CreateWaitStep, CreateXchgStep, CreateResultStep, CreateBindStep,
     ParkStep, ParkWakeStep, ParkWaitStep, ParkIdleStep, UnparkBindStep, UnparkClearStep,
     UnparkWakeStep, StopStep, StopWakeStep, StopWaitStep, Zenon DEF ControlStep
<1>5. CASE Kthreadd /\ UNCHANGED rest
  <2>1. CASE KdSet \/ KdTest \/ KdWoken
    <3>1. Still /\ Steady /\ UNCHANGED <<list, mem, done, completed, result, status>>
      BY <1>5, <2>1, Zenon DEF KdSet, KdTest, KdWoken, Still, Steady, create, thread, control,
                               smpboot, rest
    <3> QED
      BY <3>1, Stutters, Zenon
  <2> QED
    BY <1>5, <2>1, KdForkStep, Zenon DEF Kthreadd
<1>6. ASSUME NEW t \in THREADS, Thread(t) PROVE HotplugInv'
  <2>1. CASE LoopStep(t)
    BY <2>1, LoopSetStep, LoopStopStep, LoopParkStep, LoopScheduleStep, CallbackStep, Zenon
    DEF LoopStep
  <2>2. CASE ThreadStep(t) /\ UNCHANGED rest
    BY <2>2, TakeDoneStep, CompleteStep, FirstScheduleStep, FirstWokenStep, ParkSetStep,
       ParkTestStep, ParkScheduleStep, Zenon DEF ThreadStep
  <2> QED
    BY <1>6, <2>1, <2>2, Zenon DEF Thread
<1>7. CASE UNCHANGED vars
  <2>1. Still /\ Steady /\ UNCHANGED <<list, mem, done, completed, result, status>>
    BY <1>7, Zenon DEF vars, kvars, kd, create, thread, control, smpboot, Still, Steady
  <2> QED
    BY <2>1, Stutters, Zenon
<1> QED
  BY <1>1, <1>2, <1>3, <1>4, <1>5, <1>6, <1>7, KickStep, Zenon DEF Next, ControlTask, KthreaddTask

\* The inductive invariant: requests, control task and threads are as described
\* above in every reachable state.
THEOREM HotplugInvariant == Spec => []HotplugInv
<1>1. Init => HotplugInv
  BY HotplugInit
<1>2. HotplugInv /\ [Next]_vars => HotplugInv'
  BY HotplugNext
<1> QED
  BY <1>1, <1>2, PTL DEF Spec

\* However many creators are killed, a kthread_create_info is freed by exactly
\* the one of creator, kthreadd and new thread that is the last to look at it.
THEOREM RequestsFreedOnce == Spec => []CreateFreedOnce
<1>1. HotplugInv => CreateFreedOnce
  <2> SUFFICES ASSUME HotplugInv, NEW t \in THREADS PROVE t \in mem <=> InUse(t)
    BY Zenon DEF CreateFreedOnce
  <2>1. Request(t)
    BY Zenon DEF HotplugInv, Requests
  <2>2. DOMAIN list = 1..Len(list)
    BY DEF HotplugInv, TypeOK
  <2> QED
    BY <2>1, <2>2, Zenon DEF Request, InUse, Listed, Asks, Pending, Answering, Creating
<1> QED
  BY <1>1, HotplugInvariant, PTL

\* The BUG_ON of smpboot_thread_fn never fires: the callbacks of a hotplug thread
\* run on its own CPU while that is online.
THEOREM CallbacksOnTheirCpu == Spec => []OnItsCpu
<1>1. HotplugInv => OnItsCpu
  <2> SUFFICES ASSUME HotplugInv, NEW t \in THREADS, tpc[t] \in OnCpu
               PROVE  t \in bound /\ cpu[t] \in online
    BY Zenon DEF OnItsCpu, OnCpu
  <2>1. ThreadOK(t)
    BY Zenon DEF HotplugInv, Threads
  <2>2. PICK c \in CPUS : store[c] = t
    BY <2>1, Zenon DEF ThreadOK, Homed, Stored, Looping, OnCpu, Parking
  <2>3. Home(c, t)
    BY <2>1, <2>2, Zenon DEF ThreadOK, Homed
  <2>4. tpc[t] # "none" /\ tpc[t] # "pkset" /\ tpc[t] \notin Leaving
    BY Zenon DEF OnCpu, Leaving
  <2> QED
    BY <2>3, <2>4, Zenon DEF Home, Parked
<1> QED
  BY <1>1, HotplugInvariant, PTL

\* What kthread_park promises: once it has returned the thread stays off the CPU
\* until kthread_unpark, and the threads of CPUs that are not online are parked.
THEOREM ParkedStayParked == Spec => []ParkHolds
<1>1. HotplugInv => ParkHolds
  <2> SUFFICES ASSUME HotplugInv, NEW c \in CPUS, NEW t, t = store[c], t # NoThread
               PROVE  /\ SP(t) /\ ~Changing(t) => t \in asleep /\ tstate[t] = "PARKED"
                      /\ c \notin online /\ hpc # "stopped" => SP(t)
    BY Zenon DEF ParkHolds, Created, SP
  <2>1. t \in THREADS
    BY DEF HotplugInv, TypeOK
  <2>2. ThreadOK(t)
    BY <2>1, Zenon DEF HotplugInv, Threads
  <2>3. SP(t) /\ ~Changing(t) => Parked(t)
    BY <2>2, Zenon DEF ThreadOK, Flagged, Changing, InPark
  <2>4. Home(c, t)
    BY <2>2, Zenon DEF ThreadOK, Homed
  <2> QED
    BY <2>3, <2>4, Zenon DEF Home, Parked
<1> QED
  BY <1>1, HotplugInvariant, PTL

=============================================================================
