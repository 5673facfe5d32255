------------------------- MODULE KthreadWorkerProofs -------------------------
(***************************************************************************)
(* Proofs about KthreadWorker, for any works and any finite set of tasks   *)
(* that synchronize a modification with a cancel of the same work.         *)
(*                                                                         *)
(* work->canceling counts the tasks that are cancelling or modifying the   *)
(* work, so it blocks queueing, the only way to arm the timer, for as long *)
(* as one of them relies on del_timer_sync having stopped it (TimerInv).   *)
(* The worker takes works from the head of work_list, so a flush work that *)
(* stands behind the works it waits for runs after them, and a work that a *)
(* cancel found executing stays off the lists until the flush is over      *)
(* (FlushInv).                                                             *)
(***************************************************************************)
EXTENDS KthreadWorker, FiniteSetTheorems, TLAPS

Cancelling(p, w) == call[p].fn \in {"cancel", "mod"} /\ call[p].work = w

Cancelers(w) == {p \in CALLERS : Cancelling(p, w)}

Calls == [fn : {"none", "flush", "cancel", "mod", "destroy"},
          at : {"-", "timer", "relock", "flush", "wait", "flushed", "stop", "exit"},
          work : Works \cup {NoWork}, delay : {0, 1}]

\* Where a task can be in the code that counts itself in work->canceling.
CallOK(p) ==
    /\ call[p].fn = "none" => call[p] = Idle
    /\ call[p].at \in {"timer", "relock"}
          => call[p].fn \in {"cancel", "mod"} /\ call[p].work \in DWORKS
    /\ call[p].fn = "mod" => call[p].at \in {"timer", "relock"}
    /\ call[p].fn = "cancel" => call[p].work \in Works
    /\ call[p].at \in {"flush", "flushed"} => call[p].fn = "cancel"
    /\ call[p].at \in {"stop", "exit"} => call[p].fn = "destroy"

TimerType == /\ timer_pending \subseteq DWORKS
             /\ timer_running \subseteq DWORKS
             /\ canceling \in [Works -> Nat]
             /\ call \in [CALLERS -> Calls]

\* canceling counts the tasks that cancel or modify the work.
CountOK == \A w \in Works : canceling[w] = Cardinality(Cancelers(w))

\* A task that modifies a work is the only one that cancels or modifies it.
ModAlone == \A p, q \in CALLERS :
               p # q /\ call[p].fn = "mod" => ~Cancelling(q, call[p].work)

\* The timer stays off from del_timer_sync until the lock is taken again.
TimerOff == \A p \in CALLERS :
               call[p].at = "relock" => call[p].work \notin timer_pending \cup timer_running

\* A work that is cancelled, modified or delayed has been queued before.
BoundOK == /\ \A p \in CALLERS, w \in Works : Cancelling(p, w) => w \in bound
           /\ delayed \cap Works \subseteq bound

\* Nobody else uses a worker that is destroyed, and no timer is left.
CloseOK == /\ \A p \in CALLERS : call[p].fn = "destroy"
                 => delayed = {} /\ \A q \in CALLERS \ {p} : call[q] = Idle
           /\ wpc = "freed" => delayed = {} /\ \A p \in CALLERS : call[p] = Idle

TimerInv == /\ TimerType
            /\ \A p \in CALLERS : CallOK(p)
            /\ CountOK /\ ModAlone /\ TimerOff /\ BoundOK /\ CloseOK
            /\ timer_pending \cap timer_running = {}
            /\ TimerFindsWork

-----------------------------------------------------------------------------
(* Counting *)

\* The tasks that cancel a work can be counted.
LEMMA FiniteCancelers ==
  ASSUME NEW w
  PROVE  IsFiniteSet(Cancelers(w)) /\ Cardinality(Cancelers(w)) \in Nat
<1>1. Cancelers(w) \in SUBSET CALLERS
  BY DEF Cancelers
<1> QED
  BY <1>1, FS_Subset, FS_CardinalityType, SetsAssumption

\* A task that starts to cancel w is counted once more.
LEMMA CountEnter ==
  ASSUME TimerType, CountOK, NEW p \in CALLERS, NEW w \in Works, NEW r,
         call' = [call EXCEPT ![p] = r],
         call[p].fn \notin {"cancel", "mod"},
         r.fn \in {"cancel", "mod"}, r.work = w,
         canceling' = [canceling EXCEPT ![w] = @ + 1]
  PROVE  CountOK'
<1> SUFFICES ASSUME NEW v \in Works PROVE canceling'[v] = Cardinality(Cancelers(v)')
  BY DEF CountOK
<1>1. p \notin Cancelers(v)
  BY DEF Cancelers, Cancelling
<1>2. CASE v = w
  <2>1. Cancelers(v)' = Cancelers(v) \cup {p}
    BY <1>2 DEF Cancelers, Cancelling, TimerType
  <2>2. Cardinality(Cancelers(v)') = Cardinality(Cancelers(v)) + 1
    BY <1>1, <2>1, FiniteCancelers, FS_AddElement, Zenon
  <2> QED
    BY <1>2, <2>2 DEF CountOK, TimerType
<1>3. CASE v # w
  <2>1. Cancelers(v)' = Cancelers(v)
    BY <1>3 DEF Cancelers, Cancelling, TimerType
  <2> QED
    BY <1>3, <2>1 DEF CountOK, TimerType
<1> QED
  BY <1>2, <1>3

\* A task that stops cancelling w is counted once less.
LEMMA CountLeave ==
  ASSUME TimerType, CountOK, NEW p \in CALLERS, NEW w \in Works, NEW r,
         call' = [call EXCEPT ![p] = r],
         Cancelling(p, w),
         r.fn \notin {"cancel", "mod"},
         canceling' = [canceling EXCEPT ![w] = @ - 1]
  PROVE  CountOK' /\ canceling' \in [Works -> Nat]
<1>1. p \in Cancelers(w)
  BY DEF Cancelers
<1>2. canceling[w] >= 1
  <2>1. Cardinality(Cancelers(w)) # 0
    BY <1>1, FiniteCancelers, FS_EmptySet
  <2> QED
    BY <2>1, FiniteCancelers DEF CountOK
<1>3. ASSUME NEW v \in Works PROVE canceling'[v] = Cardinality(Cancelers(v)')
  <2>1. CASE v = w
    <3>1. Cancelers(v)' = Cancelers(v) \ {p}
      BY <2>1 DEF Cancelers, Cancelling, TimerType
    <3>2. Cardinality(Cancelers(v)') = Cardinality(Cancelers(v)) - 1
      BY <1>1, <2>1, <3>1, FiniteCancelers, FS_RemoveElement, Zenon
    <3> QED
      BY <2>1, <3>2 DEF CountOK, TimerType
  <2>2. CASE v # w
    <3>1. Cancelers(v)' = Cancelers(v)
      BY <2>2 DEF Cancelers, Cancelling, TimerType
    <3> QED
      BY <2>2, <3>1 DEF CountOK, TimerType
  <2> QED
    BY <2>1, <2>2
<1> QED
  BY <1>2, <1>3 DEF CountOK, TimerType

\* A step inside or outside of a cancel leaves the counts alone.
LEMMA CountSame ==
  ASSUME CountOK, UNCHANGED canceling,
         \A p \in CALLERS, w \in Works : Cancelling(p, w)' = Cancelling(p, w)
  PROVE  CountOK'
<1> SUFFICES ASSUME NEW w \in Works PROVE canceling'[w] = Cardinality(Cancelers(w)')
  BY DEF CountOK
<1>1. Cancelers(w)' = Cancelers(w)
  BY DEF Cancelers
<1> QED
  BY <1>1 DEF CountOK

\* Queueing is blocked while a task is cancelling the work.
LEMMA Blocked ==
  ASSUME CountOK, NEW w \in Works, canceling[w] = 0, NEW p \in CALLERS
  PROVE  ~Cancelling(p, w)
<1>1. Cancelers(w) = {}
  BY FiniteCancelers, FS_EmptySet DEF CountOK
<1> QED
  BY <1>1 DEF Cancelers

-----------------------------------------------------------------------------
(* The steps, by what they change *)

\* Steps that no cancel, modification or timer can tell.
LEMMA Quiet ==
  ASSUME TimerInv, UNCHANGED <<call, canceling, timers, delayed>>,
         bound \subseteq bound', wpc' = "freed" => wpc = "freed"
  PROVE  TimerInv'
<1>1. CountOK'
  BY CountSame DEF TimerInv, Cancelling
<1> QED
  BY <1>1 DEF TimerInv, TimerType, CallOK, ModAlone, TimerOff, BoundOK, CloseOK,
     TimerFindsWork, Cancelling, timers

\* A work that nobody cancels and that is not delayed is queued with a delay.
LEMMA Arm ==
  ASSUME TimerInv, NEW w \in DWORKS, NEW delay,
         QueueDelayed(w, delay, work_list, delayed), w \notin delayed,
         \A p \in CALLERS : ~Cancelling(p, w),
         ~Closing, wpc # "freed",
         UNCHANGED <<timer_running, canceling, call, wpc>>
  PROVE  TimerInv'
<1>1. CountOK'
  BY CountSame DEF TimerInv, Cancelling
<1>2. /\ timer_pending' \subseteq timer_pending \cup {w}
      /\ delayed \subseteq delayed' /\ delayed' \subseteq delayed \cup {w}
      /\ w \in timer_pending' => w \in delayed'
      /\ bound' = bound \cup {w}
  BY DEF QueueDelayed, TimerInv, TimerFindsWork
<1>3. TimerOff'
  BY <1>2 DEF TimerInv, TimerOff, Cancelling, CallOK
<1>4. BoundOK' /\ CloseOK'
  BY <1>2 DEF TimerInv, BoundOK, CloseOK, Closing, Cancelling
<1>5. w \notin timer_running
  BY DEF TimerInv, TimerFindsWork
<1> QED
  BY <1>1, <1>2, <1>3, <1>4, <1>5 DEF TimerInv, TimerType, CallOK, ModAlone,
     TimerFindsWork, Cancelling

\* A task moves on in a call without starting or ending a cancel.
LEMMA Move ==
  ASSUME TimerInv, NEW p \in CALLERS, NEW r \in Calls,
         call' = [call EXCEPT ![p] = r],
         \/ r.fn = call[p].fn /\ r.work = call[p].work
         \/ r.fn \notin {"cancel", "mod"} /\ call[p].fn \notin {"cancel", "mod"},
         CallOK(p)', r.at # "relock", r.at # "timer",
         r.fn = "destroy" => delayed = {} /\ \A q \in CALLERS \ {p} : call[q] = Idle,
         r # Idle => ~\E q \in CALLERS \ {p} : call[q].fn = "destroy",
         wpc' = "freed" => r = Idle /\ call[p].fn = "destroy",
         UNCHANGED <<canceling, timers, bound>>,
         TimerFindsWork', delayed' \cap Works \subseteq delayed,
         delayed = {} => delayed' = {}
  PROVE  TimerInv'
<1>0. /\ call' \in [CALLERS -> Calls] /\ call'[p] = r
      /\ \A q \in CALLERS \ {p} : call'[q] = call[q]
  BY DEF TimerInv, TimerType
<1>1. \A q \in CALLERS, w \in Works : Cancelling(q, w)' = Cancelling(q, w)
  BY <1>0 DEF Cancelling
<1>2. CountOK'
  BY <1>1, CountSame DEF TimerInv
<1>3. (\A q \in CALLERS : CallOK(q))'
  BY <1>0 DEF TimerInv, CallOK
<1>4. ModAlone'
  BY <1>0 DEF TimerInv, ModAlone, Cancelling
<1>5. TimerOff' /\ TimerType'
  BY <1>0 DEF TimerInv, TimerType, TimerOff, timers
<1>6. BoundOK'
  BY <1>1 DEF TimerInv, BoundOK
<1>7. CloseOK'
  BY <1>0 DEF TimerInv, CloseOK, CallOK, Idle
<1> QED
  BY <1>2, <1>3, <1>4, <1>5, <1>6, <1>7 DEF TimerInv, timers

\* A task starts to cancel or to modify a work.
LEMMA Enter ==
  ASSUME TimerInv, NEW p \in CALLERS, NEW w \in Works, NEW r \in Calls,
         call' = [call EXCEPT ![p] = r], call[p] = Idle,
         r.fn \in {"cancel", "mod"}, r.work = w, CallOK(p)', r.at # "relock",
         r.fn = "mod" => canceling[w] = 0,
         r.fn = "cancel" => \A q \in CALLERS : ~(call[q].fn = "mod" /\ call[q].work = w),
         ~Closing, wpc # "freed", w \in bound,
         canceling' = [canceling EXCEPT ![w] = @ + 1],
         UNCHANGED <<timers, bound, wpc>>,
         TimerFindsWork', delayed' \subseteq delayed
  PROVE  TimerInv'
<1>0. /\ call' \in [CALLERS -> Calls] /\ call'[p] = r
      /\ \A q \in CALLERS \ {p} : call'[q] = call[q]
  BY DEF TimerInv, TimerType
<1>1. CountOK'
  <2>1. call[p].fn \notin {"cancel", "mod"} /\ TimerType /\ CountOK
    BY DEF TimerInv, Idle
  <2> QED
    BY <2>1, CountEnter, Zenon
<1>2. (\A q \in CALLERS : CallOK(q))'
  BY <1>0 DEF TimerInv, CallOK
<1>3. ModAlone'
  <2>1. r.fn = "mod" => \A q \in CALLERS : ~Cancelling(q, w)
    BY Blocked DEF TimerInv
  <2> QED
    BY <1>0, <2>1 DEF TimerInv, ModAlone, Cancelling
<1>4. TimerOff' /\ TimerType'
  BY <1>0 DEF TimerInv, TimerType, TimerOff, timers
<1>5. BoundOK'
  BY <1>0 DEF TimerInv, BoundOK, Cancelling
<1>6. CloseOK'
  BY <1>0 DEF TimerInv, CloseOK, Closing
<1> QED
  BY <1>1, <1>2, <1>3, <1>4, <1>5, <1>6 DEF TimerInv, timers

\* A task ends a cancel or a modification; the timer of its own work is the
\* only one that it may have armed.
LEMMA Leave ==
  ASSUME TimerInv, NEW p \in CALLERS, NEW w \in Works,
         Cancelling(p, w), call' = [call EXCEPT ![p] = Idle],
         canceling' = [canceling EXCEPT ![w] = @ - 1],
         UNCHANGED <<timer_running, wpc>>, bound' = bound \cup {w},
         timer_pending' \subseteq timer_pending \cup {w},
         w \in timer_pending' => w \notin timer_running /\ w \in DWORKS,
         w \in timer_pending' \ timer_pending => call[p].fn = "mod",
         TimerFindsWork', delayed' \subseteq delayed \cup {w}
  PROVE  TimerInv'
<1>0. /\ call' \in [CALLERS -> Calls] /\ call'[p] = Idle
      /\ \A q \in CALLERS \ {p} : call'[q] = call[q]
  BY DEF TimerInv, TimerType, Calls, Idle
<1>1. CountOK' /\ canceling' \in [Works -> Nat]
  BY CountLeave, Zenon DEF TimerInv, Idle
<1>2. (\A q \in CALLERS : CallOK(q))'
  BY <1>0 DEF TimerInv, CallOK, Idle
<1>3. ModAlone'
  BY <1>0 DEF TimerInv, ModAlone, Cancelling, Idle
<1>4. TimerType'
  BY <1>0, <1>1 DEF TimerInv, TimerType
<1>5. TimerOff'
  BY <1>0 DEF TimerInv, TimerOff, CallOK, Idle, ModAlone, Cancelling
<1>6. BoundOK'
  BY <1>0 DEF TimerInv, BoundOK, Cancelling, Idle
<1>7. CloseOK'
  BY <1>0 DEF TimerInv, CloseOK, Cancelling, Idle
<1> QED
  BY <1>1, <1>2, <1>3, <1>4, <1>5, <1>6, <1>7 DEF TimerInv

-----------------------------------------------------------------------------
(* The actions *)

\* Queueing arms a timer only when nobody cancels the work.
LEMMA QueueStep ==
  ASSUME TimerInv, NEW p \in CALLERS, NEW w \in Works,
         \/ QueueWork(p, w)
         \/ w \in DWORKS /\ \E delay \in {0, 1} : QueueDelayedWork(p, w, delay)
  PROVE  TimerInv'
<1>1. CASE QueueWork(p, w)
  BY <1>1, Quiet DEF QueueWork, thread
<1>2. CASE w \in DWORKS /\ \E delay \in {0, 1} : QueueDelayedWork(p, w, delay)
  <2>1. PICK delay \in {0, 1} : QueueDelayedWork(p, w, delay)
    BY <1>2
  <2>2. w \notin delayed /\ canceling[w] = 0
    BY <2>1 DEF QueueDelayedWork, queuing_blocked, OnList, TimerInv, TimerType
  <2>3. \A q \in CALLERS : ~Cancelling(q, w)
    BY <2>2, Blocked DEF TimerInv
  <2> QED
    BY <1>2, <2>1, <2>2, <2>3, Arm DEF QueueDelayedWork, Ready, thread
<1> QED
  BY <1>1, <1>2

\* The timer softirq, and the timer function.
LEMMA TimerStep ==
  ASSUME TimerInv, NEW w \in DWORKS, TimerExpire(w) \/ TimerFn(w)
  PROVE  TimerInv'
<1>1. CountOK'
  BY CountSame DEF TimerInv, Cancelling, TimerExpire, TimerFn
<1>2. CASE TimerExpire(w)
  BY <1>1, <1>2 DEF TimerInv, TimerType, CallOK, ModAlone, TimerOff, BoundOK, CloseOK,
     TimerFindsWork, Cancelling, TimerExpire, lists, thread
<1>3. CASE TimerFn(w)
  <2>1. /\ UNCHANGED <<timer_pending, bound, canceling, call, wpc>>
        /\ timer_running' = timer_running \ {w} /\ delayed' = delayed \ {w}
        /\ w \in timer_running
    BY <1>3 DEF TimerFn, thread
  <2> QED
    BY <1>1, <2>1 DEF TimerInv, TimerType, CallOK, ModAlone, TimerOff, BoundOK, CloseOK,
       TimerFindsWork, Cancelling
<1> QED
  BY <1>2, <1>3

\* A flush leaves the timers alone.
LEMMA FlushStep ==
  ASSUME TimerInv, NEW p \in CALLERS,
         \/ \E w \in WORKS : FlushWork(p, w)
         \/ FlushWorker(p) \/ FlushDone(p) \/ CancelFlush(p)
  PROVE  TimerInv'
<1>0. call[p] \in Calls /\ CallOK(p)
  BY DEF TimerInv, TimerType
<1>1. ASSUME NEW w \in WORKS, FlushWork(p, w) PROVE TimerInv'
  <2> DEFINE r == [fn |-> "flush", at |-> "wait", work |-> w, delay |-> 0]
  <2>1. /\ r \in Calls /\ call' = [call EXCEPT ![p] = r] /\ call[p] = Idle
        /\ UNCHANGED <<canceling, timers, bound, wpc>> /\ ~Closing /\ wpc # "freed"
    BY <1>1 DEF FlushWork, At, Ready, thread, Calls, Works
  <2>2. delayed' = delayed \/ (delayed # {} /\ delayed' = delayed \cup {p})
    BY <1>1 DEF FlushWork, FlushInsert
  <2>3. CallOK(p)'
    BY <2>1 DEF CallOK, TimerInv, TimerType
  <2>4. TimerFindsWork' /\ delayed' \cap Works \subseteq delayed
    BY <2>1, <2>2, SetsAssumption DEF TimerInv, TimerFindsWork, timers, Works
  <2>5. /\ r.fn = "flush" /\ r.at = "wait" /\ r # Idle /\ call[p].fn = "none"
        /\ ~\E q \in CALLERS \ {p} : call[q].fn = "destroy"
    BY <2>1 DEF Idle, Closing
  <2> HIDE DEF r
  <2> QED
    BY <2>1, <2>2, <2>3, <2>4, <2>5, Move, Zenon
<1>2. CASE FlushWorker(p)
  <2> DEFINE r == [fn |-> "flush", at |-> "wait", work |-> NoWork, delay |-> 0]
  <2>1. /\ r \in Calls /\ call' = [call EXCEPT ![p] = r] /\ call[p] = Idle
        /\ UNCHANGED <<canceling, timers, bound, wpc, delayed>> /\ ~Closing /\ wpc # "freed"
    BY <1>2 DEF FlushWorker, FlushAll, At, Ready, thread, Calls
  <2>2. CallOK(p)'
    BY <2>1 DEF CallOK, TimerInv, TimerType
  <2>3. TimerFindsWork'
    BY <2>1 DEF TimerInv, TimerFindsWork, timers
  <2>4. /\ r.fn = "flush" /\ r.at = "wait" /\ r # Idle /\ call[p].fn = "none"
        /\ ~\E q \in CALLERS \ {p} : call[q].fn = "destroy"
    BY <2>1 DEF Idle, Closing
  <2> HIDE DEF r
  <2> QED
    BY <2>1, <2>2, <2>3, <2>4, Move, ZenonT(30)
<1>3. CASE FlushDone(p) \/ CancelFlush(p)
  <2>1. PICK at \in {"-", "flushed", "stop", "wait"} :
          /\ \/ /\ at = "-" /\ call[p].fn = "flush"
                /\ call' = [call EXCEPT ![p] = Idle]
             \/ /\ at # "-" /\ call[p].fn \in {"cancel", "destroy"}
                /\ at = "flushed" => call[p].fn = "cancel"
                /\ at = "stop" => call[p].fn = "destroy"
                /\ call' = [call EXCEPT ![p] = [call[p] EXCEPT !.at = at]]
    <3>1. CASE FlushDone(p)
      <4>1. call[p].fn \in {"flush", "cancel", "destroy"}
        BY <1>0, <3>1 DEF FlushDone, CallOK, Calls, Idle
      <4> QED
        BY <3>1, <4>1, Zenon DEF FlushDone, Goto, Return
    <3>2. CASE CancelFlush(p)
      <4>1. call[p].fn = "cancel"
        BY <1>0, <3>2 DEF CancelFlush, CallOK
      <4> QED
        BY <3>2, <4>1 DEF CancelFlush, Goto
    <3> QED
      BY <1>3, <3>1, <3>2
  <2> DEFINE r == IF at = "-" THEN Idle ELSE [call[p] EXCEPT !.at = at]
  <2>2. r \in Calls /\ call' = [call EXCEPT ![p] = r]
    BY <1>0, <2>1 DEF Calls, Idle
  <2>3. /\ UNCHANGED <<canceling, timers, bound, wpc>>
        /\ delayed' = delayed \/ (delayed # {} /\ delayed' = delayed \cup {p})
    BY <1>3, Zenon DEF FlushDone, CancelFlush, FlushInsert, thread, lists
  <2>4. TimerFindsWork' /\ delayed' \cap Works \subseteq delayed
    BY <2>3, SetsAssumption DEF TimerInv, TimerFindsWork, timers, Works
  <2>5. CallOK(p)'
    BY <1>0, <2>1, <2>2 DEF CallOK, Calls, Idle, TimerInv, TimerType
  <2>6. \/ r.fn = call[p].fn /\ r.work = call[p].work
        \/ r.fn \notin {"cancel", "mod"} /\ call[p].fn \notin {"cancel", "mod"}
    BY <1>0, <2>1 DEF Calls, Idle
  <2>7. r.fn = "destroy" => delayed = {} /\ \A q \in CALLERS \ {p} : call[q] = Idle
    BY <1>0, <2>1 DEF TimerInv, CloseOK, Calls, Idle
  <2>8. call[p] # Idle /\ wpc # "freed"
    BY <2>1 DEF Idle, TimerInv, CloseOK
  <2>9. ~\E q \in CALLERS \ {p} : call[q].fn = "destroy"
    BY <2>8 DEF TimerInv, CloseOK
  <2>10. r.at # "relock" /\ r.at # "timer"
    BY <1>0, <2>1 DEF Calls, Idle
  <2> HIDE DEF r
  <2> QED
    BY <2>2, <2>3, <2>4, <2>5, <2>6, <2>7, <2>8, <2>9, <2>10, Move, Zenon
<1> QED
  BY <1>1, <1>2, <1>3

\* A cancel or a modification starts by blocking the queueing of its work.
LEMMA BlockStep ==
  ASSUME TimerInv, Synchronized, NEW p \in CALLERS, NEW w \in DWORKS, NEW delay \in {0, 1},
         \/ CancelDelayedWorkSync(p, w)
         \/ ModDelayedWork(p, w, delay)
  PROVE  TimerInv'
<1>1. ASSUME NEW fn \in {"cancel", "mod"}, NEW d \in {0, 1}, CancelBlocks(p, fn, w, d),
             Ready(p), w \in bound, fn = "mod" => canceling[w] = 0,
             fn = "cancel" => \A q \in CALLERS : ~(call[q].fn = "mod" /\ call[q].work = w)
      PROVE  TimerInv'
  <2> DEFINE r == [fn |-> fn, at |-> "timer", work |-> w, delay |-> d]
  <2>1. /\ r \in Calls /\ call' = [call EXCEPT ![p] = r] /\ call[p] = Idle
        /\ canceling' = [canceling EXCEPT ![w] = @ + 1]
        /\ UNCHANGED <<timers, bound, wpc, delayed>> /\ ~Closing /\ wpc # "freed"
        /\ w \in Works
    BY <1>1 DEF CancelBlocks, At, Ready, thread, lists, Calls, Works
  <2>2. CallOK(p)'
    BY <2>1 DEF CallOK, TimerInv, TimerType, Works, Idle
  <2>3. TimerFindsWork' /\ delayed' \subseteq delayed
    BY <2>1 DEF TimerInv, TimerFindsWork, timers
  <2>4. r.fn = fn /\ r.work = w /\ r.at # "relock"
    OBVIOUS
  <2> HIDE DEF r
  <2> QED
    BY <1>1, <2>1, <2>2, <2>3, <2>4, Enter, Zenon
<1>2. CASE CancelDelayedWorkSync(p, w)
  BY <1>1, <1>2 DEF CancelDelayedWorkSync, CancelAllowed
<1>3. CASE ModDelayedWork(p, w, delay)
  <2>1. CASE w \in bound
    BY <1>1, <1>3, <2>1 DEF ModDelayedWork
  <2>2. CASE w \notin bound
    <3>1. w \in Works /\ w \notin delayed /\ \A q \in CALLERS : ~Cancelling(q, w)
      BY <2>2 DEF TimerInv, BoundOK, Works
    <3> QED
      BY <1>3, <2>2, <3>1, Arm DEF ModDelayedWork, Ready, thread
  <2> QED
    BY <2>1, <2>2, SMTT(20)
<1> QED
  BY <1>2, <1>3

\* del_timer_sync leaves the timer off.
LEMMA DelTimerStep ==
  ASSUME TimerInv, NEW p \in CALLERS, DelTimer(p)
  PROVE  TimerInv'
<1> DEFINE w == call[p].work
<1>1. /\ call[p] \in Calls /\ call[p].at = "timer" /\ w \in DWORKS
      /\ call[p].fn \in {"cancel", "mod"} /\ w \notin timer_running
      /\ call' = [call EXCEPT ![p] = [call[p] EXCEPT !.at = "relock"]]
      /\ timer_pending' = timer_pending \ {w}
      /\ UNCHANGED <<timer_running, bound, canceling, wpc, delayed>>
  BY DEF DelTimer, Goto, TimerInv, TimerType, CallOK, thread, lists
<1>2. /\ call' \in [CALLERS -> Calls]
      /\ call'[p].fn = call[p].fn /\ call'[p].work = w /\ call'[p].at = "relock"
      /\ \A q \in CALLERS \ {p} : call'[q] = call[q]
  BY <1>1 DEF TimerInv, TimerType, Calls
<1>3. \A q \in CALLERS, v \in Works : Cancelling(q, v)' = Cancelling(q, v)
  BY <1>2 DEF Cancelling
<1>4. CountOK'
  BY <1>1, <1>3, CountSame DEF TimerInv
<1>5. (\A q \in CALLERS : CallOK(q))'
  BY <1>1, <1>2 DEF TimerInv, CallOK, Works
<1>6. ModAlone'
  BY <1>2 DEF TimerInv, ModAlone, Cancelling
<1>7. TimerOff' /\ TimerType' /\ TimerFindsWork'
  BY <1>1, <1>2 DEF TimerInv, TimerType, TimerOff, TimerFindsWork
<1>8. BoundOK'
  BY <1>1, <1>3 DEF TimerInv, BoundOK
<1>9. CloseOK'
  <2>1. call[p] # Idle
    BY <1>1 DEF Idle
  <2> QED
    BY <1>1, <1>2, <2>1 DEF TimerInv, CloseOK
<1> QED
  BY <1>1, <1>4, <1>5, <1>6, <1>7, <1>8, <1>9 DEF TimerInv

\* A cancel takes its work off the lists: its timer is off, or it has none.
LEMMA CancelStep ==
  ASSUME TimerInv, NEW p \in CALLERS,
         \/ \E w \in WORKS : CancelWorkSync(p, w)
         \/ CancelRelock(p) \/ CancelReturn(p)
  PROVE  TimerInv'
<1>0. call[p] \in Calls /\ CallOK(p)
  BY DEF TimerInv, TimerType
<1>1. ASSUME NEW w \in WORKS, CancelWorkSync(p, w) PROVE TimerInv'
  <2>1. /\ w \in Works /\ w \notin timer_pending \cup timer_running /\ w \in bound
        /\ \A q \in CALLERS : ~(call[q].fn = "mod" /\ call[q].work = w)
    BY <1>1, SetsAssumption DEF CancelWorkSync, TimerInv, TimerType, CallOK, Works
  <2>2. /\ call[p] = Idle /\ ~Closing /\ wpc # "freed"
        /\ UNCHANGED <<timers, bound, wpc>> /\ delayed' = delayed \ {w}
    BY <1>1 DEF CancelWorkSync, CancelRemoves, Ready, thread
  <2>3. TimerFindsWork'
    BY <2>1, <2>2 DEF TimerInv, TimerFindsWork, timers
  <2>4. CASE current_work = w
    <3> DEFINE r == [fn |-> "cancel", at |-> "flush", work |-> w, delay |-> 0]
    <3>1. /\ r \in Calls /\ call' = [call EXCEPT ![p] = r]
          /\ canceling' = [canceling EXCEPT ![w] = @ + 1]
          /\ r.fn = "cancel" /\ r.work = w /\ r.at # "relock"
      BY <1>1, <2>1, <2>4 DEF CancelWorkSync, CancelRemoves, At, Calls
    <3>2. CallOK(p)'
      BY <2>1, <3>1 DEF CallOK, TimerInv, TimerType, Idle
    <3> HIDE DEF r
    <3> QED
      BY <2>1, <2>2, <2>3, <3>1, <3>2, Enter, Zenon
  <2>5. CASE current_work # w
    <3>1. call' = call /\ canceling' = canceling
      BY <1>1, <2>2, <2>5 DEF CancelWorkSync, CancelRemoves, Return, TimerInv, TimerType
    <3>2. CountOK'
      BY <3>1, CountSame DEF TimerInv, Cancelling
    <3> QED
      BY <2>2, <2>3, <3>1, <3>2 DEF TimerInv, TimerType, CallOK, ModAlone, TimerOff, BoundOK,
         CloseOK, Cancelling, timers
  <2> QED
    BY <2>4, <2>5
<1>2. CASE CancelRelock(p)
  <2> DEFINE w == call[p].work
  <2>1. /\ w \in DWORKS /\ w \in Works /\ Cancelling(p, w)
        /\ w \notin timer_pending \cup timer_running
        /\ call[p].fn = "cancel" /\ call[p] # Idle /\ w \in bound
    <3>1. call[p].at = "relock" /\ call[p].fn = "cancel"
      BY <1>2, Zenon DEF CancelRelock
    <3>2. w \in DWORKS /\ w \in Works
      BY <1>0, <3>1, ZenonT(30) DEF CallOK, Works
    <3>3. Cancelling(p, w) /\ call[p] # Idle
      BY <3>1 DEF Cancelling, Idle
    <3>4. w \notin timer_pending \cup timer_running /\ w \in bound
      BY <3>1, <3>2, <3>3, ZenonT(30) DEF TimerInv, TimerOff, BoundOK
    <3> QED
      BY <3>1, <3>2, <3>3, <3>4, Zenon
  <2>2. UNCHANGED <<timers, bound, wpc>> /\ delayed' = delayed \ {w}
    BY <1>2 DEF CancelRelock, CancelRemoves, thread
  <2>3. TimerFindsWork'
    BY <2>1, <2>2 DEF TimerInv, TimerFindsWork, timers
  <2>4. CASE current_work = w
    <3> DEFINE r == [fn |-> "cancel", at |-> "flush", work |-> w, delay |-> 0]
    <3>1. /\ r \in Calls /\ call' = [call EXCEPT ![p] = r]
          /\ canceling' = canceling
          /\ r.fn = call[p].fn /\ r.work = w /\ r.at = "flush" /\ r # Idle
      BY <1>2, <2>1, <2>4 DEF CancelRelock, CancelRemoves, At, Calls, TimerInv, TimerType, Idle
    <3>2. CallOK(p)'
      BY <2>1, <3>1 DEF CallOK, TimerInv, TimerType, Idle
    <3>3. wpc # "freed" /\ ~\E q \in CALLERS \ {p} : call[q].fn = "destroy"
      BY <2>1 DEF TimerInv, CloseOK
    <3> HIDE DEF r
    <3> QED
      BY <2>1, <2>2, <2>3, <3>1, <3>2, <3>3, Move, ZenonT(30)
  <2>5. CASE current_work # w
    <3>1. /\ call' = [call EXCEPT ![p] = Idle]
          /\ canceling' = [canceling EXCEPT ![w] = @ - 1]
      BY <1>2, <2>5 DEF CancelRelock, CancelRemoves, Return
    <3> HIDE DEF w
    <3> QED
      BY <2>1, <2>2, <2>3, <3>1, Leave, ZenonT(30) DEF timers
  <2> QED
    BY <2>4, <2>5
<1>3. CASE CancelReturn(p)
  <2> DEFINE w == call[p].work
  <2>1. w \in Works /\ Cancelling(p, w) /\ w \in bound
    BY <1>0, <1>3, Zenon DEF CancelReturn, CallOK, TimerInv, Cancelling, BoundOK
  <2>2. /\ UNCHANGED <<timers, bound, wpc, delayed>>
        /\ call' = [call EXCEPT ![p] = Idle]
        /\ canceling' = [canceling EXCEPT ![w] = @ - 1]
    BY <1>3 DEF CancelReturn, Return, thread, lists
  <2>3. TimerFindsWork'
    BY <2>2 DEF TimerInv, TimerFindsWork, timers
  <2>4. w \in timer_pending => w \in DWORKS /\ w \notin timer_running
    BY DEF TimerInv, TimerType
  <2> HIDE DEF w
  <2> QED
    BY <2>1, <2>2, <2>3, <2>4, Leave, ZenonT(30) DEF timers
<1> QED
  BY <1>1, <1>2, <1>3

\* A modification queues its work again, alone with it.
LEMMA ModStep ==
  ASSUME TimerInv, NEW p \in CALLERS, ModRelock(p)
  PROVE  TimerInv'
<1> DEFINE w == call[p].work
<1>1. /\ w \in DWORKS /\ w \in Works /\ Cancelling(p, w)
      /\ w \notin timer_pending \cup timer_running /\ call[p].fn = "mod"
  BY ZenonT(30) DEF ModRelock, CallOK, TimerInv, TimerOff, Cancelling, Works
<1>2. /\ UNCHANGED <<timer_running, wpc>> /\ bound' = bound \cup {w}
      /\ call' = [call EXCEPT ![p] = Idle]
      /\ canceling' = [canceling EXCEPT ![w] = @ - 1]
      /\ \/ timer_pending' = timer_pending /\ delayed' = delayed \ {w}
         \/ timer_pending' = timer_pending \cup {w} /\ delayed' = (delayed \ {w}) \cup {w}
  BY Zenon DEF ModRelock, QueueDelayed, Return, thread
<1>3. TimerFindsWork' /\ delayed' \subseteq delayed \cup {w}
  BY <1>1, <1>2 DEF TimerInv, TimerFindsWork
<1> HIDE DEF w
<1> QED
  BY <1>1, <1>2, <1>3, Leave, Zenon

\* The worker thread, and a work function that queues its own work.
LEMMA WorkerSteps ==
  ASSUME TimerInv, WorkerStep \/ WorkerRequeue \/ CreateWorker
  PROVE  TimerInv'
<1>1. CASE WorkerStep
  BY <1>1, Quiet DEF WorkerStep, WorkerStart, WorkerRepeat, WorkerCheck, WorkerTake,
     WorkerFinish, WorkerSchedule, lists
<1>2. CASE WorkerRequeue
  <2>1. CASE current_work \in WORKS
    BY <1>2, <2>1, Quiet DEF WorkerRequeue, thread, timers
  <2>2. CASE current_work \notin WORKS
    <3>1. PICK delay \in {0, 1} : QueueDelayed(current_work, delay, work_list, delayed)
      BY <1>2, <2>2 DEF WorkerRequeue
    <3>2. /\ current_work \in DWORKS /\ current_work \notin delayed
          /\ canceling[current_work] = 0 /\ ~Closing /\ wpc # "freed"
          /\ UNCHANGED <<timer_running, canceling, call, wpc>>
      BY <1>2, <2>2 DEF WorkerRequeue, queuing_blocked, OnList, TimerInv, TimerType, Works, thread
    <3>3. \A q \in CALLERS : ~Cancelling(q, current_work)
      BY <3>2, Blocked, SMTT(20) DEF TimerInv, Works
    <3> QED
      BY <3>1, <3>2, <3>3, Arm
  <2> QED
    BY <2>1, <2>2
<1>3. CASE CreateWorker
  <2>1. /\ delayed = {} /\ wpc' = "start" /\ UNCHANGED <<call, canceling, timers, delayed>>
        /\ \A p \in CALLERS : call[p] = Idle
    BY <1>3 DEF CreateWorker, TimerInv, CloseOK
  <2>2. CountOK'
    BY <2>1, CountSame DEF TimerInv, Cancelling
  <2> QED
    BY <2>1, <2>2 DEF TimerInv, TimerType, CallOK, ModAlone, TimerOff, BoundOK, CloseOK,
       TimerFindsWork, Cancelling, timers, Idle
<1> QED
  BY <1>1, <1>2, <1>3, SMTT(20)

\* kthread_destroy_worker.
LEMMA DestroyStep ==
  ASSUME TimerInv, NEW p \in CALLERS,
         DestroyWorker(p) \/ DestroyStops(p) \/ DestroyFrees(p)
  PROVE  TimerInv'
<1>0. call[p] \in Calls /\ CallOK(p)
  BY DEF TimerInv, TimerType
<1>1. CASE DestroyWorker(p)
  <2> DEFINE r == [fn |-> "destroy", at |-> "wait", work |-> NoWork, delay |-> 0]
  <2>1. /\ r \in Calls /\ call' = [call EXCEPT ![p] = r]
        /\ UNCHANGED <<canceling, timers, bound, wpc, delayed>> /\ wpc # "freed"
        /\ delayed = {} /\ \A q \in CALLERS : call[q] = Idle
    BY <1>1 DEF DestroyWorker, FlushAll, At, Ready, thread, Calls
  <2>2. CallOK(p)'
    BY <2>1 DEF CallOK, TimerInv, TimerType
  <2>3. TimerFindsWork'
    BY <2>1 DEF TimerInv, TimerFindsWork, timers
  <2>4. /\ r.fn = "destroy" /\ r.at = "wait" /\ call[p].fn = "none"
        /\ ~\E q \in CALLERS \ {p} : call[q].fn = "destroy"
    BY <2>1 DEF Idle
  <2> HIDE DEF r
  <2> QED
    BY <2>1, <2>2, <2>3, <2>4, Move, ZenonT(30)
<1>2. CASE DestroyStops(p) \/ DestroyFrees(p)
  <2> DEFINE r == IF call[p].at = "stop" THEN [call[p] EXCEPT !.at = "exit"] ELSE Idle
  <2>1. /\ call[p].at \in {"stop", "exit"} /\ call[p].fn = "destroy" /\ call[p] # Idle
        /\ UNCHANGED <<canceling, timers, bound, delayed>>
        /\ call' = [call EXCEPT ![p] = r]
        /\ wpc' = "freed" => r = Idle \/ wpc = "freed"
    BY <1>0, <1>2 DEF DestroyStops, DestroyFrees, Goto, Return, CallOK, lists, Idle
  <2>2. /\ delayed = {} /\ wpc # "freed"
        /\ \A q \in CALLERS \ {p} : call[q] = Idle
    BY <2>1 DEF TimerInv, CloseOK
  <2>3. r \in Calls /\ r.fn \notin {"cancel", "mod"} /\ r.at \notin {"relock", "timer"}
    BY <1>0, <2>1 DEF Calls, Idle
  <2>4. CallOK(p)'
    BY <1>0, <2>1 DEF CallOK, Calls, Idle, TimerInv, TimerType
  <2>5. TimerFindsWork'
    BY <2>1 DEF TimerInv, TimerFindsWork, timers
  <2>6. \A q \in CALLERS \ {p} : call[q].fn # "destroy"
    BY <2>2 DEF Idle
  <2> HIDE DEF r
  <2> QED
    BY <2>1, <2>2, <2>3, <2>4, <2>5, <2>6, Move, Zenon
<1> QED
  BY <1>1, <1>2

-----------------------------------------------------------------------------
(* Lists *)

\* m stands in front of n.
Before(l, m, n) == \E i, j \in 1..Len(l) : i < j /\ l[i] = m /\ l[j] = n

\* No node is on the list twice.
Once(l) == \A i, j \in 1..Len(l) : l[i] = l[j] => i = j

\* A node that is on a list has a position.
LEMMA PositionIs ==
  ASSUME NEW T, NEW l \in Seq(T), NEW n, Contains(l, n)
  PROVE  Position(l, n) \in 1..Len(l) /\ l[Position(l, n)] = n
<1>1. DOMAIN l = 1..Len(l)
  OBVIOUS
<1>2. PICK i \in DOMAIN l : l[i] = n
  BY <1>1 DEF Contains
<1> QED
  BY <1>1, <1>2, Zenon DEF Position

\* k is l with x put in somewhere, in the same order.
Added(k, l, x) ==
  /\ Once(k)
  /\ \A n : Contains(k, n) <=> Contains(l, n) \/ n = x
  /\ \A m, n : Before(l, m, n) => Before(k, m, n)

\* list_add_tail.
LEMMA Appended ==
  ASSUME NEW T, NEW l \in Seq(T), NEW x \in T, Once(l), ~Contains(l, x),
         NEW k, k = Append(l, x)
  PROVE  /\ k \in Seq(T) /\ Added(k, l, x)
         /\ \A m : Contains(l, m) => Before(k, m, x)
<1>1. /\ k \in Seq(T) /\ Len(l) \in Nat /\ Len(k) = Len(l) + 1 /\ k[Len(l) + 1] = x
      /\ \A i \in 1..Len(l) : i \in 1..Len(k) /\ k[i] = l[i]
      /\ \A i \in 1..Len(k) : i \in 1..Len(l) \/ i = Len(l) + 1
  OBVIOUS
<1>2. Len(l) + 1 \in 1..Len(k) /\ \A i \in 1..Len(l) : i < Len(l) + 1
  BY <1>1
<1>3. Once(k)
  BY <1>1, <1>2 DEF Once, Contains
<1>4. \A n : Contains(k, n) <=> Contains(l, n) \/ n = x
  BY <1>1, <1>2, Zenon DEF Contains
<1>5. \A m, n : Before(l, m, n) => Before(k, m, n)
  BY <1>1, Zenon DEF Before
<1>6. \A m : Contains(l, m) => Before(k, m, x)
  BY <1>1, <1>2, Zenon DEF Before, Contains
<1> QED
  BY <1>1, <1>3, <1>4, <1>5, <1>6, Zenon DEF Added

\* Insertion of x in front of position a, which may be the end of the list.
LEMMA Inserted ==
  ASSUME NEW T, NEW l \in Seq(T), NEW x \in T, Once(l), ~Contains(l, x),
         NEW a \in 1..(Len(l) + 1), NEW k, k = InsertAt(l, a, x)
  PROVE  /\ k \in Seq(T) /\ Added(k, l, x)
         /\ \A i \in 1..(a - 1) : Before(k, l[i], x)
<1> DEFINE at(i) == IF i < a THEN i ELSE i + 1
           old(i) == IF i < a THEN i ELSE i - 1
<1>1. /\ k \in Seq(T) /\ Len(l) \in Nat /\ Len(k) = Len(l) + 1
      /\ \A i \in 1..Len(k) : k[i] = IF i < a THEN l[i] ELSE IF i = a THEN x ELSE l[i - 1]
  <2> DEFINE u == SubSeq(l, 1, a - 1)
             w == u \o <<x>>
             v == SubSeq(l, a, Len(l))
  <2>1. k = w \o v
    BY Zenon DEF InsertAt
  <2>2. u \in Seq(T) /\ Len(u) = a - 1 /\ \A i \in 1..(a - 1) : u[i] = l[i]
    OBVIOUS
  <2>3. /\ v \in Seq(T) /\ Len(v) = Len(l) + 1 - a
        /\ \A i \in 1..(Len(l) + 1 - a) : v[i] = l[a + i - 1]
    OBVIOUS
  <2> HIDE DEF u, v
  <2>4. w \in Seq(T) /\ Len(w) = a /\ \A i \in 1..a : w[i] = IF i = a THEN x ELSE l[i]
    BY <2>2
  <2> HIDE DEF w
  <2>5. /\ k \in Seq(T) /\ Len(k) = Len(w) + Len(v)
        /\ \A i \in 1..(Len(w) + Len(v)) : k[i] = IF i <= Len(w) THEN w[i] ELSE v[i - Len(w)]
    <3>1. w \in Seq(T) /\ v \in Seq(T)
      BY <2>3, <2>4
    <3> QED
      BY <2>1, <3>1
  <2>6. Len(l) \in Nat /\ Len(k) = Len(l) + 1
    BY <2>3, <2>4, <2>5
  <2>7. ASSUME NEW i \in 1..Len(k), i <= a PROVE k[i] = IF i = a THEN x ELSE l[i]
    BY <2>4, <2>5, <2>7
  <2>8. ASSUME NEW i \in 1..Len(k), ~(i <= a) PROVE k[i] = l[i - 1]
    <3>1. i - a \in 1..(Len(l) + 1 - a) /\ a + (i - a) - 1 = i - 1
      BY <2>6, <2>8
    <3>2. k[i] = v[i - a]
      BY <2>4, <2>5, <2>8
    <3> QED
      BY <2>3, <3>1, <3>2, SMTT(20)
  <2> QED
    BY <2>5, <2>6, <2>7, <2>8
<1>2. \A i \in 1..Len(l) : at(i) \in 1..Len(k) /\ k[at(i)] = l[i]
  BY <1>1
<1>3. /\ \A i, j \in 1..Len(l) : i < j => at(i) < at(j)
      /\ a \in 1..Len(k) /\ k[a] = x /\ \A i \in 1..(a - 1) : i \in 1..Len(l) /\ at(i) < a
      /\ \A i, j \in 1..Len(k) : i # a /\ j # a /\ old(i) = old(j) => i = j
  BY <1>1
<1>4. \A i \in 1..Len(k) : i # a => old(i) \in 1..Len(l) /\ k[i] = l[old(i)]
  BY <1>1
<1> HIDE DEF at, old
<1>5. ASSUME NEW i \in 1..Len(k), NEW j \in 1..Len(k), k[i] = k[j]
      PROVE  i = j
  <2>1. CASE i # a /\ j # a
    <3>1. old(i) \in 1..Len(l) /\ old(j) \in 1..Len(l) /\ l[old(i)] = l[old(j)]
      BY <1>4, <1>5, <2>1
    <3> QED
      BY <1>3, <2>1, <3>1, SMTT(20) DEF Once
  <2>2. \A h \in 1..Len(k) : h # a => k[h] # x
    BY <1>4 DEF Contains
  <2> QED
    BY <1>3, <1>5, <2>1, <2>2
<1>6. ASSUME NEW n PROVE Contains(k, n) <=> Contains(l, n) \/ n = x
  <2>1. ASSUME NEW i \in 1..Len(k), k[i] = n PROVE Contains(l, n) \/ n = x
    BY <1>3, <1>4, <2>1 DEF Contains
  <2>2. ASSUME NEW i \in 1..Len(l), l[i] = n PROVE Contains(k, n)
    <3>1. at(i) \in 1..Len(k) /\ k[at(i)] = n
      BY <1>2, <2>2
    <3> QED
      BY <3>1 DEF Contains
  <2> QED
    BY <1>3, <2>1, <2>2 DEF Contains
<1>7. ASSUME NEW m, NEW n, Before(l, m, n) PROVE Before(k, m, n)
  <2>1. PICK i, j \in 1..Len(l) : i < j /\ l[i] = m /\ l[j] = n
    BY <1>7 DEF Before
  <2>2. /\ at(i) \in 1..Len(k) /\ at(j) \in 1..Len(k) /\ at(i) < at(j)
        /\ k[at(i)] = m /\ k[at(j)] = n
    BY <1>2, <1>3, <2>1
  <2> QED
    BY <2>2 DEF Before
<1>8. ASSUME NEW i \in 1..(a - 1) PROVE Before(k, l[i], x)
  <2>1. at(i) \in 1..Len(k) /\ k[at(i)] = l[i] /\ at(i) < a
    BY <1>2, <1>3
  <2> QED
    BY <1>3, <2>1 DEF Before
<1> QED
  BY <1>1, <1>5, <1>6, <1>7, <1>8 DEF Once, Added

\* k is l without x, in the same order.
Without(k, l, x) ==
  /\ Once(k)
  /\ \A n : Contains(k, n) <=> Contains(l, n) /\ n # x
  /\ \A m, n : Before(l, m, n) /\ m # x /\ n # x => Before(k, m, n)

\* The node at position a is taken out.
LEMMA TakenOut ==
  ASSUME NEW T, NEW l \in Seq(T), Once(l), NEW a \in 1..Len(l), NEW k, k = RemoveAt(l, a)
  PROVE  k \in Seq(T) /\ Without(k, l, l[a])
<1> DEFINE at(i) == IF i < a THEN i ELSE i - 1
           old(i) == IF i < a THEN i ELSE i + 1
<1>1. /\ k \in Seq(T) /\ Len(l) \in Nat /\ Len(k) = Len(l) - 1
      /\ \A i \in 1..Len(k) : k[i] = l[old(i)]
  <2> DEFINE u == SubSeq(l, 1, a - 1)
             v == SubSeq(l, a + 1, Len(l))
  <2>1. k = u \o v
    BY Zenon DEF RemoveAt
  <2>2. u \in Seq(T) /\ Len(u) = a - 1 /\ \A i \in 1..(a - 1) : u[i] = l[i]
    OBVIOUS
  <2>3. /\ v \in Seq(T) /\ Len(v) = Len(l) - a
        /\ \A i \in 1..(Len(l) - a) : v[i] = l[a + i]
    OBVIOUS
  <2> HIDE DEF u, v
  <2>4. /\ k \in Seq(T) /\ Len(k) = Len(u) + Len(v)
        /\ \A i \in 1..(Len(u) + Len(v)) : k[i] = IF i <= Len(u) THEN u[i] ELSE v[i - Len(u)]
    <3>1. u \in Seq(T) /\ v \in Seq(T)
      BY <2>2, <2>3
    <3> QED
      BY <2>1, <3>1
  <2>5. Len(l) \in Nat /\ Len(k) = Len(l) - 1
    BY <2>2, <2>3, <2>4
  <2>6. ASSUME NEW i \in 1..Len(k), i < a PROVE k[i] = l[i]
    BY <2>2, <2>4, <2>6
  <2>7. ASSUME NEW i \in 1..Len(k), ~(i < a) PROVE k[i] = l[i + 1]
    <3>1. i - (a - 1) \in 1..(Len(l) - a) /\ a + (i - (a - 1)) = i + 1
      BY <2>5, <2>7
    <3>2. k[i] = v[i - (a - 1)]
      BY <2>2, <2>4, <2>7
    <3> QED
      BY <2>3, <3>1, <3>2
  <2> QED
    BY <2>4, <2>5, <2>6, <2>7
<1>2. \A i \in 1..Len(l) : i # a => at(i) \in 1..Len(k) /\ k[at(i)] = l[i]
  BY <1>1, SMTT(20)
<1>3. /\ \A i, j \in 1..Len(l) : i # a /\ j # a /\ i < j => at(i) < at(j)
      /\ \A i \in 1..Len(k) : old(i) \in 1..Len(l) /\ old(i) # a
      /\ \A i, j \in 1..Len(k) : old(i) = old(j) => i = j
  BY <1>1
<1> HIDE DEF at, old
<1>4. ASSUME NEW i \in 1..Len(k), NEW j \in 1..Len(k), k[i] = k[j]
      PROVE  i = j
  <2>1. old(i) \in 1..Len(l) /\ old(j) \in 1..Len(l) /\ l[old(i)] = l[old(j)]
    BY <1>1, <1>3, <1>4
  <2> QED
    BY <1>3, <2>1 DEF Once
<1>5. ASSUME NEW n PROVE Contains(k, n) <=> Contains(l, n) /\ n # l[a]
  <2>1. ASSUME NEW i \in 1..Len(k), k[i] = n PROVE Contains(l, n) /\ n # l[a]
    <3>1. old(i) \in 1..Len(l) /\ old(i) # a /\ l[old(i)] = n
      BY <1>1, <1>3, <2>1
    <3> QED
      BY <3>1 DEF Contains, Once
  <2>2. ASSUME NEW i \in 1..Len(l), l[i] = n, n # l[a] PROVE Contains(k, n)
    <3>1. at(i) \in 1..Len(k) /\ k[at(i)] = n
      BY <1>2, <2>2
    <3> QED
      BY <3>1 DEF Contains
  <2> QED
    BY <2>1, <2>2 DEF Contains
<1>6. ASSUME NEW m, NEW n, Before(l, m, n), m # l[a], n # l[a] PROVE Before(k, m, n)
  <2>1. PICK i, j \in 1..Len(l) : i < j /\ l[i] = m /\ l[j] = n
    BY <1>6 DEF Before
  <2>2. /\ at(i) \in 1..Len(k) /\ at(j) \in 1..Len(k) /\ at(i) < at(j)
        /\ k[at(i)] = m /\ k[at(j)] = n
    BY <1>2, <1>3, <1>6, <2>1
  <2> QED
    BY <2>2 DEF Before
<1> QED
  BY <1>1, <1>4, <1>5, <1>6, SMTT(20) DEF Once, Without

\* list_del_init.
LEMMA Deleted ==
  ASSUME NEW T, NEW l \in Seq(T), NEW x \in T, Once(l), NEW k, k = list_del_init(l, x)
  PROVE  k \in Seq(T) /\ Without(k, l, x)
<1>1. CASE ~Contains(l, x)
  BY <1>1, Zenon DEF list_del_init, Without
<1>2. CASE Contains(l, x)
  <2>1. PICK a \in 1..Len(l) : l[a] = x /\ k = RemoveAt(l, a)
    BY <1>2, PositionIs, Zenon DEF list_del_init
  <2> QED
    BY <1>2, <2>1, TakenOut, Zenon
<1> QED
  BY <1>1, <1>2

\* The first node is taken.
LEMMA Popped ==
  ASSUME NEW T, NEW l \in Seq(T), l # <<>>, Once(l)
  PROVE  /\ Tail(l) \in Seq(T) /\ Head(l) \in T /\ Contains(l, Head(l))
         /\ Without(Tail(l), l, Head(l))
         /\ \A m, n : Before(l, m, n) => n # Head(l)
<1>1. 1 \in 1..Len(l) /\ l[1] = Head(l) /\ Head(l) \in T
  OBVIOUS
<1>2. Tail(l) = RemoveAt(l, 1)
  <2>1. SubSeq(l, 1, 1 - 1) = <<>> /\ SubSeq(l, 1 + 1, Len(l)) = Tail(l)
    OBVIOUS
  <2>2. <<>> \o Tail(l) = Tail(l)
    OBVIOUS
  <2> QED
    BY <2>1, <2>2, Zenon DEF RemoveAt
<1>3. ASSUME NEW m, NEW n, Before(l, m, n) PROVE n # Head(l)
  BY <1>1, <1>3 DEF Before, Once
<1>4. Contains(l, Head(l))
  BY <1>1, Zenon DEF Contains
<1> QED
  BY <1>1, <1>2, <1>3, <1>4, TakenOut, Zenon

-----------------------------------------------------------------------------
(* What flush and cancel rely on *)

\* The types of the lists, and of what a flush waits for.
ListType ==
  /\ work_list \in Seq(Nodes)
  /\ delayed \subseteq DWORKS
  /\ current_work \in Nodes \cup {NoWork}
  /\ done \subseteq CALLERS
  /\ ahead \in [CALLERS -> SUBSET (Works \X {"queued", "running"})]

\* A node is on one list and there once; a work that is on the list or was the last
\* to run has been queued.
ListsOK ==
  /\ Once(work_list)
  /\ \A n \in delayed : ~Contains(work_list, n)
  /\ \A w \in Works : Contains(work_list, w) \/ current_work = w => w \in bound

\* The flush work of a task that waits is on the list, or runs, or has run.
NodeOK(p) ==
  /\ Contains(work_list, p) \/ Executing(p) \/ p \in done => call[p].at = "wait"
  /\ Contains(work_list, p) => ~Executing(p) /\ p \notin done
  /\ Executing(p) => p \notin done

\* What a flush waits for is in front of the flush work, or runs while the flush
\* work is on the list.
AheadOK(p) ==
  /\ \A w \in Works : <<w, "queued">> \in ahead[p] => Before(work_list, w, p)
  /\ \A w \in Works : <<w, "running">> \in ahead[p] => Executing(w) /\ Contains(work_list, p)

\* A cancel that goes on to flush has its work off the lists for good, waits for
\* the execution that it met, and has it behind it once it has flushed.
CancelOK(p) ==
  call[p].fn = "cancel" =>
    /\ call[p].at \in {"flush", "wait", "flushed"} => ~OnList(call[p].work)
    /\ call[p].at = "wait" /\ Executing(call[p].work) => <<call[p].work, "running">> \in ahead[p]
    /\ call[p].at = "flushed" => ~Executing(call[p].work)

FlushInv == ListType /\ ListsOK /\ \A p \in CALLERS : NodeOK(p) /\ AheadOK(p) /\ CancelOK(p)

\* Nothing is queued while its cancel flushes.
Uncancelled(w) ==
  \A q \in CALLERS : call[q].fn = "cancel" /\ call[q].work = w
                     => call[q].at \notin {"flush", "wait", "flushed"}

\* What queueing w does to the list: it changes no order.
Queued(w) ==
  /\ work_list' \in Seq(Nodes) /\ Once(work_list')
  /\ \A n : Contains(work_list, n) => Contains(work_list', n)
  /\ \A n : Contains(work_list', n) => Contains(work_list, n) \/ n = w
  /\ \A m, n : Before(work_list, m, n) => Before(work_list', m, n)

\* list_add_tail does that.
LEMMA AppendQueued ==
  ASSUME NEW n \in Nodes, work_list \in Seq(Nodes), Once(work_list), ~Contains(work_list, n),
         work_list' = Append(work_list, n)
  PROVE  Queued(n) /\ Contains(work_list', n)
         /\ \A m : Contains(work_list, m) => Before(work_list', m, n)
<1>1. work_list' \in Seq(Nodes) /\ Added(work_list', work_list, n)
  BY Appended, Zenon
<1>2. \A m : Contains(work_list, m) => Before(work_list', m, n)
  BY Appended, Zenon
<1> QED
  BY <1>1, <1>2, Zenon DEF Queued, Added

\* A work is put at the end of work_list or on delayed_work_list.
LEMMA Enqueued ==
  ASSUME FlushInv, NEW w \in Works, ~Contains(work_list, w), Uncancelled(w),
         UNCHANGED <<current_work, wpc, done, ahead, call>>, bound' = bound \cup {w},
         \/ work_list' = Append(work_list, w) /\ delayed' = delayed \ {w}
         \/ work_list' = work_list /\ delayed' = delayed \cup {w} /\ w \in DWORKS
  PROVE  FlushInv'
<1>1. w \in Nodes /\ ListType /\ ListsOK /\ w \notin CALLERS
  BY SetsAssumption, Zenon DEF FlushInv, Nodes, Works
<1>2. Queued(w)
  BY <1>1, AppendQueued, Zenon DEF ListType, ListsOK, Queued
<1>3. ListType'
  BY <1>1, <1>2, Zenon DEF ListType, Queued
<1>4. ListsOK'
  <2>1. \A n \in delayed' : ~Contains(work_list', n)
    BY <1>1, <1>2, Zenon DEF ListsOK, Queued
  <2>2. \A v \in Works : Contains(work_list', v) \/ current_work' = v => v \in bound'
    BY <1>1, <1>2, Zenon DEF ListsOK, Queued
  <2> QED
    BY <1>2, <2>1, <2>2, Zenon DEF ListsOK, Queued
<1>5. ASSUME NEW p \in CALLERS PROVE NodeOK(p)' /\ AheadOK(p)' /\ CancelOK(p)'
  <2>1. NodeOK(p) /\ AheadOK(p) /\ CancelOK(p) /\ p # w
    BY <1>1, Zenon DEF FlushInv
  <2>2. NodeOK(p)'
    BY <1>2, <2>1, Zenon DEF NodeOK, Executing, Queued
  <2>3. AheadOK(p)'
    BY <1>2, <2>1, Zenon DEF AheadOK, Executing, Queued
  <2>4. CancelOK(p)'
    <3>1. ASSUME NEW v, v # w PROVE OnList(v)' => OnList(v)
      BY <1>2, <3>1, Zenon DEF OnList, Queued
    <3> QED
      BY <2>1, <3>1, Zenon DEF CancelOK, Uncancelled, Executing
  <2> QED
    BY <2>2, <2>3, <2>4
<1> QED
  BY <1>3, <1>4, <1>5, Zenon DEF FlushInv

\* The flush work of p is put on work_list.
LEMMA Flushes ==
  ASSUME TimerInv, FlushInv, NEW p \in CALLERS, call[p].at # "wait",
         call'[p].at = "wait", \A q \in CALLERS \ {p} : call'[q] = call[q],
         Queued(p), Contains(work_list', p),
         NEW S \in SUBSET (Works \X {"queued", "running"}),
         ahead' = [ahead EXCEPT ![p] = S],
         \A w \in Works : <<w, "queued">> \in S => Before(work_list', w, p),
         \A w \in Works : <<w, "running">> \in S => Executing(w),
         call'[p].fn = "cancel" =>
           /\ ~OnList(call'[p].work) /\ call'[p].work \in Works
           /\ Executing(call'[p].work) => <<call'[p].work, "running">> \in S,
         UNCHANGED <<delayed, current_work, wpc, done, bound>>
  PROVE  FlushInv'
<1>1. ListType /\ ListsOK /\ p \notin Works /\ p \notin DWORKS
  BY SetsAssumption, Zenon DEF FlushInv, Works
<1>2. ahead'[p] = S /\ \A q \in CALLERS \ {p} : ahead'[q] = ahead[q]
  BY <1>1, Zenon DEF ListType
<1>3. ListType'
  <2>1. ahead' \in [CALLERS -> SUBSET (Works \X {"queued", "running"})]
    BY <1>1 DEF ListType
  <2> QED
    BY <1>1, <2>1, ZenonT(30) DEF ListType, Queued
<1>4. ListsOK'
  <2>1. \A n \in delayed : n # p
    BY <1>1, Zenon DEF ListType
  <2>2. \A w \in Works : w # p
    BY <1>1, Zenon
  <2> QED
    BY <1>1, <2>1, <2>2, Zenon DEF ListsOK, Queued
<1>5. Executing(p) => FALSE
  BY Zenon DEF FlushInv, NodeOK
<1>6. p \notin done /\ ~Contains(work_list, p)
  BY ZenonT(30) DEF FlushInv, NodeOK
<1>7. NodeOK(p)' /\ AheadOK(p)' /\ CancelOK(p)'
  <2>1. NodeOK(p)'
    BY <1>5, <1>6, Zenon DEF NodeOK, Executing, Queued
  <2>2. AheadOK(p)'
    BY <1>2, Zenon DEF AheadOK, Executing, Queued
  <2>3. CancelOK(p)'
    <3>1. call'[p].fn = "cancel" => call'[p].work # p
      BY <1>1, Zenon
    <3> QED
      BY <1>2, <3>1, Zenon DEF CancelOK, Executing, OnList, Queued
  <2> QED
    BY <2>1, <2>2, <2>3, Zenon
<1>8. ASSUME NEW q \in CALLERS, q # p PROVE NodeOK(q)' /\ AheadOK(q)' /\ CancelOK(q)'
  <2>1. /\ NodeOK(q) /\ AheadOK(q) /\ CancelOK(q)
        /\ ahead'[q] = ahead[q] /\ call'[q] = call[q]
    BY <1>2, <1>8, Zenon DEF FlushInv
  <2>2. NodeOK(q)' /\ AheadOK(q)'
    BY <1>8, <2>1, Zenon DEF NodeOK, AheadOK, Executing, Queued
  <2>3. CancelOK(q)'
    <3>1. ASSUME NEW w, w # p PROVE OnList(w)' => OnList(w)
      BY <3>1, Zenon DEF OnList, Queued
    <3>2. call[q].fn = "cancel" => call[q].work # p
      BY <1>1, Zenon DEF TimerInv, CallOK
    <3> QED
      BY <2>1, <3>1, <3>2, Zenon DEF CancelOK, Executing
  <2> QED
    BY <2>2, <2>3
<1> QED
  BY <1>3, <1>4, <1>7, <1>8, Zenon DEF FlushInv

\* So does insertion behind a work.
LEMMA InsertQueued ==
  ASSUME NEW n \in Nodes, work_list \in Seq(Nodes), Once(work_list), ~Contains(work_list, n),
         NEW w, Contains(work_list, w),
         work_list' = InsertAt(work_list, Position(work_list, w) + 1, n)
  PROVE  Queued(n) /\ Contains(work_list', n) /\ Before(work_list', w, n)
<1>1. PICK i \in 1..Len(work_list) : i = Position(work_list, w) /\ work_list[i] = w
  BY PositionIs, Zenon
<1>2. /\ i + 1 \in 1..(Len(work_list) + 1) /\ i \in 1..((i + 1) - 1)
      /\ work_list' = InsertAt(work_list, i + 1, n)
  <2>1. Len(work_list) \in Nat
    OBVIOUS
  <2>2. i + 1 \in 1..(Len(work_list) + 1) /\ i \in 1..((i + 1) - 1)
    BY <2>1
  <2> QED
    BY <1>1, <2>2, Zenon
<1> DEFINE a == i + 1
<1>3. a \in 1..(Len(work_list) + 1) /\ i \in 1..(a - 1) /\ work_list' = InsertAt(work_list, a, n)
  BY <1>2
<1> HIDE DEF a
<1>4. work_list' \in Seq(Nodes) /\ Added(work_list', work_list, n)
  BY <1>3, Inserted, Zenon
<1>5. Before(work_list', work_list[i], n)
  BY <1>3, Inserted, Zenon
<1> QED
  BY <1>1, <1>4, <1>5, Zenon DEF Queued, Added

\* And at the head.
LEMMA HeadQueued ==
  ASSUME NEW n \in Nodes, work_list \in Seq(Nodes), Once(work_list), ~Contains(work_list, n),
         work_list' = <<n>> \o work_list
  PROVE  Queued(n) /\ Contains(work_list', n)
<1> DEFINE a == 1
<1>1. a \in 1..(Len(work_list) + 1)
  OBVIOUS
<1>2. work_list' = InsertAt(work_list, a, n)
  <2>1. SubSeq(work_list, 1, a - 1) = <<>> /\ SubSeq(work_list, a, Len(work_list)) = work_list
    OBVIOUS
  <2>2. <<>> \o <<n>> = <<n>>
    OBVIOUS
  <2> QED
    BY <2>1, <2>2, Zenon DEF InsertAt
<1> HIDE DEF a
<1>3. work_list' \in Seq(Nodes) /\ Added(work_list', work_list, n)
  BY <1>1, <1>2, Inserted, Zenon
<1> QED
  BY <1>3, Zenon DEF Queued, Added

\* A task moves on in its call; its flush work, if it had one, is through.
LEMMA MovesOn ==
  ASSUME FlushInv, NEW p \in CALLERS,
         ~Contains(work_list, p), ~Executing(p), p \notin done',
         call'[p].at # "wait", \A q \in CALLERS \ {p} : call'[q] = call[q],
         call'[p].fn = "cancel" =>
           /\ call'[p].at \in {"flush", "flushed"} => ~OnList(call'[p].work)
           /\ call'[p].at = "flushed" => ~Executing(call'[p].work),
         done' = done \/ done' = done \ {p},
         wpc' = wpc \/ (wpc # "run" /\ wpc' # "run"),
         UNCHANGED <<work_list, delayed, current_work, ahead, bound>>
  PROVE  FlushInv'
<1>1. \A n : Executing(n)' <=> Executing(n)
  BY Zenon DEF Executing
<1>2. \A n : OnList(n)' <=> OnList(n)
  BY Zenon DEF OnList
<1>3. ListType' /\ ListsOK'
  BY ZenonT(30) DEF FlushInv, ListType, ListsOK
<1>4. ASSUME NEW q \in CALLERS PROVE NodeOK(q)' /\ AheadOK(q)' /\ CancelOK(q)'
  <2>1. NodeOK(q) /\ AheadOK(q) /\ CancelOK(q)
    BY Zenon DEF FlushInv
  <2>2. NodeOK(q)'
    BY <1>1, <2>1, Zenon DEF NodeOK
  <2>3. AheadOK(q)'
    BY <1>1, <2>1, Zenon DEF AheadOK
  <2>4. CancelOK(q)'
    <3>1. CASE q = p
      BY <1>1, <1>2, <3>1, Zenon DEF CancelOK
    <3>2. CASE q # p
      <4>1. call'[q] = call[q]
        BY <3>2, Zenon
      <4> QED
        BY <1>1, <1>2, <2>1, <4>1, Zenon DEF CancelOK
    <3> QED
      BY <3>1, <3>2, Zenon
  <2> QED
    BY <2>2, <2>3, <2>4
<1> QED
  BY <1>3, <1>4, Zenon DEF FlushInv

\* The worker thread moves on without a work.
LEMMA WorkerMoves ==
  ASSUME FlushInv, wpc # "run", wpc' # "run", current_work' \in {current_work, NoWork},
         UNCHANGED <<work_list, delayed, bound, call, done, ahead>>
  PROVE  FlushInv'
<1>1. \A n : ~Executing(n)' /\ ~Executing(n)
  BY Zenon DEF Executing
<1>2. \A n : OnList(n)' <=> OnList(n)
  BY Zenon DEF OnList
<1>3. ListType' /\ ListsOK'
  <2>1. NoWork \notin Works
    BY SetsAssumption, Zenon DEF Works
  <2> QED
    BY <2>1, Zenon DEF FlushInv, ListType, ListsOK
<1>4. ASSUME NEW q \in CALLERS PROVE NodeOK(q)' /\ AheadOK(q)' /\ CancelOK(q)'
  <2>1. NodeOK(q) /\ AheadOK(q) /\ CancelOK(q)
    BY Zenon DEF FlushInv
  <2>2. NodeOK(q)'
    BY <1>1, <2>1, Zenon DEF NodeOK
  <2>3. AheadOK(q)'
    BY <1>1, <2>1, Zenon DEF AheadOK
  <2>4. CancelOK(q)'
    BY <1>1, <1>2, <2>1, Zenon DEF CancelOK
  <2> QED
    BY <2>2, <2>3, <2>4
<1> QED
  BY <1>3, <1>4, Zenon DEF FlushInv

\* Steps that change no list and no flush.
LEMMA SameLists ==
  ASSUME FlushInv, UNCHANGED <<work_list, delayed, current_work, wpc, done, ahead, call, bound>>
  PROVE  FlushInv'
<1>1. ListType' /\ ListsOK'
  BY Zenon DEF FlushInv, ListType, ListsOK
<1>2. ASSUME NEW p \in CALLERS PROVE NodeOK(p)' /\ AheadOK(p)' /\ CancelOK(p)'
  <2>1. NodeOK(p) /\ AheadOK(p) /\ CancelOK(p)
    BY Zenon DEF FlushInv
  <2> QED
    BY <2>1, Zenon DEF NodeOK, AheadOK, CancelOK, Executing, OnList
<1> QED
  BY <1>1, <1>2, Zenon DEF FlushInv

-----------------------------------------------------------------------------
(* The actions and the lists *)

\* Queueing is blocked for as long as a cancel of the work is under way.
LEMMA NotCancelled ==
  ASSUME TimerInv, NEW w \in Works, canceling[w] = 0 \/ w \notin bound
  PROVE  Uncancelled(w)
<1>1. CASE canceling[w] = 0
  <2>1. \A q \in CALLERS : ~Cancelling(q, w)
    BY <1>1, Blocked, Zenon DEF TimerInv
  <2> QED
    BY <2>1, Zenon DEF Uncancelled, Cancelling
<1>2. CASE w \notin bound
  BY <1>2, Zenon DEF TimerInv, BoundOK, Uncancelled, Cancelling
<1> QED
  BY <1>1, <1>2

\* __kthread_queue_delayed_work of a work that is on no list.
LEMMA QueueDelayedKeeps ==
  ASSUME TimerInv, FlushInv, NEW w \in DWORKS, NEW delay, ~OnList(w), Uncancelled(w),
         QueueDelayed(w, delay, work_list, delayed),
         UNCHANGED <<current_work, wpc, done, ahead, call>>
  PROVE  FlushInv'
<1>1. w \in Works /\ ~Contains(work_list, w) /\ w \notin delayed
  BY Zenon DEF Works, OnList
<1>2. delayed = delayed \ {w}
  BY <1>1
<1>3. /\ bound' = bound \cup {w}
      /\ \/ work_list' = Append(work_list, w) /\ delayed' = delayed \ {w}
         \/ work_list' = work_list /\ delayed' = delayed \cup {w} /\ w \in DWORKS
  BY <1>2, Zenon DEF QueueDelayed, QueueOn
<1> QED
  BY <1>1, <1>3, Enqueued, Zenon

\* kthread_queue_work and kthread_queue_delayed_work.
LEMMA QueueLists ==
  ASSUME TimerInv, FlushInv, NEW p \in CALLERS, NEW w \in Works,
         \/ QueueWork(p, w)
         \/ w \in DWORKS /\ \E delay \in {0, 1} : QueueDelayedWork(p, w, delay)
  PROVE  FlushInv'
<1>1. ~OnList(w) /\ canceling[w] = 0
  <2>1. ~queuing_blocked(w)
    BY Zenon DEF QueueWork, QueueDelayedWork
  <2> QED
    BY <2>1 DEF queuing_blocked, TimerInv, TimerType
<1>2. Uncancelled(w)
  BY <1>1, NotCancelled, Zenon
<1>3. CASE QueueWork(p, w)
  <2>1. w \notin delayed /\ ~Contains(work_list, w)
    BY <1>1, Zenon DEF OnList
  <2>2. delayed = delayed \ {w}
    BY <2>1
  <2>3. /\ work_list' = Append(work_list, w) /\ delayed' = delayed \ {w}
        /\ UNCHANGED <<current_work, wpc, done, ahead, call>> /\ bound' = bound \cup {w}
    BY <1>3, <2>2, Zenon DEF QueueWork, QueueOn, thread, flushes
  <2> QED
    BY <1>2, <2>1, <2>3, Enqueued, Zenon
<1>4. CASE w \in DWORKS /\ \E delay \in {0, 1} : QueueDelayedWork(p, w, delay)
  <2>1. PICK delay \in {0, 1} : QueueDelayedWork(p, w, delay)
    BY <1>4, Zenon
  <2>2. /\ QueueDelayed(w, delay, work_list, delayed)
        /\ UNCHANGED <<current_work, wpc, done, ahead, call>>
    BY <2>1, Zenon DEF QueueDelayedWork, thread, flushes
  <2> QED
    BY <1>1, <1>2, <1>4, <2>2, QueueDelayedKeeps, Zenon
<1> QED
  BY <1>3, <1>4

\* The timer expires, and its function queues the work.
LEMMA TimerLists ==
  ASSUME TimerInv, FlushInv, NEW w \in DWORKS, TimerExpire(w) \/ TimerFn(w)
  PROVE  FlushInv'
<1>1. CASE TimerExpire(w)
  <2>1. UNCHANGED <<work_list, delayed, current_work, wpc, done, ahead, call, bound>>
    BY <1>1, Zenon DEF TimerExpire, lists, thread, flushes
  <2> QED
    BY <2>1, SameLists, Zenon
<1>2. CASE TimerFn(w)
  <2>1. w \in delayed /\ w \in Works /\ w \in bound
    BY <1>2, Zenon DEF TimerFn, TimerInv, TimerFindsWork, BoundOK, Works
  <2>2. ~Contains(work_list, w) /\ work_list \in Seq(Nodes) /\ Once(work_list)
    BY <2>1, Zenon DEF FlushInv, ListsOK, ListType
  <2>3. Uncancelled(w)
    BY <2>1, Zenon DEF FlushInv, CancelOK, Uncancelled, OnList
  <2>4. list_del_init(work_list, w) = work_list
    BY <2>2, Zenon DEF list_del_init
  <2>5. bound = bound \cup {w}
    BY <2>1
  <2>6. /\ work_list' = Append(work_list, w) /\ delayed' = delayed \ {w}
        /\ UNCHANGED <<current_work, wpc, done, ahead, call>> /\ bound' = bound \cup {w}
    BY <1>2, <2>4, <2>5, Zenon DEF TimerFn, QueueOn, thread, flushes
  <2> QED
    BY <2>1, <2>2, <2>3, <2>6, Enqueued, Zenon
<1> QED
  BY <1>1, <1>2

\* A work function queues its own work.
LEMMA RequeueLists ==
  ASSUME TimerInv, FlushInv, WorkerRequeue
  PROVE  FlushInv'
<1>1. PICK w \in Works : w = current_work /\ ~queuing_blocked(w)
  BY Zenon DEF WorkerRequeue
<1>2. ~OnList(w) /\ canceling[w] = 0 /\ w \in bound
  <2>1. ~OnList(w) /\ canceling[w] = 0
    BY <1>1 DEF queuing_blocked, TimerInv, TimerType
  <2> QED
    BY <1>1, <2>1, Zenon DEF FlushInv, ListsOK
<1>3. Uncancelled(w)
  BY <1>2, NotCancelled, Zenon
<1>4. UNCHANGED <<current_work, wpc, done, ahead, call>>
  BY Zenon DEF WorkerRequeue, thread, flushes
<1>5. CASE w \in WORKS
  <2>1. w \notin delayed /\ ~Contains(work_list, w)
    BY <1>2, Zenon DEF OnList
  <2>2. delayed = delayed \ {w} /\ bound = bound \cup {w}
    BY <1>2, <2>1
  <2>3. work_list' = Append(work_list, w) /\ delayed' = delayed \ {w} /\ bound' = bound \cup {w}
    BY <1>1, <1>5, <2>2, Zenon DEF WorkerRequeue, QueueOn
  <2> QED
    BY <1>3, <1>4, <2>1, <2>3, Enqueued, Zenon
<1>6. CASE w \notin WORKS
  <2>1. PICK delay \in {0, 1} : QueueDelayed(w, delay, work_list, delayed)
    BY <1>1, <1>6, Zenon DEF WorkerRequeue
  <2>2. w \in DWORKS
    BY <1>6, Zenon DEF Works
  <2> QED
    BY <1>2, <1>3, <1>4, <2>1, <2>2, QueueDelayedKeeps, Zenon
<1> QED
  BY <1>5, <1>6

\* kthread_flush_work puts the flush work behind the work, or in front of all
\* others when the work is executing.
LEMMA InsertFlush ==
  ASSUME TimerInv, FlushInv, NEW p \in CALLERS, NEW w \in Works, w \notin delayed,
         FlushInsert(p, w), call[p].at # "wait",
         call'[p].at = "wait", \A q \in CALLERS \ {p} : call'[q] = call[q],
         call'[p].fn = "cancel" => call'[p].work = w /\ ~OnList(w),
         UNCHANGED <<current_work, wpc, done, bound>>
  PROVE  FlushInv'
<1> DEFINE Q == IF OnList(w) THEN {<<w, "queued">>} ELSE {}
           R == IF wpc = "run" /\ current_work = w THEN {<<w, "running">>} ELSE {}
           S == Q \cup R
<1>1. /\ p \in Nodes /\ work_list \in Seq(Nodes) /\ Once(work_list)
      /\ ~Contains(work_list, p)
  BY Zenon DEF Nodes, FlushInv, ListType, ListsOK, NodeOK
<1>2. ahead' = [ahead EXCEPT ![p] = S]
  BY Zenon DEF FlushInsert
<1>3. /\ Queued(p) /\ Contains(work_list', p) /\ UNCHANGED delayed
      /\ OnList(w) => Before(work_list', w, p)
  <2>1. CASE Contains(work_list, w)
    <3>1. /\ work_list' = InsertAt(work_list, Position(work_list, w) + 1, p)
          /\ UNCHANGED delayed
      BY <2>1, Zenon DEF FlushInsert
    <3> QED
      BY <1>1, <2>1, <3>1, InsertQueued, Zenon
  <2>2. CASE ~Contains(work_list, w)
    <3>1. work_list' = <<p>> \o work_list /\ UNCHANGED delayed
      BY <2>2, ZenonT(30) DEF FlushInsert
    <3> QED
      BY <1>1, <2>2, <3>1, HeadQueued, Zenon DEF OnList
  <2> QED
    BY <2>1, <2>2, Zenon
<1>4. /\ \A v \in Works : <<v, "queued">> \in S => v = w /\ OnList(w)
      /\ \A v \in Works : <<v, "running">> \in S => v = w /\ Executing(w)
      /\ Executing(w) => <<w, "running">> \in S
      /\ S \in SUBSET (Works \X {"queued", "running"})
  BY DEF Executing
<1> HIDE DEF S
<1>5. \A v \in Works : <<v, "queued">> \in S => Before(work_list', v, p)
  BY <1>3, <1>4, Zenon
<1>6. call'[p].fn = "cancel" =>
           /\ ~OnList(call'[p].work) /\ call'[p].work \in Works
           /\ Executing(call'[p].work) => <<call'[p].work, "running">> \in S
  BY <1>4, Zenon
<1>7. \A v \in Works : <<v, "running">> \in S => Executing(v)
  BY <1>4, Zenon
<1> QED
  BY <1>2, <1>3, <1>4, <1>5, <1>6, <1>7, Flushes, Zenon

\* kthread_flush_worker puts the flush work at the end.
LEMMA FlushAllKeeps ==
  ASSUME TimerInv, FlushInv, NEW p \in CALLERS, FlushAll(p), call[p] = Idle,
         call'[p].at = "wait", \A q \in CALLERS \ {p} : call'[q] = call[q],
         call'[p].fn # "cancel"
  PROVE  FlushInv'
<1> DEFINE Q == {<<w, "queued">> : w \in {v \in Works : Contains(work_list, v)}}
           R == {<<w, "running">> : w \in {v \in Works : wpc = "run" /\ v = current_work}}
           S == Q \cup R
<1>0. call[p].at # "wait"
  BY DEF Idle
<1>1. /\ p \in Nodes /\ work_list \in Seq(Nodes) /\ Once(work_list)
      /\ ~Contains(work_list, p)
  BY <1>0, Zenon DEF Nodes, FlushInv, ListType, ListsOK, NodeOK
<1>2. /\ ahead' = [ahead EXCEPT ![p] = S] /\ work_list' = Append(work_list, p)
      /\ UNCHANGED <<delayed, current_work, wpc, done, bound>>
  BY Zenon DEF FlushAll, QueueOn, thread
<1>3. /\ Queued(p) /\ Contains(work_list', p)
      /\ \A m : Contains(work_list, m) => Before(work_list', m, p)
  BY <1>1, <1>2, AppendQueued, Zenon
<1>4. /\ \A v \in Works : <<v, "queued">> \in S => Contains(work_list, v)
      /\ \A v \in Works : <<v, "running">> \in S => Executing(v)
      /\ S \in SUBSET (Works \X {"queued", "running"})
  BY DEF Executing
<1> HIDE DEF S
<1>5. \A v \in Works : <<v, "queued">> \in S => Before(work_list', v, p)
  BY <1>3, <1>4, Zenon
<1> QED
  BY <1>0, <1>2, <1>3, <1>4, <1>5, Flushes, ZenonT(30)

\* What a step of p does to call.
LEMMA CallMoves ==
  ASSUME TimerInv, NEW p \in CALLERS, NEW r, call' = [call EXCEPT ![p] = r]
  PROVE  call'[p] = r /\ \A q \in CALLERS \ {p} : call'[q] = call[q]
  BY Zenon DEF TimerInv, TimerType

\* The flushes: of a work, of the worker, and inside a cancel or a destruction.
LEMMA FlushLists ==
  ASSUME TimerInv, FlushInv, NEW p \in CALLERS,
         \/ \E w \in WORKS : FlushWork(p, w)
         \/ FlushWorker(p) \/ DestroyWorker(p) \/ CancelFlush(p) \/ FlushDone(p)
  PROVE  FlushInv'
<1>0. call[p] \in Calls /\ CallOK(p) /\ NodeOK(p) /\ AheadOK(p) /\ CancelOK(p) /\ ListType
  BY Zenon DEF TimerInv, TimerType, FlushInv
<1>1. ASSUME NEW w \in WORKS, FlushWork(p, w) PROVE FlushInv'
  <2> DEFINE r == [fn |-> "flush", at |-> "wait", work |-> w, delay |-> 0]
  <2>1. /\ call' = [call EXCEPT ![p] = r] /\ call[p] = Idle /\ FlushInsert(p, w)
        /\ UNCHANGED <<current_work, wpc, done, bound>>
    BY <1>1, ZenonT(30) DEF FlushWork, At, Ready, thread
  <2>2. r.at = "wait" /\ r.fn # "cancel" /\ call[p].at # "wait"
    BY <2>1 DEF Idle
  <2>3. w \in Works /\ w \notin delayed
    BY <1>0, SetsAssumption, Zenon DEF Works, ListType
  <2> HIDE DEF r
  <2>4. call'[p] = r /\ \A q \in CALLERS \ {p} : call'[q] = call[q]
    BY <2>1, CallMoves, Zenon
  <2> QED
    BY <2>1, <2>2, <2>3, <2>4, InsertFlush, Zenon
<1>2. CASE FlushWorker(p) \/ DestroyWorker(p)
  <2>1. PICK fn \in {"flush", "destroy"} :
          call' = [call EXCEPT ![p] = [fn |-> fn, at |-> "wait", work |-> NoWork, delay |-> 0]]
    BY <1>2, Zenon DEF FlushWorker, DestroyWorker, At
  <2> DEFINE r == [fn |-> fn, at |-> "wait", work |-> NoWork, delay |-> 0]
  <2>2. r.at = "wait" /\ r.fn # "cancel" /\ call' = [call EXCEPT ![p] = r]
    BY <2>1
  <2>3. call[p] = Idle /\ FlushAll(p)
    BY <1>2, Zenon DEF FlushWorker, DestroyWorker, Ready
  <2> HIDE DEF r
  <2>4. call'[p] = r /\ \A q \in CALLERS \ {p} : call'[q] = call[q]
    BY <2>2, CallMoves, Zenon
  <2> QED
    BY <2>2, <2>3, <2>4, FlushAllKeeps, Zenon
<1>3. CASE CancelFlush(p)
  <2>1. call[p].at = "flush" /\ call[p].fn = "cancel"
    BY <1>0, <1>3, Zenon DEF CancelFlush, CallOK
  <2>2. PICK w \in Works : w = call[p].work
    BY <1>0, <2>1, Zenon DEF CallOK
  <2>3. ~OnList(w) /\ w \notin delayed
    BY <1>0, <2>1, <2>2, Zenon DEF CancelOK, OnList
  <2>4. UNCHANGED <<current_work, wpc, done, bound>>
    BY <1>3, Zenon DEF CancelFlush, thread
  <2>5. CASE FlushNoop(w)
    <3> DEFINE r == [call[p] EXCEPT !.at = "flushed"]
    <3>1. call' = [call EXCEPT ![p] = r] /\ UNCHANGED <<work_list, delayed, ahead>>
      BY <1>3, <2>2, <2>5, Zenon DEF CancelFlush, Goto, lists
    <3>2. r.at = "flushed" /\ r.work = w
      BY <1>0, <2>2 DEF Calls
    <3> HIDE DEF r
    <3>3. call'[p] = r /\ \A q \in CALLERS \ {p} : call'[q] = call[q]
      BY <3>1, CallMoves, Zenon
    <3>4. ~Executing(w)
      BY <2>5, Zenon DEF FlushNoop, Executing
    <3>5. ~Contains(work_list, p) /\ ~Executing(p) /\ p \notin done
      BY <1>0, <2>1, Zenon DEF NodeOK
    <3> QED
      BY <2>3, <2>4, <3>1, <3>2, <3>3, <3>4, <3>5, MovesOn, Zenon
  <2>6. CASE ~FlushNoop(w)
    <3> DEFINE r == [call[p] EXCEPT !.at = "wait"]
    <3>1. call' = [call EXCEPT ![p] = r] /\ FlushInsert(p, w)
      BY <1>3, <2>2, <2>6, Zenon DEF CancelFlush, Goto
    <3>2. r.at = "wait" /\ r.work = w
      BY <1>0, <2>2 DEF Calls
    <3> HIDE DEF r
    <3>3. call'[p] = r /\ \A q \in CALLERS \ {p} : call'[q] = call[q]
      BY <3>1, CallMoves, Zenon
    <3> QED
      BY <2>1, <2>3, <2>4, <3>1, <3>2, <3>3, InsertFlush, Zenon
  <2> QED
    BY <2>5, <2>6, Zenon
<1>4. CASE FlushDone(p)
  <2>1. /\ call[p].at = "wait" /\ p \in done /\ done' = done \ {p}
        /\ UNCHANGED <<work_list, delayed, current_work, wpc, ahead, bound>>
    BY <1>4, Zenon DEF FlushDone, lists, thread
  <2>2. ~Contains(work_list, p) /\ ~Executing(p) /\ p \notin done'
    BY <1>0, <2>1, Zenon DEF NodeOK
  <2>3. PICK r : /\ call' = [call EXCEPT ![p] = r] /\ r.at # "wait" /\ r.at # "flush"
                 /\ r.fn = "cancel" => call[p].fn = "cancel" /\ r.work = call[p].work
    <3>1. call[p].fn \in {"flush", "cancel", "destroy"}
      <4>1. call[p].fn \in {"none", "flush", "cancel", "mod", "destroy"}
        BY <1>0 DEF Calls
      <4>2. call[p].at # Idle.at /\ call[p].at \notin {"timer", "relock"}
        BY <2>1 DEF Idle
      <4>3. call[p].fn # "none" /\ call[p].fn # "mod"
        BY <1>0, <4>2, Zenon DEF CallOK
      <4> QED
        BY <4>1, <4>3
    <3>2. CASE call[p].fn = "flush"
      <4>1. call' = [call EXCEPT ![p] = Idle]
        BY <1>4, <3>2 DEF FlushDone, Return
      <4>2. Idle.at # "wait" /\ Idle.at # "flush" /\ Idle.fn # "cancel"
        BY DEF Idle
      <4> QED
        BY <4>1, <4>2, Zenon
    <3>3. CASE call[p].fn = "cancel"
      <4> DEFINE s == [call[p] EXCEPT !.at = "flushed"]
      <4>1. call' = [call EXCEPT ![p] = s]
        BY <1>4, <3>3 DEF FlushDone, Goto
      <4>2. s.at # "wait" /\ s.at # "flush" /\ s.work = call[p].work
        BY <1>0 DEF Calls
      <4> HIDE DEF s
      <4> QED
        BY <3>3, <4>1, <4>2, Zenon
    <3>4. CASE call[p].fn = "destroy"
      <4> DEFINE s == [call[p] EXCEPT !.at = "stop"]
      <4>1. call' = [call EXCEPT ![p] = s]
        BY <1>4, <3>4 DEF FlushDone, Goto
      <4>2. s.at # "wait" /\ s.at # "flush" /\ s.fn # "cancel"
        BY <1>0, <3>4 DEF Calls
      <4> HIDE DEF s
      <4> QED
        BY <4>1, <4>2, Zenon
    <3> QED
      BY <3>1, <3>2, <3>3, <3>4, ZenonT(30)
  <2>4. call'[p] = r /\ \A q \in CALLERS \ {p} : call'[q] = call[q]
    BY <2>3, CallMoves, Zenon
  <2>5. call[p].fn = "cancel" => ~OnList(call[p].work) /\ ~Executing(call[p].work)
    <3>1. call[p].fn = "cancel" => call[p].work \in Works
      BY <1>0, Zenon DEF CallOK
    <3> QED
      BY <1>0, <2>1, <2>2, <3>1, Zenon DEF CancelOK, AheadOK
  <2> QED
    BY <2>1, <2>2, <2>3, <2>4, <2>5, MovesOn, Zenon
<1> QED
  BY <1>1, <1>2, <1>3, <1>4, Zenon

\* What taking w off the list, and perhaps queueing it again, does to the others.
Replaced(w) ==
  /\ work_list' \in Seq(Nodes) /\ Once(work_list')
  /\ \A n : n # w => (Contains(work_list', n) <=> Contains(work_list, n))
  /\ \A m, n : Before(work_list, m, n) /\ m # w /\ n # w => Before(work_list', m, n)

\* list_del_init leaves the other nodes in place.
LEMMA DeleteReplaces ==
  ASSUME NEW w \in Nodes, work_list \in Seq(Nodes), Once(work_list),
         work_list' = list_del_init(work_list, w)
  PROVE  Replaced(w) /\ ~Contains(work_list', w)
<1>1. work_list' \in Seq(Nodes) /\ Without(work_list', work_list, w)
  BY Deleted, Zenon
<1> QED
  BY <1>1, Zenon DEF Replaced, Without

\* The work is queued again at the tail.
LEMMA RequeueReplaces ==
  ASSUME NEW w \in Nodes, work_list \in Seq(Nodes), Once(work_list),
         work_list' = Append(list_del_init(work_list, w), w)
  PROVE  Replaced(w)
<1> DEFINE k == list_del_init(work_list, w)
<1>0. k = list_del_init(work_list, w) /\ work_list' = Append(k, w)
  OBVIOUS
<1> HIDE DEF k
<1>1. k \in Seq(Nodes) /\ Without(k, work_list, w)
  BY <1>0, Deleted, Zenon
<1>2. Once(k) /\ ~Contains(k, w)
  BY <1>1, Zenon DEF Without
<1>3. work_list' \in Seq(Nodes) /\ Added(work_list', k, w)
  BY <1>0, <1>1, <1>2, Appended, Zenon
<1> QED
  BY <1>1, <1>3, Zenon DEF Replaced, Without, Added

\* A work is taken off its list and may be queued again at once; no flush waits for
\* the instance that is gone.
LEMMA Requeued ==
  ASSUME TimerInv, FlushInv, NEW p \in CALLERS, NEW w \in Works,
         call[p].at # "wait", call'[p].at # "wait",
         \A q \in CALLERS \ {p} : call'[q] = call[q],
         Replaced(w), delayed' \subseteq delayed \cup {w},
         w \in delayed' => w \in DWORKS /\ ~Contains(work_list', w),
         OnList(w)' => \A q \in CALLERS \ {p} : ~(call[q].fn = "cancel" /\ call[q].work = w),
         call'[p].fn = "cancel" =>
           call'[p].work = w /\ call'[p].at = "flush" /\ ~OnList(w)',
         ahead' = Unqueued(w), UNCHANGED <<current_work, wpc, done>>,
         bound \subseteq bound', w \in bound'
  PROVE  FlushInv'
<1>1. w \in Nodes /\ w \notin CALLERS /\ ListType /\ ListsOK
  BY SetsAssumption, ZenonT(30) DEF FlushInv, Nodes, Works
<1>2. ahead' \in [CALLERS -> SUBSET (Works \X {"queued", "running"})]
      /\ \A q \in CALLERS : ahead'[q] = ahead[q] \ {<<w, "queued">>}
  BY <1>1, Zenon DEF Unqueued, ListType
<1>3. ListType'
  BY <1>1, <1>2, Zenon DEF ListType, Replaced
<1>4. ListsOK'
  <2>1. \A n \in delayed' : ~Contains(work_list', n)
    BY <1>1, Zenon DEF ListsOK, Replaced
  <2>2. \A v \in Works : Contains(work_list', v) \/ current_work' = v => v \in bound'
    BY <1>1, ZenonT(30) DEF ListsOK, Replaced
  <2> QED
    BY <2>1, <2>2, Zenon DEF ListsOK, Replaced
<1>5. ASSUME NEW q \in CALLERS PROVE NodeOK(q)' /\ AheadOK(q)' /\ CancelOK(q)'
  <2>1. NodeOK(q) /\ AheadOK(q) /\ CancelOK(q) /\ q # w
    BY <1>1, Zenon DEF FlushInv
  <2>2. NodeOK(q)'
    <3>1. (Contains(work_list', q) <=> Contains(work_list, q)) /\ (Executing(q)' <=> Executing(q))
      BY <2>1, Zenon DEF Executing, Replaced
    <3>2. q = p \/ call'[q] = call[q]
      BY Zenon
    <3> QED
      BY <2>1, <3>1, <3>2, Zenon DEF NodeOK
  <2>3. AheadOK(q)'
    <3>1. ASSUME NEW v \in Works, <<v, "queued">> \in ahead'[q] PROVE Before(work_list', v, q)
      <4>1. v # w /\ <<v, "queued">> \in ahead[q]
        BY <1>2, <3>1
      <4> QED
        BY <2>1, <4>1, ZenonT(30) DEF AheadOK, Replaced
    <3>2. ASSUME NEW v \in Works, <<v, "running">> \in ahead'[q]
          PROVE  Executing(v)' /\ Contains(work_list', q)
      <4>1. <<v, "running">> \in ahead[q]
        BY <1>2, <3>2, Zenon
      <4> QED
        BY <2>1, <4>1, ZenonT(30) DEF AheadOK, Executing, Replaced
    <3> QED
      BY <3>1, <3>2, Zenon DEF AheadOK
  <2>4. CancelOK(q)'
    <3>1. CASE q = p
      BY <3>1, Zenon DEF CancelOK
    <3>2. CASE q # p
      <4>1. call'[q] = call[q]
        BY <3>2, Zenon
      <4>2. \A v : v # w => (OnList(v)' => OnList(v))
        BY Zenon DEF OnList, Replaced
      <4>3. call[q].fn = "cancel" /\ call[q].work = w => ~OnList(w)'
        BY <3>2, ZenonT(30)
      <4>4. \A v : <<v, "running">> \in ahead[q] => <<v, "running">> \in ahead'[q]
        BY <1>2
      <4> QED
        BY <2>1, <4>1, <4>2, <4>3, <4>4, Zenon DEF CancelOK, Executing
    <3> QED
      BY <3>1, <3>2, Zenon
  <2> QED
    BY <2>2, <2>3, <2>4
<1> QED
  BY <1>3, <1>4, <1>5, Zenon DEF FlushInv

\* A cancel takes its work off the lists.
LEMMA RemoveKeeps ==
  ASSUME TimerInv, FlushInv, NEW p \in CALLERS, NEW w \in Works, NEW n,
         CancelRemoves(p, w, n), call[p].at # "wait", w \in bound
  PROVE  FlushInv'
<1>1. /\ work_list' = list_del_init(work_list, w) /\ delayed' = delayed \ {w}
      /\ ahead' = Unqueued(w) /\ UNCHANGED <<current_work, wpc, done, bound>>
  BY ZenonT(30) DEF CancelRemoves, thread
<1>2. Replaced(w) /\ ~OnList(w)'
  <2>1. work_list \in Seq(Nodes) /\ Once(work_list) /\ w \in Nodes
    BY Zenon DEF FlushInv, ListType, ListsOK, Nodes
  <2>2. Replaced(w) /\ ~Contains(work_list', w)
    BY <1>1, <2>1, DeleteReplaces, Zenon
  <2> QED
    BY <1>1, <2>2 DEF OnList
<1>3. PICK r : /\ call' = [call EXCEPT ![p] = r] /\ r.at # "wait"
               /\ r.fn = "cancel" => r.work = w /\ r.at = "flush"
  <2>1. CASE current_work # w
    <3>1. call' = [call EXCEPT ![p] = Idle]
      BY <2>1, Zenon DEF CancelRemoves, Return
    <3>2. Idle.at # "wait" /\ Idle.fn # "cancel"
      BY DEF Idle
    <3> QED
      BY <3>1, <3>2, Zenon
  <2>2. CASE current_work = w
    <3> DEFINE r == [fn |-> "cancel", at |-> "flush", work |-> w, delay |-> 0]
    <3>1. call' = [call EXCEPT ![p] = r]
      BY <2>2, Zenon DEF CancelRemoves, At
    <3>2. r.at = "flush" /\ r.work = w
      OBVIOUS
    <3> HIDE DEF r
    <3> QED
      BY <3>1, <3>2, Zenon
  <2> QED
    BY <2>1, <2>2
<1>4. call'[p] = r /\ \A q \in CALLERS \ {p} : call'[q] = call[q]
  BY <1>3, CallMoves, ZenonT(30)
<1>5. /\ delayed' \subseteq delayed \cup {w} /\ w \notin delayed'
      /\ bound \subseteq bound' /\ w \in bound'
  BY <1>1
<1> QED
  BY <1>1, <1>2, <1>3, <1>4, <1>5, Requeued, Zenon

\* A cancel or a modification begins.
LEMMA BlockLists ==
  ASSUME TimerInv, FlushInv, NEW p \in CALLERS, NEW fn, NEW w, NEW d, Ready(p),
         CancelBlocks(p, fn, w, d)
  PROVE  FlushInv'
<1> DEFINE r == [fn |-> fn, at |-> "timer", work |-> w, delay |-> d]
<1>1. /\ call[p] = Idle /\ call' = [call EXCEPT ![p] = r]
      /\ UNCHANGED <<work_list, delayed, current_work, wpc, ahead, bound, done>>
  BY ZenonT(30) DEF CancelBlocks, At, Ready, lists, thread, flushes
<1>2. r.at = "timer" /\ call[p].at # "wait"
  BY <1>1 DEF Idle
<1>3. ~Contains(work_list, p) /\ ~Executing(p) /\ p \notin done
  BY <1>2, Zenon DEF FlushInv, NodeOK
<1> HIDE DEF r
<1>4. call'[p] = r /\ \A q \in CALLERS \ {p} : call'[q] = call[q]
  BY <1>1, CallMoves, Zenon
<1> QED
  BY <1>1, <1>2, <1>3, <1>4, MovesOn, Zenon

\* The steps of a cancel.
LEMMA CancelLists ==
  ASSUME TimerInv, FlushInv, NEW p \in CALLERS,
         \/ \E w \in WORKS : CancelWorkSync(p, w)
         \/ CancelRelock(p) \/ CancelReturn(p) \/ DelTimer(p)
         \/ \E w \in DWORKS : CancelDelayedWorkSync(p, w)
  PROVE  FlushInv'
<1>0. call[p] \in Calls /\ CallOK(p) /\ NodeOK(p)
  BY Zenon DEF TimerInv, TimerType, FlushInv
<1>1. ASSUME NEW w \in WORKS, CancelWorkSync(p, w) PROVE FlushInv'
  <2>1. call[p] = Idle /\ w \in bound /\ w \in Works /\ CancelRemoves(p, w, canceling[w])
    BY <1>1, ZenonT(30) DEF CancelWorkSync, Ready, Works
  <2>2. call[p].at # "wait"
    BY <2>1 DEF Idle
  <2> QED
    BY <2>1, <2>2, RemoveKeeps, Zenon
<1>2. CASE CancelRelock(p)
  <2>1. call[p].at = "relock" /\ call[p].fn = "cancel"
    BY <1>2, Zenon DEF CancelRelock
  <2>2. call[p].work \in Works /\ call[p].work \in bound /\ call[p].at # "wait"
    BY <1>0, <2>1, Zenon DEF CallOK, TimerInv, BoundOK, Cancelling
  <2>3. CancelRemoves(p, call[p].work, canceling[call[p].work] - 1)
    BY <1>2, Zenon DEF CancelRelock
  <2> QED
    BY <2>2, <2>3, RemoveKeeps, Zenon
<1>3. CASE CancelReturn(p)
  <2>1. /\ call[p].at = "flushed" /\ call' = [call EXCEPT ![p] = Idle]
        /\ UNCHANGED <<work_list, delayed, current_work, wpc, ahead, bound, done>>
    BY <1>3, Zenon DEF CancelReturn, Return, lists, thread, flushes
  <2>2. Idle.at # "wait" /\ Idle.fn # "cancel"
    BY DEF Idle
  <2>3. ~Contains(work_list, p) /\ ~Executing(p) /\ p \notin done
    BY <1>0, <2>1, Zenon DEF NodeOK
  <2>4. call'[p] = Idle /\ \A q \in CALLERS \ {p} : call'[q] = call[q]
    BY <2>1, CallMoves, Zenon
  <2> QED
    BY <2>1, <2>2, <2>3, <2>4, MovesOn, Zenon
<1>4. CASE DelTimer(p)
  <2> DEFINE r == [call[p] EXCEPT !.at = "relock"]
  <2>1. /\ call[p].at = "timer" /\ call' = [call EXCEPT ![p] = r]
        /\ UNCHANGED <<work_list, delayed, current_work, wpc, ahead, bound, done>>
    BY <1>4, Zenon DEF DelTimer, Goto, lists, thread, flushes
  <2>2. r.at = "relock"
    BY <1>0 DEF Calls
  <2>3. ~Contains(work_list, p) /\ ~Executing(p) /\ p \notin done
    BY <1>0, <2>1, Zenon DEF NodeOK
  <2> HIDE DEF r
  <2>4. call'[p] = r /\ \A q \in CALLERS \ {p} : call'[q] = call[q]
    BY <2>1, CallMoves, Zenon
  <2> QED
    BY <2>1, <2>2, <2>3, <2>4, MovesOn, Zenon
<1>5. ASSUME NEW w \in DWORKS, CancelDelayedWorkSync(p, w) PROVE FlushInv'
  BY <1>5, BlockLists, Zenon DEF CancelDelayedWorkSync
<1> QED
  BY <1>1, <1>2, <1>3, <1>4, <1>5, Zenon

\* kthread_mod_delayed_work.
LEMMA ModLists ==
  ASSUME TimerInv, FlushInv, NEW p \in CALLERS,
         ModRelock(p) \/ \E w \in DWORKS, delay \in {0, 1} : ModDelayedWork(p, w, delay)
  PROVE  FlushInv'
<1>1. ASSUME NEW w \in DWORKS, NEW delay \in {0, 1}, ModDelayedWork(p, w, delay) PROVE FlushInv'
  <2>1. CASE w \in bound
    <3>1. Ready(p) /\ CancelBlocks(p, "mod", w, delay)
      BY <1>1, <2>1, Zenon DEF ModDelayedWork
    <3> QED
      BY <3>1, BlockLists, Zenon
  <2>2. CASE w \notin bound
    <3>1. w \in Works
      BY Zenon DEF Works
    <3>2. w \notin delayed
      BY <2>2, <3>1 DEF TimerInv, BoundOK
    <3>3. ~OnList(w)
      BY <2>2, <3>1, <3>2, Zenon DEF FlushInv, ListsOK, OnList
    <3>4. Uncancelled(w)
      BY <2>2, <3>1, NotCancelled, Zenon
    <3>5. /\ QueueDelayed(w, delay, work_list, delayed)
          /\ UNCHANGED <<current_work, wpc, done, ahead, call>>
      BY <1>1, <2>2, Zenon DEF ModDelayedWork, thread, flushes
    <3> QED
      BY <3>3, <3>4, <3>5, QueueDelayedKeeps, Zenon
  <2> QED
    BY <2>1, <2>2
<1>2. CASE ModRelock(p)
  <2>1. call[p].at = "relock" /\ call[p].fn = "mod"
    BY <1>2, Zenon DEF ModRelock
  <2>2. call[p].at # "wait"
    BY <2>1
  <2>3. PICK w \in DWORKS : w = call[p].work
    BY <2>1, Zenon DEF TimerInv, CallOK
  <2>4. w \in Works /\ w \in Nodes /\ work_list \in Seq(Nodes) /\ Once(work_list)
    BY Zenon DEF Works, Nodes, FlushInv, ListType, ListsOK
  <2>5. QueueDelayed(w, call[p].delay, list_del_init(work_list, w), delayed \ {w})
    BY <1>2, <2>3, Zenon DEF ModRelock
  <2>6. /\ ahead' = Unqueued(w) /\ UNCHANGED <<current_work, wpc, done>>
        /\ call' = [call EXCEPT ![p] = Idle]
    BY <1>2, <2>3, Zenon DEF ModRelock, Return, thread
  <2>7. call'[p] = Idle /\ \A q \in CALLERS \ {p} : call'[q] = call[q]
    BY <2>6, CallMoves, ZenonT(30)
  <2>8. call'[p].at # "wait" /\ call'[p].fn # "cancel"
    BY <2>7 DEF Idle
  <2>9. \A q \in CALLERS \ {p} : ~(call[q].fn = "cancel" /\ call[q].work = w)
    BY <2>1, <2>3, ZenonT(30) DEF TimerInv, ModAlone, Cancelling
  <2>10. bound \subseteq bound' /\ w \in bound'
    BY <2>5 DEF QueueDelayed
  <2>11. CASE work_list' = Append(list_del_init(work_list, w), w) /\ delayed' = delayed \ {w}
    <3>1. Replaced(w)
      BY <2>4, <2>11, RequeueReplaces, Zenon
    <3>2. delayed' \subseteq delayed \cup {w} /\ w \notin delayed'
      BY <2>11
    <3> QED
      BY <2>2, <2>4, <2>6, <2>7, <2>8, <2>9, <2>10, <3>1, <3>2, Requeued, Zenon
  <2>12. CASE work_list' = list_del_init(work_list, w) /\ delayed' = (delayed \ {w}) \cup {w}
    <3>1. Replaced(w) /\ ~Contains(work_list', w)
      BY <2>4, <2>12, DeleteReplaces, Zenon
    <3>2. delayed' \subseteq delayed \cup {w}
      BY <2>12
    <3> QED
      BY <2>2, <2>4, <2>6, <2>7, <2>8, <2>9, <2>10, <3>1, <3>2, Requeued, Zenon
  <2> QED
    BY <2>5, <2>11, <2>12, Zenon DEF QueueDelayed, QueueOn
<1> QED
  BY <1>1, <1>2, Zenon

\* kthread_stop, and the free of the worker.
LEMMA DestroyLists ==
  ASSUME TimerInv, FlushInv, NEW p \in CALLERS, DestroyStops(p) \/ DestroyFrees(p)
  PROVE  FlushInv'
<1>0. call[p] \in Calls /\ CallOK(p) /\ NodeOK(p) /\ call[p].at \in {"stop", "exit"}
  BY ZenonT(30) DEF TimerInv, TimerType, FlushInv, DestroyStops, DestroyFrees
<1>1. call[p].at # "wait" /\ call[p].fn = "destroy"
  BY <1>0 DEF CallOK
<1>2. ~Contains(work_list, p) /\ ~Executing(p) /\ p \notin done
  BY <1>0, <1>1, Zenon DEF NodeOK
<1>3. CASE DestroyStops(p)
  <2> DEFINE r == [call[p] EXCEPT !.at = "exit"]
  <2>1. /\ call' = [call EXCEPT ![p] = r]
        /\ UNCHANGED <<work_list, delayed, current_work, wpc, ahead, bound, done>>
    BY <1>3, Zenon DEF DestroyStops, Goto, lists, flushes
  <2>2. r.at = "exit" /\ r.fn = "destroy"
    BY <1>0, <1>1 DEF Calls
  <2> HIDE DEF r
  <2>3. call'[p] = r /\ \A q \in CALLERS \ {p} : call'[q] = call[q]
    BY <2>1, CallMoves, ZenonT(30)
  <2>4. call'[p].at # "wait" /\ call'[p].fn # "cancel"
    BY <2>2, <2>3
  <2> QED
    BY <1>2, <2>1, <2>3, <2>4, MovesOn, Zenon
<1>4. CASE DestroyFrees(p)
  <2>1. /\ call' = [call EXCEPT ![p] = Idle] /\ wpc = "exited" /\ wpc' = "freed"
        /\ UNCHANGED <<work_list, delayed, current_work, ahead, bound, done>>
    BY <1>4, Zenon DEF DestroyFrees, Return, lists, flushes
  <2>2. wpc # "run" /\ wpc' # "run"
    BY <2>1
  <2>3. call'[p] = Idle /\ \A q \in CALLERS \ {p} : call'[q] = call[q]
    BY <2>1, CallMoves, Zenon
  <2>4. call'[p].at # "wait" /\ call'[p].fn # "cancel"
    BY <2>3 DEF Idle
  <2> QED
    BY <1>2, <2>1, <2>2, <2>3, <2>4, MovesOn, Zenon
<1> QED
  BY <1>3, <1>4

\* A node that has another in front of it is on the list.
LEMMA BehindIsOn ==
  ASSUME NEW l, NEW m, NEW n, Before(l, m, n)
  PROVE  Contains(l, m) /\ Contains(l, n)
BY DEF Before, Contains

\* The worker thread takes the work at the head of the list.
LEMMA TakeLists ==
  ASSUME FlushInv, WorkerTake, work_list # <<>>
  PROVE  FlushInv'
<1>1. ListType /\ ListsOK /\ work_list \in Seq(Nodes) /\ Once(work_list)
  BY Zenon DEF FlushInv, ListType, ListsOK
<1> DEFINE w == Head(work_list)
<1>2. /\ current_work' = w /\ work_list' = Tail(work_list) /\ wpc = "take" /\ wpc' = "run"
      /\ ahead' = [p \in CALLERS |-> IF <<w, "queued">> \in ahead[p]
                                     THEN (ahead[p] \ {<<w, "queued">>}) \cup {<<w, "running">>}
                                     ELSE ahead[p]]
      /\ UNCHANGED <<delayed, bound, call, done>>
  BY Zenon DEF WorkerTake
<1>3. work_list' \in Seq(Nodes) /\ w \in Nodes /\ Contains(work_list, w)
  BY <1>1, <1>2, Popped, Zenon
<1>13. Without(work_list', work_list, w) /\ \A m, n : Before(work_list, m, n) => n # w
  BY <1>1, <1>2, Popped, Zenon
<1> HIDE DEF w
<1>4. Once(work_list') /\ \A n : Contains(work_list', n) <=> Contains(work_list, n) /\ n # w
  BY <1>13, Zenon DEF Without
<1>5. \A m, n : Before(work_list, m, n) => n # w /\ (m # w => Before(work_list', m, n))
  BY <1>13, Zenon DEF Without
<1>6. \A q \in CALLERS, v \in Works : <<v, "queued">> \in ahead'[q] => 
         <<v, "queued">> \in ahead[q] /\ v # w
  BY <1>2
<1>7. \A q \in CALLERS, v \in Works : <<v, "running">> \in ahead'[q]
         => <<v, "running">> \in ahead[q] \/ (<<v, "queued">> \in ahead[q] /\ v = w)
  BY <1>2
<1>8. \A n : ~Executing(n) /\ (Executing(n)' <=> n = w)
  BY <1>2 DEF Executing
<1>9. ListType'
  <2>1. \A q \in CALLERS : <<w, "queued">> \in ahead[q] => w \in Works
    BY <1>1 DEF ListType
  <2>2. ahead' \in [CALLERS -> SUBSET (Works \X {"queued", "running"})]
    BY <1>1, <1>2, <2>1 DEF ListType
  <2> QED
    BY <1>1, <1>2, <1>3, <2>2, Zenon DEF ListType
<1>10. ListsOK'
  BY <1>1, <1>2, <1>3, <1>4, Zenon DEF ListsOK
<1>11. \A n : OnList(n)' => OnList(n)
  BY <1>2, <1>4, Zenon DEF OnList
<1>12. ASSUME NEW q \in CALLERS PROVE NodeOK(q)' /\ AheadOK(q)' /\ CancelOK(q)'
  <2>1. NodeOK(q) /\ AheadOK(q) /\ CancelOK(q) /\ call'[q] = call[q]
    BY <1>2, Zenon DEF FlushInv
  <2>2. NodeOK(q)'
    <3>1. CASE q = w
      <4>1. Contains(work_list, q) /\ ~Contains(work_list', q)
        BY <1>3, <1>4, <3>1, Zenon
      <4> QED
        BY <1>2, <2>1, <4>1, Zenon DEF NodeOK
    <3>2. CASE q # w
      <4>1. (Contains(work_list', q) => Contains(work_list, q)) /\ ~Executing(q)'
        BY <1>4, <1>8, <3>2, Zenon
      <4> QED
        BY <1>2, <2>1, <4>1, Zenon DEF NodeOK
    <3> QED
      BY <3>1, <3>2, Zenon
  <2>3. AheadOK(q)'
    <3>1. ASSUME NEW v \in Works, <<v, "queued">> \in ahead'[q] PROVE Before(work_list', v, q)
      BY <1>5, <1>6, <2>1, <3>1, Zenon DEF AheadOK
    <3>2. ASSUME NEW v \in Works, <<v, "running">> \in ahead'[q]
          PROVE  Executing(v)' /\ Contains(work_list', q)
      <4>1. <<v, "queued">> \in ahead[q] /\ v = w
        BY <1>7, <1>8, <2>1, <3>2, Zenon DEF AheadOK
      <4>2. Before(work_list, v, q) /\ q # w
        BY <1>5, <2>1, <4>1, Zenon DEF AheadOK
      <4>3. Contains(work_list, q)
        BY <4>2, BehindIsOn, ZenonT(30)
      <4> QED
        BY <1>4, <1>8, <4>1, <4>2, <4>3, Zenon
    <3> QED
      BY <3>1, <3>2, Zenon DEF AheadOK
  <2>4. CancelOK(q)'
    <3>1. OnList(w)
      BY <1>3, Zenon DEF OnList
    <3>2. \A v : Executing(v)' => OnList(v)
      BY <1>8, <3>1, Zenon
    <3> QED
      BY <1>11, <2>1, <3>2 DEF CancelOK
  <2> QED
    BY <2>2, <2>3, <2>4
<1> QED
  BY <1>9, <1>10, <1>12, Zenon DEF FlushInv

\* The work function returns.
LEMMA FinishLists ==
  ASSUME FlushInv, WorkerFinish
  PROVE  FlushInv'
<1>1. /\ wpc = "run" /\ wpc' = "repeat"
      /\ done' = IF current_work \in CALLERS THEN done \cup {current_work} ELSE done
      /\ ahead' = [p \in CALLERS |-> ahead[p] \ {<<current_work, "running">>}]
      /\ UNCHANGED <<work_list, delayed, bound, current_work, call>>
  BY Zenon DEF WorkerFinish, lists
<1>2. \A n : Executing(n) <=> n = current_work
  BY <1>1 DEF Executing
<1>3. \A n : ~Executing(n)'
  BY <1>1 DEF Executing
<1>4. /\ \A q \in done' : q \in done \/ Executing(q)
      /\ done' \subseteq done \cup CALLERS
  BY <1>1, <1>2
<1>5. \A q \in CALLERS : \A v : <<v, "queued">> \in ahead'[q] => <<v, "queued">> \in ahead[q]
  BY <1>1
<1>6. \A q \in CALLERS : \A v : <<v, "running">> \in ahead'[q] => 
         <<v, "running">> \in ahead[q] /\ ~Executing(v)
  BY <1>1, <1>2
<1>7. ListType'
  <2>1. ahead' \in [CALLERS -> SUBSET (Works \X {"queued", "running"})]
    BY <1>1 DEF FlushInv, ListType
  <2> QED
    BY <1>1, <1>4, <2>1, Zenon DEF FlushInv, ListType
<1>8. ListsOK'
  BY <1>1, Zenon DEF FlushInv, ListsOK
<1>9. ASSUME NEW q \in CALLERS PROVE NodeOK(q)' /\ AheadOK(q)' /\ CancelOK(q)'
  <2>1. NodeOK(q) /\ AheadOK(q) /\ CancelOK(q)
    BY Zenon DEF FlushInv
  <2>2. NodeOK(q)'
    BY <1>1, <1>3, <1>4, <2>1, Zenon DEF NodeOK
  <2>3. AheadOK(q)'
    BY <1>1, <1>5, <1>6, <2>1, Zenon DEF AheadOK
  <2>4. CancelOK(q)'
    BY <1>1, <1>3, <2>1, Zenon DEF CancelOK, OnList
  <2> QED
    BY <2>2, <2>3, <2>4
<1> QED
  BY <1>7, <1>8, <1>9, Zenon DEF FlushInv

\* The steps of the worker thread.
LEMMA WorkerLists ==
  ASSUME FlushInv, WorkerStep
  PROVE  FlushInv'
<1>1. CASE WorkerStart \/ WorkerRepeat \/ WorkerCheck \/ WorkerSchedule
  <2>1. /\ wpc \in {"start", "repeat", "check", "schedule"}
        /\ wpc' \in {"repeat", "check", "exited", "take"}
    BY <1>1 DEF WorkerStart, WorkerRepeat, WorkerCheck, WorkerSchedule
  <2>2. UNCHANGED <<current_work, work_list, delayed, bound, call, done, ahead>>
    BY <1>1, Zenon DEF WorkerStart, WorkerRepeat, WorkerCheck, WorkerSchedule, lists, flushes
  <2>3. wpc # "run" /\ wpc' # "run"
    BY <2>1
  <2> QED
    BY <2>2, <2>3, WorkerMoves, Zenon
<1>2. CASE WorkerTake /\ work_list = <<>>
  <2>1. /\ wpc = "take" /\ wpc' = "schedule" /\ current_work' = NoWork
        /\ UNCHANGED <<work_list, delayed, bound, call, done, ahead>>
    BY <1>2, Zenon DEF WorkerTake
  <2>2. wpc # "run" /\ wpc' # "run"
    BY <2>1
  <2> QED
    BY <2>1, <2>2, WorkerMoves, Zenon
<1>3. CASE WorkerTake /\ work_list # <<>>
  BY <1>3, TakeLists, Zenon
<1>4. CASE WorkerFinish
  BY <1>4, FinishLists, Zenon
<1> QED
  BY <1>1, <1>2, <1>3, <1>4, Zenon DEF WorkerStep

\* The next worker starts with no work, no call and no flush.
LEMMA CreateLists ==
  ASSUME TimerInv, FlushInv, CreateWorker
  PROVE  FlushInv'
<1>1. /\ wpc = "freed" /\ wpc' = "start" /\ work_list' = <<>> /\ current_work' = NoWork
      /\ UNCHANGED <<delayed, call, done, ahead>>
  BY Zenon DEF CreateWorker, flushes
<1>2. delayed = {} /\ \A q \in CALLERS : call[q] = Idle
  BY <1>1, Zenon DEF TimerInv, CloseOK
<1>3. \A q \in CALLERS : call[q].at # "wait" /\ call[q].fn # "cancel"
  BY <1>2 DEF Idle
<1>4. \A n : ~Contains(work_list', n)
  BY <1>1 DEF Contains
<1>5. \A n : ~Executing(n)' /\ ~Executing(n)
  BY <1>1 DEF Executing
<1>6. ListType'
  <2>1. work_list' \in Seq(Nodes)
    BY <1>1
  <2> QED
    BY <1>1, <2>1, Zenon DEF FlushInv, ListType
<1>7. ListsOK'
  <2>1. Once(work_list')
    BY <1>1 DEF Once
  <2>2. NoWork \notin Works
    BY SetsAssumption, Zenon DEF Works
  <2> QED
    BY <1>1, <1>4, <2>1, <2>2, Zenon DEF ListsOK
<1>8. ASSUME NEW q \in CALLERS PROVE NodeOK(q)' /\ AheadOK(q)' /\ CancelOK(q)'
  <2>1. NodeOK(q) /\ AheadOK(q) /\ call'[q] = call[q]
    BY <1>1, Zenon DEF FlushInv
  <2>2. ~Contains(work_list, q) /\ q \notin done
    BY <1>3, <2>1, Zenon DEF NodeOK
  <2>3. NodeOK(q)'
    BY <1>1, <1>4, <1>5, <2>2, Zenon DEF NodeOK
  <2>4. AheadOK(q)'
    <3>1. \A v : ~Before(work_list, v, q)
      BY <2>2, BehindIsOn, Zenon
    <3> QED
      BY <1>1, <2>1, <2>2, <3>1, Zenon DEF AheadOK
  <2>5. CancelOK(q)'
    BY <1>3, <2>1, Zenon DEF CancelOK
  <2> QED
    BY <2>3, <2>4, <2>5
<1> QED
  BY <1>6, <1>7, <1>8, Zenon DEF FlushInv

\* At the start every list is empty.
LEMMA InitLists == Init => FlushInv
<1> SUFFICES ASSUME Init PROVE FlushInv
  OBVIOUS
<1>1. /\ work_list = <<>> /\ delayed = {} /\ current_work = NoWork /\ done = {} /\ wpc = "start"
      /\ call = [p \in CALLERS |-> Idle] /\ ahead = [p \in CALLERS |-> {}]
  BY Zenon DEF Init
<1>2. ListType
  BY <1>1 DEF ListType
<1>3. \A n : ~Contains(work_list, n) /\ ~Executing(n)
  BY <1>1 DEF Contains, Executing
<1>4. ListsOK
  <2>1. Once(work_list)
    BY <1>1 DEF Once
  <2>2. NoWork \notin Works
    BY SetsAssumption, ZenonT(30) DEF Works
  <2> QED
    BY <1>1, <1>3, <2>1, <2>2, Zenon DEF ListsOK
<1>5. ASSUME NEW p \in CALLERS PROVE NodeOK(p) /\ AheadOK(p) /\ CancelOK(p)
  <2>1. p \notin done /\ call[p].fn # "cancel" /\ ahead[p] = {}
    BY <1>1 DEF Idle
  <2> QED
    BY <1>3, <2>1 DEF NodeOK, AheadOK, CancelOK
<1> QED
  BY <1>2, <1>4, <1>5, Zenon DEF FlushInv

\* Every step keeps FlushInv.
LEMMA NextLists ==
  ASSUME TimerInv, FlushInv, [Next]_vars
  PROVE  FlushInv'
<1>1. CASE UNCHANGED vars
  BY <1>1, SameLists, Zenon DEF vars, lists, thread, flushes
<1>2. CASE WorkerStep
  BY <1>2, WorkerLists, Zenon
<1>3. CASE WorkerRequeue
  BY <1>3, RequeueLists, Zenon
<1>4. CASE CreateWorker
  BY <1>4, CreateLists, Zenon
<1>5. ASSUME NEW p \in CALLERS, CallStep(p) PROVE FlushInv'
  <2>1. CASE FlushDone(p) \/ CancelFlush(p)
    BY <2>1, FlushLists, Zenon
  <2>2. CASE DelTimer(p) \/ CancelRelock(p) \/ CancelReturn(p)
    BY <2>2, CancelLists, Zenon
  <2>3. CASE ModRelock(p)
    BY <2>3, ModLists, Zenon
  <2>4. CASE DestroyStops(p) \/ DestroyFrees(p)
    BY <2>4, DestroyLists, Zenon
  <2> QED
    BY <1>5, <2>1, <2>2, <2>3, <2>4, Zenon DEF CallStep
<1>6. ASSUME NEW p \in CALLERS, NewCall(p) PROVE FlushInv'
  <2>1. ASSUME NEW w \in WORKS, QueueWork(p, w) PROVE FlushInv'
    BY <2>1, QueueLists, Zenon DEF Works
  <2>2. ASSUME NEW w \in WORKS, FlushWork(p, w) PROVE FlushInv'
    BY <2>2, FlushLists, Zenon
  <2>3. ASSUME NEW w \in WORKS, CancelWorkSync(p, w) PROVE FlushInv'
    BY <2>3, CancelLists, Zenon
  <2>4. ASSUME NEW w \in DWORKS, CancelDelayedWorkSync(p, w) PROVE FlushInv'
    BY <2>4, CancelLists, Zenon
  <2>5. ASSUME NEW w \in DWORKS, NEW delay \in {0, 1}, QueueDelayedWork(p, w, delay)
        PROVE  FlushInv'
    BY <2>5, QueueLists, Zenon DEF Works
  <2>6. ASSUME NEW w \in DWORKS, NEW delay \in {0, 1}, ModDelayedWork(p, w, delay)
        PROVE  FlushInv'
    BY <2>6, ModLists, Zenon
  <2>7. CASE FlushWorker(p) \/ DestroyWorker(p)
    BY <2>7, FlushLists, Zenon
  <2> QED
    BY <1>6, <2>1, <2>2, <2>3, <2>4, <2>5, <2>6, <2>7, Zenon DEF NewCall
<1>7. ASSUME NEW w \in DWORKS, TimerExpire(w) \/ TimerFn(w) PROVE FlushInv'
  BY <1>7, TimerLists, Zenon
<1> QED
  BY <1>1, <1>2, <1>3, <1>4, <1>5, <1>6, <1>7, Zenon DEF Next

\* A cancel returns in one of two steps.
LEMMA CancelReturns ==
  ASSUME TimerInv, [Next]_vars, NEW p \in CALLERS, call[p].fn = "cancel", call'[p] = Idle
  PROVE  CancelRelock(p) \/ CancelReturn(p)
<1>1. call[p] # Idle /\ call' # call /\ call[p] \in Calls /\ CallOK(p)
  BY DEF Idle, TimerInv, TimerType
<1>2. ASSUME NEW q \in CALLERS, NEW r, call' = [call EXCEPT ![q] = r] PROVE q = p /\ r = Idle
  BY <1>1, <1>2, CallMoves, Zenon
<1>3. ASSUME NEW q \in CALLERS, NEW a, Goto(q, a) PROVE q = p /\ a = "-"
  <2> DEFINE r == [call[q] EXCEPT !.at = a]
  <2>1. call' = [call EXCEPT ![q] = r]
    BY <1>3 DEF Goto
  <2>2. q = p /\ r = Idle
    BY <1>2, <2>1, Zenon
  <2> QED
    BY <1>1, <2>2 DEF Idle, Calls
<1>4. ASSUME NEW q \in CALLERS, NewCall(q) PROVE FALSE
  <2>1. Ready(q)
    BY <1>4, Zenon DEF NewCall, QueueWork, FlushWork, CancelWorkSync, CancelDelayedWorkSync,
       QueueDelayedWork, ModDelayedWork, FlushWorker, DestroyWorker
  <2>2. q # p
    BY <1>1, <2>1, Zenon DEF Ready
  <2>3. ~Return(q) /\ \A fn, a, w, d : ~At(q, fn, a, w, d)
    BY <1>2, <2>2, Zenon DEF Return, At
  <2> QED
    BY <1>1, <1>4, <2>3, Zenon DEF NewCall, QueueWork, FlushWork, CancelWorkSync,
       CancelDelayedWorkSync, QueueDelayedWork, ModDelayedWork, FlushWorker, DestroyWorker,
       CancelRemoves, CancelBlocks
<1>5. ASSUME NEW q \in CALLERS, CallStep(q) PROVE CancelRelock(p) \/ CancelReturn(p)
  <2>1. \A a \in {"flushed", "relock", "wait", "stop", "exit"} : ~Goto(q, a)
    BY <1>3
  <2>2. ~FlushDone(q)
    <3> SUFFICES ASSUME FlushDone(q) PROVE FALSE
      OBVIOUS
    <3>1. call[q] \in Calls /\ CallOK(q) /\ call[q].at = "wait"
      BY ZenonT(30) DEF TimerInv, TimerType, FlushDone
    <3>2. call[q].fn \in {"flush", "cancel", "destroy"}
      BY <3>1 DEF Calls, CallOK, Idle
    <3>3. call[q].fn # "flush" => Goto(q, "flushed") \/ Goto(q, "stop")
      BY <3>2, ZenonT(30) DEF FlushDone
    <3>4. call[q].fn = "flush" => Return(q)
      BY DEF FlushDone
    <3> QED
      BY <1>2, <2>1, <3>3, <3>4 DEF Return
  <2>3. ~DelTimer(q) /\ ~CancelFlush(q) /\ ~DestroyStops(q)
    BY <2>1, Zenon DEF DelTimer, CancelFlush, DestroyStops
  <2>4. ~ModRelock(q)
    BY <1>2 DEF ModRelock, Return
  <2>5. ~DestroyFrees(q)
    BY <1>1, <1>2 DEF DestroyFrees, Return, CallOK
  <2>6. CASE CancelRelock(q)
    <3>1. CASE current_work # call[q].work
      BY <1>2, <2>6, <3>1, ZenonT(30) DEF CancelRelock, CancelRemoves, Return
    <3>2. CASE current_work = call[q].work
      <4>1. At(q, "cancel", "flush", call[q].work, 0)
        BY <2>6, <3>2, Zenon DEF CancelRelock, CancelRemoves
      <4>2. [fn |-> "cancel", at |-> "flush", work |-> call[q].work, delay |-> 0] = Idle
        BY <1>2, <4>1, Zenon DEF At
      <4> QED
        BY <4>2 DEF Idle
    <3> QED
      BY <3>1, <3>2
  <2>7. CASE CancelReturn(q)
    BY <1>2, <2>7, Zenon DEF CancelReturn, Return
  <2> QED
    BY <1>5, <2>2, <2>3, <2>4, <2>5, <2>6, <2>7, Zenon DEF CallStep
<1>6. ~WorkerStep /\ ~WorkerRequeue /\ ~CreateWorker
  BY <1>1, Zenon DEF WorkerStep, WorkerStart, WorkerRepeat, WorkerCheck, WorkerTake, WorkerFinish,
     WorkerSchedule, WorkerRequeue, CreateWorker
<1>7. \A w \in DWORKS : ~TimerExpire(w) /\ ~TimerFn(w)
  BY <1>1, Zenon DEF TimerExpire, TimerFn
<1>8. ~UNCHANGED vars
  BY <1>1, Zenon DEF vars
<1> QED
  BY <1>4, <1>5, <1>6, <1>7, <1>8, ZenonT(30) DEF Next

\* A cancel that finds the work not executing leaves it off the lists and returns.
LEMMA CancelRemoved ==
  ASSUME TimerInv, FlushInv, NEW p \in CALLERS, NEW w \in Works, NEW n,
         w \notin timer_pending \cup timer_running, call'[p] = Idle, CancelRemoves(p, w, n)
  PROVE  ~(OnList(w) \/ w \in timer_pending \cup timer_running \/ Executing(w))'
<1>1. current_work # w
  <2>1. CASE current_work = w
    <3>1. call'[p] = [fn |-> "cancel", at |-> "flush", work |-> w, delay |-> 0]
      BY <2>1, CallMoves, ZenonT(30) DEF CancelRemoves, At
    <3> QED
      BY <3>1 DEF Idle
  <2> QED
    BY <2>1
<1>2. /\ work_list' = list_del_init(work_list, w) /\ delayed' = delayed \ {w}
      /\ UNCHANGED <<timer_pending, timer_running, current_work, wpc>>
  BY Zenon DEF CancelRemoves, thread, timers
<1>3. ~Contains(work_list', w)
  <2>1. work_list \in Seq(Nodes) /\ Once(work_list) /\ w \in Nodes
    BY Zenon DEF FlushInv, ListType, ListsOK, Nodes
  <2> QED
    BY <1>2, <2>1, DeleteReplaces, Zenon
<1>4. w \notin delayed'
  BY <1>2
<1> QED
  BY <1>1, <1>2, <1>3, <1>4, Zenon DEF OnList, Executing

\* How a cancel that had dropped the lock ends.
LEMMA CancelEnds ==
  ASSUME TimerInv, FlushInv, NEW p \in CALLERS, NEW w \in Works,
         call[p].fn = "cancel", call[p].work = w, call'[p] = Idle,
         CancelRelock(p) \/ CancelReturn(p)
  PROVE  ~(OnList(w) \/ w \in timer_pending \cup timer_running \/ Executing(w))'
<1>1. CASE CancelReturn(p)
  <2>1. call[p].at = "flushed" /\ CancelOK(p)
    BY <1>1, Zenon DEF CancelReturn, FlushInv
  <2>2. ~OnList(w) /\ ~Executing(w)
    BY <2>1 DEF CancelOK
  <2>3. w \notin timer_pending \cup timer_running
    BY <2>2 DEF OnList, TimerInv, TimerFindsWork
  <2>4. UNCHANGED <<work_list, delayed, timer_pending, timer_running, current_work, wpc>>
    BY <1>1, Zenon DEF CancelReturn, lists, thread, timers
  <2> QED
    BY <2>2, <2>3, <2>4, Zenon DEF OnList, Executing
<1>2. CASE CancelRelock(p)
  <2>1. call[p].at = "relock" /\ CancelRemoves(p, w, canceling[w] - 1)
    BY <1>2, Zenon DEF CancelRelock
  <2>2. w \notin timer_pending \cup timer_running
    BY <2>1, Zenon DEF TimerInv, TimerOff
  <2> QED
    BY <2>1, <2>2, CancelRemoved, Zenon
<1> QED
  BY <1>1, <1>2

\* How a cancel of a plain work ends when it never drops the lock.
LEMMA CancelEndsAtOnce ==
  ASSUME TimerInv, FlushInv, NEW p \in CALLERS, NEW w \in WORKS,
         call'[p] = Idle, CancelWorkSync(p, w)
  PROVE  ~(OnList(w) \/ w \in timer_pending \cup timer_running \/ Executing(w))'
<1>1. CancelRemoves(p, w, canceling[w])
  BY Zenon DEF CancelWorkSync
<1>2. w \in Works /\ w \notin timer_pending \cup timer_running
  BY SetsAssumption, Zenon DEF Works, TimerInv, TimerType
<1> QED
  BY <1>1, <1>2, CancelRemoved, Zenon

-----------------------------------------------------------------------------
(* Theorems *)

\* The inductive invariant: canceling is the number of tasks cancelling or
\* modifying the work, a modification is alone, and the timer is off between
\* del_timer_sync and the next lock.
THEOREM TimerInvariant ==
  ASSUME Synchronized PROVE Spec => []TimerInv
<1>1. Init => TimerInv
  <2>1. ASSUME Init PROVE CountOK
    <3> SUFFICES ASSUME NEW w \in Works PROVE canceling[w] = Cardinality(Cancelers(w))
      BY DEF CountOK
    <3>1. Cancelers(w) = {}
      BY <2>1 DEF Cancelers, Cancelling, Init, Idle
    <3> QED
      BY <2>1, <3>1, FS_EmptySet DEF Init
  <2>2. ASSUME Init PROVE TimerType /\ \A p \in CALLERS : call[p] = Idle
    BY <2>2 DEF Init, Idle, TimerType, Calls
  <2>3. ASSUME Init PROVE \A p \in CALLERS : CallOK(p)
    BY <2>2, <2>3, SMTT(20) DEF CallOK, Idle
  <2>4. ASSUME Init PROVE ModAlone /\ TimerOff /\ BoundOK
    BY <2>2, <2>4, SMTT(20) DEF Init, Idle, ModAlone, TimerOff, BoundOK, Cancelling
  <2>5. ASSUME Init PROVE CloseOK /\ TimerFindsWork /\ timer_pending \cap timer_running = {}
    BY <2>2, <2>5 DEF Init, Idle, CloseOK, TimerFindsWork
  <2> QED
    BY <2>1, <2>2, <2>3, <2>4, <2>5 DEF TimerInv
<1>2. ASSUME TimerInv, [Next]_vars PROVE TimerInv'
  <2>1. CASE WorkerStep \/ WorkerRequeue \/ CreateWorker
    BY <1>2, <2>1, WorkerSteps
  <2>2. ASSUME NEW p \in CALLERS, CallStep(p) PROVE TimerInv'
    BY <1>2, <2>2, FlushStep, DelTimerStep, CancelStep, ModStep, DestroyStep, SMTT(20) DEF CallStep
  <2>3. ASSUME NEW p \in CALLERS, NewCall(p) PROVE TimerInv'
    BY <1>2, <2>3, QueueStep, FlushStep, CancelStep, BlockStep, DestroyStep, SMTT(20)
       DEF NewCall, Works
  <2>4. ASSUME NEW w \in DWORKS, TimerExpire(w) \/ TimerFn(w) PROVE TimerInv'
    BY <1>2, <2>4, TimerStep
  <2>5. CASE UNCHANGED vars
    BY <1>2, <2>5, Quiet DEF vars, timers
  <2> QED
    BY <1>2, <2>1, <2>2, <2>3, <2>4, <2>5 DEF Next
<1> QED
  BY <1>1, <1>2, PTL DEF Spec

\* A timer that is armed or running always belongs to a work on
\* delayed_work_list, so the assertion of kthread_delayed_work_timer_fn holds.
THEOREM TimerAlwaysFindsWork ==
  ASSUME Synchronized PROVE Spec => []TimerFindsWork
<1>1. TimerInv => TimerFindsWork
  BY DEF TimerInv
<1> QED
  BY <1>1, TimerInvariant, PTL

\* The inductive invariant behind flush and cancel: what a flush waits for stands in
\* front of its flush work on the list or is being run, and a cancel that goes on to
\* flush keeps its work off the lists.
THEOREM FlushInvariant ==
  ASSUME Synchronized PROVE Spec => []FlushInv
BY InitLists, NextLists, TimerInvariant, PTL DEF Spec

\* kthread_flush_work, kthread_flush_worker and kthread_destroy_worker complete only
\* after every execution that was queued or running when they were called has ended.
THEOREM FlushesWait ==
  ASSUME Synchronized PROVE Spec => []FlushWaits
<1>1. FlushInv => FlushWaits
  <2> SUFFICES ASSUME FlushInv, NEW p \in done PROVE ahead[p] = {}
    BY Zenon DEF FlushWaits
  <2>1. /\ p \in CALLERS /\ ahead[p] \subseteq Works \X {"queued", "running"}
        /\ NodeOK(p) /\ AheadOK(p)
    BY DEF FlushInv, ListType
  <2>2. ~Contains(work_list, p)
    BY <2>1, Zenon DEF NodeOK
  <2>3. \A w \in Works : ~Before(work_list, w, p)
    BY <2>2, BehindIsOn, Zenon
  <2>4. \A w \in Works : <<w, "queued">> \notin ahead[p] /\ <<w, "running">> \notin ahead[p]
    BY <2>1, <2>2, <2>3, Zenon DEF AheadOK
  <2>5. ASSUME NEW x \in ahead[p] PROVE FALSE
    <3>1. PICK w \in Works, s \in {"queued", "running"} : x = <<w, s>>
      BY <2>1
    <3> QED
      BY <2>4, <3>1, Zenon
  <2> QED
    BY <2>5
<1> QED
  BY <1>1, FlushInvariant, PTL

\* When kthread_cancel_work_sync or kthread_cancel_delayed_work_sync returns, the work
\* is on no list, its timer is off and it is not executing.
THEOREM CancelIsFinal ==
  ASSUME Synchronized PROVE Spec => CancelDone
<1>1. ASSUME TimerInv, FlushInv, [Next]_vars,
             NEW p \in CALLERS, NEW w \in Works, CancelReturning(p, w)
      PROVE  ~(OnList(w) \/ w \in timer_pending \cup timer_running \/ Executing(w))'
  <2>1. CASE call[p].fn = "cancel" /\ call[p].work = w /\ call'[p] = Idle
    BY <1>1, <2>1, CancelReturns, CancelEnds, Zenon
  <2>2. CASE w \in WORKS /\ CancelWorkSync(p, w) /\ call'[p] = Idle
    BY <1>1, <2>2, CancelEndsAtOnce, Zenon
  <2> QED
    BY <1>1, <2>1, <2>2, Zenon DEF CancelReturning
<1>2. ASSUME TimerInv, FlushInv, [Next]_vars
      PROVE  [\A p \in CALLERS, w \in Works :
                 CancelReturning(p, w)
                 => ~(OnList(w) \/ w \in timer_pending \cup timer_running \/ Executing(w))']_vars
  BY <1>1, <1>2, Zenon
<1> QED
  BY <1>2, TimerInvariant, FlushInvariant, PTL DEF Spec, CancelDone

=============================================================================
