------------------------------- MODULE Mempool -------------------------------
(***************************************************************************)
(* The memory pool of new/mm/mempool.c: a reserve of min_nr elements that  *)
(* backs an allocator which may fail.  Elements are interchangeable, so    *)
(* they are counted.  A section under pool->lock is one step; the calls of *)
(* the underlying allocator, the unlocked test in mempool_free and         *)
(* wake_up() are steps of their own.                                       *)
(*                                                                         *)
(* The unlocked read of curr_nr in mempool_free may return an old value.   *)
(* For an element taken from the pool the barriers pair the read with the  *)
(* allocation, so it returns any value that curr_nr has had since then.    *)
(* mempool_alloc has no barrier on the path that returns an element of the *)
(* underlying allocator: of such an element the read may return any value. *)
(***************************************************************************)
EXTENDS Integers, FiniteSets

CONSTANTS
  PROCS,       \* processes that allocate and free
  RESIZERS,    \* those that also call mempool_resize
  SIZES,       \* arguments of mempool_create and mempool_resize
  TOTAL        \* elements the underlying allocator has in all

ASSUME MempoolAssumption ==
  /\ IsFiniteSet(PROCS) /\ RESIZERS \subseteq PROCS
  /\ SIZES \subseteq Nat \ {0}
  /\ TOTAL \in Nat

VARIABLES
  life,        \* "none", "filling", "ready" or "exiting"
  min_nr,      \* pool->min_nr
  curr_nr,     \* pool->curr_nr
  capacity,    \* length of the array pool->elements
  base,        \* elements left in the underlying allocator
  wait,        \* processes queued on pool->wait
  pc,          \* where each process is
  gfp,         \* gfp_mask of its mempool_alloc
  new_min_nr,  \* argument of its mempool_resize
  seen         \* values of curr_nr that its mempool_free may read

vars == <<life, min_nr, curr_nr, capacity, base, wait, pc, gfp, new_min_nr,
          seen>>

GFP == SUBSET {"__GFP_DIRECT_RECLAIM", "__GFP_IO"}

Init ==
  /\ life = "none"
  /\ min_nr = 0 /\ curr_nr = 0 /\ capacity = 0
  /\ base = TOTAL
  /\ wait = {}
  /\ pc = [p \in PROCS |-> "idle"]
  /\ gfp = [p \in PROCS |-> {}]
  /\ new_min_nr = [p \in PROCS |-> 0]
  /\ seen = [p \in PROCS |-> {}]

Goto(p, label) == pc' = [pc EXCEPT ![p] = label]

\* curr_nr becomes n; processes with an element may see this value later.
SetCurr(n) ==
  /\ curr_nr' = n
  /\ seen' = [q \in PROCS |-> IF seen[q] = {} THEN {} ELSE seen[q] \cup {n}]

pool == <<life, min_nr, capacity>>

-----------------------------------------------------------------------------
(* mempool_create, mempool_destroy *)

\* mempool_create_node, mempool_init_node: the array is allocated.
Create(n) ==
  /\ life = "none"
  /\ life' = "filling"
  /\ min_nr' = n /\ capacity' = n
  /\ UNCHANGED <<curr_nr, base, wait, pc, gfp, new_min_nr, seen>>

\* Pre-allocate one element, or give up and call mempool_exit.
Fill ==
  /\ life = "filling" /\ curr_nr < min_nr
  /\ \/ /\ base > 0
        /\ base' = base - 1
        /\ SetCurr(curr_nr + 1)
        /\ UNCHANGED life
     \/ /\ life' = "exiting"
        /\ UNCHANGED <<base, curr_nr, seen>>
  /\ UNCHANGED <<min_nr, capacity, wait, pc, gfp, new_min_nr>>

FillDone ==
  /\ life = "filling" /\ curr_nr >= min_nr
  /\ life' = "ready"
  /\ UNCHANGED <<min_nr, curr_nr, capacity, base, wait, pc, gfp, new_min_nr,
                 seen>>

\* mempool_destroy, called when nobody uses the pool.
Destroy ==
  /\ life = "ready"
  /\ \A p \in PROCS : pc[p] = "idle"
  /\ life' = "exiting"
  /\ UNCHANGED <<min_nr, curr_nr, capacity, base, wait, pc, gfp, new_min_nr,
                 seen>>

\* mempool_exit: free the elements one by one, then the array.
Exit ==
  /\ life = "exiting"
  /\ \/ /\ curr_nr > 0
        /\ SetCurr(curr_nr - 1)
        /\ base' = base + 1
        /\ UNCHANGED pool
     \/ /\ curr_nr = 0
        /\ life' = "none"
        /\ min_nr' = 0 /\ capacity' = 0
        /\ UNCHANGED <<base, curr_nr, seen>>
  /\ UNCHANGED <<wait, pc, gfp, new_min_nr>>

-----------------------------------------------------------------------------
(* mempool_alloc *)

\* The call: the first round goes without direct reclaim and IO.
Alloc(p, mask) ==
  /\ life = "ready" /\ pc[p] = "idle"
  /\ gfp' = [gfp EXCEPT ![p] = mask]
  /\ Goto(p, IF mask = {} THEN "alloc" ELSE "alloc_temp")
  /\ UNCHANGED <<pool, curr_nr, base, wait, new_min_nr, seen>>

\* pool->alloc(gfp_temp): may fail whatever is left.  An element obtained here
\* is returned without the barrier.
BaseAlloc(p) ==
  /\ pc[p] \in {"alloc", "alloc_temp"}
  /\ \/ /\ base > 0
        /\ base' = base - 1
        /\ Goto(p, "held")
        /\ gfp' = [gfp EXCEPT ![p] = {}]
        /\ seen' = [seen EXCEPT ![p] = 0..capacity]
     \/ /\ Goto(p, IF pc[p] = "alloc" THEN "take" ELSE "take_temp")
        /\ UNCHANGED <<base, gfp, seen>>
  /\ UNCHANGED <<pool, curr_nr, wait, new_min_nr>>

\* Under the lock: take an element, retry with the full mask, return NULL, or
\* join the wait queue.
PoolAlloc(p) ==
  /\ pc[p] \in {"take", "take_temp"}
  /\ \/ /\ curr_nr > 0
        /\ curr_nr' = curr_nr - 1
        /\ seen' = [q \in PROCS |-> IF q = p THEN {curr_nr - 1}
                      ELSE IF seen[q] = {} THEN {} ELSE seen[q] \cup {curr_nr - 1}]
        /\ Goto(p, "held")
        /\ gfp' = [gfp EXCEPT ![p] = {}]
        /\ UNCHANGED wait
     \/ /\ curr_nr = 0 /\ pc[p] = "take_temp"
        /\ Goto(p, "alloc")
        /\ UNCHANGED <<curr_nr, seen, gfp, wait>>
     \/ /\ curr_nr = 0 /\ pc[p] = "take" /\ "__GFP_DIRECT_RECLAIM" \notin gfp[p]
        /\ Goto(p, "idle")
        /\ gfp' = [gfp EXCEPT ![p] = {}]
        /\ UNCHANGED <<curr_nr, seen, wait>>
     \/ /\ curr_nr = 0 /\ pc[p] = "take" /\ "__GFP_DIRECT_RECLAIM" \in gfp[p]
        /\ wait' = wait \cup {p}
        /\ Goto(p, "sleep")
        /\ UNCHANGED <<curr_nr, seen, gfp>>
  /\ UNCHANGED <<pool, base, new_min_nr>>

\* io_schedule_timeout returns because the process was woken, which took it
\* off the queue; repeat.
Woken(p) ==
  /\ pc[p] = "sleep" /\ p \notin wait
  /\ Goto(p, "alloc")
  /\ UNCHANGED <<pool, curr_nr, base, wait, gfp, new_min_nr, seen>>

\* io_schedule_timeout returns after five seconds; finish_wait; repeat.
Timeout(p) ==
  /\ pc[p] = "sleep" /\ p \in wait
  /\ wait' = wait \ {p}
  /\ Goto(p, "alloc")
  /\ UNCHANGED <<pool, curr_nr, base, gfp, new_min_nr, seen>>

-----------------------------------------------------------------------------
(* mempool_free *)

\* Mutant: only an empty pool is refilled.
FreeTestEmpty(p) ==
  /\ pc[p] = "held"
  /\ \E n \in seen[p] : Goto(p, IF n = 0 THEN "free_lock" ELSE "free_base")
  /\ seen' = [seen EXCEPT ![p] = {}]
  /\ UNCHANGED <<pool, curr_nr, base, wait, gfp, new_min_nr>>

\* if (pool->curr_nr < pool->min_nr), without the lock.
FreeTest(p) ==
  /\ pc[p] = "held"
  /\ \E n \in seen[p] : Goto(p, IF n < min_nr THEN "free_lock" ELSE "free_base")
  /\ seen' = [seen EXCEPT ![p] = {}]
  /\ UNCHANGED <<pool, curr_nr, base, wait, gfp, new_min_nr>>

\* Mutant: waiters are woken only when the pool becomes full.
FreeLockedRarelyWakes(p) ==
  /\ pc[p] = "free_lock"
  /\ \/ curr_nr < min_nr /\ SetCurr(curr_nr + 1)
          /\ Goto(p, IF curr_nr' = min_nr THEN "wake" ELSE "idle")
     \/ curr_nr >= min_nr /\ Goto(p, "free_base") /\ UNCHANGED <<curr_nr, seen>>
  /\ UNCHANGED <<pool, base, wait, gfp, new_min_nr>>

\* The same test under the lock, and add_element.
FreeLocked(p) ==
  /\ pc[p] = "free_lock"
  /\ \/ /\ curr_nr < min_nr
        /\ SetCurr(curr_nr + 1)
        /\ Goto(p, "wake")
     \/ /\ curr_nr >= min_nr
        /\ Goto(p, "free_base")
        /\ UNCHANGED <<curr_nr, seen>>
  /\ UNCHANGED <<pool, base, wait, gfp, new_min_nr>>

\* Mutant: wake_up finds nobody.
WakeUpNobody(p) ==
  /\ pc[p] = "wake"
  /\ Goto(p, "idle")
  /\ UNCHANGED <<pool, curr_nr, base, wait, gfp, new_min_nr, seen>>

\* wake_up(&pool->wait): every waiter, none of them is exclusive.
WakeUp(p) ==
  /\ pc[p] = "wake"
  /\ wait' = {}
  /\ Goto(p, "idle")
  /\ UNCHANGED <<pool, curr_nr, base, gfp, new_min_nr, seen>>

\* pool->free(element)
BaseFree(p) ==
  /\ pc[p] = "free_base"
  /\ base' = base + 1
  /\ Goto(p, "idle")
  /\ UNCHANGED <<pool, curr_nr, wait, gfp, new_min_nr, seen>>

-----------------------------------------------------------------------------
(* mempool_resize *)

\* mempool_resize returns.
ResizeReturn(p) == Goto(p, "idle") /\ new_min_nr' = [new_min_nr EXCEPT ![p] = 0]

\* Mutant: min_nr is lowered before the surplus is taken out.
ShrinkTurnEarly(p, n) ==
  /\ min_nr' = n
  /\ \/ /\ n < curr_nr
        /\ SetCurr(curr_nr - 1)
        /\ Goto(p, "shrink_free")
        /\ new_min_nr' = [new_min_nr EXCEPT ![p] = n]
     \/ /\ n >= curr_nr
        /\ ResizeReturn(p)
        /\ UNCHANGED <<curr_nr, seen>>

\* One turn of the shrinking loop, under the lock: take out a surplus element,
\* or set min_nr and return.
ShrinkTurn(p, n) ==
  \/ /\ n < curr_nr
     /\ SetCurr(curr_nr - 1)
     /\ Goto(p, "shrink_free")
     /\ new_min_nr' = [new_min_nr EXCEPT ![p] = n]
     /\ UNCHANGED min_nr
  \/ /\ n >= curr_nr
     /\ min_nr' = n
     /\ ResizeReturn(p)
     /\ UNCHANGED <<curr_nr, seen>>

\* The call, up to the first unlock.
Resize(p, n) ==
  /\ life = "ready" /\ pc[p] = "idle" /\ p \in RESIZERS
  /\ \/ n <= min_nr /\ ShrinkTurn(p, n)
     \/ /\ n > min_nr
        /\ Goto(p, "grow")
        /\ new_min_nr' = [new_min_nr EXCEPT ![p] = n]
        /\ UNCHANGED <<min_nr, curr_nr, seen>>
  /\ UNCHANGED <<life, capacity, base, wait, gfp>>

\* pool->free of the surplus element, without the lock.
ShrinkFree(p) ==
  /\ pc[p] = "shrink_free"
  /\ base' = base + 1
  /\ Goto(p, "shrink")
  /\ UNCHANGED <<pool, curr_nr, wait, gfp, new_min_nr, seen>>

\* The lock again: next turn.
Shrink(p) ==
  /\ pc[p] = "shrink"
  /\ ShrinkTurn(p, new_min_nr[p])
  /\ UNCHANGED <<life, capacity, base, wait, gfp>>

\* Mutant: the old array is kept.
GrowKeepsArray(p) ==
  /\ pc[p] = "grow"
  /\ \/ ResizeReturn(p) /\ UNCHANGED min_nr
     \/ /\ new_min_nr[p] > min_nr
        /\ min_nr' = new_min_nr[p]
        /\ Goto(p, "grow_alloc")
        /\ UNCHANGED new_min_nr
  /\ UNCHANGED <<life, capacity, curr_nr, base, wait, gfp, seen>>

\* kmalloc_array may fail; otherwise test again under the lock, replace the
\* array and set min_nr.
Grow(p) ==
  /\ pc[p] = "grow"
  /\ \/ ResizeReturn(p) /\ UNCHANGED <<min_nr, capacity>>
     \/ /\ new_min_nr[p] > min_nr
        /\ capacity' = new_min_nr[p]
        /\ min_nr' = new_min_nr[p]
        /\ Goto(p, "grow_alloc")
        /\ UNCHANGED new_min_nr
  /\ UNCHANGED <<life, curr_nr, base, wait, gfp, seen>>

\* pool->alloc(GFP_KERNEL), without the lock.
GrowAlloc(p) ==
  /\ pc[p] = "grow_alloc"
  /\ \/ /\ base > 0
        /\ base' = base - 1
        /\ Goto(p, "grow_add")
        /\ UNCHANGED new_min_nr
     \/ ResizeReturn(p) /\ UNCHANGED base
  /\ UNCHANGED <<pool, curr_nr, wait, gfp, seen>>

\* The lock again: add the element and go on while the pool is short, or find
\* that mempool_free has filled it.
GrowAdd(p) ==
  /\ pc[p] = "grow_add"
  /\ \/ /\ curr_nr < min_nr
        /\ SetCurr(curr_nr + 1)
        /\ \/ curr_nr' < min_nr /\ Goto(p, "grow_alloc") /\ UNCHANGED new_min_nr
           \/ curr_nr' >= min_nr /\ ResizeReturn(p)
     \/ /\ curr_nr >= min_nr
        /\ Goto(p, "grow_raced")
        /\ UNCHANGED <<curr_nr, seen, new_min_nr>>
  /\ UNCHANGED <<pool, base, wait, gfp>>

\* Mutant: the raced element is not freed.
GrowRacedLeaks(p) ==
  /\ pc[p] = "grow_raced"
  /\ ResizeReturn(p)
  /\ UNCHANGED <<pool, curr_nr, base, wait, gfp, seen>>

\* pool->free(element) /* Raced */
GrowRaced(p) ==
  /\ pc[p] = "grow_raced"
  /\ base' = base + 1
  /\ ResizeReturn(p)
  /\ UNCHANGED <<pool, curr_nr, wait, gfp, seen>>

-----------------------------------------------------------------------------

\* Steps of a call that has begun, except the five second timeout.
Step(p) ==
  \/ BaseAlloc(p) \/ PoolAlloc(p) \/ Woken(p)
  \/ FreeTest(p) \/ FreeLocked(p) \/ WakeUp(p) \/ BaseFree(p)
  \/ ShrinkFree(p) \/ Shrink(p)
  \/ Grow(p) \/ GrowAlloc(p) \/ GrowAdd(p) \/ GrowRaced(p)

Call(p) ==
  \/ \E mask \in GFP : Alloc(p, mask)
  \/ \E n \in SIZES : Resize(p, n)

Lifecycle == (\E n \in SIZES : Create(n)) \/ Fill \/ FillDone \/ Destroy \/ Exit

Next == Lifecycle \/ \E p \in PROCS : Step(p) \/ Timeout(p) \/ Call(p)

Spec == Init /\ [][Next]_vars

\* A call that has begun goes on and whoever holds an element frees it.
\* Nothing is assumed of the timeout: the wakeups alone must do.
Fairness == \A p \in PROCS : WF_vars(Step(p))

FairSpec == Spec /\ Fairness

-----------------------------------------------------------------------------
(* Properties *)

\* A process has an element in its hands at these points.
WithElement == {"held", "free_lock", "free_base", "shrink_free", "grow_add", "grow_raced"}

AllocPC == {"alloc", "alloc_temp", "take", "take_temp", "sleep"}
PC == WithElement \cup AllocPC \cup {"idle", "wake", "shrink", "grow", "grow_alloc"}

\* add_element: BUG_ON(pool->curr_nr >= pool->min_nr) never fires and
\* mempool_resize never leaves more elements than min_nr, although both drop
\* the lock between their test and their effect.
BoundedByMin == curr_nr <= min_nr

\* The array always has room for min_nr elements while mempool_resize drops the
\* lock to allocate a larger one and tests min_nr again under it.
CapacityOK == min_nr <= capacity

\* No element is lost or freed twice on any path, the raced ones included.
Conserved ==
  base + curr_nr + Cardinality({p \in PROCS : pc[p] \in WithElement}) = TOTAL

\* mempool_free: "we need a test which is guaranteed to trigger if curr_nr +
\* #allocated == min_nr": the elements in the pool and those whose holders can
\* still return them to it never fall below min_nr, so that the pool is full
\* again when all are returned, however old the values of curr_nr they read.
Reserve ==
  life = "ready" =>
    curr_nr + Cardinality({p \in PROCS : pc[p] \in {"held", "free_lock"}}) >= min_nr

\* mempool_free: "Waiters happen iff curr_nr is 0", and whoever adds an element
\* then wakes them: a process sleeps beside a free element only until the
\* wake_up that is on its way.
NoLostWakeup ==
  wait # {} => curr_nr = 0 \/ \E p \in PROCS : pc[p] = "wake"

\* A process other than p takes an element out of the pool.
Overtakes(p) == \E q \in PROCS \ {p} : PoolAlloc(q) /\ curr_nr' < curr_nr

\* mempool_alloc with direct reclaim returns an element without ever needing
\* the timeout, though the underlying allocator may fail for ever, unless other
\* processes empty the pool again and again: a woken process only repeats from
\* repeat_alloc, and an element that was freed is kept for nobody.
AllocReturns ==
  \A p \in PROCS :
    \/ []<><<Overtakes(p)>>_vars
    \/ pc[p] \in AllocPC /\ "__GFP_DIRECT_RECLAIM" \in gfp[p] ~> pc[p] = "held"

=============================================================================
