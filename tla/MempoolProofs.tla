---------------------------- MODULE MempoolProofs ----------------------------
(***************************************************************************)
(* Proofs about Mempool, for any number of processes, elements and sizes.  *)
(***************************************************************************)
EXTENDS Mempool, FiniteSetTheorems, TLAPS

ResizePC == {"shrink_free", "shrink", "grow", "grow_alloc", "grow_add", "grow_raced"}

PoolTypes ==
  /\ life \in {"none", "filling", "ready", "exiting"}
  /\ min_nr \in Nat /\ capacity \in Nat /\ curr_nr \in Nat /\ base \in Nat
  /\ pc \in [PROCS -> PC]
  /\ new_min_nr \in [PROCS -> Nat]
  /\ seen \in [PROCS -> SUBSET Nat]

\* Processes use a ready pool only, and only resizers resize it.
Users ==
  /\ life # "ready" => \A p \in PROCS : pc[p] = "idle"
  /\ life = "none" => curr_nr = 0
  /\ \A p \in PROCS : pc[p] \in ResizePC => p \in RESIZERS

PoolInv == PoolTypes /\ Users /\ BoundedByMin

-----------------------------------------------------------------------------

LEMMA PoolTypesStep ==
  ASSUME PoolInv, Next
  PROVE  PoolTypes'
<1> USE MempoolAssumption DEF PoolTypes, SetCurr, Goto, ResizeReturn, pool
<1>1. CASE Lifecycle
  BY <1>1 DEF PoolInv, Lifecycle, Create, Fill, FillDone, Destroy, Exit
<1>2. ASSUME NEW p \in PROCS, BaseAlloc(p) \/ PoolAlloc(p) \/ Woken(p) \/ Timeout(p)
      PROVE  PoolTypes'
  <2>1. CASE BaseAlloc(p)
    <3>1. 0..capacity \in SUBSET Nat
      OBVIOUS
    <3>2. seen' \in [PROCS -> SUBSET Nat]
      BY <2>1, <3>1 DEF PoolInv, BaseAlloc
    <3> QED
      BY <2>1, <3>2 DEF PoolInv, BaseAlloc, PC, WithElement, AllocPC
  <2>2. CASE PoolAlloc(p) \/ Woken(p) \/ Timeout(p)
    BY <2>2 DEF PoolInv, PoolAlloc, Woken, Timeout, PC, WithElement, AllocPC
  <2> QED
    BY <1>2, <2>1, <2>2
<1>3. ASSUME NEW p \in PROCS, FreeTest(p) \/ FreeLocked(p) \/ WakeUp(p) \/ BaseFree(p)
      PROVE  PoolTypes'
  BY <1>3 DEF PoolInv, FreeTest, FreeLocked, WakeUp, BaseFree, PC, WithElement, AllocPC
<1>4. ASSUME NEW p \in PROCS, ShrinkFree(p) \/ Shrink(p) \/ Grow(p)
      PROVE  PoolTypes'
  BY <1>4 DEF PoolInv, ShrinkFree, Shrink, ShrinkTurn, Grow, PC, WithElement, AllocPC
<1>5. ASSUME NEW p \in PROCS, GrowAlloc(p) \/ GrowAdd(p) \/ GrowRaced(p)
      PROVE  PoolTypes'
  BY <1>5 DEF PoolInv, GrowAlloc, GrowAdd, GrowRaced, PC, WithElement, AllocPC
<1>6. ASSUME NEW p \in PROCS, Call(p)
      PROVE  PoolTypes'
  BY <1>6 DEF PoolInv, Call, Alloc, Resize, ShrinkTurn, PC, WithElement, AllocPC
<1> QED
  BY <1>1, <1>2, <1>3, <1>4, <1>5, <1>6 DEF Next, Step

LEMMA UsersStep ==
  ASSUME PoolInv, Next
  PROVE  Users' /\ BoundedByMin'
<1> DEFINE Good == Users' /\ BoundedByMin'
<1> USE MempoolAssumption DEF PoolTypes, SetCurr, Goto, ResizeReturn, pool, Users, BoundedByMin, ResizePC
<1>1. CASE Lifecycle
  BY <1>1 DEF PoolInv, Lifecycle, Create, Fill, FillDone, Destroy, Exit
<1>2. ASSUME NEW p \in PROCS, BaseAlloc(p) \/ PoolAlloc(p) \/ Woken(p) \/ Timeout(p)
      PROVE  Good
  BY <1>2 DEF PoolInv, BaseAlloc, PoolAlloc, Woken, Timeout
<1>3. ASSUME NEW p \in PROCS, FreeTest(p) \/ FreeLocked(p) \/ WakeUp(p) \/ BaseFree(p)
      PROVE  Good
  BY <1>3 DEF PoolInv, FreeTest, FreeLocked, WakeUp, BaseFree
<1>4. ASSUME NEW p \in PROCS, ShrinkFree(p) \/ Shrink(p) \/ Grow(p)
      PROVE  Good
  BY <1>4 DEF PoolInv, ShrinkFree, Shrink, ShrinkTurn, Grow
<1>5. ASSUME NEW p \in PROCS, GrowAlloc(p) \/ GrowAdd(p) \/ GrowRaced(p)
      PROVE  Good
  BY <1>5 DEF PoolInv, GrowAlloc, GrowAdd, GrowRaced
<1>6. ASSUME NEW p \in PROCS, Call(p)
      PROVE  Good
  BY <1>6 DEF PoolInv, Call, Alloc, Resize, ShrinkTurn
<1> QED
  BY <1>1, <1>2, <1>3, <1>4, <1>5, <1>6 DEF Next, Step

\* mempool_free and mempool_resize test curr_nr against min_nr again under the
\* lock before add_element, so the pool never exceeds min_nr.
THEOREM PoolInvariant == Spec => []PoolInv
<1>1. Init => PoolInv
  BY MempoolAssumption DEF Init, PoolInv, PoolTypes, Users, BoundedByMin, PC, ResizePC
<1>2. PoolInv /\ [Next]_vars => PoolInv'
  <2>1. PoolInv /\ Next => PoolInv'
    BY PoolTypesStep, UsersStep DEF PoolInv
  <2>2. PoolInv /\ UNCHANGED vars => PoolInv'
    BY DEF PoolInv, PoolTypes, Users, BoundedByMin, vars
  <2> QED
    BY <2>1, <2>2
<1> QED
  BY <1>1, <1>2, PTL DEF Spec

\* add_element's BUG_ON(pool->curr_nr >= pool->min_nr) never fires, however
\* many processes free to the pool and resize it.
THEOREM NeverAboveMin == Spec => []BoundedByMin
  BY PoolInvariant, PTL DEF PoolInv

-----------------------------------------------------------------------------
(* The array, with at most one resizer *)

OneResizer == \A p, q \in RESIZERS : p = q

\* A shrinking call stores a size that the array has room for.
Shrinking ==
  \A p \in PROCS : pc[p] \in {"shrink_free", "shrink"} => new_min_nr[p] <= capacity

ArrayInv == CapacityOK /\ Shrinking

LEMMA ArrayStep ==
  ASSUME OneResizer, PoolInv, ArrayInv, Next
  PROVE  ArrayInv'
<1> USE MempoolAssumption DEF SetCurr, Goto, ResizeReturn, pool, ArrayInv, CapacityOK, Shrinking,
        PoolInv, PoolTypes
<1>1. CASE Lifecycle
  BY <1>1 DEF Lifecycle, Create, Fill, FillDone, Destroy, Exit, Users
<1>2. ASSUME NEW p \in PROCS, BaseAlloc(p) \/ PoolAlloc(p) \/ Woken(p) \/ Timeout(p)
      PROVE  ArrayInv'
  BY <1>2 DEF BaseAlloc, PoolAlloc, Woken, Timeout
<1>3. ASSUME NEW p \in PROCS, FreeTest(p) \/ FreeLocked(p) \/ WakeUp(p) \/ BaseFree(p)
      PROVE  ArrayInv'
  BY <1>3 DEF FreeTest, FreeLocked, WakeUp, BaseFree
<1>4. ASSUME NEW p \in PROCS, ShrinkFree(p) \/ Shrink(p)
      PROVE  ArrayInv'
  BY <1>4 DEF ShrinkFree, Shrink, ShrinkTurn
<1>5. ASSUME NEW p \in PROCS, Grow(p)
      PROVE  ArrayInv'
  <2>1. \A q \in PROCS : q # p => pc[q] \notin {"shrink_free", "shrink"}
    BY <1>5 DEF Grow, Users, ResizePC, OneResizer
  <2> QED
    BY <1>5, <2>1 DEF Grow
<1>6. ASSUME NEW p \in PROCS, GrowAlloc(p) \/ GrowAdd(p) \/ GrowRaced(p)
      PROVE  ArrayInv'
  BY <1>6 DEF GrowAlloc, GrowAdd, GrowRaced
<1>7. ASSUME NEW p \in PROCS, Call(p)
      PROVE  ArrayInv'
  BY <1>7 DEF Call, Alloc, Resize, ShrinkTurn
<1> QED
  BY <1>1, <1>2, <1>3, <1>4, <1>5, <1>6, <1>7 DEF Next, Step

\* With one process at a time in mempool_resize, min_nr never exceeds the
\* array, although the shrinking loop stores it after dropping the lock.
THEOREM ArrayHasRoom ==
  ASSUME OneResizer PROVE Spec => []CapacityOK
<1>1. Init => ArrayInv
  BY DEF Init, ArrayInv, CapacityOK, Shrinking
<1>2. PoolInv /\ ArrayInv /\ [Next]_vars => ArrayInv'
  <2>1. PoolInv /\ ArrayInv /\ Next => ArrayInv'
    BY ArrayStep
  <2>2. ArrayInv /\ UNCHANGED vars => ArrayInv'
    BY DEF ArrayInv, CapacityOK, Shrinking, vars
  <2> QED
    BY <2>1, <2>2
<1>3. ArrayInv => CapacityOK
  BY DEF ArrayInv
<1> QED
  BY <1>1, <1>2, <1>3, PoolInvariant, PTL DEF Spec

-----------------------------------------------------------------------------
(* The wait queue, without resizers *)

WaitInv ==
  /\ \A p \in wait : p \in PROCS /\ pc[p] = "sleep"
  /\ NoLostWakeup

LEMMA WaitStep ==
  ASSUME RESIZERS = {}, PoolInv, WaitInv, Next
  PROVE  WaitInv'
<1>0. \A p \in PROCS : pc[p] \notin ResizePC
  BY DEF PoolInv, Users
<1> USE DEF SetCurr, Goto, ResizeReturn, pool, WaitInv, NoLostWakeup, PoolInv, PoolTypes
<1>1. CASE Lifecycle
  <2>1. life # "ready" => wait = {}
    BY DEF Users
  <2> QED
    BY <1>1, <2>1 DEF Lifecycle, Create, Fill, FillDone, Destroy, Exit
<1>2. ASSUME NEW p \in PROCS, BaseAlloc(p) \/ PoolAlloc(p) \/ Woken(p) \/ Timeout(p)
      PROVE  WaitInv'
  BY <1>2 DEF BaseAlloc, PoolAlloc, Woken, Timeout
<1>3. ASSUME NEW p \in PROCS, FreeTest(p) \/ FreeLocked(p) \/ WakeUp(p) \/ BaseFree(p)
      PROVE  WaitInv'
  BY <1>3 DEF FreeTest, FreeLocked, WakeUp, BaseFree
<1>4. ASSUME NEW p \in PROCS, ShrinkFree(p) \/ Shrink(p) \/ Grow(p) \/ GrowAlloc(p) \/ GrowAdd(p) \/ GrowRaced(p)
      PROVE  WaitInv'
  BY <1>0, <1>4 DEF ShrinkFree, Shrink, Grow, GrowAlloc, GrowAdd, GrowRaced, ResizePC
<1>5. ASSUME NEW p \in PROCS, Call(p)
      PROVE  WaitInv'
  BY <1>5 DEF Call, Alloc, Resize
<1> QED
  BY <1>1, <1>2, <1>3, <1>4, <1>5 DEF Next, Step

\* In a pool that is not resized, no process sleeps beside a free element
\* without a wake_up on its way.
THEOREM WakeupNeverLost ==
  ASSUME RESIZERS = {} PROVE Spec => []NoLostWakeup
<1>1. Init => WaitInv
  BY DEF Init, WaitInv, NoLostWakeup
<1>2. PoolInv /\ WaitInv /\ [Next]_vars => WaitInv'
  <2>1. PoolInv /\ WaitInv /\ Next => WaitInv'
    BY WaitStep
  <2>2. WaitInv /\ UNCHANGED vars => WaitInv'
    BY DEF WaitInv, NoLostWakeup, vars
  <2> QED
    BY <2>1, <2>2
<1>3. WaitInv => NoLostWakeup
  BY DEF WaitInv
<1> QED
  BY <1>1, <1>2, <1>3, PoolInvariant, PTL DEF Spec

-----------------------------------------------------------------------------
(* Counting processes *)

LEMMA Counting ==
  ASSUME NEW S \in SUBSET PROCS, NEW p \in PROCS
  PROVE  /\ Cardinality(S) \in Nat
         /\ p \notin S => Cardinality(S \cup {p}) = Cardinality(S) + 1
         /\ p \in S => Cardinality(S \ {p}) = Cardinality(S) - 1
         /\ p \in S => Cardinality(S) >= 1
<1>1. IsFiniteSet(S)
  BY MempoolAssumption, FS_Subset
<1>2. Cardinality(S) \in Nat
  BY <1>1, FS_CardinalityType
<1>3. p \notin S => Cardinality(S \cup {p}) = Cardinality(S) + 1
  BY <1>1, FS_AddElement
<1>4. p \in S => Cardinality(S \ {p}) = Cardinality(S) - 1
  BY <1>1, FS_RemoveElement
<1>5. p \in S => Cardinality(S \ {p}) \in Nat
  BY <1>1, FS_RemoveElement, FS_CardinalityType
<1> QED
  BY <1>2, <1>3, <1>4, <1>5

Holders == {p \in PROCS : pc[p] \in WithElement}

LEMMA HoldersGoto ==
  ASSUME PoolTypes, NEW p \in PROCS, NEW l, Goto(p, l)
  PROVE  /\ pc[p] \notin WithElement /\ l \in WithElement
              => p \notin Holders /\ Holders' = Holders \cup {p}
         /\ pc[p] \in WithElement /\ l \notin WithElement
              => p \in Holders /\ Holders' = Holders \ {p}
         /\ (pc[p] \in WithElement <=> l \in WithElement) => Holders' = Holders
  BY DEF PoolTypes, Goto, Holders

\* A step leaves every element where it is, or a process takes one, or a
\* process gives one back.
Moves ==
  \/ base' + curr_nr' = base + curr_nr /\ Holders' = Holders
  \/ \E p \in PROCS :
       /\ base' + curr_nr' = base + curr_nr - 1
       /\ p \notin Holders /\ Holders' = Holders \cup {p}
  \/ \E p \in PROCS :
       /\ base' + curr_nr' = base + curr_nr + 1
       /\ p \in Holders /\ Holders' = Holders \ {p}

LEMMA MovesStep ==
  ASSUME PoolInv, Next
  PROVE  Moves
<1> USE DEF SetCurr, ResizeReturn, pool, PoolInv, Moves, WithElement
<1>0. curr_nr \in Nat /\ base \in Nat
  BY DEF PoolTypes
<1>1. CASE Lifecycle
  <2>1. Holders' = Holders
    BY <1>1 DEF Lifecycle, Create, Fill, FillDone, Destroy, Exit, Holders
  <2> QED
    BY <1>0, <1>1, <2>1 DEF Lifecycle, Create, Fill, FillDone, Destroy, Exit
<1>2. ASSUME NEW p \in PROCS, BaseAlloc(p) \/ PoolAlloc(p) \/ Woken(p) \/ Timeout(p)
      PROVE  Moves
  BY <1>0, <1>2, HoldersGoto DEF BaseAlloc, PoolAlloc, Woken, Timeout
<1>3. ASSUME NEW p \in PROCS, FreeTest(p) \/ FreeLocked(p) \/ WakeUp(p) \/ BaseFree(p)
      PROVE  Moves
  BY <1>0, <1>3, HoldersGoto DEF FreeTest, FreeLocked, WakeUp, BaseFree
<1>4. ASSUME NEW p \in PROCS, ShrinkFree(p) \/ Shrink(p) \/ Grow(p)
      PROVE  Moves
  BY <1>0, <1>4, HoldersGoto DEF ShrinkFree, Shrink, ShrinkTurn, Grow
<1>5. ASSUME NEW p \in PROCS, GrowAlloc(p) \/ GrowAdd(p) \/ GrowRaced(p)
      PROVE  Moves
  BY <1>0, <1>5, HoldersGoto DEF GrowAlloc, GrowAdd, GrowRaced
<1>6. ASSUME NEW p \in PROCS, Call(p)
      PROVE  Moves
  BY <1>0, <1>6, HoldersGoto DEF Call, Alloc, Resize, ShrinkTurn
<1> QED
  BY <1>1, <1>2, <1>3, <1>4, <1>5, <1>6 DEF Next, Step

\* No path of mempool_alloc, mempool_free and mempool_resize, the raced ones
\* included, leaks an element or frees it twice.
THEOREM ElementsConserved == Spec => []Conserved
<1>1. Init => Conserved
  <2> SUFFICES ASSUME Init PROVE Conserved
    OBVIOUS
  <2>1. {p \in PROCS : pc[p] \in WithElement} = {}
    BY DEF Init, WithElement
  <2> QED
    BY <2>1, FS_EmptySet, MempoolAssumption DEF Init, Conserved
<1>2. PoolInv /\ Conserved /\ [Next]_vars => Conserved'
  <2> SUFFICES ASSUME PoolInv, Conserved, [Next]_vars PROVE Conserved'
    OBVIOUS
  <2>0. /\ base + curr_nr + Cardinality(Holders) = TOTAL
        /\ Holders \in SUBSET PROCS /\ curr_nr \in Nat /\ base \in Nat
        /\ Conserved' <=> base' + curr_nr' + Cardinality(Holders') = TOTAL
    BY DEF Conserved, Holders, PoolInv, PoolTypes
  <2>1. CASE UNCHANGED vars
    BY <2>1 DEF vars, Conserved
  <2>2. CASE Moves
    <3>1. CASE base' + curr_nr' = base + curr_nr /\ Holders' = Holders
      BY <2>0, <3>1
    <3>2. ASSUME NEW p \in PROCS,
                 base' + curr_nr' = base + curr_nr - 1,
                 p \notin Holders, Holders' = Holders \cup {p}
          PROVE  Conserved'
      <4>1. Cardinality(Holders') = Cardinality(Holders) + 1 /\ Cardinality(Holders) \in Nat
        BY <2>0, <3>2, Counting
      <4> QED
        BY <2>0, <3>2, <4>1
    <3>3. ASSUME NEW p \in PROCS,
                 base' + curr_nr' = base + curr_nr + 1,
                 p \in Holders, Holders' = Holders \ {p}
          PROVE  Conserved'
      <4>1. Cardinality(Holders') = Cardinality(Holders) - 1 /\ Cardinality(Holders) \in Nat
        BY <2>0, <3>3, Counting
      <4> QED
        BY <2>0, <3>3, <4>1
    <3> QED
      BY <2>2, <3>1, <3>2, <3>3 DEF Moves
  <2> QED
    BY <2>1, <2>2, MovesStep
<1> QED
  BY <1>1, <1>2, PoolInvariant, PTL DEF Spec

-----------------------------------------------------------------------------
(* The reserve, without resizers *)

\* Holders sure to return their element to the pool: mempool_free has taken
\* them to the lock, or every curr_nr they may read is below min_nr.
Returning ==
  {p \in PROCS : \/ pc[p] = "free_lock"
                 \/ pc[p] = "held" /\ \A n \in seen[p] : n < min_nr}

\* Reserve with the other holders left out; it is inductive, Reserve is not.
ReserveInv == life = "ready" => curr_nr + Cardinality(Returning) >= min_nr

\* What a step does to curr_nr and Returning in a ready pool that is short of
\* elements after it.
Keeps ==
  /\ life = "ready" /\ min_nr' = min_nr
  /\ \/ curr_nr' = curr_nr /\ Returning \subseteq Returning'
     \/ \E p \in PROCS \ Returning :
          curr_nr' = curr_nr - 1 /\ Returning' = Returning \cup {p}
     \/ \E p \in Returning :
          curr_nr' = curr_nr + 1 /\ Returning' = Returning \ {p}

LEMMA KeepsStep ==
  ASSUME RESIZERS = {}, PoolInv, Next, life' = "ready", curr_nr' < min_nr'
  PROVE  Keeps
<1>0. \A p \in PROCS : pc[p] \notin ResizePC
  BY DEF PoolInv, Users
<1> USE DEF Goto, pool, PoolInv, PoolTypes, Keeps, Returning
<1>1. CASE Lifecycle
  BY <1>1 DEF Lifecycle, Create, Fill, FillDone, Destroy, Exit
<1>2. ASSUME NEW p \in PROCS, BaseAlloc(p)
      PROVE  Keeps
  BY <1>2 DEF BaseAlloc, Users
<1>3. ASSUME NEW p \in PROCS, PoolAlloc(p)
      PROVE  Keeps
  <2>0. life = "ready" /\ min_nr' = min_nr /\ p \notin Returning /\ pc[p] \in {"take", "take_temp"}
    BY <1>3 DEF PoolAlloc, Users
  <2>1. CASE curr_nr' = curr_nr
    BY <1>3, <2>0, <2>1 DEF PoolAlloc
  <2>2. CASE curr_nr' # curr_nr
    <3>1. /\ curr_nr' = curr_nr - 1 /\ curr_nr - 1 < min_nr
          /\ seen' = [q \in PROCS |-> IF q = p THEN {curr_nr - 1}
                        ELSE IF seen[q] = {} THEN {} ELSE seen[q] \cup {curr_nr - 1}]
          /\ pc' = [pc EXCEPT ![p] = "held"]
      BY <1>3, <2>0, <2>2 DEF PoolAlloc
    <3>2. Returning' = Returning \cup {p}
      BY <2>0, <3>1
    <3> QED
      BY <2>0, <3>1, <3>2
  <2> QED
    BY <2>1, <2>2
<1>4. ASSUME NEW p \in PROCS, Woken(p) \/ Timeout(p) \/ WakeUp(p) \/ BaseFree(p)
      PROVE  Keeps
  BY <1>4 DEF Woken, Timeout, WakeUp, BaseFree, Users
<1>5. ASSUME NEW p \in PROCS, FreeTest(p)
      PROVE  Keeps
  BY <1>5 DEF FreeTest, Users
<1>6. ASSUME NEW p \in PROCS, FreeLocked(p)
      PROVE  Keeps
  <2>0. life = "ready" /\ min_nr' = min_nr /\ p \in Returning /\ pc[p] = "free_lock"
    BY <1>6 DEF FreeLocked, Users
  <2>1. /\ curr_nr' = curr_nr + 1 /\ curr_nr + 1 < min_nr
        /\ seen' = [q \in PROCS |-> IF seen[q] = {} THEN {} ELSE seen[q] \cup {curr_nr + 1}]
        /\ pc' = [pc EXCEPT ![p] = "wake"]
    BY <1>6, <2>0 DEF FreeLocked, SetCurr
  <2>2. Returning' = Returning \ {p}
    BY <2>0, <2>1
  <2> QED
    BY <2>0, <2>1, <2>2
<1>7. ASSUME NEW p \in PROCS, ShrinkFree(p) \/ Shrink(p) \/ Grow(p) \/ GrowAlloc(p) \/ GrowAdd(p) \/ GrowRaced(p)
      PROVE  Keeps
  BY <1>0, <1>7 DEF ShrinkFree, Shrink, Grow, GrowAlloc, GrowAdd, GrowRaced, ResizePC
<1>8. ASSUME NEW p \in PROCS, Call(p)
      PROVE  Keeps
  BY <1>8 DEF Call, Alloc, Resize
<1> QED
  BY <1>1, <1>2, <1>3, <1>4, <1>5, <1>6, <1>7, <1>8 DEF Next, Step

LEMMA MoreProcesses ==
  ASSUME NEW S \in SUBSET PROCS, NEW T \in SUBSET PROCS, S \subseteq T
  PROVE  /\ Cardinality(S) \in Nat /\ Cardinality(T) \in Nat
         /\ Cardinality(S) <= Cardinality(T)
<1>1. IsFiniteSet(S) /\ IsFiniteSet(T)
  BY MempoolAssumption, FS_Subset
<1> QED
  BY <1>1, FS_Subset, FS_CardinalityType

LEMMA ReserveStep ==
  ASSUME RESIZERS = {}, PoolInv, PoolInv', ReserveInv, Next
  PROVE  ReserveInv'
<1> SUFFICES ASSUME life' = "ready" PROVE curr_nr' + Cardinality(Returning') >= min_nr'
  BY DEF ReserveInv
<1>0. /\ Returning \in SUBSET PROCS /\ Returning' \in SUBSET PROCS
      /\ curr_nr \in Nat /\ curr_nr' \in Nat /\ min_nr \in Nat /\ min_nr' \in Nat
  BY DEF Returning, PoolInv, PoolTypes
<1>1. Cardinality(Returning) \in Nat /\ Cardinality(Returning') \in Nat
  BY <1>0, MoreProcesses
<1>2. CASE curr_nr' >= min_nr'
  BY <1>0, <1>1, <1>2
<1>3. CASE curr_nr' < min_nr'
  <2>0. Keeps
    BY <1>3, KeepsStep
  <2>1. min_nr' = min_nr /\ curr_nr + Cardinality(Returning) >= min_nr
    BY <2>0 DEF Keeps, ReserveInv
  <2>2. CASE curr_nr' = curr_nr /\ Returning \subseteq Returning'
    <3>1. Cardinality(Returning) <= Cardinality(Returning')
      BY <1>0, <2>2, MoreProcesses
    <3> QED
      BY <1>0, <1>1, <2>1, <2>2, <3>1
  <2>3. ASSUME NEW p \in PROCS \ Returning,
               curr_nr' = curr_nr - 1, Returning' = Returning \cup {p}
        PROVE  curr_nr' + Cardinality(Returning') >= min_nr'
    <3>1. Cardinality(Returning') = Cardinality(Returning) + 1
      BY <1>0, <2>3, Counting
    <3> QED
      BY <1>0, <1>1, <2>1, <2>3, <3>1
  <2>4. ASSUME NEW p \in Returning,
               curr_nr' = curr_nr + 1, Returning' = Returning \ {p}
        PROVE  curr_nr' + Cardinality(Returning') >= min_nr'
    <3>1. Cardinality(Returning') = Cardinality(Returning) - 1
      BY <1>0, <2>4, Counting
    <3> QED
      BY <1>0, <1>1, <2>1, <2>4, <3>1
  <2> QED
    BY <2>0, <2>2, <2>3, <2>4 DEF Keeps
<1> QED
  BY <1>0, <1>2, <1>3

\* The unlocked, possibly old reading of curr_nr in mempool_free never costs
\* the pool an element it is owed.
THEOREM ReserveKept ==
  ASSUME RESIZERS = {} PROVE Spec => []Reserve
<1>1. Init => ReserveInv
  BY DEF Init, ReserveInv
<1>2. PoolInv /\ PoolInv' /\ ReserveInv /\ [Next]_vars => ReserveInv'
  <2>1. PoolInv /\ PoolInv' /\ ReserveInv /\ Next => ReserveInv'
    BY ReserveStep
  <2>2. ReserveInv /\ UNCHANGED vars => ReserveInv'
    BY DEF ReserveInv, Returning, vars
  <2> QED
    BY <2>1, <2>2
<1>3. PoolInv /\ ReserveInv => Reserve
  <2> SUFFICES ASSUME PoolInv, ReserveInv, life = "ready"
               PROVE  curr_nr + Cardinality({p \in PROCS : pc[p] \in {"held", "free_lock"}}) >= min_nr
    BY DEF Reserve
  <2> DEFINE H == {p \in PROCS : pc[p] \in {"held", "free_lock"}}
  <2>1. Returning \in SUBSET PROCS /\ H \in SUBSET PROCS /\ Returning \subseteq H
    BY DEF Returning
  <2> HIDE DEF H
  <2>2. /\ Cardinality(Returning) \in Nat /\ Cardinality(H) \in Nat
        /\ Cardinality(Returning) <= Cardinality(H)
    BY <2>1, MoreProcesses
  <2>3. curr_nr + Cardinality(H) >= min_nr
    BY <2>2 DEF ReserveInv, PoolInv, PoolTypes
  <2> QED
    BY <2>3 DEF H
<1> QED
  BY <1>1, <1>2, <1>3, PoolInvariant, PTL DEF Spec

=============================================================================
