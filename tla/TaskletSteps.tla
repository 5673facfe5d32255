---------------------------- MODULE TaskletSteps ----------------------------
(***************************************************************************)
(* What the steps of module Tasklet do: what linking, taking, popping,     *)
(* moving and unlinking do to the set of linked tasklets; the steps keep   *)
(* the types, leave other contexts alone, treat RUN as a lock and SCHED as *)
(* a token.                                                                *)
(***************************************************************************)
EXTENDS Tasklet, FiniteSetTheorems, TLAPS

QueueType == queue \in [CPUS -> [LISTS -> Seq(TASKLETS)]]

-----------------------------------------------------------------------------
(* What the list operations do to the set of linked tasklets. *)

\* Linking t at the tail of a list adds t to the linked tasklets.
LEMMA AppendLinks ==
  ASSUME QueueType, UniqueLinks, NEW c \in CPUS, NEW nr \in LISTS, NEW t \in TASKLETS,
         ~Linked(t), queue' = [queue EXCEPT ![c][nr] = Append(@, t)]
  PROVE  /\ QueueType'
         /\ UniqueLinks'
         /\ \A u \in TASKLETS : Linked(u)' <=> Linked(u) \/ u = t
         /\ \A d \in CPUS, m \in LISTS : d # c \/ m # nr => queue'[d][m] = queue[d][m]
<1> DEFINE q == queue[c][nr]
<1>1. q \in Seq(TASKLETS) /\ Len(q) \in Nat /\ DOMAIN q = 1..Len(q)
  BY DEF QueueType
<1>2. Append(q, t) \in Seq(TASKLETS)
  BY <1>1
<1>3. /\ DOMAIN Append(q, t) = 1..(Len(q) + 1)
      /\ \A i \in 1..Len(q) : Append(q, t)[i] = q[i]
      /\ Append(q, t)[Len(q) + 1] = t
  BY <1>1
<1>4. QueueType'
  BY <1>2, Zenon DEF QueueType
<1>5. /\ queue'[c][nr] = Append(q, t)
      /\ \A d \in CPUS, m \in LISTS : d # c \/ m # nr => queue'[d][m] = queue[d][m]
  BY Zenon DEF QueueType
<1>6. \A u \in TASKLETS : Linked(u)' <=> Linked(u) \/ u = t
  <2> TAKE u \in TASKLETS
  <2>1. ASSUME Linked(u)' PROVE Linked(u) \/ u = t
    BY <2>1, <1>1, <1>3, <1>5 DEF Linked
  <2>2. ASSUME Linked(u) PROVE Linked(u)'
    BY <2>2, <1>1, <1>3, <1>5 DEF Linked
  <2>3. Linked(t)'
    BY <1>1, <1>3, <1>5 DEF Linked
  <2> QED
    BY <2>1, <2>2, <2>3, Zenon
<1>7. UniqueLinks'
  BY <1>1, <1>3, <1>5 DEF UniqueLinks, Linked
<1> QED
  BY <1>4, <1>5, <1>6, <1>7, Zenon

\* Moving a whole list to the empty local list changes no membership.
LEMMA TakeLinks ==
  ASSUME QueueType, UniqueLinks, NEW c \in CPUS, NEW nr \in PRIO,
         queue[c]["list"] = <<>>,
         queue' = [queue EXCEPT ![c]["list"] = queue[c][nr], ![c][nr] = <<>>]
  PROVE  /\ QueueType'
         /\ UniqueLinks'
         /\ \A u \in TASKLETS : Linked(u)' <=> Linked(u)
         /\ queue'[c][nr] = <<>>
         /\ \A d \in CPUS, m \in PRIO : d # c \/ m # nr => queue'[d][m] = queue[d][m]
         /\ \A d \in CPUS : d # c => queue'[d]["list"] = queue[d]["list"]
<1>1. /\ nr # "list" /\ nr \in LISTS /\ "list" \in LISTS
  BY Zenon DEF PRIO, LISTS
<1>2. /\ queue'[c][nr] = <<>>
      /\ queue'[c]["list"] = queue[c][nr]
      /\ \A d \in CPUS, m \in LISTS :
           (d # c \/ (m # nr /\ m # "list")) => queue'[d][m] = queue[d][m]
  BY <1>1, Zenon DEF QueueType
<1>3. QueueType'
  BY <1>1, Zenon DEF QueueType
<1>4. DOMAIN queue'[c][nr] = {} /\ DOMAIN queue[c]["list"] = {}
  BY <1>2
<1> DEFINE Old(d, l) == IF d = c /\ l = "list" THEN nr ELSE l
<1>5. \A d \in CPUS, l \in LISTS : DOMAIN queue'[d][l] # {} =>
        /\ Old(d, l) \in LISTS /\ queue'[d][l] = queue[d][Old(d, l)]
        /\ ~(d = c /\ l = nr)
  BY <1>1, <1>2, <1>4
<1>6. UniqueLinks'
  <2> SUFFICES ASSUME NEW d \in CPUS, NEW e \in CPUS, NEW l \in LISTS, NEW m \in LISTS,
                      NEW i \in DOMAIN queue'[d][l], NEW j \in DOMAIN queue'[e][m],
                      queue'[d][l][i] = queue'[e][m][j]
               PROVE  d = e /\ l = m /\ i = j
    BY Zenon DEF UniqueLinks
  <2>1. Old(d, l) \in LISTS /\ queue'[d][l] = queue[d][Old(d, l)] /\ ~(d = c /\ l = nr)
    BY <1>5, Zenon
  <2>2. Old(e, m) \in LISTS /\ queue'[e][m] = queue[e][Old(e, m)] /\ ~(e = c /\ m = nr)
    BY <1>5, Zenon
  <2>3. d = e /\ Old(d, l) = Old(e, m) /\ i = j
    <3> HIDE DEF Old
    <3> QED
      BY <2>1, <2>2 DEF UniqueLinks
  <2> QED
    BY <2>1, <2>2, <2>3, Zenon
<1>7. ASSUME NEW u \in TASKLETS PROVE Linked(u)' <=> Linked(u)
  <2>1. ASSUME Linked(u)' PROVE Linked(u)
    <3>1. PICK d \in CPUS, l \in LISTS :
            \E i \in DOMAIN queue'[d][l] : queue'[d][l][i] = u
      BY <2>1, Zenon DEF Linked
    <3>2. Old(d, l) \in LISTS /\ queue'[d][l] = queue[d][Old(d, l)]
      BY <1>5, <3>1, Zenon
    <3> QED
      BY <3>1, <3>2, Zenon DEF Linked
  <2>2. ASSUME Linked(u) PROVE Linked(u)'
    <3>1. PICK d \in CPUS, l \in LISTS :
            \E i \in DOMAIN queue[d][l] : queue[d][l][i] = u
      BY <2>2, Zenon DEF Linked
    <3>2. CASE d = c /\ l = nr
      <4>1. \E i \in DOMAIN queue'[c]["list"] : queue'[c]["list"][i] = u
        BY <1>2, <3>1, <3>2, Zenon
      <4> QED
        BY <1>1, <4>1, Zenon DEF Linked
    <3>3. CASE ~(d = c /\ l = nr)
      <4>1. ~(d = c /\ l = "list")
        BY <1>4, <3>1, Zenon
      <4>2. queue'[d][l] = queue[d][l]
        BY <1>2, <3>3, <4>1, Zenon
      <4> QED
        BY <3>1, <4>2, Zenon DEF Linked
    <3> QED
      BY <3>2, <3>3, Zenon
  <2> QED
    BY <2>1, <2>2, Zenon
<1> QED
  BY Zenon, <1>1, <1>2, <1>3, <1>6, <1>7 DEF PRIO, LISTS

\* Taking the first entry off the local list unlinks that tasklet only.
LEMMA PopLinks ==
  ASSUME QueueType, UniqueLinks, NEW c \in CPUS, queue[c]["list"] # <<>>,
         queue' = [queue EXCEPT ![c]["list"] = Tail(@)]
  PROVE  /\ Head(queue[c]["list"]) \in TASKLETS
         /\ Linked(Head(queue[c]["list"]))
         /\ QueueType'
         /\ UniqueLinks'
         /\ \A u \in TASKLETS : Linked(u)' <=> Linked(u) /\ u # Head(queue[c]["list"])
         /\ \A d \in CPUS, m \in PRIO : queue'[d][m] = queue[d][m]
         /\ \A d \in CPUS : d # c => queue'[d]["list"] = queue[d]["list"]
<1> DEFINE q == queue[c]["list"]
<1>1. "list" \in LISTS /\ "list" \notin PRIO /\ PRIO \subseteq LISTS
  BY Zenon DEF PRIO, LISTS
<1>2. /\ q \in Seq(TASKLETS) /\ Len(q) \in Nat \ {0} /\ DOMAIN q = 1..Len(q)
      /\ Head(q) = q[1] /\ Tail(q) \in Seq(TASKLETS)
      /\ DOMAIN Tail(q) = 1..(Len(q) - 1)
      /\ \A i \in 1..(Len(q) - 1) : Tail(q)[i] = q[i + 1]
  BY <1>1 DEF QueueType
<1>3. /\ queue'[c]["list"] = Tail(q)
      /\ \A d \in CPUS, m \in LISTS : d # c \/ m # "list" => queue'[d][m] = queue[d][m]
  BY <1>1, Zenon DEF QueueType
<1>4. QueueType'
  BY <1>1, <1>2, Zenon DEF QueueType
<1>5. UniqueLinks'
  <2> SUFFICES ASSUME NEW d \in CPUS, NEW e \in CPUS, NEW l \in LISTS, NEW m \in LISTS,
                      NEW i \in DOMAIN queue'[d][l], NEW j \in DOMAIN queue'[e][m],
                      queue'[d][l][i] = queue'[e][m][j]
               PROVE  d = e /\ l = m /\ i = j
    BY Zenon DEF UniqueLinks
  <2> DEFINE Old(x, y) == IF x = c /\ y = "list" THEN 1 ELSE 0
  <2>1. /\ i + Old(d, l) \in DOMAIN queue[d][l]
        /\ queue'[d][l][i] = queue[d][l][i + Old(d, l)]
        /\ i \in Nat
    BY <1>2, <1>3 DEF QueueType
  <2>2. /\ j + Old(e, m) \in DOMAIN queue[e][m]
        /\ queue'[e][m][j] = queue[e][m][j + Old(e, m)]
        /\ j \in Nat
    BY <1>2, <1>3 DEF QueueType
  <2>3. d = e /\ l = m /\ i + Old(d, l) = j + Old(e, m)
    BY <2>1, <2>2 DEF UniqueLinks
  <2> QED
    BY <2>1, <2>2, <2>3
<1>6. ASSUME NEW u \in TASKLETS PROVE Linked(u)' <=> Linked(u) /\ u # q[1]
  <2>1. ASSUME Linked(u)' PROVE Linked(u) /\ u # q[1]
    <3>0. PICK d \in CPUS, l \in LISTS :
            \E i \in DOMAIN queue'[d][l] : queue'[d][l][i] = u
      BY <2>1, Zenon DEF Linked
    <3>1. PICK i \in DOMAIN queue'[d][l] : queue'[d][l][i] = u
      BY <3>0, Zenon
    <3>2. CASE d = c /\ l = "list"
      <4>0. i \in 1..(Len(q) - 1) /\ Tail(q)[i] = u
        BY <1>2, <1>3, <3>1, <3>2, Zenon
      <4>1. i + 1 \in DOMAIN q /\ q[i + 1] = u /\ i + 1 # 1
        BY <1>2, <4>0
      <4>2. 1 \in DOMAIN q
        BY <1>2
      <4> QED
        BY <1>1, <4>1, <4>2 DEF Linked, UniqueLinks
    <3>3. CASE ~(d = c /\ l = "list")
      <4>1. i \in DOMAIN queue[d][l] /\ queue[d][l][i] = u
        BY <1>3, <3>1, <3>3, Zenon
      <4>2. 1 \in DOMAIN q
        BY <1>2
      <4> QED
        BY <1>1, <3>3, <4>1, <4>2 DEF Linked, UniqueLinks
    <3> QED
      BY <3>2, <3>3, Zenon
  <2>2. ASSUME Linked(u), u # q[1] PROVE Linked(u)'
    <3>0. PICK d \in CPUS, l \in LISTS : \E i \in DOMAIN queue[d][l] : queue[d][l][i] = u
      BY <2>2, Zenon DEF Linked
    <3>1. PICK i \in DOMAIN queue[d][l] : queue[d][l][i] = u
      BY <3>0, Zenon
    <3>2. CASE d = c /\ l = "list"
      <4>1. i \in 2..Len(q) /\ i - 1 \in 1..(Len(q) - 1) /\ (i - 1) + 1 = i
        BY <1>2, <2>2, <3>1, <3>2
      <4>2. i - 1 \in DOMAIN queue'[c]["list"] /\ queue'[c]["list"][i - 1] = u
        BY <1>2, <1>3, <3>1, <3>2, <4>1, Zenon
      <4> QED
        BY <1>1, <4>2, Zenon DEF Linked
    <3>3. CASE ~(d = c /\ l = "list")
      BY <1>3, <3>1, <3>3, Zenon DEF Linked
    <3> QED
      BY <3>2, <3>3, Zenon
  <2> QED
    BY <2>1, <2>2, Zenon
<1>7. Linked(q[1]) /\ q[1] \in TASKLETS
  BY <1>1, <1>2 DEF Linked
<1> QED
  BY <1>1, <1>2, <1>3, <1>4, <1>5, <1>6, <1>7, Zenon

\* Where the entries of a concatenation come from.
LEMMA ConcatEntries ==
  ASSUME NEW T, NEW r \in Seq(T), NEW s \in Seq(T)
  PROVE  /\ r \o s \in Seq(T)
         /\ Len(r) \in Nat /\ Len(s) \in Nat
         /\ DOMAIN r = 1..Len(r) /\ DOMAIN s = 1..Len(s)
         /\ DOMAIN (r \o s) = 1..(Len(r) + Len(s))
         /\ \A i \in 1..Len(r) : (r \o s)[i] = r[i]
         /\ \A i \in 1..Len(s) : (r \o s)[Len(r) + i] = s[i]
<1>1. r \o s \in Seq(T) /\ Len(r \o s) = Len(r) + Len(s)
  OBVIOUS
<1>2. \A i \in 1..(Len(r) + Len(s)) :
        (r \o s)[i] = IF i <= Len(r) THEN r[i] ELSE s[i - Len(r)]
  OBVIOUS
<1>3. ASSUME NEW i \in 1..Len(s) PROVE (r \o s)[Len(r) + i] = s[i]
  <2>1. Len(r) + i \in 1..(Len(r) + Len(s)) /\ ~(Len(r) + i <= Len(r))
        /\ (Len(r) + i) - Len(r) = i
    OBVIOUS
  <2> QED
    BY <1>2, <2>1, Zenon
<1>4. ASSUME NEW i \in 1..Len(r) PROVE (r \o s)[i] = r[i]
  <2>1. i \in 1..(Len(r) + Len(s)) /\ i <= Len(r)
    OBVIOUS
  <2> QED
    BY <1>2, <2>1, Zenon
<1> QED
  BY <1>1, <1>3, <1>4

\* The lists after takeover_tasklets(c) on d, one by one.
ListsMoved(c, d) ==
  /\ \A l \in PRIO : queue'[d][l] = queue[d][l] \o queue[c][l]
  /\ \A l \in PRIO : queue'[c][l] = <<>>
  /\ \A x \in CPUS, l \in LISTS : (x # c /\ x # d) \/ l \notin PRIO
       => queue'[x][l] = queue[x][l]

\* That is what the assignments of takeover_tasklets amount to.
LEMMA TakeoverEffect ==
  ASSUME QueueType, NEW c \in CPUS, NEW d \in CPUS, c # d,
         queue' = [queue EXCEPT
           ![d] = [l \in LISTS |-> IF l \in PRIO THEN @[l] \o queue[c][l] ELSE @[l]],
           ![c] = [l \in LISTS |-> IF l \in PRIO THEN <<>> ELSE @[l]]]
  PROVE  QueueType' /\ ListsMoved(c, d)
<1>1. PRIO \subseteq LISTS
  BY Zenon DEF PRIO, LISTS
<1>2. ListsMoved(c, d)
  BY Zenon, <1>1 DEF QueueType, ListsMoved
<1>3. \A l \in PRIO : queue[d][l] \o queue[c][l] \in Seq(TASKLETS)
  BY <1>1 DEF QueueType
<1>4. [l \in LISTS |-> IF l \in PRIO THEN queue[d][l] \o queue[c][l] ELSE queue[d][l]]
        \in [LISTS -> Seq(TASKLETS)]
  BY <1>3, Zenon DEF QueueType
<1>5. [l \in LISTS |-> IF l \in PRIO THEN <<>> ELSE queue[c][l]]
        \in [LISTS -> Seq(TASKLETS)]
  BY DEF QueueType
<1>6. QueueType'
  BY <1>4, <1>5, Zenon DEF QueueType
<1> QED
  BY <1>2, <1>6, Zenon

\* takeover_tasklets moves the lists of a dead CPU and loses nothing.
LEMMA TakeoverLinks ==
  ASSUME QueueType, QueueType', UniqueLinks, NEW c \in CPUS, NEW d \in CPUS, c # d,
         ListsMoved(c, d)
  PROVE  /\ UniqueLinks'
         /\ \A u \in TASKLETS : Linked(u)' <=> Linked(u)
<1>1. PRIO \subseteq LISTS
  BY Zenon DEF PRIO, LISTS
<1>4. ASSUME NEW l \in PRIO
      PROVE
        /\ Len(queue[d][l]) \in Nat /\ Len(queue[c][l]) \in Nat
        /\ DOMAIN queue[d][l] = 1..Len(queue[d][l])
        /\ DOMAIN queue[c][l] = 1..Len(queue[c][l])
        /\ DOMAIN queue'[d][l] = 1..(Len(queue[d][l]) + Len(queue[c][l]))
        /\ \A i \in 1..Len(queue[d][l]) : queue'[d][l][i] = queue[d][l][i]
        /\ \A i \in 1..Len(queue[c][l]) :
             queue'[d][l][Len(queue[d][l]) + i] = queue[c][l][i]
        /\ DOMAIN queue'[c][l] = {}
  <2>1. queue[d][l] \in Seq(TASKLETS) /\ queue[c][l] \in Seq(TASKLETS)
    BY <1>1, Zenon DEF QueueType
  <2>2. queue'[d][l] = queue[d][l] \o queue[c][l] /\ queue'[c][l] = <<>>
    BY Zenon DEF ListsMoved
  <2> DEFINE r == queue[d][l]
             s == queue[c][l]
  <2>3. /\ Len(r) \in Nat /\ Len(s) \in Nat
        /\ DOMAIN r = 1..Len(r) /\ DOMAIN s = 1..Len(s)
        /\ DOMAIN (r \o s) = 1..(Len(r) + Len(s))
        /\ \A i \in 1..Len(r) : (r \o s)[i] = r[i]
        /\ \A i \in 1..Len(s) : (r \o s)[Len(r) + i] = s[i]
    <3>1. r \in Seq(TASKLETS) /\ s \in Seq(TASKLETS)
      BY <2>1, Zenon
    <3> HIDE DEF r, s
    <3> QED
      BY <3>1, ConcatEntries
  <2>4. DOMAIN queue'[c][l] = {}
    BY <2>2
  <2> QED
    BY <2>2, <2>3, <2>4, Zenon
\* The place an entry of the new lists had before.
<1> DEFINE Moved(x, l, i) == x = d /\ l \in PRIO /\ i > Len(queue[d][l])
           OldCpu(x, l, i) == IF Moved(x, l, i) THEN c ELSE x
           OldIdx(x, l, i) == IF Moved(x, l, i) THEN i - Len(queue[d][l]) ELSE i
<1>5. ASSUME NEW x \in CPUS, NEW l \in LISTS, NEW i \in DOMAIN queue'[x][l]
      PROVE  /\ OldCpu(x, l, i) \in CPUS
             /\ OldIdx(x, l, i) \in DOMAIN queue[OldCpu(x, l, i)][l]
             /\ queue'[x][l][i] = queue[OldCpu(x, l, i)][l][OldIdx(x, l, i)]
             /\ i \in Nat
             /\ l \in PRIO => x # c
  <2>1. queue'[x][l] \in Seq(TASKLETS) /\ i \in Nat
    BY DEF QueueType
  <2>2. CASE l \notin PRIO \/ (x # c /\ x # d)
    <3>1. queue'[x][l] = queue[x][l] /\ ~Moved(x, l, i)
      BY <2>2, Zenon DEF ListsMoved
    <3> QED
      BY <2>1, <2>2, <3>1, Zenon
  <2>3. CASE l \in PRIO /\ x = c
    BY <1>4, <2>3, Zenon
  <2>4. CASE l \in PRIO /\ x = d
    <3> DEFINE n == Len(queue[d][l])
               p == Len(queue[c][l])
    <3>1. n \in Nat /\ p \in Nat /\ DOMAIN queue'[d][l] = 1..(n + p)
      BY <1>4, <2>4, Zenon
    <3>2. CASE i \in 1..n
      <4>1. ~Moved(x, l, i)
        BY <3>1, <3>2
      <4>2. i \in DOMAIN queue[d][l] /\ queue'[d][l][i] = queue[d][l][i]
        BY <1>4, <2>4, <3>2, Zenon
      <4> QED
        BY <2>1, <2>4, <4>1, <4>2, Zenon
    <3>3. CASE i - n \in 1..p
      <4>1. Moved(x, l, i) /\ n + (i - n) = i
        BY <2>1, <2>4, <3>1, <3>3
      <4>2. /\ i - n \in DOMAIN queue[c][l]
            /\ queue'[d][l][n + (i - n)] = queue[c][l][i - n]
        BY <1>4, <2>4, <3>3, Zenon
      <4> QED
        BY <2>1, <2>4, <4>1, <4>2, Zenon
    <3>4. i \in 1..n \/ i - n \in 1..p
      <4>1. i \in 1..(n + p)
        BY <2>4, <3>1, Zenon
      <4> HIDE DEF n, p
      <4> QED
        BY <3>1, <4>1
    <3> QED
      BY <3>2, <3>3, <3>4, Zenon
  <2> QED
    BY Zenon, <2>2, <2>3, <2>4
<1>6. UniqueLinks'
  <2> SUFFICES ASSUME NEW x \in CPUS, NEW y \in CPUS, NEW l \in LISTS, NEW m \in LISTS,
                      NEW i \in DOMAIN queue'[x][l], NEW j \in DOMAIN queue'[y][m],
                      queue'[x][l][i] = queue'[y][m][j]
               PROVE  x = y /\ l = m /\ i = j
    BY Zenon DEF UniqueLinks
  <2>1. OldCpu(x, l, i) = OldCpu(y, m, j) /\ l = m /\ OldIdx(x, l, i) = OldIdx(y, m, j)
    <3> HIDE DEF OldCpu, OldIdx
    <3> QED
      BY <1>5 DEF UniqueLinks
  <2>2. i \in Nat /\ j \in Nat /\ (l \in PRIO => x # c /\ y # c)
    BY <1>5, <2>1, Zenon
  <2> QED
    BY <1>4, <2>1, <2>2
<1>7. ASSUME NEW u \in TASKLETS PROVE Linked(u)' <=> Linked(u)
  <2>1. ASSUME Linked(u)' PROVE Linked(u)
    <3> HIDE DEF OldCpu, OldIdx
    <3> QED
      BY <2>1, <1>5 DEF Linked
  <2>2. ASSUME Linked(u) PROVE Linked(u)'
    <3>1. PICK x \in CPUS, l \in LISTS :
            \E i \in DOMAIN queue[x][l] : queue[x][l][i] = u
      BY <2>2, Zenon DEF Linked
    <3>2. PICK i \in DOMAIN queue[x][l] : queue[x][l][i] = u
      BY <3>1, Zenon
    <3>3. CASE l \notin PRIO \/ (x # c /\ x # d)
      <4>1. queue'[x][l] = queue[x][l]
        BY <3>3, Zenon DEF ListsMoved
      <4> QED
        BY <3>1, <4>1, Zenon DEF Linked
    <3>4. CASE l \in PRIO /\ x = d
      <4>0. /\ Len(queue[d][l]) \in Nat /\ Len(queue[c][l]) \in Nat
            /\ i \in 1..Len(queue[d][l])
            /\ queue'[d][l][i] = queue[d][l][i]
            /\ DOMAIN queue'[d][l] = 1..(Len(queue[d][l]) + Len(queue[c][l]))
        BY Zenon, <1>4, <3>2, <3>4
      <4> DEFINE n == Len(queue[d][l])
                 p == Len(queue[c][l])
      <4>a. i \in 1..(n + p)
        <5>1. n \in Nat /\ p \in Nat /\ i \in 1..n
          BY <4>0, Zenon
        <5> HIDE DEF n, p
        <5> QED
          BY <5>1
      <4>1. i \in DOMAIN queue'[d][l] /\ queue'[d][l][i] = u
        BY <4>0, <4>a, <3>2, <3>4, Zenon
      <4> QED
        BY <4>1, Zenon DEF Linked
    <3>5. CASE l \in PRIO /\ x = c
      <4>0. /\ Len(queue[d][l]) \in Nat /\ Len(queue[c][l]) \in Nat
            /\ i \in 1..Len(queue[c][l])
            /\ queue'[d][l][Len(queue[d][l]) + i] = queue[c][l][i]
            /\ DOMAIN queue'[d][l] = 1..(Len(queue[d][l]) + Len(queue[c][l]))
        BY <1>4, <3>2, <3>5, Zenon
      <4> DEFINE n == Len(queue[d][l])
                 p == Len(queue[c][l])
      <4>a. n + i \in 1..(n + p)
        <5>1. n \in Nat /\ p \in Nat /\ i \in 1..p
          BY <4>0, Zenon
        <5> HIDE DEF n, p
        <5> QED
          BY <5>1
      <4>1. n + i \in DOMAIN queue'[d][l] /\ queue'[d][l][n + i] = u
        BY <4>0, <4>a, <3>2, <3>5, Zenon
      <4> QED
        BY <4>1, Zenon DEF Linked
    <3> QED
      BY <3>3, <3>4, <3>5, Zenon
  <2> QED
    BY <2>1, <2>2, Zenon
<1> QED
  BY <1>6, <1>7, Zenon

\* i is the only place of t in q.
OnlyAt(q, t, i) ==
  i \in DOMAIN q /\ q[i] = t /\ \A j \in DOMAIN q : q[j] = t => j = i

\* Unlinking the only occurrence of t shifts the entries behind it.
LEMMA UnlinkEntries ==
  ASSUME NEW T, NEW q \in Seq(T), NEW t, NEW i \in Nat, OnlyAt(q, t, i)
  PROVE  /\ Unlink(q, t) \in Seq(T)
         /\ DOMAIN Unlink(q, t) = 1..(Len(q) - 1)
         /\ \A j \in 1..(Len(q) - 1) :
              Unlink(q, t)[j] = IF j < i THEN q[j] ELSE q[j + 1]
<1> DEFINE First(j) == q[j] = t /\ \A m \in 1..(j-1) : q[m] # t
<1>1. Len(q) \in Nat /\ DOMAIN q = 1..Len(q) /\ i \in 1..Len(q)
      /\ 1 <= i /\ i <= Len(q)
  BY DEF OnlyAt
<1>2. First(i)
  <2>1. \A m \in 1..(i-1) : m \in DOMAIN q /\ m # i
    BY <1>1
  <2> QED
    BY <2>1, Zenon DEF OnlyAt
<1>3. (CHOOSE j \in DOMAIN q : First(j)) = i
  BY <1>2, Zenon DEF OnlyAt
<1>4. Unlink(q, t) = SubSeq(q, 1, i - 1) \o SubSeq(q, i + 1, Len(q))
  BY <1>3, Zenon DEF Unlink
<1> DEFINE r == SubSeq(q, 1, i - 1)
           s == SubSeq(q, i + 1, Len(q))
<1>5. /\ r \in Seq(T) /\ Len(r) = i - 1
      /\ \A j \in 1..(i - 1) : r[j] = q[j]
  BY <1>1
<1>6. /\ s \in Seq(T) /\ Len(s) = Len(q) - i
      /\ \A j \in 1..(Len(q) - i) : s[j] = q[i + j]
  <2> DEFINE m == i + 1
             n == Len(q)
  <2>1. m \in Int /\ n \in Int /\ \A j \in m..n : q[j] \in T
    BY <1>1
  <2>2. /\ SubSeq(q, m, n) \in Seq(T)
        /\ Len(SubSeq(q, m, n)) = IF m <= n THEN n - m + 1 ELSE 0
        /\ \A j \in 1..(n - m + 1) : SubSeq(q, m, n)[j] = q[m + j - 1]
    <3> HIDE DEF m, n
    <3> QED
      BY <2>1
  <2>3. /\ n - m + 1 = n - i
        /\ ~(m <= n) => n - i = 0
        /\ \A j \in 1..(n - i) : m + j - 1 = i + j
    <3>1. n \in Nat /\ i <= n
      BY <1>1, Zenon
    <3> HIDE DEF n
    <3> QED
      BY <3>1
  <2> QED
    BY Zenon, <2>2, <2>3
<1> HIDE DEF r, s
<1>7. /\ r \o s \in Seq(T)
      /\ DOMAIN (r \o s) = 1..(Len(r) + Len(s))
      /\ \A j \in 1..Len(r) : (r \o s)[j] = r[j]
      /\ \A j \in 1..Len(s) : (r \o s)[Len(r) + j] = s[j]
  <2>1. r \in Seq(T) /\ s \in Seq(T)
    BY <1>5, <1>6, Zenon
  <2> QED
    BY <2>1, ConcatEntries
<1>8. ASSUME NEW j \in 1..(Len(q) - 1)
      PROVE  (r \o s)[j] = IF j < i THEN q[j] ELSE q[j + 1]
  <2>1. CASE j < i
    <3>1. j \in 1..(i - 1)
      BY <1>1, <2>1
    <3> QED
      BY <1>5, <1>7, <2>1, <3>1, Zenon
  <2>2. CASE ~(j < i)
    <3>1. /\ j - (i - 1) \in 1..(Len(q) - i)
          /\ (i - 1) + (j - (i - 1)) = j /\ i + (j - (i - 1)) = j + 1
      BY <1>1, <2>2
    <3>2. (r \o s)[(i - 1) + (j - (i - 1))] = s[j - (i - 1)]
      BY <1>5, <1>6, <1>7, <3>1, Zenon
    <3>3. s[j - (i - 1)] = q[i + (j - (i - 1))]
      BY <1>6, <3>1, Zenon
    <3> QED
      BY <2>2, <3>1, <3>2, <3>3, Zenon
  <2> QED
    BY <2>1, <2>2, Zenon
<1>9. Len(r) + Len(s) = Len(q) - 1
  BY <1>1, <1>5, <1>6
<1> QED
  BY <1>4, <1>7, <1>8, <1>9, Zenon DEF r, s

\* The removal in tasklet_kill_immediate unlinks that tasklet only.
LEMMA UnlinkLinks ==
  ASSUME QueueType, UniqueLinks, NEW c \in CPUS, NEW t \in TASKLETS,
         \E i \in DOMAIN queue[c]["TASKLET"] : queue[c]["TASKLET"][i] = t,
         queue' = [queue EXCEPT ![c]["TASKLET"] = Unlink(queue[c]["TASKLET"], t)]
  PROVE  /\ QueueType'
         /\ UniqueLinks'
         /\ \A u \in TASKLETS : Linked(u)' <=> Linked(u) /\ u # t
         /\ \A d \in CPUS, m \in LISTS : d # c \/ m # "TASKLET"
              => queue'[d][m] = queue[d][m]
<1> DEFINE q == queue[c]["TASKLET"]
           r == Unlink(q, t)
<1>1. "TASKLET" \in LISTS
  BY Zenon DEF PRIO, LISTS
<1>2. PICK k \in DOMAIN q : q[k] = t
  BY Zenon
<1>3. \A j \in DOMAIN q : q[j] = t => j = k
  BY <1>1, <1>2 DEF UniqueLinks
<1>4. q \in Seq(TASKLETS) /\ Len(q) \in Nat /\ DOMAIN q = 1..Len(q) /\ k \in 1..Len(q)
  BY <1>1, <1>2 DEF QueueType
<1>5. /\ r \in Seq(TASKLETS)
      /\ DOMAIN r = 1..(Len(q) - 1)
      /\ \A j \in 1..(Len(q) - 1) : r[j] = IF j < k THEN q[j] ELSE q[j + 1]
  <2>1. q \in Seq(TASKLETS) /\ k \in Nat /\ OnlyAt(q, t, k)
    BY <1>2, <1>3, <1>4 DEF OnlyAt
  <2> HIDE DEF q
  <2> QED
    BY <2>1, UnlinkEntries, Zenon
<1>6. /\ queue'[c]["TASKLET"] = r
      /\ \A d \in CPUS, m \in LISTS : d # c \/ m # "TASKLET"
           => queue'[d][m] = queue[d][m]
  BY <1>1, Zenon DEF QueueType
<1>7. QueueType'
  <2> HIDE DEF r
  <2> QED
    BY <1>1, <1>5, Zenon DEF QueueType, r
\* The index an entry of the new lists had before.
<1> DEFINE Here(d, l) == d = c /\ l = "TASKLET"
           Old(d, l, i) == IF Here(d, l) /\ ~(i < k) THEN i + 1 ELSE i
<1>8. ASSUME NEW d \in CPUS, NEW l \in LISTS, NEW i \in DOMAIN queue'[d][l]
      PROVE  /\ Old(d, l, i) \in DOMAIN queue[d][l]
             /\ queue'[d][l][i] = queue[d][l][Old(d, l, i)]
             /\ i \in Nat
             /\ Here(d, l) => Old(d, l, i) # k
  <2>1. i \in Nat
    BY <1>7 DEF QueueType
  <2>2. CASE Here(d, l)
    <3> HIDE DEF r
    <3>1. i \in 1..(Len(q) - 1) /\ r[i] = IF i < k THEN q[i] ELSE q[i + 1]
      BY <1>5, <1>6, <2>2, Zenon
    <3>2. Old(d, l, i) \in 1..Len(q) /\ Old(d, l, i) # k
      <4> HIDE DEF q
      <4> QED
        BY <1>4, <2>1, <2>2, <3>1
    <3> QED
      BY <1>4, <1>6, <2>1, <2>2, <3>1, <3>2, Zenon
  <2>3. CASE ~Here(d, l)
    BY <1>6, <2>1, <2>3, Zenon
  <2> QED
    BY <2>2, <2>3, Zenon
<1>9. UniqueLinks'
  <2> SUFFICES ASSUME NEW d \in CPUS, NEW e \in CPUS, NEW l \in LISTS, NEW m \in LISTS,
                      NEW i \in DOMAIN queue'[d][l], NEW j \in DOMAIN queue'[e][m],
                      queue'[d][l][i] = queue'[e][m][j]
               PROVE  d = e /\ l = m /\ i = j
    BY Zenon DEF UniqueLinks
  <2>1. d = e /\ l = m /\ Old(d, l, i) = Old(e, m, j)
    <3> HIDE DEF Old
    <3> QED
      BY <1>8 DEF UniqueLinks
  <2>2. i \in Nat /\ j \in Nat /\ k \in Nat
    BY <1>4, <1>8
  <2> QED
    BY <2>1, <2>2
<1>10. ASSUME NEW u \in TASKLETS PROVE Linked(u)' <=> Linked(u) /\ u # t
  <2>1. ASSUME Linked(u)' PROVE Linked(u) /\ u # t
    <3>0. PICK d \in CPUS, l \in LISTS :
            \E i \in DOMAIN queue'[d][l] : queue'[d][l][i] = u
      BY <2>1, Zenon DEF Linked
    <3>1. PICK i \in DOMAIN queue'[d][l] : queue'[d][l][i] = u
      BY <3>0, Zenon
    <3>2. /\ Old(d, l, i) \in DOMAIN queue[d][l]
          /\ queue[d][l][Old(d, l, i)] = u
          /\ Here(d, l) => Old(d, l, i) # k
      BY <1>8, <3>1
    <3> HIDE DEF Old
    <3>3. Linked(u)
      BY <3>2, Zenon DEF Linked
    <3>4. u # t
      BY <1>1, <1>2, <3>2 DEF UniqueLinks
    <3> QED
      BY <3>3, <3>4, Zenon
  <2>2. ASSUME Linked(u), u # t PROVE Linked(u)'
    <3>0. PICK d \in CPUS, l \in LISTS :
            \E i \in DOMAIN queue[d][l] : queue[d][l][i] = u
      BY <2>2, Zenon DEF Linked
    <3>1. PICK i \in DOMAIN queue[d][l] : queue[d][l][i] = u
      BY <3>0, Zenon
    <3>2. CASE Here(d, l)
      <4> DEFINE n == IF i < k THEN i ELSE i - 1
      <4>1. /\ i \in Nat /\ i # k /\ n \in 1..(Len(q) - 1)
            /\ (n < k => n = i) /\ (~(n < k) => n + 1 = i)
        BY <1>2, <1>4, <2>2, <3>1, <3>2
      <4>2. r[n] = u
        <5> HIDE DEF n, r
        <5> QED
          BY <1>5, <3>1, <3>2, <4>1, Zenon
      <4>3. n \in DOMAIN queue'[c]["TASKLET"] /\ queue'[c]["TASKLET"][n] = u
        <5> HIDE DEF n, r
        <5> QED
          BY <1>5, <1>6, <4>1, <4>2, Zenon
      <4> QED
        BY <1>1, <4>3, Zenon DEF Linked
    <3>3. CASE ~Here(d, l)
      <4>1. queue'[d][l] = queue[d][l]
        BY <1>6, <3>3, Zenon
      <4> QED
        BY <3>1, <4>1, Zenon DEF Linked
    <3> QED
      BY <3>2, <3>3, Zenon
  <2> QED
    BY <2>1, <2>2, Zenon
<1> QED
  BY <1>6, <1>7, <1>9, <1>10, Zenon

-----------------------------------------------------------------------------

(* Types *)

\* The initial state is typed.
LEMMA InitType == Init => TypeOK /\ ArgOK
  BY ContextAssumption DEF Init, TypeOK, ArgOK, CTX, CpuPC, TaskPC, PRIO, LISTS, Busy

\* The disable count of a tasklet some caller has disabled is positive.
LEMMA CountPositive ==
  ASSUME TypeOK, ArgOK, DisableInv, NEW k \in TASKS,
         pc[k] \in {"nosync", "disable_wait", "disabled"}
  PROVE  count[arg[k]] \in Nat \ {0}
<1>1. arg[k] \in TASKLETS /\ k \in Disablers(arg[k])
  BY Zenon DEF ArgOK, Disablers
<1>2. IsFiniteSet(Disablers(arg[k]))
  BY FS_Subset, ContextAssumption, Zenon DEF Disablers
<1>3. Cardinality(Disablers(arg[k])) \in Nat \ {0}
  BY <1>1, <1>2, FS_EmptySet, FS_CardinalityType, Zenon
<1> QED
  BY <1>1, <1>3, Zenon DEF DisableInv

\* AppendAndRaise by a context that holds the tasklet.
LEMMA AppendAndRaiseEffect ==
  ASSUME Inv, NEW x \in CTX, Holds(x, arg[x]), arg[x] \in TASKLETS,
         NEW c \in CPUS, AppendAndRaise(c, prio[x], arg[x])
  PROVE  /\ QueueType' /\ pending' \in [CPUS -> SUBSET PRIO]
         /\ UniqueLinks'
         /\ \A u \in TASKLETS : Linked(u)' <=> Linked(u) \/ u = arg[x]
         /\ \A d \in CPUS, m \in LISTS : d # c \/ m # prio[x] => queue'[d][m] = queue[d][m]
         /\ prio[x] \in PRIO
         /\ pending'[c] = pending[c] \cup {prio[x]}
         /\ \A d \in CPUS : d # c => pending'[d] = pending[d]
<1>1. QueueType /\ UniqueLinks /\ prio[x] \in PRIO /\ pending \in [CPUS -> SUBSET PRIO]
  BY Zenon DEF Inv, TypeOK, QueueType, SchedIsToken
<1>2. ~Linked(arg[x])
  BY Zenon DEF Inv, SchedIsToken
<1>3. prio[x] \in LISTS
  BY <1>1, Zenon DEF LISTS
<1>4. queue' = [queue EXCEPT ![c][prio[x]] = Append(@, arg[x])]
  BY Zenon DEF AppendAndRaise
<1>5. /\ QueueType' /\ UniqueLinks'
      /\ \A u \in TASKLETS : Linked(u)' <=> Linked(u) \/ u = arg[x]
      /\ \A d \in CPUS, m \in LISTS : d # c \/ m # prio[x] => queue'[d][m] = queue[d][m]
  BY Zenon, <1>1, <1>2, <1>3, <1>4, AppendLinks
<1>6. pending' = [pending EXCEPT ![c] = @ \cup {prio[x]}]
  BY Zenon DEF AppendAndRaise
<1> QED
  BY <1>1, <1>5, <1>6, Zenon

\* Every step of a caller keeps the typing.
LEMMA TaskStepType ==
  ASSUME Inv, NEW k \in TASKS, TaskStep(k)
  PROVE  TypeOK' /\ ArgOK'
<1>0. TypeOK /\ ArgOK /\ DisableInv
  BY Zenon DEF Inv
<1> USE <1>0, ContextAssumption DEF TypeOK, ArgOK, CTX, CpuPC, TaskPC, Goto, Return, Busy
<1>1. CASE TestAndSetSched(k)
  <2>1. CASE sched[arg[k]]
    <3>1. sched' = [sched EXCEPT ![arg[k]] = TRUE] /\ Return(k, "idle")
      BY <1>1, <2>1, Zenon DEF TestAndSetSched
    <3>2. pc' \in [CTX -> CpuPC \cup TaskPC] /\ pc'[k] = "idle"
      BY <3>1, Zenon
    <3> QED
      BY <1>1, <3>1, <3>2, Zenon DEF TestAndSetSched, PRIO
  <2>2. CASE ~sched[arg[k]]
    BY <1>1, <2>2, Zenon DEF TestAndSetSched
  <2> QED
    BY <2>1, <2>2, Zenon
<1>2. ASSUME NEW c \in CPUS, Enqueue(k, c) PROVE TypeOK' /\ ArgOK'
  <2>1. Holds(k, arg[k]) /\ arg[k] \in TASKLETS /\ AppendAndRaise(c, prio[k], arg[k])
    BY <1>2, Zenon DEF Enqueue, Holds
  <2>2. QueueType' /\ pending' \in [CPUS -> SUBSET PRIO]
    BY <2>1, AppendAndRaiseEffect, Zenon
  <2> QED
    BY <1>2, <2>2, Zenon DEF Enqueue, PRIO, QueueType
<1>3. CASE DisableWait(k)
  BY <1>3, Zenon DEF DisableWait
<1>4. CASE Enable(k)
  <2>1. count[arg[k]] - 1 \in Nat
    BY <1>4, CountPositive DEF Enable
  <2> QED
    BY <1>4, <2>1, Zenon DEF Enable, PRIO
<1>5. CASE KillTestAndSet(k)
  BY <1>5, Zenon DEF KillTestAndSet
<1>6. CASE KillYield(k)
  BY <1>6, Zenon DEF KillYield
<1>7. CASE KillWait(k)
  BY <1>7, Zenon DEF KillWait
<1>8. CASE KillClear(k)
  BY <1>8, Zenon DEF KillClear, PRIO
<1> QED
  BY <1>1, <1>2, <1>3, <1>4, <1>5, <1>6, <1>7, <1>8, Zenon DEF TaskStep

\* So does every call.
LEMMA TaskCallType ==
  ASSUME Inv, NEW k \in TASKS, NEW t \in TASKLETS, TaskCall(k, t)
  PROVE  TypeOK' /\ ArgOK'
<1>0. TypeOK /\ ArgOK
  BY Zenon DEF Inv
<1> USE <1>0, ContextAssumption DEF TypeOK, ArgOK, CTX, CpuPC, TaskPC, Goto, Busy
<1>1. ASSUME NEW nr \in PRIO, Schedule(k, t, nr) PROVE TypeOK' /\ ArgOK'
  BY <1>1 DEF Schedule
<1>2. CASE DisableNosync(k, t)
  BY <1>2 DEF DisableNosync
<1>3. CASE Disable(k, t)
  BY <1>3 DEF Disable
<1>4. CASE Kill(k, t)
  BY <1>4 DEF Kill
<1> QED
  BY Zenon, <1>1, <1>2, <1>3, <1>4 DEF TaskCall

\* So does every step of a CPU.
LEMMA CpuStepType ==
  ASSUME Inv, NEW c \in CPUS, CpuStep(c)
  PROVE  TypeOK' /\ ArgOK'
<1>0. TypeOK /\ ArgOK /\ QueueType /\ UniqueLinks /\ IdleInv
  BY Zenon DEF Inv, TypeOK, QueueType, SchedIsToken
<1> USE <1>0, ContextAssumption DEF TypeOK, ArgOK, CTX, CpuPC, TaskPC, Goto, Busy
<1>1. CASE DoSoftirq(c)
  BY <1>1, Zenon DEF DoSoftirq
<1>2. ASSUME NEW nr \in PRIO, TakeList(c, nr) PROVE TypeOK' /\ ArgOK'
  <2>1. QueueType'
    BY <1>2, TakeLinks, Zenon DEF TakeList, IdleInv
  <2> QED
    BY Zenon, <1>2, <2>1 DEF TakeList, QueueType
<1>3. CASE SoftirqDone(c)
  BY <1>3, Zenon DEF SoftirqDone
<1>4. CASE TryLock(c)
  <2> DEFINE t == Head(queue[c]["list"])
  <2>1. t \in TASKLETS /\ QueueType'
    BY Zenon, <1>4, PopLinks DEF TryLock
  <2>2. /\ arg' = [arg EXCEPT ![c] = t]
        /\ run' = [run EXCEPT ![t] = TRUE]
        /\ pc' = [pc EXCEPT ![c] = "requeue"] \/ pc' = [pc EXCEPT ![c] = "check"]
    BY <1>4, Zenon DEF TryLock
  <2> HIDE DEF t
  <2> QED
    BY <1>4, <2>1, <2>2 DEF TryLock, QueueType
<1>5. CASE ListDone(c)
  BY <1>5, Zenon DEF ListDone, Return, PRIO
<1>6. CASE CheckCount(c)
  BY <1>6, Zenon DEF CheckCount
<1>7. CASE ClearSched(c)
  BY <1>7, Zenon DEF ClearSched
<1>8. CASE FuncReturn(c)
  BY <1>8, Zenon DEF FuncReturn
<1>9. CASE UnlockDisabled(c)
  BY <1>9, Zenon DEF UnlockDisabled
<1>10. CASE Requeue(c)
  <2>1. Holds(c, arg[c]) /\ arg[c] \in TASKLETS /\ AppendAndRaise(c, prio[c], arg[c])
    BY <1>10, Zenon DEF Requeue, Holds
  <2>2. QueueType' /\ pending' \in [CPUS -> SUBSET PRIO]
    BY <2>1, AppendAndRaiseEffect, Zenon
  <2> QED
    BY <1>10, <2>2, Zenon DEF Requeue, QueueType
<1> QED
  BY Zenon, <1>1, <1>2, <1>3, <1>4, <1>5, <1>6, <1>7, <1>8, <1>9, <1>10 DEF CpuStep

\* The lists after tasklet_kill_immediate.
LEMMA KillImmediateEffect ==
  ASSUME Inv, NEW c \in CPUS, NEW k \in TASKS, NEW t \in KILLABLE, KillImmediate(k, t, c)
  PROVE  /\ QueueType'
         /\ UniqueLinks'
         /\ \A u \in TASKLETS : Linked(u)' => Linked(u)
         /\ \A u \in TASKLETS \ {t} : Linked(u) => Linked(u)'
         /\ \A d \in CPUS, m \in LISTS : d # c \/ m # "TASKLET"
              => queue'[d][m] = queue[d][m]
         /\ queue[c]["TASKLET"] = <<>> => queue'[c]["TASKLET"] = <<>>
<1>0. QueueType /\ UniqueLinks /\ t \in TASKLETS
  BY ContextAssumption, Zenon DEF Inv, TypeOK, QueueType, SchedIsToken
<1>1. CASE UNCHANGED queue
  BY <1>0, <1>1 DEF QueueType, UniqueLinks, Linked
<1>2. CASE ~UNCHANGED queue
  <2>1. /\ \E i \in DOMAIN queue[c]["TASKLET"] : queue[c]["TASKLET"][i] = t
        /\ queue' = [queue EXCEPT ![c]["TASKLET"] = Unlink(queue[c]["TASKLET"], t)]
    BY <1>2, Zenon DEF KillImmediate
  <2>2. queue[c]["TASKLET"] # <<>>
    BY <2>1
  <2> QED
    BY <1>0, <2>1, <2>2, UnlinkLinks, Zenon
<1> QED
  BY <1>1, <1>2, Zenon

\* The lists after a takeover.
LEMMA TakeoverLists ==
  ASSUME Inv, NEW c \in CPUS, NEW d \in CPUS, Takeover(c, d)
  PROVE  /\ c # d /\ QueueType' /\ ListsMoved(c, d)
         /\ UniqueLinks'
         /\ \A u \in TASKLETS : Linked(u)' <=> Linked(u)
<1>0. QueueType /\ UniqueLinks
  BY Zenon DEF Inv, TypeOK, QueueType, SchedIsToken
<1>1. c # d
  BY Zenon DEF Takeover
<1>2. queue' = [queue EXCEPT
       ![d] = [l \in LISTS |-> IF l \in PRIO THEN @[l] \o queue[c][l] ELSE @[l]],
       ![c] = [l \in LISTS |-> IF l \in PRIO THEN <<>> ELSE @[l]]]
  BY Zenon DEF Takeover
<1>3. QueueType' /\ ListsMoved(c, d)
  BY <1>0, <1>1, <1>2, TakeoverEffect, Zenon
<1> QED
  BY <1>0, <1>1, <1>3, TakeoverLinks, Zenon

\* Hotplug keeps the typing.
LEMMA HotplugType ==
  ASSUME Inv, NEW c \in CPUS, Hotplug(c)
  PROVE  TypeOK' /\ ArgOK'
<1>0. TypeOK /\ ArgOK
  BY Zenon DEF Inv
<1> USE <1>0, ContextAssumption DEF TypeOK, ArgOK, CTX, CpuPC, TaskPC, Goto, Busy
<1>1. CASE CpuDie(c)
  BY <1>1 DEF CpuDie
<1>2. ASSUME NEW d \in CPUS, Takeover(c, d) PROVE TypeOK' /\ ArgOK'
  <2>1. QueueType'
    BY <1>2, TakeoverLists, Zenon
  <2> QED
    BY <1>2, <2>1, Zenon DEF Takeover, QueueType
<1>3. CASE CpuUp(c)
  BY <1>3, Zenon DEF CpuUp
<1>4. ASSUME NEW k \in TASKS, NEW t \in KILLABLE, KillImmediate(k, t, c)
      PROVE TypeOK' /\ ArgOK'
  <2>1. QueueType'
    BY <1>4, KillImmediateEffect, Zenon
  <2>2. pc' = pc \/ pc' = [pc EXCEPT ![k] = "bug"]
    BY <1>4, Zenon DEF KillImmediate
  <2>3. /\ UNCHANGED <<sched, run, count, pending, todo, cpustate, arg, prio, scheds>>
        /\ stops' \in 0..MaxStop
    BY <1>4 DEF KillImmediate
  <2> QED
    BY <2>1, <2>2, <2>3, Zenon DEF QueueType
<1> QED
  BY Zenon, <1>1, <1>2, <1>3, <1>4 DEF Hotplug

-----------------------------------------------------------------------------
(* What a step leaves alone. *)

\* A caller's step changes no CPU's control, no RUN bit and no hotplug state.
LEMMA TaskFrame ==
  ASSUME Inv, NEW k \in TASKS, TaskStep(k) \/ \E t \in TASKLETS : TaskCall(k, t)
  PROVE  /\ \A x \in CTX \ {k} : pc'[x] = pc[x] /\ arg'[x] = arg[x]
         /\ \A c \in CPUS : pc'[c] = pc[c] /\ arg'[c] = arg[c]
         /\ run' = run /\ todo' = todo /\ cpustate' = cpustate
<1>1. \A x \in CTX \ {k} : pc'[x] = pc[x] /\ arg'[x] = arg[x]
  BY Zenon DEF Inv, TypeOK, TaskStep, TaskCall, TestAndSetSched, Enqueue, DisableWait, Enable,
     KillTestAndSet, KillYield, KillWait, KillClear, Schedule, DisableNosync, Disable,
     Kill, Goto, Return
<1>2. run' = run /\ todo' = todo /\ cpustate' = cpustate
  BY Zenon DEF TaskStep, TaskCall, TestAndSetSched, Enqueue, DisableWait, Enable,
     KillTestAndSet, KillYield, KillWait, KillClear, Schedule, DisableNosync, Disable, Kill
<1> QED
  BY <1>1, <1>2, ContextAssumption, Zenon DEF CTX

\* A CPU's step changes no other context's control, no count, no hotplug state.
LEMMA CpuFrame ==
  ASSUME Inv, NEW c \in CPUS, CpuStep(c)
  PROVE  /\ \A x \in CTX \ {c} : pc'[x] = pc[x] /\ arg'[x] = arg[x]
         /\ \A k \in TASKS : pc'[k] = pc[k] /\ arg'[k] = arg[k]
         /\ count' = count /\ cpustate' = cpustate
<1>1. \A x \in CTX \ {c} : pc'[x] = pc[x] /\ arg'[x] = arg[x]
  BY Zenon DEF Inv, TypeOK, CpuStep, DoSoftirq, TakeList, SoftirqDone, TryLock, ListDone,
     CheckCount, ClearSched, FuncReturn, UnlockDisabled, Requeue, Goto, Return
<1>2. count' = count /\ cpustate' = cpustate
  BY Zenon DEF CpuStep, DoSoftirq, TakeList, SoftirqDone, TryLock, ListDone,
     CheckCount, ClearSched, FuncReturn, UnlockDisabled, Requeue
<1> QED
  BY <1>1, <1>2, ContextAssumption, Zenon DEF CTX

\* Hotplug changes no bit, no count and no CPU's control; a caller may only
\* stop in BUG().
LEMMA HotplugFrame ==
  ASSUME Inv, NEW c \in CPUS, Hotplug(c)
  PROVE  /\ sched' = sched /\ run' = run /\ count' = count /\ arg' = arg /\ todo' = todo
         /\ \A d \in CPUS : pc'[d] = pc[d]
         /\ \A x \in CTX : pc'[x] = pc[x] \/ (pc'[x] = "bug" /\ pc[x] = "idle")
<1>1. sched' = sched /\ run' = run /\ count' = count /\ arg' = arg /\ todo' = todo
  BY Zenon DEF Hotplug, CpuDie, Takeover, CpuUp, KillImmediate
<1>2. pc' = pc \/ \E k \in TASKS : pc[k] = "idle" /\ pc' = [pc EXCEPT ![k] = "bug"]
  BY Zenon DEF Hotplug, CpuDie, Takeover, CpuUp, KillImmediate, Goto
<1> QED
  BY <1>1, <1>2, ContextAssumption, Zenon DEF Inv, TypeOK, CTX

-----------------------------------------------------------------------------
(* RUN is a lock. *)

\* The RUN bit of a tasklet belongs to at most one CPU after any step.
LEMMA LockStep ==
  ASSUME Inv, Next
  PROVE  RunIsLock'
<1>0. TypeOK /\ ArgOK /\ RunIsLock
  BY Zenon DEF Inv
<1>1. ASSUME NEW k \in TASKS, TaskStep(k) \/ \E t \in TASKLETS : TaskCall(k, t)
      PROVE  RunIsLock'
  <2>1. run' = run /\ \A c \in CPUS : pc'[c] = pc[c] /\ arg'[c] = arg[c]
    BY <1>1, TaskFrame, Zenon
  <2> QED
    BY <1>0, <2>1 DEF RunIsLock, Locked
<1>2. ASSUME NEW c \in CPUS, Hotplug(c) PROVE RunIsLock'
  <2>1. run' = run /\ arg' = arg /\ \A d \in CPUS : pc'[d] = pc[d]
    BY <1>2, HotplugFrame, Zenon
  <2> QED
    BY <1>0, <2>1, Zenon DEF RunIsLock, Locked
<1>3. ASSUME NEW c \in CPUS, CpuStep(c) PROVE RunIsLock'
  <2>0. \A d \in CPUS \ {c} : pc'[d] = pc[d] /\ arg'[d] = arg[d]
    BY <1>3, CpuFrame, Zenon DEF CTX
  <2>a. /\ run \in [TASKLETS -> BOOLEAN] /\ pc \in [CTX -> CpuPC \cup TaskPC]
        /\ arg \in [CTX -> TASKLETS \cup {NULL}] /\ c \in CTX
        /\ \A d \in CPUS : Locked(d) => arg[d] \in TASKLETS
    BY <1>0, Zenon DEF TypeOK, ArgOK, CTX, Locked, Busy
  <2>1. CASE DoSoftirq(c) \/ (\E nr \in PRIO : TakeList(c, nr)) \/ SoftirqDone(c)
             \/ ListDone(c) \/ Requeue(c)
    <3>1. run' = run
      BY <2>1, Zenon DEF DoSoftirq, TakeList, SoftirqDone, ListDone, Requeue
    <3>2. pc'[c] \in {"dispatch", "next", "idle"}
      BY <2>1, <2>a, Zenon DEF DoSoftirq, TakeList, SoftirqDone, ListDone, Requeue, Return, Goto
    <3>3. ~Locked(c)'
      BY <3>2, Zenon DEF Locked
    <3> QED
      BY <1>0, <2>0, <3>1, <3>3 DEF RunIsLock, Locked
  <2>2. CASE TryLock(c)
    <3> DEFINE t == Head(queue[c]["list"])
    <3>1. t \in TASKLETS
      <4>1. QueueType /\ UniqueLinks
        BY <1>0, Zenon DEF Inv, TypeOK, QueueType, SchedIsToken
      <4> QED
        BY <2>2, <4>1, PopLinks, Zenon DEF TryLock
    <3>2. /\ arg'[c] = t
          /\ run' = [run EXCEPT ![t] = TRUE]
          /\ pc'[c] = IF run[t] THEN "requeue" ELSE "check"
      BY <2>2, <2>a, Zenon DEF TryLock, Goto
    <3> HIDE DEF t
    <3>3. \A u \in TASKLETS : run[u] => run'[u]
      BY <3>1, <3>2, <2>a, Zenon
    <3>4. CASE run[t]
      <4>1. ~Locked(c)'
        BY <3>2, <3>4, Zenon DEF Locked
      <4> QED
        BY <1>0, <2>0, <2>a, <3>3, <4>1 DEF RunIsLock, Locked
    <3>5. CASE ~run[t]
      <4>1. run'[t] /\ \A d \in CPUS : Locked(d) => arg[d] # t
        BY <1>0, <2>a, <3>1, <3>2, <3>5, Zenon DEF RunIsLock
      <4>2. \A d \in CPUS \ {c} : Locked(d)' <=> Locked(d)
        BY <2>0, Zenon DEF Locked
      <4> QED
        BY <1>0, <2>0, <2>a, <3>2, <3>3, <4>1, <4>2, Zenon DEF RunIsLock
    <3> QED
      BY <3>4, <3>5, Zenon
  <2>3. CASE CheckCount(c) \/ ClearSched(c)
    <3>1. run' = run /\ arg' = arg
      BY <2>3, Zenon DEF CheckCount, ClearSched
    <3>2. Locked(c)' => Locked(c)
      BY <2>3, Zenon DEF CheckCount, ClearSched, Locked
    <3> QED
      BY <1>0, <2>0, <3>1, <3>2, Zenon DEF RunIsLock, Locked
  <2>4. CASE FuncReturn(c) \/ UnlockDisabled(c)
    <3>1. run' = [run EXCEPT ![arg[c]] = FALSE] /\ arg' = arg /\ Locked(c)
      BY <2>4, Zenon DEF FuncReturn, UnlockDisabled, Locked
    <3>2. ~Locked(c)'
      BY <2>4, <2>a, Zenon DEF FuncReturn, UnlockDisabled, Locked, Goto
    <3>3. \A d \in CPUS \ {c} : Locked(d) => arg[d] # arg[c] /\ run'[arg[d]] = run[arg[d]]
      BY <1>0, <2>a, <3>1, Zenon DEF RunIsLock
    <3>4. \A d \in CPUS \ {c} : Locked(d)' <=> Locked(d)
      BY <2>0, Zenon DEF Locked
    <3> QED
      BY <1>0, <2>0, <3>1, <3>2, <3>3, <3>4, Zenon DEF RunIsLock
  <2> QED
    BY <1>3, <2>1, <2>2, <2>3, <2>4, Zenon DEF CpuStep
<1> QED
  BY <1>1, <1>2, <1>3, Zenon DEF Next

-----------------------------------------------------------------------------
(* SCHED is a token. *)

\* Lists that do not change link the same tasklets.
LEMMA SameQueue ==
  ASSUME UNCHANGED queue
  PROVE  /\ UniqueLinks <=> UniqueLinks'
         /\ \A u \in TASKLETS : Linked(u)' <=> Linked(u)
  BY DEF UniqueLinks, Linked

\* A step in which nobody takes or gives up a token and no list changes.
LEMMA TokenStutter ==
  ASSUME Inv, UNCHANGED <<queue, sched>>,
         \A x \in CTX, u \in TASKLETS : Holds(x, u)' <=> Holds(x, u)
  PROVE  SchedIsToken'
<1>1. /\ UniqueLinks <=> UniqueLinks'
      /\ \A u \in TASKLETS : Linked(u)' <=> Linked(u)
  BY SameQueue, Zenon
<1> QED
  BY <1>1, Zenon DEF Inv, SchedIsToken

\* The owner x of the token of t passes it on by linking t.
LEMMA TokenLink ==
  ASSUME Inv, NEW x \in CTX, NEW t \in TASKLETS, Holds(x, t), UNCHANGED sched,
         UniqueLinks',
         \A u \in TASKLETS : Linked(u)' <=> Linked(u) \/ u = t,
         \A u \in TASKLETS : ~Holds(x, u)',
         \A y \in CTX \ {x}, u \in TASKLETS : Holds(y, u)' <=> Holds(y, u)
  PROVE  SchedIsToken'
<1>1. SchedIsToken
  BY Zenon DEF Inv
<1>2. \A u \in TASKLETS \ {t} : ~Holds(x, u)
  BY Zenon DEF Holds
<1>3. \A y \in CTX, u \in TASKLETS : Holds(y, u)' <=> y # x /\ Holds(y, u)
  BY Zenon
<1>4. \A y \in CTX : ~Holds(y, t)'
  BY <1>1, <1>3, Zenon DEF SchedIsToken
<1> QED
  BY <1>1, <1>2, <1>3, <1>4, Zenon DEF SchedIsToken

\* Context x sets the clear SCHED bit of t and now owns the token.
LEMMA TokenTake ==
  ASSUME Inv, NEW x \in CTX, NEW t \in TASKLETS, ~sched[t],
         sched' = [sched EXCEPT ![t] = TRUE], UNCHANGED queue,
         \A u \in TASKLETS : Holds(x, u)' <=> u = t,
         \A u \in TASKLETS : ~Holds(x, u),
         \A y \in CTX \ {x}, u \in TASKLETS : Holds(y, u)' <=> Holds(y, u)
  PROVE  SchedIsToken'
<1>1. SchedIsToken /\ sched \in [TASKLETS -> BOOLEAN]
  BY Zenon DEF Inv, TypeOK
<1>2. /\ UniqueLinks <=> UniqueLinks'
      /\ \A u \in TASKLETS : Linked(u)' <=> Linked(u)
  BY SameQueue, Zenon
<1>3. ~Linked(t) /\ \A y \in CTX : ~Holds(y, t)
  BY <1>1, Zenon DEF SchedIsToken
<1>4. sched'[t] /\ \A u \in TASKLETS \ {t} : sched'[u] = sched[u]
  BY <1>1, Zenon
<1>5. \A y \in CTX, u \in TASKLETS \ {t} : Holds(y, u)' <=> Holds(y, u)
  BY Zenon
<1>6. \A y \in CTX : Holds(y, t)' <=> y = x
  BY <1>3, Zenon
<1> QED
  BY <1>1, <1>2, <1>3, <1>4, <1>5, <1>6, Zenon DEF SchedIsToken

\* The owner x clears the SCHED bit of t.
LEMMA TokenDrop ==
  ASSUME Inv, NEW x \in CTX, NEW t \in TASKLETS, Holds(x, t),
         sched' = [sched EXCEPT ![t] = FALSE], UNCHANGED queue,
         \A u \in TASKLETS : ~Holds(x, u)',
         \A y \in CTX \ {x}, u \in TASKLETS : Holds(y, u)' <=> Holds(y, u)
  PROVE  SchedIsToken'
<1>1. SchedIsToken /\ sched \in [TASKLETS -> BOOLEAN]
  BY Zenon DEF Inv, TypeOK
<1>2. /\ UniqueLinks <=> UniqueLinks'
      /\ \A u \in TASKLETS : Linked(u)' <=> Linked(u)
  BY SameQueue, Zenon
<1>3. ~Linked(t) /\ \A y \in CTX : ~Holds(y, t)'
  BY <1>1, Zenon DEF SchedIsToken
<1>4. ~sched'[t] /\ \A u \in TASKLETS \ {t} : sched'[u] = sched[u]
  BY <1>1, Zenon
<1>5. \A y \in CTX, u \in TASKLETS \ {t} : Holds(y, u)' <=> Holds(y, u)
  BY Zenon DEF Holds
<1> QED
  BY <1>1, <1>2, <1>3, <1>4, <1>5 DEF SchedIsToken

\* Context x takes t off a list and owns the token from then on.
LEMMA TokenUnlink ==
  ASSUME Inv, NEW x \in CTX, NEW t \in TASKLETS, Linked(t), UNCHANGED sched,
         UniqueLinks',
         \A u \in TASKLETS : Linked(u)' <=> Linked(u) /\ u # t,
         \A u \in TASKLETS : Holds(x, u)' <=> u = t,
         \A u \in TASKLETS : ~Holds(x, u),
         \A y \in CTX \ {x}, u \in TASKLETS : Holds(y, u)' <=> Holds(y, u)
  PROVE  SchedIsToken'
<1>1. SchedIsToken
  BY Zenon DEF Inv
<1>2. sched[t] /\ \A y \in CTX : ~Holds(y, t)
  BY <1>1, Zenon DEF SchedIsToken
<1>3. \A y \in CTX, u \in TASKLETS \ {t} : Holds(y, u)' <=> Holds(y, u)
  BY Zenon
<1>4. \A y \in CTX : Holds(y, t)' <=> y = x
  BY <1>2, Zenon
<1> QED
  BY <1>1, <1>2, <1>3, <1>4 DEF SchedIsToken

\* A caller's steps and calls keep SCHED a token.
LEMMA TaskToken ==
  ASSUME Inv, NEW k \in TASKS, TaskStep(k) \/ \E t \in TASKLETS : TaskCall(k, t)
  PROVE  SchedIsToken'
<1>0. /\ k \in CTX /\ pc \in [CTX -> CpuPC \cup TaskPC]
      /\ arg \in [CTX -> TASKLETS \cup {NULL}]
      /\ pc[k] \notin {"idle", "bug"} => arg[k] \in TASKLETS
      /\ sched \in [TASKLETS -> BOOLEAN]
  BY Zenon DEF Inv, TypeOK, ArgOK, CTX
<1>1. \A y \in CTX \ {k}, u \in TASKLETS : Holds(y, u)' <=> Holds(y, u)
  BY TaskFrame, Zenon DEF Holds
<1>2. CASE TestAndSetSched(k)
  <2>1. CASE sched[arg[k]]
    <3>1. sched' = sched /\ queue' = queue /\ pc'[k] = "idle" /\ pc[k] = "schedule"
      BY <1>0, <1>2, <2>1, Zenon DEF TestAndSetSched, Return, Goto
    <3>2. \A u \in TASKLETS : Holds(k, u)' <=> Holds(k, u)
      BY <3>1, Zenon DEF Holds
    <3> QED
      BY <1>1, <3>1, <3>2, TokenStutter, Zenon
  <2>2. CASE ~sched[arg[k]]
    <3>1. /\ sched' = [sched EXCEPT ![arg[k]] = TRUE] /\ queue' = queue
          /\ pc'[k] = "enqueue" /\ pc[k] = "schedule" /\ arg' = arg
      BY <1>0, <1>2, <2>2, Zenon DEF TestAndSetSched, Goto
    <3>2. \A u \in TASKLETS : (Holds(k, u)' <=> u = arg[k]) /\ ~Holds(k, u)
      BY <3>1, Zenon DEF Holds
    <3> QED
      BY <1>0, <1>1, <2>2, <3>1, <3>2, TokenTake, Zenon
  <2> QED
    BY <2>1, <2>2, Zenon
<1>3. ASSUME NEW c \in CPUS, Enqueue(k, c) PROVE SchedIsToken'
  <2>1. /\ pc[k] = "enqueue" /\ pc'[k] = "idle" /\ sched' = sched
        /\ AppendAndRaise(c, prio[k], arg[k])
    BY <1>0, <1>3, Zenon DEF Enqueue, Return, Goto
  <2>2. Holds(k, arg[k]) /\ arg[k] \in TASKLETS
    BY <1>0, <2>1, Zenon DEF Holds
  <2>3. UniqueLinks' /\ \A u \in TASKLETS : Linked(u)' <=> Linked(u) \/ u = arg[k]
    BY <1>0, <2>1, <2>2, AppendAndRaiseEffect, Zenon
  <2>4. \A u \in TASKLETS : ~Holds(k, u)'
    BY <2>1, Zenon DEF Holds
  <2> QED
    BY <1>0, <1>1, <2>1, <2>2, <2>3, <2>4, TokenLink, Zenon
<1>4. CASE KillTestAndSet(k)
  <2>0. queue' = queue /\ arg' = arg /\ pc[k] = "kill"
        /\ sched' = [sched EXCEPT ![arg[k]] = TRUE]
        /\ pc'[k] = IF sched[arg[k]] THEN "kill_yield" ELSE "kill_wait"
    BY <1>0, <1>4, Zenon DEF KillTestAndSet, Goto
  <2>1. CASE sched[arg[k]]
    <3>1. sched' = sched /\ \A u \in TASKLETS : Holds(k, u)' <=> Holds(k, u)
      BY <1>0, <2>0, <2>1, Zenon DEF Holds
    <3> QED
      BY <1>1, <2>0, <3>1, TokenStutter, Zenon
  <2>2. CASE ~sched[arg[k]]
    <3>2. \A u \in TASKLETS : (Holds(k, u)' <=> u = arg[k]) /\ ~Holds(k, u)
      BY <2>0, <2>2, Zenon DEF Holds
    <3> QED
      BY <1>0, <1>1, <2>0, <2>2, <3>2, TokenTake, Zenon
  <2> QED
    BY <2>1, <2>2, Zenon
<1>5. CASE KillClear(k)
  <2>1. /\ pc[k] = "kill_clear" /\ pc'[k] = "idle" /\ queue' = queue
        /\ sched' = [sched EXCEPT ![arg[k]] = FALSE]
    BY <1>0, <1>5, Zenon DEF KillClear, Return, Goto
  <2>2. Holds(k, arg[k]) /\ arg[k] \in TASKLETS /\ \A u \in TASKLETS : ~Holds(k, u)'
    BY <1>0, <2>1, Zenon DEF Holds
  <2> QED
    BY Zenon, <1>0, <1>1, <2>1, <2>2, TokenDrop
<1>6. CASE KillWait(k)
  <2>1. /\ pc[k] = "kill_wait" /\ pc'[k] = "kill_clear" /\ arg' = arg
        /\ queue' = queue /\ sched' = sched
    BY <1>0, <1>6, Zenon DEF KillWait, Goto
  <2>2. \A u \in TASKLETS : Holds(k, u)' <=> Holds(k, u)
    BY <2>1, Zenon DEF Holds
  <2> QED
    BY <1>1, <2>1, <2>2, TokenStutter, Zenon
<1>7. CASE DisableWait(k) \/ Enable(k) \/ KillYield(k) \/ \E t \in TASKLETS : TaskCall(k, t)
  <2>1. /\ pc[k] \in {"idle", "nosync", "disable_wait", "disabled", "kill_yield"}
        /\ queue' = queue /\ sched' = sched
    BY Zenon, <1>7 DEF DisableWait, Enable, KillYield, TaskCall, Schedule, DisableNosync,
       Disable, Kill
  <2>2. pc'[k] \in {"idle", "disabled", "kill", "schedule", "nosync", "disable_wait"}
    BY <1>0, <1>7, Zenon DEF DisableWait, Enable, KillYield, TaskCall, Schedule, DisableNosync,
       Disable, Kill, Goto, Return
  <2>3. \A u \in TASKLETS : Holds(k, u)' <=> Holds(k, u)
    BY <2>1, <2>2, Zenon DEF Holds
  <2> QED
    BY <1>1, <2>1, <2>3, TokenStutter, Zenon
<1> QED
  BY <1>2, <1>3, <1>4, <1>5, <1>6, <1>7, Zenon DEF TaskStep

\* A CPU's steps keep SCHED a token and do not reach BUG().
LEMMA CpuToken ==
  ASSUME Inv, NEW c \in CPUS, CpuStep(c)
  PROVE  SchedIsToken' /\ pc'[c] # "bug"
<1>0. /\ c \in CTX /\ pc \in [CTX -> CpuPC \cup TaskPC]
      /\ arg \in [CTX -> TASKLETS \cup {NULL}]
      /\ pc[c] \in Busy => arg[c] \in TASKLETS
      /\ sched \in [TASKLETS -> BOOLEAN]
      /\ QueueType /\ UniqueLinks
  BY Zenon DEF Inv, TypeOK, ArgOK, CTX, QueueType, SchedIsToken
<1>1. \A y \in CTX \ {c}, u \in TASKLETS : Holds(y, u)' <=> Holds(y, u)
  BY CpuFrame, Zenon DEF Holds
<1>2. CASE DoSoftirq(c) \/ SoftirqDone(c) \/ ListDone(c) \/ FuncReturn(c)
  <2>1. pc[c] \in {"idle", "dispatch", "next", "func"} /\ queue' = queue /\ sched' = sched
    BY <1>2, Zenon DEF DoSoftirq, SoftirqDone, ListDone, FuncReturn
  <2>2. pc'[c] \in {"idle", "dispatch", "next"}
    BY <1>0, <1>2, Zenon DEF DoSoftirq, SoftirqDone, ListDone, FuncReturn, Goto, Return
  <2>3. \A u \in TASKLETS : Holds(c, u)' <=> Holds(c, u)
    BY <2>1, <2>2, Zenon DEF Holds
  <2> QED
    BY <1>1, <2>1, <2>2, <2>3, TokenStutter, Zenon
<1>3. ASSUME NEW nr \in PRIO, TakeList(c, nr) PROVE SchedIsToken' /\ pc'[c] # "bug"
  <2>1. pc[c] = "dispatch" /\ pc'[c] = "next" /\ sched' = sched
    BY <1>0, <1>3, Zenon DEF TakeList, Goto
  <2>2. UniqueLinks' /\ \A u \in TASKLETS : Linked(u)' <=> Linked(u)
    <3>1. queue[c]["list"] = <<>>
      BY <2>1, Zenon DEF Inv, IdleInv
    <3> QED
      BY Zenon, <1>0, <1>3, <3>1, TakeLinks DEF TakeList
  <2>3. \A y \in CTX, u \in TASKLETS : Holds(y, u)' <=> Holds(y, u)
    BY <1>1, <2>1, Zenon DEF Holds
  <2> QED
    BY <2>1, <2>2, <2>3, Zenon DEF Inv, SchedIsToken
<1>4. CASE TryLock(c)
  <2> DEFINE t == Head(queue[c]["list"])
  <2>1. /\ t \in TASKLETS /\ Linked(t) /\ UniqueLinks'
        /\ \A u \in TASKLETS : Linked(u)' <=> Linked(u) /\ u # t
    BY <1>0, <1>4, PopLinks, Zenon DEF TryLock
  <2>2. /\ pc[c] = "next" /\ pc'[c] \in {"requeue", "check"} /\ arg'[c] = t
        /\ sched' = sched
    BY <1>0, <1>4, Zenon DEF TryLock, Goto
  <2> HIDE DEF t
  <2>3. \A u \in TASKLETS : (Holds(c, u)' <=> u = t) /\ ~Holds(c, u)
    BY <2>2, Zenon DEF Holds
  <2> QED
    BY <1>0, <1>1, <2>1, <2>2, <2>3, TokenUnlink, Zenon
<1>5. CASE CheckCount(c) \/ UnlockDisabled(c)
  <2>1. /\ pc[c] \in {"check", "unlock_requeue"} /\ arg' = arg
        /\ pc'[c] \in {"clear", "unlock_requeue", "requeue"}
        /\ queue' = queue /\ sched' = sched
    BY <1>0, <1>5, Zenon DEF CheckCount, UnlockDisabled, Goto
  <2>2. \A u \in TASKLETS : Holds(c, u)' <=> Holds(c, u)
    BY <2>1, Zenon DEF Holds
  <2> QED
    BY <1>1, <2>1, <2>2, TokenStutter, Zenon
<1>6. CASE ClearSched(c)
  <2>1. /\ pc[c] = "clear" /\ queue' = queue
        /\ sched' = [sched EXCEPT ![arg[c]] = FALSE]
        /\ pc'[c] = IF sched[arg[c]] THEN "func" ELSE "bug"
    BY <1>0, <1>6, Zenon DEF ClearSched, Goto
  <2>2. Holds(c, arg[c]) /\ arg[c] \in TASKLETS
    BY <1>0, <2>1, Zenon DEF Holds, Busy
  <2>3. sched[arg[c]]
    BY <1>0, <2>2, Zenon DEF Inv, SchedIsToken
  <2>4. pc'[c] = "func" /\ \A u \in TASKLETS : ~Holds(c, u)'
    BY <2>1, <2>3, Zenon DEF Holds
  <2> QED
    BY <1>0, <1>1, <2>1, <2>2, <2>4, TokenDrop, Zenon
<1>7. CASE Requeue(c)
  <2>1. /\ pc[c] = "requeue" /\ pc'[c] = "next" /\ sched' = sched
        /\ AppendAndRaise(c, prio[c], arg[c])
    BY <1>0, <1>7, Zenon DEF Requeue, Goto
  <2>2. Holds(c, arg[c]) /\ arg[c] \in TASKLETS
    BY <1>0, <2>1, Zenon DEF Holds, Busy
  <2>3. UniqueLinks' /\ \A u \in TASKLETS : Linked(u)' <=> Linked(u) \/ u = arg[c]
    BY <1>0, <2>1, <2>2, AppendAndRaiseEffect, Zenon
  <2>4. \A u \in TASKLETS : ~Holds(c, u)'
    BY <2>1, Zenon DEF Holds
  <2> QED
    BY Zenon, <1>0, <1>1, <2>1, <2>2, <2>3, <2>4, TokenLink
<1> QED
  BY <1>2, <1>3, <1>4, <1>5, <1>6, <1>7, Zenon DEF CpuStep

\* Hotplug keeps SCHED a token.
LEMMA HotplugToken ==
  ASSUME Inv, NEW c \in CPUS, Hotplug(c)
  PROVE  SchedIsToken'
<1>0. SchedIsToken
  BY Zenon DEF Inv
<1>1. /\ sched' = sched
      /\ \A x \in CTX, u \in TASKLETS : Holds(x, u)' <=> Holds(x, u)
  BY HotplugFrame, Zenon DEF Holds
<1>2. CASE CpuDie(c) \/ CpuUp(c)
  <2>1. queue' = queue
    BY <1>2, Zenon DEF CpuDie, CpuUp
  <2> QED
    BY <1>1, <2>1, TokenStutter, Zenon
<1>3. ASSUME NEW d \in CPUS, Takeover(c, d) PROVE SchedIsToken'
  <2>1. UniqueLinks' /\ \A u \in TASKLETS : Linked(u)' <=> Linked(u)
    BY <1>3, TakeoverLists, Zenon
  <2> QED
    BY <1>0, <1>1, <2>1, Zenon DEF SchedIsToken
<1>4. ASSUME NEW k \in TASKS, NEW t \in KILLABLE, KillImmediate(k, t, c)
      PROVE SchedIsToken'
  <2>1. /\ UniqueLinks'
        /\ \A u \in TASKLETS : Linked(u)' => Linked(u)
        /\ \A u \in TASKLETS \ KILLABLE : Linked(u) => Linked(u)'
    BY Zenon, <1>4, KillImmediateEffect
  <2> QED
    BY <1>0, <1>1, <2>1, Zenon DEF SchedIsToken
<1> QED
  BY <1>2, <1>3, <1>4, Zenon DEF Hotplug

=============================================================================
