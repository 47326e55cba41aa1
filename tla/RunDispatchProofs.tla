------------------------- MODULE RunDispatchProofs -------------------------
(***************************************************************************)
(* Proofs about RunDispatch, for any number of slots, skills, fixtures and *)
(* runs: the slot counter counts, the queue and the entries agree, runs    *)
(* start in order, no fixture has two active runs, a sweep counts only     *)
(* fixtures that were run, and all this implements RunPool. And of         *)
(* Publishing, for any doors, contents, targets and bounds: versions keep  *)
(* their content, and the journal says of them and of the targets what is  *)
(* there, once.                                                            *)
(***************************************************************************)
EXTENDS RunDispatch, Publishing, FiniteSetTheorems, SequenceTheorems, TLAPS

\* How many of the accepted runs have left the queue.
Begun == Len(keys) - Len(queue)

\* A queue that holds the runs after b, in order.
InOrder(q, b) == \A i \in 1..Len(q) : q[i] = b + i

\* The queue is the tail of the accepted runs, in order; the runs before it
\* have started, and those in it all have their entry.
QueueIsTail ==
    /\ queue \in Seq(Nat)
    /\ Len(queue) <= Len(keys)
    /\ InOrder(queue, Begun)
    /\ started = 1..Begun
    /\ (Begun + 1)..Len(keys) \subseteq entries

DispatcherType ==
    /\ keys \in Seq(Key)
    /\ entries \in SUBSET Accepted
    /\ executing \in SUBSET started
    /\ running \in 0..MaxConcurrent

DispatcherInv ==
    /\ DispatcherType
    /\ QueueIsTail
    /\ running = Cardinality(entries \intersect started)
    /\ NoIdleSlot
    /\ OneActivePerFixture

SweepType ==
    /\ awaits \in [Skills -> Accepted \union {NoSweep}]
    /\ completed \in [Skills -> Nat]
    /\ sweptFrom \in [Skills -> 0..Len(keys)]

\* A skill's active runs are all younger than its last sweep, because the
\* sweep was refused while one was active.
EntriesSinceSweep ==
    \A s \in Skills : \A r \in entries : keys[r][1] = s => r > sweptFrom[s]

\* The run a sweep awaits is of the fixture after those it has counted.
AwaitsNext ==
    \A s \in Skills : awaits[s] # NoSweep =>
        /\ awaits[s] > sweptFrom[s]
        /\ keys[awaits[s]] = <<s, completed[s] + 1>>
        /\ completed[s] + 1 <= Cases[s]

SweepInv ==
    /\ SweepType
    /\ EntriesSinceSweep
    /\ AwaitsNext
    /\ SweepCountsRealRuns

IndInv == DispatcherInv /\ SweepInv
-----------------------------------------------------------------------------
\* What the invariants the runs check owe to the inductive one.
LEMMA InvariantSuffices ==
    ASSUME IndInv
    PROVE  /\ TypeOK
           /\ SlotsAccounted
           /\ EntriesAccounted
           /\ StartsInOrder
<1> USE DEF IndInv, DispatcherInv, DispatcherType, QueueIsTail, InOrder, Begun
<1>1. started \in SUBSET Accepted /\ queue \in Seq(Accepted)
  <2>1. Len(keys) \in Nat /\ Len(queue) \in Nat
    OBVIOUS
  <2>2. started \in SUBSET Accepted
    BY <2>1 DEF Accepted
  <2>3. \A i \in 1..Len(queue) : queue[i] \in Accepted
    BY <2>1 DEF Accepted
  <2>4. QED
    BY <2>2, <2>3
<1>2. TypeOK
  BY <1>1 DEF TypeOK, SweepInv, SweepType
<1>3. SlotsAccounted
  BY ConstantsAssumption DEF SlotsAccounted
<1>4. EntriesAccounted
  <2>1. ASSUME NEW i \in 1..Len(queue)
        PROVE  queue[i] \in entries \ started
    <3>1. queue[i] = Begun + i /\ Begun + i \in (Begun + 1)..Len(keys)
      OBVIOUS
    <3>2. Begun + i \in entries
      BY <3>1
    <3>3. Begun + i \notin started
      <4>1. Begun \in Nat /\ i \in Nat /\ i > 0
        OBVIOUS
      <4>2. QED
        BY <4>1
    <3>4. QED
      BY <3>1, <3>2, <3>3
  <2>2. ASSUME NEW r \in entries \ started
        PROVE  \E i \in 1..Len(queue) : queue[i] = r
    <3>1. r \in (Begun + 1)..Len(keys)
      BY DEF Accepted
    <3>2. r - Begun \in 1..Len(queue) /\ queue[r - Begun] = r
      BY <3>1
    <3>3. QED
      BY <3>2
  <2>3. {queue[i] : i \in 1..Len(queue)} = entries \ started
    BY <2>1, <2>2
  <2>4. QED
    BY <2>3 DEF EntriesAccounted
<1>5. StartsInOrder
  BY DEF StartsInOrder, Accepted
<1>6. QED
  BY <1>2, <1>3, <1>4, <1>5
-----------------------------------------------------------------------------
\* The outcome of a pump that starts the n runs after b: the rest stays in
\* order and, if there is a rest, no slot is free.
Pumped(n, q, taken, unsettled, b) ==
    /\ n <= Len(q)
    /\ queue' \in Seq(Nat)
    /\ Len(queue') = Len(q) - n
    /\ InOrder(queue', b + n)
    /\ running' = taken + n
    /\ running' \in 0..MaxConcurrent
    /\ queue' # <<>> => running' = MaxConcurrent
    /\ started' = 1..(b + n)
    /\ executing' = unsettled \union ((b + 1)..(b + n))

\* pump starts the first runs of an ordered queue, as many as there are free
\* slots, and leaves the rest in order.
LEMMA PumpEffect ==
    ASSUME NEW q \in Seq(Nat), NEW taken \in 0..MaxConcurrent, NEW unsettled,
           NEW b \in Nat, started = 1..b, InOrder(q, b),
           Pump(q, taken, unsettled)
    PROVE  \E n \in Nat : Pumped(n, q, taken, unsettled, b)
<1> USE DEF InOrder
<1> DEFINE free == MaxConcurrent - taken
           n == IF Len(q) <= free THEN Len(q) ELSE free
<1>1. MaxConcurrent \in Nat /\ Len(q) \in Nat /\ free \in Nat
  BY ConstantsAssumption
<1>2. n \in Nat /\ n <= Len(q) /\ taken + n \in 0..MaxConcurrent
  BY <1>1
<1>3. /\ queue' = SubSeq(q, n + 1, Len(q))
      /\ running' = taken + n
      /\ started' = started \union First(q, n)
      /\ executing' = unsettled \union First(q, n)
  BY DEF Pump, Free
<1> HIDE DEF n
<1>4. /\ queue' \in Seq(Nat)
      /\ Len(queue') = Len(q) - n
      /\ \A i \in 1..Len(queue') : queue'[i] = q[n + i]
  <2>1. \A i \in (n + 1)..Len(q) : q[i] \in Nat
    BY <1>1, <1>2
  <2>2. QED
    BY <1>1, <1>2, <1>3, <2>1, SubSeqProperties
<1>5. First(q, n) = (b + 1)..(b + n)
  <2>1. \A i \in 1..n : q[i] = b + i
    BY <1>1, <1>2
  <2>2. ASSUME NEW r \in (b + 1)..(b + n)
        PROVE  r \in First(q, n)
    <3>1. r - b \in 1..n /\ q[r - b] = r
      BY <1>1, <1>2, <2>1
    <3>2. QED
      BY <3>1 DEF First
  <2>3. ASSUME NEW r \in First(q, n)
        PROVE  r \in (b + 1)..(b + n)
    BY <1>1, <1>2, <2>1 DEF First
  <2>4. QED
    BY <2>2, <2>3
<1>6. \A i \in 1..Len(queue') : queue'[i] = b + n + i
  BY <1>1, <1>2, <1>4
<1>7. queue' # <<>> => running' = MaxConcurrent
  <2>1. queue' # <<>> => Len(queue') # 0
    BY <1>4
  <2>2. QED
    BY <2>1, <1>1, <1>3, <1>4 DEF n
<1>8. started' = 1..(b + n)
  BY <1>1, <1>2, <1>3, <1>5
<1>9. QED
  BY <1>2, <1>3, <1>4, <1>5, <1>6, <1>7, <1>8 DEF Pumped

\* Starting the n runs after b, which all have entries, takes n slots.
LEMMA SlotsTaken ==
    ASSUME NEW S, IsFiniteSet(S), NEW b \in Nat, NEW n \in Nat,
           (b + 1)..(b + n) \subseteq S
    PROVE  Cardinality(S \intersect (1..(b + n)))
               = Cardinality(S \intersect (1..b)) + n
<1> DEFINE old == S \intersect (1..b)
           new == (b + 1)..(b + n)
<1>1. S \intersect (1..(b + n)) = old \union new
  <2>1. 1..(b + n) = (1..b) \union new
    OBVIOUS
  <2>2. QED
    BY <2>1
<1>2. old \intersect new = {}
  OBVIOUS
<1>3. IsFiniteSet(old) /\ IsFiniteSet(new) /\ Cardinality(new) = n
  <2>1. IsFiniteSet(old)
    BY FS_Subset
  <2>2. IsFiniteSet(new) /\ Cardinality(new) = n
    BY FS_Interval
  <2>3. QED
    BY <2>1, <2>2
<1>4. Cardinality(old) \in Nat /\ Cardinality(old \intersect new) = 0
  BY <1>2, <1>3, FS_CardinalityType, FS_EmptySet
<1>5. Cardinality(old \union new) = Cardinality(old) + Cardinality(new) - 0
  BY <1>3, <1>4, FS_Union
<1>6. Cardinality(old \union new) = Cardinality(old) + n
  <2> HIDE DEF old, new
  <2>1. QED
    BY <1>3, <1>4, <1>5
<1>7. QED
  BY <1>1, <1>6
-----------------------------------------------------------------------------
\* The entries can be counted.
LEMMA EntriesFinite ==
    ASSUME DispatcherType
    PROVE  IsFiniteSet(entries)
<1>1. IsFiniteSet(1..Len(keys))
  BY FS_Interval DEF DispatcherType
<1>2. QED
  BY <1>1, FS_Subset DEF DispatcherType, Accepted

\* The accepted runs stay what they were, and a new entry is a new run.
Grows ==
    /\ Len(keys) <= Len(keys')
    /\ \A r \in Accepted : keys'[r] = keys[r]
    /\ \A r \in entries' : r \in entries \/ r > Len(keys)

\* dispatch of a fixture without an active run preserves the invariant.
LEMMA DispatchPreserves ==
    ASSUME DispatcherInv, NEW k \in Key, Dispatch(k)
    PROVE  DispatcherInv' /\ Grows
<1> DEFINE r == Len(keys) + 1
           b == Begun
           q == Append(queue, r)
<1>1. /\ ~IsActive(k)
      /\ keys' = Append(keys, k)
      /\ entries' = entries \union {r}
      /\ Pump(q, running, executing)
  BY DEF Dispatch
<1>2. /\ keys \in Seq(Key) /\ queue \in Seq(Nat)
      /\ Len(keys) \in Nat /\ Len(queue) \in Nat /\ b \in Nat
      /\ b = Len(keys) - Len(queue)
      /\ started = 1..b
      /\ running \in 0..MaxConcurrent
      /\ entries \subseteq 1..Len(keys)
      /\ executing \subseteq started
      /\ r \in Nat /\ r = Len(keys) + 1
  BY DEF DispatcherInv, DispatcherType, QueueIsTail, Begun, Accepted
<1>3. /\ keys' \in Seq(Key) /\ Len(keys') = Len(keys) + 1 /\ keys'[r] = k
      /\ \A p \in 1..Len(keys) : keys'[p] = keys[p]
  BY <1>1, <1>2
<1>4. q \in Seq(Nat) /\ Len(q) = Len(queue) + 1 /\ InOrder(q, b)
  <2>1. /\ q \in Seq(Nat) /\ Len(q) = Len(queue) + 1
        /\ q[Len(queue) + 1] = r
        /\ \A i \in 1..Len(queue) : q[i] = queue[i]
    <3>1. queue \in Seq(Nat) /\ r \in Nat
      BY <1>2
    <3>2. QED
      BY <3>1, AppendProperties, Zenon
  <2>2. \A i \in 1..Len(queue) : q[i] = b + i
    BY <2>1 DEF DispatcherInv, QueueIsTail, InOrder
  <2>3. r = b + Len(q)
    BY <1>2, <2>1
  <2> HIDE DEF q, b, r
  <2>4. ASSUME NEW i \in 1..Len(q)
        PROVE  q[i] = b + i
    <3>1. CASE i = Len(queue) + 1
      BY <1>2, <2>1, <2>3, <3>1
    <3>2. CASE i # Len(queue) + 1
      BY <1>2, <2>1, <2>2, <3>2
    <3>3. QED
      BY <3>1, <3>2
  <2>5. QED
    BY <2>1, <2>4 DEF InOrder
<1> HIDE DEF q, b, r
<1>5. PICK n \in Nat : Pumped(n, q, running, executing, b)
  BY <1>1, <1>2, <1>4, PumpEffect
<1> USE DEF Pumped
<1>6. Begun' = b + n /\ Len(queue') <= Len(keys') /\ b + n <= Len(keys')
  <2>1. n \in Nat /\ n <= Len(queue) + 1 /\ Len(queue') = Len(queue) + 1 - n
    BY <1>4, <1>5
  <2>2. QED
    BY <1>2, <1>3, <2>1 DEF Begun
<1>7. (b + 1)..Len(keys') \subseteq entries'
  <2>1. (b + 1)..Len(keys) \subseteq entries
    BY DEF DispatcherInv, QueueIsTail, b
  <2>2. (b + 1)..Len(keys') = ((b + 1)..Len(keys)) \union {r}
    BY <1>2, <1>3
  <2>3. QED
    BY <1>1, <2>1, <2>2
<1>8. DispatcherType'
  <2>1. entries' \in SUBSET (Accepted')
    <3>1. r \in 1..Len(keys') /\ 1..Len(keys) \subseteq 1..Len(keys')
      BY <1>2, <1>3 DEF r
    <3>2. QED
      BY <1>1, <1>2, <3>1 DEF Accepted
  <2>2. executing' \in SUBSET started'
    <3>1. 1..b \subseteq 1..(b + n) /\ (b + 1)..(b + n) \subseteq 1..(b + n)
      BY <1>2
    <3>2. QED
      BY <1>2, <1>5, <3>1
  <2>3. QED
    BY <1>3, <1>5, <2>1, <2>2 DEF DispatcherType
<1>9. QueueIsTail'
  <2>1. (Begun' + 1)..Len(keys') \subseteq entries'
    BY <1>2, <1>3, <1>5, <1>6, <1>7
  <2>2. QED
    BY <1>5, <1>6, <2>1 DEF QueueIsTail
<1>10. running' = Cardinality(entries' \intersect started')
  <2>1. IsFiniteSet(entries')
    <3>1. IsFiniteSet(entries)
      BY EntriesFinite DEF DispatcherInv
    <3>2. QED
      BY <1>1, <3>1, FS_AddElement
  <2>2. (b + 1)..(b + n) \subseteq entries'
    BY <1>2, <1>3, <1>5, <1>6, <1>7
  <2>3. Cardinality(entries' \intersect started')
            = Cardinality(entries' \intersect (1..b)) + n
    <3>1. Cardinality(entries' \intersect (1..(b + n)))
              = Cardinality(entries' \intersect (1..b)) + n
      <4>1. b \in Nat /\ n \in Nat
        BY <1>2, <1>5
      <4>2. QED
        BY <2>1, <2>2, <4>1, SlotsTaken, Zenon
    <3>2. QED
      BY <1>5, <3>1
  <2>4. entries' \intersect (1..b) = entries \intersect started
    BY <1>1, <1>2
  <2>5. QED
    BY <1>5, <2>3, <2>4 DEF DispatcherInv
<1>11. NoIdleSlot'
  BY <1>5 DEF NoIdleSlot
<1>12. OneActivePerFixture'
  <2>1. \A p \in entries : keys'[p] = keys[p] /\ keys'[p] # k
    BY <1>1, <1>2, <1>3 DEF IsActive
  <2>2. \A p, o \in entries : keys[p] = keys[o] => p = o
    BY DEF OneActivePerFixture, DispatcherInv
  <2>3. ASSUME NEW p \in entries', NEW o \in entries', keys'[p] = keys'[o]
        PROVE  p = o
    <3>1. (p \in entries \/ p = r) /\ (o \in entries \/ o = r)
      BY <1>1
    <3>2. QED
      BY <1>3, <2>1, <2>2, <2>3, <3>1
  <2>4. QED
    BY <2>3 DEF OneActivePerFixture
<1>13. Grows
  BY <1>1, <1>2, <1>3 DEF Grows, Accepted
<1>14. QED
  BY <1>8, <1>9, <1>10, <1>11, <1>12, <1>13 DEF DispatcherInv

\* release preserves the invariant, the first time for a run and any other.
LEMMA ReleasePreserves ==
    ASSUME DispatcherInv, NEW r, NEW unsettled \in SUBSET started,
           Release(r, unsettled), UNCHANGED keys
    PROVE  DispatcherInv' /\ Grows
<1> DEFINE b == Begun
<1>1. /\ keys \in Seq(Key) /\ queue \in Seq(Nat)
      /\ Len(keys) \in Nat /\ Len(queue) \in Nat /\ b \in Nat
      /\ b = Len(keys) - Len(queue)
      /\ started = 1..b
      /\ running \in 0..MaxConcurrent
      /\ entries \subseteq 1..Len(keys)
      /\ InOrder(queue, b)
      /\ (b + 1)..Len(keys) \subseteq entries
  BY DEF InOrder, DispatcherInv, DispatcherType, QueueIsTail, Begun, Accepted
<1> HIDE DEF b
<1>2. CASE ~Releasable(r)
  <2>1. executing' = unsettled /\ UNCHANGED <<entries, queue, running, started>>
    BY <1>2 DEF Release
  <2>2. DispatcherType'
    BY <2>1 DEF DispatcherInv, DispatcherType, Accepted
  <2>3. QueueIsTail'
    BY <2>1 DEF DispatcherInv, QueueIsTail, Begun
  <2>4. NoIdleSlot' /\ OneActivePerFixture'
    BY <2>1 DEF DispatcherInv, NoIdleSlot, OneActivePerFixture
  <2>5. Grows
    BY <1>1, <2>1 DEF Grows, Accepted
  <2>6. QED
    BY <2>1, <2>2, <2>3, <2>4, <2>5 DEF DispatcherInv
<1>3. CASE Releasable(r)
  <2>1. /\ r \in entries /\ r \in started
        /\ entries' = entries \ {r}
        /\ Pump(queue, running - 1, unsettled)
    BY <1>3 DEF Release, Releasable
  <2>2. IsFiniteSet(entries) /\ IsFiniteSet(entries \intersect started)
    <3>1. IsFiniteSet(entries)
      BY EntriesFinite DEF DispatcherInv
    <3>2. entries \intersect started \in SUBSET entries
      OBVIOUS
    <3>3. QED
      BY <3>1, <3>2, FS_Subset
  <2>3. /\ Cardinality((entries \intersect started) \ {r}) = running - 1
        /\ Cardinality((entries \intersect started) \ {r}) \in Nat
    <3>1. running = Cardinality(entries \intersect started)
      BY DEF DispatcherInv
    <3>2. QED
      BY <2>1, <2>2, <3>1, FS_RemoveElement, FS_CardinalityType
  <2>4. running - 1 \in 0..MaxConcurrent
    BY <1>1, <2>3, ConstantsAssumption
  <2>5. PICK n \in Nat : Pumped(n, queue, running - 1, unsettled, b)
    BY <1>1, <2>1, <2>4, PumpEffect
  <2> USE DEF Pumped
  <2>6. Begun' = b + n /\ b + n <= Len(keys)
    BY <1>1, <2>5 DEF Begun
  <2>7. (b + 1)..Len(keys) \subseteq entries'
    BY <1>1, <2>1
  <2>8. DispatcherType'
    <3>1. executing' \in SUBSET started'
      <4>1. /\ 1..b \subseteq 1..(b + n)
            /\ (b + 1)..(b + n) \subseteq 1..(b + n)
        BY <1>1
      <4>2. QED
        BY <1>1, <2>5, <4>1
    <3>2. QED
      BY <1>1, <2>1, <2>5, <3>1 DEF DispatcherType, Accepted
  <2>9. QueueIsTail'
    <3>1. (Begun' + 1)..Len(keys') \subseteq entries'
      BY <1>1, <2>5, <2>6, <2>7
    <3>2. QED
      BY <1>1, <2>5, <2>6, <3>1 DEF QueueIsTail
  <2>10. running' = Cardinality(entries' \intersect started')
    <3>1. IsFiniteSet(entries')
      BY <2>1, <2>2, FS_Subset
    <3>2. (b + 1)..(b + n) \subseteq entries'
      BY <1>1, <2>5, <2>6, <2>7
    <3>3. Cardinality(entries' \intersect started')
              = Cardinality(entries' \intersect (1..b)) + n
      <4>1. Cardinality(entries' \intersect (1..(b + n)))
                = Cardinality(entries' \intersect (1..b)) + n
        <5>1. b \in Nat /\ n \in Nat
          BY <1>1, <2>5
        <5>2. QED
          BY <3>1, <3>2, <5>1, SlotsTaken, Zenon
      <4>2. QED
        BY <2>5, <4>1
    <3>4. entries' \intersect (1..b) = (entries \intersect started) \ {r}
      BY <1>1, <2>1
    <3>5. QED
      BY <1>1, <2>3, <2>5, <3>3, <3>4
  <2>11. NoIdleSlot' /\ OneActivePerFixture'
    BY <2>1, <2>5 DEF NoIdleSlot, OneActivePerFixture, DispatcherInv
  <2>12. Grows
    BY <1>1, <2>1 DEF Grows, Accepted
  <2>13. QED
    BY <2>8, <2>9, <2>10, <2>11, <2>12 DEF DispatcherInv
<1>4. QED
  BY <1>2, <1>3
-----------------------------------------------------------------------------
\* Active runs stay younger than the last sweep of their skill.
LEMMA EntriesStayYounger ==
    ASSUME DispatcherType, Grows, entries' \subseteq Nat,
           NEW s, NEW swept \in 0..Len(keys),
           \A r \in entries : keys[r][1] = s => r > swept
    PROVE  \A r \in entries' : keys'[r][1] = s => r > swept
<1>1. Len(keys) \in Nat
  BY DEF DispatcherType
<1>2. ASSUME NEW r \in entries', keys'[r][1] = s
      PROVE  r > swept
  <2>1. CASE r \in entries
    BY <1>2, <2>1 DEF Grows, DispatcherType
  <2>2. CASE r \notin entries
    <3>1. r > Len(keys) /\ r \in Nat
      BY <1>2, <2>2 DEF Grows
    <3>2. QED
      BY <1>1, <3>1
  <2>3. QED
    BY <2>1, <2>2
<1>3. QED
  BY <1>2

\* A fixture counted in a sweep stays counted as the runs grow.
LEMMA CountedStays ==
    ASSUME DispatcherType, Grows, keys' \in Seq(Key),
           NEW s, NEW f, NEW swept \in 0..Len(keys),
           \E r \in (swept + 1)..Len(keys) : keys[r] = <<s, f>>
    PROVE  \E r \in (swept + 1)..Len(keys') : keys'[r] = <<s, f>>
<1>1. Len(keys) \in Nat /\ Len(keys') \in Nat /\ Len(keys) <= Len(keys')
  BY DEF DispatcherType, Grows
<1>2. PICK r \in (swept + 1)..Len(keys) : keys[r] = <<s, f>>
  OBVIOUS
<1>3. keys'[r] = keys[r]
  BY <1>1 DEF Grows, Accepted
<1>4. r \in (swept + 1)..Len(keys')
  BY <1>1
<1>5. QED
  BY <1>2, <1>3, <1>4

\* What a sweep awaits stays the next fixture.
LEMMA AwaitsStays ==
    ASSUME DispatcherType, SweepType, AwaitsNext, Grows, NEW s \in Skills,
           awaits[s] # NoSweep
    PROVE  keys'[awaits[s]] = <<s, completed[s] + 1>>
<1>1. awaits[s] \in Accepted
  BY DEF SweepType
<1>2. QED
  BY <1>1 DEF Grows, AwaitsNext

\* A step that leaves the sweeps alone preserves their invariant.
LEMMA SweepsKept ==
    ASSUME IndInv, DispatcherInv', Grows, UNCHANGED sweeps
    PROVE  SweepInv'
<1>1. UNCHANGED <<awaits, completed, sweptFrom>>
  BY DEF sweeps
<1>2. /\ DispatcherType /\ SweepType /\ EntriesSinceSweep /\ AwaitsNext
      /\ SweepCountsRealRuns
      /\ Len(keys) \in Nat /\ keys' \in Seq(Key) /\ Len(keys') \in Nat
      /\ Len(keys) <= Len(keys')
      /\ entries' \subseteq Nat
  BY DEF IndInv, DispatcherInv, DispatcherType, SweepInv, Grows, Accepted
<1>3. SweepType'
  <2>1. Accepted \subseteq Accepted' /\ 0..Len(keys) \subseteq 0..Len(keys')
    BY <1>2 DEF Accepted
  <2>2. awaits' \in [Skills -> (Accepted') \union {NoSweep}]
    BY <1>1, <1>2, <2>1 DEF SweepType
  <2>3. sweptFrom' \in [Skills -> 0..Len(keys')]
    BY <1>1, <1>2, <2>1 DEF SweepType
  <2>4. QED
    BY <1>1, <1>2, <2>2, <2>3 DEF SweepType, NoSweep
<1>4. ASSUME NEW s \in Skills
      PROVE  /\ \A r \in entries' : keys'[r][1] = s => r > sweptFrom[s]
             /\ awaits[s] # NoSweep =>
                    keys'[awaits[s]] = <<s, completed[s] + 1>>
             /\ \A f \in 1..completed[s] :
                    \E r \in (sweptFrom[s] + 1)..Len(keys') : keys'[r] = <<s, f>>
  <2>1. sweptFrom[s] \in 0..Len(keys)
    BY <1>2 DEF SweepType
  <2>2. \A r \in entries' : keys'[r][1] = s => r > sweptFrom[s]
    BY <1>2, <2>1, EntriesStayYounger DEF EntriesSinceSweep
  <2>3. awaits[s] # NoSweep => keys'[awaits[s]] = <<s, completed[s] + 1>>
    BY <1>2, AwaitsStays
  <2>4. ASSUME NEW f \in 1..completed[s]
        PROVE  \E r \in (sweptFrom[s] + 1)..Len(keys') : keys'[r] = <<s, f>>
    <3>1. \E r \in (sweptFrom[s] + 1)..Len(keys) : keys[r] = <<s, f>>
      BY <1>2 DEF SweepCountsRealRuns
    <3>2. QED
      BY <1>2, <2>1, <3>1, CountedStays
  <2>5. QED
    BY <2>2, <2>3, <2>4
<1>5. EntriesSinceSweep'
  BY <1>1, <1>4 DEF EntriesSinceSweep
<1>6. AwaitsNext'
  BY <1>1, <1>2, <1>4 DEF AwaitsNext, NoSweep
<1>7. SweepCountsRealRuns'
  BY <1>1, <1>4 DEF SweepCountsRealRuns
<1>8. QED
  BY <1>3, <1>5, <1>6, <1>7 DEF SweepInv

\* A fixture of a skill is a key of the active map.
LEMMA FixtureIsKey ==
    ASSUME NEW s \in Skills, NEW f \in Fixture(s)
    PROVE  <<s, f>> \in Key
<1>1. <<s, f>> \in {s} \X Fixture(s)
  OBVIOUS
<1>2. QED
  BY <1>1 DEF Key
-----------------------------------------------------------------------------
\* The loop of a sweep preserves the invariant when it goes on behind the
\* fixtures that were counted so far, in a sweep that began at `swept`.
LEMMA SweepLoopPreserves ==
    ASSUME IndInv, NEW s \in Skills, NEW from \in 0..Cases[s],
           NEW swept \in 0..Len(keys),
           sweptFrom' = [sweptFrom EXCEPT ![s] = swept],
           \A r \in entries : keys[r][1] = s => r > swept,
           \A f \in 1..from :
               \E r \in (swept + 1)..Len(keys) : keys[r] = <<s, f>>,
           SweepLoop(s, from)
    PROVE  IndInv'
<1> DEFINE Counted(f) ==
        \E r \in (swept + 1)..Len(keys) : keys[r] = <<s, f>>
<1>1. /\ DispatcherInv /\ DispatcherType /\ SweepType /\ EntriesSinceSweep
      /\ AwaitsNext /\ SweepCountsRealRuns
      /\ Len(keys) \in Nat /\ Cases[s] \in Nat
      /\ entries \subseteq 1..Len(keys)
  BY ConstantsAssumption
     DEF IndInv, DispatcherInv, DispatcherType, SweepInv, Accepted
<1>2. ASSUME NEW f \in Fixture(s), f \notin Dispatchable(s, from)
      PROVE  Counted(f)
  <2>1. CASE f <= from
    <3>1. f \in 1..from
      BY <1>1, <2>1 DEF Fixture
    <3>2. QED
      BY <3>1
  <2>2. CASE ~(f <= from)
    <3>1. IsActive(<<s, f>>)
      BY <1>1, <1>2, <2>2 DEF Dispatchable, Fixture
    <3>2. PICK r \in entries : keys[r] = <<s, f>>
      BY <3>1 DEF IsActive
    <3>3. r > swept /\ r \in 1..Len(keys)
      BY <1>1, <3>2
    <3>4. r \in (swept + 1)..Len(keys)
      BY <1>1, <3>3
    <3>5. QED
      BY <3>2, <3>4
  <2>3. QED
    BY <2>1, <2>2
<1>3. SUFFICES
        /\ DispatcherInv' /\ Grows
        /\ \E a \in (Accepted') \union {NoSweep}, c \in Nat :
              /\ awaits' = [awaits EXCEPT ![s] = a]
              /\ completed' = [completed EXCEPT ![s] = c]
              /\ a # NoSweep => /\ a > swept
                                /\ keys'[a] = <<s, c + 1>>
                                /\ c + 1 <= Cases[s]
              /\ \A f \in 1..c : Counted(f)
  <2>1. PICK a \in (Accepted') \union {NoSweep}, c \in Nat :
              /\ awaits' = [awaits EXCEPT ![s] = a]
              /\ completed' = [completed EXCEPT ![s] = c]
              /\ a # NoSweep => /\ a > swept
                                /\ keys'[a] = <<s, c + 1>>
                                /\ c + 1 <= Cases[s]
              /\ \A f \in 1..c : Counted(f)
    BY <1>3
  <2>2. /\ keys' \in Seq(Key) /\ Len(keys') \in Nat
        /\ Len(keys) <= Len(keys') /\ entries' \subseteq Nat
        /\ 0..Len(keys) \subseteq 0..Len(keys')
        /\ Accepted \subseteq Accepted'
    BY <1>1, <1>3 DEF DispatcherInv, DispatcherType, Grows, Accepted
  <2>3. SweepType'
    <3>1. awaits' \in [Skills -> (Accepted') \union {NoSweep}]
      BY <1>1, <2>1, <2>2 DEF SweepType
    <3>2. completed' \in [Skills -> Nat]
      BY <1>1, <2>1 DEF SweepType
    <3>3. sweptFrom' \in [Skills -> 0..Len(keys')]
      BY <1>1, <2>2 DEF SweepType
    <3>4. QED
      BY <3>1, <3>2, <3>3 DEF SweepType, NoSweep
  <2>4. ASSUME NEW t \in Skills
        PROVE  /\ \A r \in entries' : keys'[r][1] = t => r > sweptFrom'[t]
               /\ awaits'[t] # NoSweep =>
                      /\ awaits'[t] > sweptFrom'[t]
                      /\ keys'[awaits'[t]] = <<t, completed'[t] + 1>>
                      /\ completed'[t] + 1 <= Cases[t]
               /\ \A f \in 1..completed'[t] :
                      \E r \in (sweptFrom'[t] + 1)..Len(keys') :
                          keys'[r] = <<t, f>>
    <3>1. CASE t = s
      <4>1. sweptFrom'[t] = swept /\ awaits'[t] = a /\ completed'[t] = c
        BY <1>1, <2>1, <3>1 DEF SweepType
      <4>2. \A r \in entries' : keys'[r][1] = t => r > swept
        BY <1>1, <1>3, <2>2, <3>1, EntriesStayYounger
      <4>3. ASSUME NEW f \in 1..c
            PROVE  \E r \in (swept + 1)..Len(keys') : keys'[r] = <<t, f>>
        <5>1. \E r \in (swept + 1)..Len(keys) : keys[r] = <<t, f>>
          BY <2>1, <3>1
        <5>2. QED
          BY <1>1, <1>3, <2>2, <5>1, CountedStays, Zenon
      <4>4. QED
        BY <2>1, <3>1, <4>1, <4>2, <4>3
    <3>2. CASE t # s
      <4>1. /\ sweptFrom'[t] = sweptFrom[t] /\ awaits'[t] = awaits[t]
            /\ completed'[t] = completed[t] /\ sweptFrom[t] \in 0..Len(keys)
        BY <1>1, <2>1, <3>2 DEF SweepType
      <4>2. \A r \in entries' : keys'[r][1] = t => r > sweptFrom[t]
        BY <1>1, <1>3, <2>2, <4>1, EntriesStayYounger DEF EntriesSinceSweep
      <4>3. awaits[t] # NoSweep =>
                /\ awaits[t] > sweptFrom[t]
                /\ keys'[awaits[t]] = <<t, completed[t] + 1>>
                /\ completed[t] + 1 <= Cases[t]
        BY <1>1, <1>3, AwaitsStays DEF AwaitsNext
      <4>4. ASSUME NEW f \in 1..completed[t]
            PROVE  \E r \in (sweptFrom[t] + 1)..Len(keys') :
                       keys'[r] = <<t, f>>
        <5>1. \E r \in (sweptFrom[t] + 1)..Len(keys) : keys[r] = <<t, f>>
          BY <1>1 DEF SweepCountsRealRuns
        <5>2. /\ DispatcherType /\ Grows /\ keys' \in Seq(Key)
              /\ sweptFrom[t] \in 0..Len(keys)
          BY <1>1, <1>3, <2>2, <4>1
        <5>3. QED
          BY <5>1, <5>2, CountedStays
      <4>5. QED
        BY <4>1, <4>2, <4>3, <4>4
    <3>3. QED
      BY <3>1, <3>2
  <2>5. EntriesSinceSweep'
    BY <2>4 DEF EntriesSinceSweep
  <2>6. AwaitsNext'
    BY <2>4 DEF AwaitsNext, NoSweep
  <2>7. SweepCountsRealRuns'
    BY <2>4 DEF SweepCountsRealRuns
  <2>8. QED
    BY <1>3, <2>3, <2>5, <2>6, <2>7 DEF IndInv, SweepInv
<1>4. CASE \E f \in Dispatchable(s, from) :
              /\ \A g \in Dispatchable(s, from) : f <= g
              /\ Dispatch(<<s, f>>)
              /\ awaits' = [awaits EXCEPT ![s] = Len(keys) + 1]
              /\ completed' = [completed EXCEPT ![s] = f - 1]
  <2>1. PICK f \in Dispatchable(s, from) :
              /\ \A g \in Dispatchable(s, from) : f <= g
              /\ Dispatch(<<s, f>>)
              /\ awaits' = [awaits EXCEPT ![s] = Len(keys) + 1]
              /\ completed' = [completed EXCEPT ![s] = f - 1]
    BY <1>4
  <2>2. f \in Fixture(s) /\ f \in 1..Cases[s] /\ f - 1 \in Nat
    BY <1>1, <2>1 DEF Dispatchable, Fixture
  <2>3. <<s, f>> \in Key
    BY <2>2, FixtureIsKey
  <2>4. DispatcherInv' /\ Grows
    BY <1>1, <2>1, <2>3, DispatchPreserves
  <2>5. keys' = Append(keys, <<s, f>>)
    BY <2>1 DEF Dispatch
  <2>6. /\ Len(keys) + 1 \in Accepted' /\ Len(keys) + 1 # NoSweep
        /\ keys'[Len(keys) + 1] = <<s, f>>
    BY <1>1, <2>3, <2>5 DEF DispatcherType, Accepted, NoSweep
  <2>7. ASSUME NEW g \in 1..(f - 1)
        PROVE  Counted(g)
    <3>1. g \in Fixture(s) /\ ~(f <= g)
      BY <1>1, <2>2 DEF Fixture
    <3>2. g \notin Dispatchable(s, from)
      BY <2>1, <3>1
    <3>3. QED
      BY <1>2, <3>1, <3>2
  <2>8. /\ awaits' = [awaits EXCEPT ![s] = Len(keys) + 1]
        /\ completed' = [completed EXCEPT ![s] = f - 1]
        /\ Len(keys) + 1 > swept
        /\ keys'[Len(keys) + 1] = <<s, f - 1 + 1>>
        /\ f - 1 + 1 <= Cases[s]
    BY <1>1, <2>1, <2>2, <2>6
  <2>9. QED
    BY <2>2, <2>4, <2>6, <2>7, <2>8
<1>5. CASE /\ Dispatchable(s, from) = {}
           /\ awaits' = [awaits EXCEPT ![s] = NoSweep]
           /\ completed' = [completed EXCEPT ![s] = Cases[s]]
           /\ UNCHANGED dispatcher
  <2>1. UNCHANGED <<keys, entries, started, queue, running, executing>>
    BY <1>5 DEF dispatcher
  <2>2. DispatcherInv'
    BY <1>1, <2>1 DEF DispatcherInv, DispatcherType, QueueIsTail, InOrder,
       Begun, Accepted, NoIdleSlot, OneActivePerFixture
  <2>3. Grows
    BY <1>1, <2>1 DEF Grows
  <2>4. \A f \in 1..Cases[s] : Counted(f)
    BY <1>2, <1>5 DEF Fixture
  <2>5. QED
    BY <1>1, <1>5, <2>2, <2>3, <2>4
<1>6. QED
  BY <1>4, <1>5 DEF SweepLoop
-----------------------------------------------------------------------------
\* An idle dispatcher satisfies the invariant.
LEMMA InitEstablishes ==
    ASSUME Init
    PROVE  IndInv
<1>1. /\ keys = <<>> /\ entries = {} /\ started = {} /\ queue = <<>>
      /\ running = 0 /\ executing = {} /\ Len(keys) = 0 /\ Len(queue) = 0
      /\ awaits = [s \in Skills |-> NoSweep]
      /\ completed = [s \in Skills |-> 0]
      /\ sweptFrom = [s \in Skills |-> 0]
  BY DEF Init
<1>2. DispatcherType /\ QueueIsTail
  BY <1>1, ConstantsAssumption
     DEF DispatcherType, QueueIsTail, InOrder, Begun, Accepted
<1>3. running = Cardinality(entries \intersect started)
  BY <1>1, FS_EmptySet
<1>4. NoIdleSlot /\ OneActivePerFixture
  BY <1>1 DEF NoIdleSlot, OneActivePerFixture
<1>5. SweepType
  BY <1>1 DEF SweepType, NoSweep
<1>6. EntriesSinceSweep /\ AwaitsNext /\ SweepCountsRealRuns
  BY <1>1 DEF EntriesSinceSweep, AwaitsNext, SweepCountsRealRuns, NoSweep
<1>7. QED
  BY <1>2, <1>3, <1>4, <1>5, <1>6 DEF IndInv, DispatcherInv, SweepInv

\* Every step preserves it.
LEMMA NextPreserves ==
    ASSUME IndInv, [Next]_vars
    PROVE  IndInv'
<1>1. /\ DispatcherInv /\ DispatcherType /\ SweepType /\ EntriesSinceSweep
      /\ AwaitsNext /\ SweepCountsRealRuns /\ Len(keys) \in Nat
  BY DEF IndInv, DispatcherInv, DispatcherType, SweepInv
<1>2. ASSUME NEW k \in Key, HandleRun(k)
      PROVE  IndInv'
  <2>1. DispatcherInv' /\ Grows
    BY <1>1, <1>2, DispatchPreserves DEF HandleRun
  <2>2. QED
    BY <1>2, <2>1, SweepsKept DEF HandleRun, IndInv
<1>3. ASSUME NEW s \in Skills, HandleRunAll(s)
      PROVE  IndInv'
  <2>1. \A r \in entries : keys[r][1] # s
    BY <1>3 DEF HandleRunAll, SweepAllowed
  <2>2. Len(keys) \in 0..Len(keys) /\ 0 \in 0..Cases[s]
    BY <1>1, ConstantsAssumption
  <2>3. /\ sweptFrom' = [sweptFrom EXCEPT ![s] = Len(keys)]
        /\ SweepLoop(s, 0)
    BY <1>3 DEF HandleRunAll
  <2>4. \A f \in 1..0 :
            \E r \in (Len(keys) + 1)..Len(keys) : keys[r] = <<s, f>>
    OBVIOUS
  <2>5. QED
    BY <2>1, <2>2, <2>3, <2>4, SweepLoopPreserves, Zenon
<1>4. ASSUME NEW s \in Skills, SweepGoesOn(s)
      PROVE  IndInv'
  <2>1. /\ awaits[s] # NoSweep /\ sweptFrom' = sweptFrom
        /\ SweepLoop(s, completed[s] + 1)
    BY <1>4 DEF SweepGoesOn
  <2>2. /\ sweptFrom' = [sweptFrom EXCEPT ![s] = sweptFrom[s]]
        /\ sweptFrom[s] \in 0..Len(keys)
    BY <1>1, <2>1 DEF SweepType
  <2>3. completed[s] \in Nat /\ awaits[s] \in 1..Len(keys)
    BY <1>1, <2>1 DEF SweepType, Accepted
  <2>4. /\ awaits[s] > sweptFrom[s] /\ completed[s] + 1 <= Cases[s]
        /\ keys[awaits[s]] = <<s, completed[s] + 1>>
    BY <1>1, <2>1 DEF AwaitsNext
  <2>5. completed[s] + 1 \in 0..Cases[s]
    BY <2>3, <2>4, ConstantsAssumption
  <2>6. ASSUME NEW f \in 1..(completed[s] + 1)
        PROVE  \E r \in (sweptFrom[s] + 1)..Len(keys) : keys[r] = <<s, f>>
    <3>1. CASE f = completed[s] + 1
      <4>1. awaits[s] \in (sweptFrom[s] + 1)..Len(keys)
        BY <1>1, <2>2, <2>3, <2>4
      <4>2. QED
        BY <2>4, <3>1, <4>1
    <3>2. CASE f \in 1..completed[s]
      BY <1>1, <3>2 DEF SweepCountsRealRuns
    <3>3. QED
      BY <2>3, <3>1, <3>2
  <2>7. \A r \in entries : keys[r][1] = s => r > sweptFrom[s]
    BY <1>1 DEF EntriesSinceSweep
  <2>8. QED
    BY <2>1, <2>2, <2>5, <2>6, <2>7, SweepLoopPreserves
<1>5. ASSUME NEW r \in Accepted, RunSettles(r)
      PROVE  IndInv'
  <2>1. executing \ {r} \in SUBSET started
    BY <1>1 DEF DispatcherType
  <2>2. DispatcherInv' /\ Grows
    BY <1>1, <1>5, <2>1, ReleasePreserves DEF RunSettles
  <2>3. QED
    BY <1>5, <2>2, SweepsKept DEF RunSettles, IndInv
<1>6. ASSUME NEW r \in Accepted, GoesStale(r)
      PROVE  IndInv'
  <2>1. executing \in SUBSET started
    BY <1>1 DEF DispatcherType
  <2>2. DispatcherInv' /\ Grows
    BY <1>1, <1>6, <2>1, ReleasePreserves DEF GoesStale
  <2>3. QED
    BY <1>6, <2>2, SweepsKept DEF GoesStale, IndInv
<1>7. CASE UNCHANGED vars
  <2>1. /\ UNCHANGED <<keys, entries, started, queue, running, executing>>
        /\ UNCHANGED sweeps
    BY <1>7 DEF vars, sweeps
  <2>2. DispatcherInv'
    BY <1>1, <2>1 DEF DispatcherInv, DispatcherType, QueueIsTail, InOrder,
       Begun, Accepted, NoIdleSlot, OneActivePerFixture
  <2>3. Grows
    BY <1>1, <2>1 DEF Grows
  <2>4. QED
    BY <2>1, <2>2, <2>3, SweepsKept DEF IndInv
<1>8. QED
  BY <1>2, <1>3, <1>4, <1>5, <1>6, <1>7 DEF Next
-----------------------------------------------------------------------------
\* The inductive invariant holds throughout.
THEOREM Invariance == Spec => []IndInv
<1>1. Init => IndInv
  BY InitEstablishes
<1>2. IndInv /\ [Next]_vars => IndInv'
  BY NextPreserves
<1>3. QED
  BY <1>1, <1>2, PTL DEF Spec

\* The dispatcher's state is well-typed for any number of slots and runs.
THEOREM TypeCorrect == Spec => []TypeOK
<1>1. IndInv => TypeOK
  BY InvariantSuffices
<1>2. QED
  BY Invariance, <1>1, PTL

\* The slot counter of RunDispatcher counts the runs that hold a slot and
\* stays within maxConcurrent, though settling and the timer both release.
THEOREM SlotsCorrect == Spec => []SlotsAccounted
<1>1. IndInv => SlotsAccounted
  BY InvariantSuffices
<1>2. QED
  BY Invariance, <1>1, PTL

\* The queue holds exactly the entries that have not started: pump never
\* meets the ghost its comment speaks of.
THEOREM NoGhosts == Spec => []EntriesAccounted
<1>1. IndInv => EntriesAccounted
  BY InvariantSuffices
<1>2. QED
  BY Invariance, <1>1, PTL

\* The 409 guard: a fixture never has two active runs.
THEOREM OneActive == Spec => []OneActivePerFixture
<1>1. IndInv => OneActivePerFixture
  BY DEF IndInv, DispatcherInv
<1>2. QED
  BY Invariance, <1>1, PTL

\* Nothing waits in the queue while a slot is free.
THEOREM SlotsUsed == Spec => []NoIdleSlot
<1>1. IndInv => NoIdleSlot
  BY DEF IndInv, DispatcherInv
<1>2. QED
  BY Invariance, <1>1, PTL

\* "Further dispatches QUEUE (FIFO)": runs start in the order of acceptance.
THEOREM FirstComeFirstStarted == Spec => []StartsInOrder
<1>1. IndInv => StartsInOrder
  BY InvariantSuffices
<1>2. QED
  BY Invariance, <1>1, PTL

\* A sweep counts as completed only fixtures that were accepted as runs since
\* it began.
THEOREM SweepsAreHonest == Spec => []SweepCountsRealRuns
<1>1. IndInv => SweepCountsRealRuns
  BY DEF IndInv, SweepInv
<1>2. QED
  BY Invariance, <1>1, PTL

\* All of these at once, for any number of slots, fixtures and runs.
THEOREM DispatchSound == Spec => []DispatchIsSound
<1>1. SlotsAccounted /\ EntriesAccounted /\ OneActivePerFixture /\ NoIdleSlot
      /\ StartsInOrder /\ SweepCountsRealRuns => DispatchIsSound
  BY DEF DispatchIsSound
<1>2. QED
  BY SlotsCorrect, NoGhosts, OneActive, SlotsUsed, FirstComeFirstStarted,
     SweepsAreHonest, <1>1, PTL

-----------------------------------------------------------------------------
\* The refinement of RunPool. A run that waits is a run of the queue.
Waiting == {queue[i] : i \in 1..Len(queue)}
Active == entries \intersect started
PoolStep == [Pool!Next]_(Pool!vars)

\* The pool counts like the dispatcher.
LEMMA PoolCounts ==
    ASSUME NEW S
    PROVE  Pool!Cardinality(S) = Cardinality(S)
BY DEF Pool!Cardinality, Cardinality

\* The queue by its border: what it holds, and that none of it has started.
LEMMA QueueAndEntries ==
    ASSUME DispatcherInv
    PROVE  /\ Len(keys) \in Nat /\ Begun \in Nat /\ Begun + Len(queue) = Len(keys)
           /\ Waiting = (Begun + 1)..Len(keys)
           /\ Waiting \subseteq entries
           /\ started = 1..Begun
           /\ running = Cardinality(Active)
<1>1. /\ keys \in Seq(Key) /\ queue \in Seq(Nat) /\ Len(queue) <= Len(keys)
      /\ \A i \in 1..Len(queue) : queue[i] = Begun + i
      /\ started = 1..Begun
      /\ (Begun + 1)..Len(keys) \subseteq entries
      /\ running = Cardinality(Active)
  BY DEF DispatcherInv, DispatcherType, QueueIsTail, InOrder, Active
<1>2. /\ Len(keys) \in Nat /\ Len(queue) \in Nat /\ Begun \in Nat
      /\ Begun + Len(queue) = Len(keys)
  BY <1>1 DEF Begun
<1>3. ASSUME NEW r \in (Begun + 1)..Len(keys)
      PROVE  r \in Waiting
  <2>1. r - Begun \in 1..Len(queue) /\ queue[r - Begun] = r
    BY <1>1, <1>2
  <2>2. QED
    BY <2>1 DEF Waiting
<1>4. ASSUME NEW i \in 1..Len(queue)
      PROVE  queue[i] \in (Begun + 1)..Len(keys)
  BY <1>1, <1>2
<1>5. QED
  BY <1>1, <1>2, <1>3, <1>4 DEF Waiting

\* dispatch accepts a run: it starts when there is a slot, as nothing waits
\* then, and otherwise joins the queue.
LEMMA DispatchAccepts ==
    ASSUME DispatcherInv, NEW k \in Key, Dispatch(k)
    PROVE  PoolStep
<1> DEFINE r == Len(keys) + 1
           q == Append(queue, r)
<1>1. /\ ~IsActive(k)
      /\ keys' = Append(keys, k)
      /\ entries' = entries \union {r}
      /\ Pump(q, running, executing)
  BY DEF Dispatch
<1>2. /\ queue \in Seq(Nat) /\ running \in 0..MaxConcurrent
      /\ running = Cardinality(Active)
      /\ r \in Nat /\ r \notin started
      /\ Waiting \subseteq entries
  BY QueueAndEntries DEF DispatcherInv, DispatcherType, QueueIsTail
<1>3. /\ q \in Seq(Nat) /\ Len(q) = Len(queue) + 1
      /\ q[Len(queue) + 1] = r
      /\ \A i \in 1..Len(queue) : q[i] = queue[i]
  <2>1. queue \in Seq(Nat) /\ r \in Nat
    BY <1>2
  <2>2. /\ q \in Seq(Nat) /\ Len(q) = Len(queue) + 1
        /\ \A i \in 1..Len(queue) : q[i] = queue[i]
        /\ q[Len(queue) + 1] = r
    <3> HIDE DEF r
    <3>1. QED
      BY <2>1, AppendProperties DEF q
  <2>3. QED
    BY ONLY <2>2
<1> HIDE DEF q, r
<1>4. \A p \in Waiting \union Active : keys[p] # k
  BY <1>1, <1>2 DEF IsActive, Active
<1>5. CASE running < MaxConcurrent
  <2>1. queue = <<>>
    <3>1. running # MaxConcurrent
      BY <1>2, <1>5, ConstantsAssumption
    <3>2. QED
      BY <3>1 DEF DispatcherInv, NoIdleSlot
  <2>2. Len(q) = 1 /\ q[1] = r
    BY <1>3, <2>1
  <2>3. Len(q) <= Free(running)
    BY <1>2, <1>5, <2>2, ConstantsAssumption DEF Free
  <2>4. /\ queue' = SubSeq(q, 2, 1)
        /\ started' = started \union First(q, 1)
    BY <1>1, <2>2, <2>3 DEF Pump
  <2>5. First(q, 1) = {r}
    BY <2>2 DEF First
  <2>6. queue' = <<>>
    BY <1>3, <2>4
  <2>7. Waiting = {} /\ Waiting' = {}
    BY <2>1, <2>6 DEF Waiting
  <2>8. Active' = Active \union {r}
    <3>1. r \in entries' /\ r \in started'
      BY <1>1, <2>4, <2>5
    <3>2. entries' \intersect started' = Active \union {r}
      BY <1>1, <1>2, <2>4, <2>5, <3>1, QueueAndEntries
         DEF Active, DispatcherInv, DispatcherType, Accepted, r
    <3>3. QED
      BY <3>2 DEF Active
  <2>9. Cardinality(Active) < MaxConcurrent
    BY <1>2, <1>5
  <2>10. Pool!Accept(k)
    <3>1. Waiting' = Waiting
      BY <2>7
    <3>2. QED
      BY <1>1, <1>4, <2>7, <2>8, <2>9, <3>1, PoolCounts, Zenon
         DEF Pool!Accept, Waiting, Active, r
  <2>11. QED
    BY <2>10 DEF PoolStep, Pool!Next
<1>6. CASE running = MaxConcurrent
  <2>1. Free(running) = 0 /\ ~(Len(q) <= 0)
    BY <1>2, <1>3, <1>6, ConstantsAssumption DEF Free
  <2>2. /\ queue' = SubSeq(q, 1, Len(q))
        /\ started' = started \union First(q, 0)
    BY <1>1, <2>1 DEF Pump
  <2>3. First(q, 0) = {}
    BY DEF First
  <2>4. queue' = q
    BY <1>3, <2>2
  <2>5. Waiting' = Waiting \union {r}
    <3>1. ASSUME NEW i \in 1..Len(q)
          PROVE  q[i] \in Waiting \union {r}
      <4>1. CASE i = Len(queue) + 1
        BY <1>3, <4>1
      <4>2. CASE i \in 1..Len(queue)
        <5>1. q[i] = queue[i]
          BY <1>3, <4>2
        <5>2. QED
          BY <4>2, <5>1 DEF Waiting
      <4>3. Len(queue) \in Nat
        BY <1>2
      <4>4. i = Len(queue) + 1 \/ i \in 1..Len(queue)
        BY <1>3, <4>3
      <4>5. QED
        BY <4>1, <4>2, <4>4
    <3>2. ASSUME NEW w \in Waiting
          PROVE  w \in {q[i] : i \in 1..Len(q)}
      <4>1. PICK i \in 1..Len(queue) : queue[i] = w
        BY DEF Waiting
      <4>2. i \in 1..Len(q) /\ q[i] = w
        BY <1>2, <1>3, <4>1
      <4>3. QED
        BY <4>2
    <3>3. r \in {q[i] : i \in 1..Len(q)}
      BY <1>2, <1>3
    <3>4. {q[i] : i \in 1..Len(q)} = Waiting \union {r}
      BY <3>1, <3>2, <3>3
    <3>5. QED
      BY <2>4, <3>4 DEF Waiting
  <2>6. Active' = Active
    BY <1>1, <1>2, <2>2, <2>3 DEF Active
  <2>7. Pool!Accept(k)
    <3>1. Cardinality(Active) = MaxConcurrent
      BY <1>2, <1>6
    <3>2. QED
      BY <1>1, <1>4, <2>5, <2>6, <3>1, PoolCounts, Zenon
         DEF Pool!Accept, Waiting, Active, r
  <2>8. QED
    BY <2>7 DEF PoolStep, Pool!Next
<1>7. QED
  BY <1>2, <1>5, <1>6, ConstantsAssumption

\* release finishes a run the first time it is called for it, and hands its
\* slot to the oldest run that waits; a second call is a stutter.
LEMMA ReleaseFinishes ==
    ASSUME DispatcherInv, NEW r, NEW unsettled, Release(r, unsettled),
           UNCHANGED keys
    PROVE  PoolStep
<1>1. CASE ~Releasable(r)
  <2>1. UNCHANGED <<entries, queue, started>>
    BY <1>1 DEF Release
  <2>2. QED
    BY <2>1 DEF PoolStep, Pool!vars
<1>2. CASE Releasable(r)
  <2>1. /\ r \in Active
        /\ entries' = entries \ {r}
        /\ Pump(queue, running - 1, unsettled)
    BY <1>2 DEF Release, Releasable, Active
  <2>2. /\ queue \in Seq(Nat) /\ Len(queue) \in Nat /\ running \in 0..MaxConcurrent
        /\ \A i \in 1..Len(queue) : queue[i] = Begun + i
    BY DEF DispatcherInv, DispatcherType, QueueIsTail, InOrder
  <2>3. CASE queue = <<>>
    <3>1. Len(queue) = 0 /\ Len(queue) <= Free(running - 1)
      BY <2>2, <2>3, ConstantsAssumption DEF Free
    <3>2. queue' = SubSeq(queue, 1, 0) /\ started' = started \union First(queue, 0)
      BY <2>1, <3>1 DEF Pump
    <3>3. queue' = <<>> /\ First(queue, 0) = {}
      BY <2>3, <3>2 DEF First
    <3>4. Waiting = {} /\ Waiting' = {}
      BY <2>3, <3>3 DEF Waiting
    <3>5. Active' = Active \ {r}
      BY <2>1, <3>2, <3>3 DEF Active
    <3>6. Pool!Finish(r)
      BY <2>1, <3>4, <3>5 DEF Pool!Finish, Waiting, Active
    <3>7. QED
      BY <2>1, <3>6 DEF PoolStep, Pool!Next, Active
  <2>4. CASE queue # <<>>
    <3> DEFINE b == Begun
               next == b + 1
    <3>1. /\ running = Cardinality(Active) /\ started = 1..b
          /\ b \in Nat /\ Len(keys) \in Nat /\ b + Len(queue) = Len(keys)
          /\ Waiting = (b + 1)..Len(keys) /\ Waiting \subseteq entries
      BY QueueAndEntries
    <3>2. running = MaxConcurrent /\ Len(queue) >= 1
      <4>1. Len(queue) # 0
        BY <2>2, <2>4
      <4>2. QED
        BY <2>2, <2>4, <4>1 DEF DispatcherInv, NoIdleSlot
    <3>3. PICK n \in Nat : Pumped(n, queue, running - 1, unsettled, b)
      <4>1. running - 1 \in 0..MaxConcurrent
        BY <3>2, ConstantsAssumption
      <4>2. InOrder(queue, b)
        BY DEF DispatcherInv, QueueIsTail
      <4> HIDE DEF b
      <4>3. QED
        BY <2>1, <2>2, <3>1, <4>1, <4>2, PumpEffect
    <3>4. n = 1
      <4>1. n <= 1
        BY <3>2, <3>3, ConstantsAssumption DEF Pumped
      <4>2. CASE queue' = <<>>
        BY <2>2, <3>2, <3>3, <4>1, <4>2 DEF Pumped
      <4>3. CASE queue' # <<>>
        BY <3>2, <3>3, <4>1, <4>3, ConstantsAssumption DEF Pumped
      <4>4. QED
        BY <4>2, <4>3
    <3>5. /\ queue' \in Seq(Nat) /\ Len(queue') = Len(queue) - 1
          /\ \A i \in 1..Len(queue') : queue'[i] = b + 1 + i
          /\ started' = 1..(b + 1)
      BY <3>3, <3>4 DEF Pumped, InOrder
    <3> HIDE DEF b
    <3>6. /\ next \in Waiting /\ next \in entries /\ next \notin started
          /\ \A w \in Waiting : next <= w
      BY <2>2, <3>1, <3>2
    <3>7. Waiting' = Waiting \ {next}
      <4>1. Waiting \ {next} = (b + 2)..Len(keys)
        BY <3>1
      <4>2. ASSUME NEW i \in 1..Len(queue')
            PROVE  queue'[i] \in (b + 2)..Len(keys)
        <5>1. i \in Nat /\ 1 <= i /\ i <= Len(queue')
          BY <3>5, <2>2
        <5>2. queue'[i] = b + 1 + i
          BY <3>5
        <5>3. b + 1 + i \in Nat /\ b + 2 <= b + 1 + i /\ b + 1 + i <= Len(keys)
          <6>1. Len(queue') = Len(queue) - 1
            BY <3>5
          <6>2. /\ b \in Nat /\ Len(keys) \in Nat /\ Len(queue) \in Nat
                /\ b + Len(queue) = Len(keys)
            BY <2>2, <3>1
          <6> HIDE DEF next
          <6>3. QED
            BY ONLY <5>1, <6>1, <6>2
        <5>4. QED
          BY ONLY <5>2, <5>3, <3>1
      <4>3. ASSUME NEW w \in (b + 2)..Len(keys)
            PROVE  \E i \in 1..Len(queue') : queue'[i] = w
        <5>1. w - b - 1 \in 1..Len(queue')
          BY <2>2, <3>1, <3>5
        <5>2. b + 1 + (w - b - 1) = w
          BY <3>1
        <5>3. QED
          BY <3>5, <5>1, <5>2
      <4>4. Waiting' = {queue'[i] : i \in 1..Len(queue')}
        BY DEF Waiting
      <4>5. QED
        BY <4>1, <4>2, <4>3, <4>4
    <3>8. Active' = (Active \ {r}) \union {next}
      <4>1. started' = started \union {next}
        <5>1. 1..(b + 1) = (1..b) \union {b + 1}
          BY <3>1
        <5>2. QED
          BY <3>1, <3>5, <5>1, Zenon
      <4>2. next # r
        BY <2>1, <3>6 DEF Active
      <4>3. QED
        BY <2>1, <3>6, <4>1, <4>2 DEF Active
    <3> HIDE DEF next
    <3>9. Pool!Finish(r)
      BY <2>1, <3>6, <3>7, <3>8 DEF Pool!Finish, Waiting, Active
    <3>10. QED
      BY <2>1, <3>9 DEF PoolStep, Pool!Next, Active
  <2>5. QED
    BY <2>3, <2>4
<1>3. QED
  BY <1>1, <1>2

\* A sweep's step dispatches a run, or leaves the dispatcher alone.
LEMMA SweepIsPoolStep ==
    ASSUME DispatcherInv, NEW s \in Skills, NEW from \in Nat, SweepLoop(s, from)
    PROVE  PoolStep
<1>1. ASSUME NEW f \in Dispatchable(s, from), Dispatch(<<s, f>>)
      PROVE  PoolStep
  <2>1. <<s, f>> \in Key
    BY <1>1, FixtureIsKey DEF Dispatchable
  <2>2. QED
    BY <1>1, <2>1, DispatchAccepts
<1>2. ASSUME UNCHANGED dispatcher
      PROVE  PoolStep
  BY <1>2 DEF dispatcher, PoolStep, Pool!vars
<1>3. QED
  BY <1>1, <1>2 DEF SweepLoop

\* "At most `maxConcurrent` server-dispatched runs execute at once; further
\* dispatches QUEUE (FIFO)", with "one active run per (slug, fixture)": the
\* dispatcher with its timers and sweeps implements the pool.
THEOREM ImplementsPool == Spec => PoolSpec
<1>1. Init => Pool!Init
  BY DEF Init, Pool!Init
<1>2. IndInv /\ [Next]_vars => [Pool!Next]_(Pool!vars)
  <2> SUFFICES ASSUME IndInv, [Next]_vars
               PROVE  PoolStep
    BY DEF PoolStep
  <2> USE DEF IndInv
  <2>1. ASSUME NEW k \in Key, HandleRun(k)
        PROVE  PoolStep
    BY <2>1, DispatchAccepts DEF HandleRun
  <2>2. ASSUME NEW s \in Skills, HandleRunAll(s)
        PROVE  PoolStep
    BY <2>2, SweepIsPoolStep DEF HandleRunAll
  <2>3. ASSUME NEW s \in Skills, SweepGoesOn(s)
        PROVE  PoolStep
    <3>1. completed[s] + 1 \in Nat
      BY DEF SweepInv, SweepType
    <3>2. QED
      BY <2>3, <3>1, SweepIsPoolStep DEF SweepGoesOn
  <2>4. ASSUME NEW r \in Accepted, RunSettles(r) \/ GoesStale(r)
        PROVE  PoolStep
    BY <2>4, ReleaseFinishes DEF RunSettles, GoesStale
  <2>5. CASE UNCHANGED vars
    BY <2>5 DEF vars, PoolStep, Pool!vars
  <2>6. QED
    BY <2>1, <2>2, <2>3, <2>4, <2>5 DEF Next
<1>3. QED
  BY Invariance, <1>1, <1>2, PTL DEF Spec, PoolSpec, Pool!Spec
-----------------------------------------------------------------------------
(***************************************************************************)
(* The doors of a bundle that record versions and publish them             *)
(* (Publishing): what a run records, among others.                         *)
(***************************************************************************)
Recorder(r) == r.kind \in {"record", "run"}
Publisher(r) == r.kind \in {"install", "market"}
InHand(r) == Publisher(r) /\ r.step \in {"copy", "append", "write"}

\* How far a request of each kind can have got, and with what.
Lawful(r) ==
    /\ r.kind = "none" => r.step = "idle"
    /\ Recorder(r) =>
          /\ r.step \in {"append", "write", "snapshot", "rename"}
          /\ r.event \in Recorded /\ r.version = r.event.hash
          /\ r.step = "rename" => r.got \in Content
    /\ Publisher(r) => r.version \in Outputs /\ r.todo # <<>>
    /\ r.kind = "install" =>
          /\ r.step \in {"collect", "target", "copy", "append", "write", "remember"}
          /\ r.todo \in Seq(Audiences)
          /\ r.step # "collect" => r.got \in Copy
    /\ r.kind = "market" =>
          r.step \in {"target", "append", "write"} /\ r.todo \in Seq(Markets)
    /\ InHand(r) =>
          /\ r.event \in Published /\ r.event.target = Head(r.todo)
          /\ r.kind = "install" => r.event.copy = r.got

TypeInv == PublishTypeOK /\ \A d \in Doors : Lawful(door[d])

\* What a door is about to copy, or to name, is the content of the version it
\* says it is, unless the maker has edited it.
Faithful(r) ==
    ~r.edited =>
        /\ Recorder(r) /\ r.step # "rename" =>
              live.design = r.event.design /\ live.output = r.event.hash
        /\ Recorder(r) /\ r.step = "rename" =>
              r.got.design = r.event.design /\ r.got.output = r.event.hash
        /\ r.step = "collect" /\ r.fallback => live.output = r.version
        /\ r.kind = "install" /\ r.step # "collect" => r.got.body = r.got.version

RecordedAs(m, h) ==
    \E k \in 1..Len(journal) : /\ journal[k].type = "recorded"
                               /\ journal[k].design = m /\ journal[k].hash = h

\* A snapshot that was not filled after an edit is that of a recorded version.
SnapshotsHold ==
    \A h \in Outputs : snapshots[h] # None /\ h \notin torn =>
        snapshots[h].output = h /\ RecordedAs(snapshots[h].design, h)

\* A recorded version has its snapshot, or a reason why not.
VersionsAreCovered ==
    \A i \in 1..Len(journal) : journal[i].type = "recorded" =>
        LET h == journal[i].hash
        IN  \/ h \in contentless
            \/ \E d \in Doors : /\ door[d].step \in {"snapshot", "rename"}
                                /\ door[d].version = h
            \/ snapshots[h] # None

ContentInv ==
    /\ \A d \in Doors : Faithful(door[d])
    /\ SnapshotsHold /\ VersionsAreCovered /\ StampNamesContent

\* The landing a receipt for copy c at t stands for that a door numbers which
\* has read n events.
NthAt(n, t, c) ==
    IF t \in Audiences THEN Cardinality({i \in Landed(journal, t, c) : i <= n})
    ELSE IF \E i \in Receipts(journal, t) :
              i <= n /\ journal[i].copy.version = c.version /\ journal[i].nth = 0
         THEN 1 ELSE 0

\* What a door knows of the journal was so when it looked, and stays so.
Grounded(r) ==
    /\ Recorder(r) /\ r.step \in {"snapshot", "rename"} =>
          RecordedAs(r.event.design, r.event.hash)
    /\ Publisher(r) => r.read <= Len(journal)
    /\ InHand(r) => r.event.nth = NthAt(r.read, r.event.target, r.event.copy)
    /\ r.step = "write" =>
          /\ r.seen <= Len(journal)
          /\ \A i \in 1..r.seen :
                journal[i].type = r.event.type => KeyOf(journal[i]) # KeyOf(r.event)

\* An installed copy has landed more often than any of its receipts says.
ReceiptsAreNumbered ==
    \A i \in 1..Len(journal) :
        LET e == journal[i]
        IN  e.type = "published" /\ e.target \in Audiences =>
                e.nth < Cardinality(Landed(journal, e.target, e.copy))

\* Door d is between its look at target t and its receipt for it.
Works(d, t) == InHand(door[d]) /\ Head(door[d].todo) = t

\* The last receipt for a target says what is there; some receipt does, of a
\* manifest.
LastReceiptIsTrue(t) ==
    \E i \in Receipts(journal, t) :
        /\ journal[i].copy = copies[t]
        /\ t \in Audiences => \A k \in Receipts(journal, t) : k <= i

\* A target that was not disturbed has one publish at it, which has read all its
\* receipts, or its last receipt says what is there.
Orderly(t) ==
    /\ \A d, e \in Doors : Works(d, t) /\ Works(e, t) => d = e
    /\ \A d \in Doors : Works(d, t) =>
          /\ \A i \in Receipts(journal, t) : i <= door[d].read
          /\ copies[t] = IF door[d].step = "copy" THEN Torn ELSE door[d].event.copy
    /\ (\A d \in Doors : ~Works(d, t)) /\ copies[t] # None => LastReceiptIsTrue(t)

JournalInv ==
    /\ \A d \in Doors : Grounded(door[d])
    /\ ReceiptsAreNumbered /\ RepeatsAreRaces
    /\ \A t \in Targets \ disturbed : Orderly(t)

PubInv == TypeInv /\ ContentInv /\ JournalInv
-----------------------------------------------------------------------------
LEMMA DoorTypes ==
    ASSUME PublishTypeOK, NEW d \in Doors
    PROVE  /\ door[d] \in Door
           /\ door[d].step \in Steps
           /\ door[d].kind \in {"none", "record", "run", "install", "market"}
           /\ door[d].event \in Event \union {None}
           /\ door[d].version \in Outputs \union {None}
           /\ door[d].got \in Content \union Copy \union {None}
           /\ door[d].todo \in Seq(Targets)
           /\ door[d].to \in Audiences \union {None}
           /\ door[d].read \in Nat /\ door[d].seen \in Nat
           /\ door[d].fallback \in BOOLEAN /\ door[d].edited \in BOOLEAN
<1>1. door[d] \in Door
  BY DEF PublishTypeOK
<1>2. QED
  BY <1>1 DEF Door

LEMMA JournalTypes ==
    ASSUME PublishTypeOK
    PROVE  /\ journal \in Seq(Event) /\ Len(journal) \in Nat
           /\ \A i \in 1..Len(journal) : journal[i] \in Event
BY DEF PublishTypeOK

LEMMA LiveTypes ==
    ASSUME PublishTypeOK
    PROVE  /\ live \in Content /\ live.design \in Designs /\ live.output \in Outputs
           /\ live = [design |-> live.design, output |-> live.output]
BY DEF PublishTypeOK, Content

LEMMA MarketsAre ==
    /\ MARKETS \in Seq(Markets)
    /\ Markets \intersect (Audiences \union Outputs) = {}
    /\ Audiences \subseteq Targets /\ Markets \subseteq Targets
    /\ Targets \intersect Outputs = {}
<1>1. MARKETS \in Seq(Markets)
  BY PublishConstants DEF Markets
<1>2. QED
  BY <1>1, PublishConstants DEF Markets, Targets

LEMMA Fresh == Idle \in Door /\ Lawful(Idle) /\ Idle.step = "idle" /\ Idle.kind = "none"
<1>1. None \in Event \union {None} /\ <<>> \in Seq(Targets)
  OBVIOUS
<1>2. QED
  BY <1>1 DEF Idle, Door, Steps, Lawful, Recorder, Publisher, InHand

\* Landings are counted, and receipts are a finite set.
LEMMA LandedFinite ==
    ASSUME NEW j \in Seq(Event), NEW t, NEW c, NEW S, S \subseteq Landed(j, t, c)
    PROVE  /\ IsFiniteSet(S) /\ Cardinality(S) \in Nat
           /\ IsFiniteSet(Landed(j, t, c)) /\ Cardinality(Landed(j, t, c)) \in Nat
           /\ Cardinality(S) <= Cardinality(Landed(j, t, c))
<1>1. Landed(j, t, c) \subseteq 1..Len(j)
  BY DEF Landed, Receipts
<1>2. IsFiniteSet(1..Len(j))
  BY FS_Interval, Len(j) \in Nat
<1>3. IsFiniteSet(Landed(j, t, c))
  BY <1>1, <1>2, FS_Subset
<1>4. QED
  BY <1>3, FS_Subset, FS_CardinalityType

\* What a door has read of the journal.
LEMMA NowReceipts ==
    ASSUME PublishTypeOK, NEW d \in Doors, door[d].read <= Len(journal), NEW t, NEW c
    PROVE  /\ Now(d) \in Seq(Event)
           /\ Receipts(Now(d), t) = {i \in Receipts(journal, t) : i <= door[d].read}
           /\ Landed(Now(d), t, c) = {i \in Landed(journal, t, c) : i <= door[d].read}
           /\ \A i \in 1..door[d].read : Now(d)[i] = journal[i]
<1> DEFINE n == door[d].read
<1>1. n \in Nat /\ journal \in Seq(Event) /\ Len(journal) \in Nat
  BY DoorTypes, JournalTypes
<1>2. Now(d) \in Seq(Event) /\ Len(Now(d)) = n /\ \A i \in 1..n : Now(d)[i] = journal[i]
  BY <1>1, SubSeqProperties DEF Now
<1>3. Receipts(Now(d), t) = {i \in Receipts(journal, t) : i <= n}
  BY <1>1, <1>2 DEF Receipts
<1>4. Landed(Now(d), t, c) = {i \in Landed(journal, t, c) : i <= n}
  BY <1>1, <1>2, <1>3 DEF Landed, Receipts
<1>5. QED
  BY <1>2, <1>3, <1>4

LEMMA LandingIs ==
    ASSUME PublishTypeOK, NEW d \in Doors, door[d].read <= Len(journal), NEW t \in Targets, NEW c
    PROVE  /\ Landing(d, t, c) = NthAt(door[d].read, t, c)
           /\ NthAt(door[d].read, t, c) \in Nat
<1> DEFINE n == door[d].read
<1>1. n \in Nat /\ journal \in Seq(Event) /\ Len(journal) \in Nat
  BY DoorTypes, JournalTypes
<1>2. CASE t \in Audiences
  <2>1. Cardinality({i \in Landed(journal, t, c) : i <= n}) \in Nat
    BY <1>1, LandedFinite
  <2>2. Landed(Now(d), t, c) = {i \in Landed(journal, t, c) : i <= n}
    BY NowReceipts
  <2>3. QED
    BY <1>2, <2>1, <2>2 DEF Landing, NthAt
<1>3. CASE t \notin Audiences
  <2>1. (\E i \in Receipts(Now(d), t) :
              Now(d)[i].copy.version = c.version /\ Now(d)[i].nth = 0)
        <=> (\E i \in Receipts(journal, t) :
              i <= n /\ journal[i].copy.version = c.version /\ journal[i].nth = 0)
    <3>1. \A i : i \in Receipts(Now(d), t) <=> i \in Receipts(journal, t) /\ i <= n
      BY NowReceipts
    <3>2. \A i \in Receipts(Now(d), t) : i \in 1..n
      BY <1>1, <3>1 DEF Receipts
    <3>3. \A i \in 1..n : Now(d)[i] = journal[i]
      BY NowReceipts
    <3>4. QED
      BY <3>1, <3>2, <3>3
  <2>2. QED
    BY <1>3, <2>1 DEF Landing, NthAt
<1>4. QED
  BY <1>2, <1>3
-----------------------------------------------------------------------------
LEMMA FieldTypes ==
    ASSUME NEW r \in Door
    PROVE  /\ r.step \in Steps
           /\ r.kind \in {"none", "record", "run", "install", "market"}
           /\ r.event \in Event \union {None}
           /\ r.version \in Outputs \union {None}
           /\ r.got \in Content \union Copy \union {None}
           /\ r.todo \in Seq(Targets)
           /\ r.to \in Audiences \union {None}
           /\ r.read \in Nat /\ r.seen \in Nat
           /\ r.fallback \in BOOLEAN /\ r.edited \in BOOLEAN
BY DEF Door

LEMMA TailOf ==
    ASSUME NEW S, NEW s \in Seq(S), Len(s) > 1
    PROVE  Tail(s) \in Seq(S) /\ Tail(s) # <<>>
<1>1. Tail(s) \in Seq(S) /\ Len(Tail(s)) = Len(s) - 1 /\ Len(s) \in Nat
  OBVIOUS
<1>2. Len(Tail(s)) # 0
  BY <1>1
<1>3. QED
  BY <1>1, <1>2, EmptySeq

\* The door after a receipt is done with the target.
LEMMA NextTargetIs ==
    ASSUME NEW r \in Door, Lawful(r), Publisher(r), r.step \in {"target", "append", "write"}
    PROVE  /\ NextTarget(r) \in Door /\ Lawful(NextTarget(r)) /\ ~InHand(NextTarget(r))
           /\ \/ NextTarget(r) = Idle
              \/ /\ NextTarget(r).step \in {"target", "remember"}
                 /\ NextTarget(r).kind = r.kind /\ NextTarget(r).got = r.got
                 /\ NextTarget(r).read = r.read /\ NextTarget(r).edited = r.edited
<1> DEFINE s == NextTarget(r)
<1>1. CASE Len(r.todo) > 1
  <2>1. s = [r EXCEPT !.step = "target", !.todo = Tail(r.todo)]
    BY <1>1 DEF NextTarget
  <2>2. /\ r.todo \in Seq(Targets) /\ Tail(r.todo) \in Seq(Targets) /\ Tail(r.todo) # <<>>
        /\ r.todo \in Seq(Audiences) => Tail(r.todo) \in Seq(Audiences)
        /\ r.todo \in Seq(Markets) => Tail(r.todo) \in Seq(Markets)
    BY <1>1, FieldTypes, TailOf
  <2>3. s \in Door
    BY <2>1, <2>2 DEF Door, Steps
  <2>4. /\ s.step = "target" /\ s.kind = r.kind /\ s.got = r.got /\ s.todo = Tail(r.todo)
        /\ s.read = r.read /\ s.edited = r.edited /\ s.version = r.version
    BY <2>1 DEF Door
  <2>5. r.kind = "install" => r.got \in Copy
    BY DEF Lawful
  <2> HIDE DEF s
  <2>6. QED
    BY <2>2, <2>3, <2>4, <2>5 DEF Lawful, Publisher, Recorder, InHand, s
<1>2. CASE Len(r.todo) <= 1 /\ r.kind = "install"
  <2>1. s = [r EXCEPT !.step = "remember"]
    BY <1>2, FieldTypes DEF NextTarget
  <2>2. s \in Door
    BY <2>1 DEF Door, Steps
  <2>3. /\ s.step = "remember" /\ s.kind = r.kind /\ s.got = r.got /\ s.todo = r.todo
        /\ s.read = r.read /\ s.edited = r.edited /\ s.version = r.version
    BY <2>1 DEF Door
  <2> HIDE DEF s
  <2>4. QED
    BY <1>2, <2>2, <2>3 DEF Lawful, Publisher, Recorder, InHand, s
<1>3. CASE Len(r.todo) <= 1 /\ r.kind # "install"
  <2>1. s = Idle
    BY <1>3, FieldTypes DEF NextTarget
  <2>2. ~InHand(s)
    BY <2>1, Fresh DEF InHand
  <2>3. QED
    BY <2>1, <2>2, Fresh
<1>4. QED
  BY <1>1, <1>2, <1>3, FieldTypes

LEMMA ReceiptedIs ==
    ASSUME NEW r \in Door, Lawful(r), r.step \in {"append", "write"}
    PROVE  /\ Receipted(r) \in Door /\ Lawful(Receipted(r)) /\ ~InHand(Receipted(r))
           /\ Publisher(r) => Receipted(r) = NextTarget(r)
           /\ ~Publisher(r) => Recorder(r) /\ Receipted(r) = [r EXCEPT !.step = "snapshot"]
<1>1. CASE Publisher(r)
  BY <1>1, NextTargetIs DEF Receipted, Publisher
<1>2. CASE ~Publisher(r)
  <2> DEFINE s == Receipted(r)
  <2>1. r.kind # "none"
    BY Fresh DEF Lawful
  <2>2. Recorder(r)
    BY <1>2, <2>1, FieldTypes DEF Recorder, Publisher
  <2>3. s = [r EXCEPT !.step = "snapshot"]
    BY <1>2 DEF Receipted, Publisher
  <2>4. s \in Door
    BY <2>3 DEF Door, Steps
  <2>5. s.step = "snapshot" /\ s.kind = r.kind /\ s.event = r.event /\ s.version = r.version
    BY <2>3 DEF Door
  <2> HIDE DEF s
  <2>6. Lawful(s) /\ ~InHand(s)
    BY <1>2, <2>1, <2>2, <2>5 DEF Lawful, Publisher, Recorder, InHand
  <2>7. QED
    BY <1>2, <2>2, <2>3, <2>4, <2>6 DEF s
<1>3. QED
  BY <1>1, <1>2

LEMMA WantedIs ==
    ASSUME TypeInv, NEW d \in Doors, door[d].step \in {"target", "copy"}
    PROVE  /\ Wanted(d) \in Copy /\ Publisher(door[d])
           /\ Head(door[d].todo) \in Targets
           /\ door[d].kind = "install" =>
                 Wanted(d) = door[d].got /\ Head(door[d].todo) \in Audiences
           /\ door[d].kind = "market" =>
                 Wanted(d).body = Wanted(d).version /\ Head(door[d].todo) \in Markets
<1> DEFINE r == door[d]
<1>1. r \in Door /\ Lawful(r)
  BY DoorTypes DEF TypeInv
<1>2. Publisher(r)
  BY <1>1, FieldTypes, Fresh DEF Lawful, Recorder, Publisher
<1>3. r.todo \in Seq(Targets) /\ r.todo # <<>> /\ r.version \in Outputs
  BY <1>1, <1>2, FieldTypes DEF Lawful
<1>4. /\ r.kind = "install" => r.todo \in Seq(Audiences) /\ r.got \in Copy
      /\ r.kind = "market" => r.todo \in Seq(Markets)
  BY <1>1 DEF Lawful
<1>5. /\ Head(r.todo) \in Targets
      /\ r.kind = "install" => Head(r.todo) \in Audiences
      /\ r.kind = "market" => Head(r.todo) \in Markets
  BY <1>3, <1>4
<1>6. measured \in Evidence
  BY DEF TypeInv, PublishTypeOK
<1>7. CASE r.kind = "install"
  BY <1>2, <1>4, <1>5, <1>7 DEF Wanted
<1>8. CASE r.kind = "market"
  <2>1. Wanted(d) = [version |-> r.version, body |-> r.version, evidence |-> measured]
    BY <1>8 DEF Wanted
  <2>2. QED
    BY <1>2, <1>3, <1>5, <1>6, <1>8, <2>1 DEF Copy
<1>9. QED
  BY <1>2, <1>7, <1>8 DEF Publisher

\* The receipt a door sets out for.
LEMMA ToReceiptIs ==
    ASSUME TypeInv, NEW d \in Doors, door[d].step = "target", door[d].read <= Len(journal),
           NEW t, t = Head(door[d].todo), NEW next \in {"copy", "append"},
           next = "copy" => door[d].kind = "install", ToReceipt(d, t, next),
           NEW r, r = door'[d]
    PROVE  /\ door' = [door EXCEPT ![d] = r] /\ r \in Door /\ Lawful(r) /\ InHand(r)
           /\ r.step = next /\ r.event.type = "published" /\ r.event.copy = Wanted(d)
           /\ r.event.target = t /\ r.event.nth = NthAt(r.read, t, Wanted(d))
           /\ r.todo = door[d].todo /\ r.read = door[d].read /\ r.kind = door[d].kind
           /\ r.got = door[d].got /\ r.edited = door[d].edited /\ r.version = door[d].version
<1> DEFINE old == door[d]
           e == [type |-> "published", target |-> t, copy |-> Wanted(d),
                 nth |-> Landing(d, t, Wanted(d)), by |-> d]
<1>1. PublishTypeOK /\ old \in Door /\ Lawful(old) /\ door \in [Doors -> Door]
  BY DoorTypes DEF TypeInv, PublishTypeOK
<1>2. t \in Targets /\ Wanted(d) \in Copy /\ Publisher(old)
  BY WantedIs
<1>3. e.nth = NthAt(old.read, t, Wanted(d)) /\ e.nth \in Nat
  BY <1>1, <1>2, LandingIs
<1>4. e \in Published
  BY <1>2, <1>3 DEF Published
<1>5. r = [old EXCEPT !.step = next, !.event = e] /\ door' = [door EXCEPT ![d] = r]
  BY <1>1 DEF ToReceipt
<1>6. e.target = t /\ e.copy = Wanted(d) /\ e.type = "published"
  OBVIOUS
<1> HIDE DEF e
<1>7. r \in Door
  BY <1>1, <1>4, <1>5 DEF Door, Steps, Event
<1>8. /\ r.step = next /\ r.event = e /\ r.todo = old.todo /\ r.read = old.read
      /\ r.kind = old.kind /\ r.got = old.got /\ r.edited = old.edited
      /\ r.version = old.version
  BY <1>1, <1>5 DEF Door
<1>9. Publisher(r) /\ InHand(r) /\ (r.kind = "install" => e.copy = r.got)
  BY <1>2, <1>6, <1>8, WantedIs DEF Publisher, InHand
<1>10. Lawful(r)
  BY <1>1, <1>4, <1>6, <1>8, <1>9 DEF Lawful, Publisher, Recorder, InHand
<1>11. QED
  BY <1>3, <1>5, <1>6, <1>7, <1>8, <1>9, <1>10
-----------------------------------------------------------------------------
\* A step of a door that changes nothing of another.
LEMMA OneDoorMoves ==
    ASSUME TypeInv, NEW d \in Doors, NEW r \in Door, Lawful(r),
           door' = [door EXCEPT ![d] = r]
    PROVE  /\ door' \in [Doors -> Door] /\ door'[d] = r
           /\ \A e \in Doors : e # d => door'[e] = door[e]
           /\ \A e \in Doors : Lawful(door'[e])
<1>1. door \in [Doors -> Door] /\ \A e \in Doors : Lawful(door[e])
  BY DEF TypeInv, PublishTypeOK
<1>2. \A e \in Doors : door'[e] = IF e = d THEN r ELSE door[e]
  BY <1>1
<1>3. door' \in [Doors -> Door]
  BY <1>1
<1>4. QED
  BY <1>1, <1>2, <1>3

\* What a new request is.
NewRequest(d, r) ==
    /\ r \in Door /\ Lawful(r) /\ ~InHand(r)
    /\ ~r.edited /\ r.step \in {"append", "collect", "target"}
    /\ r.step = "append" => Recorder(r) /\ r.event.design = live.design
                            /\ r.event.hash = live.output
    /\ Publisher(r) => r.read = Len(journal)
    /\ r.step = "collect" => (r.fallback => r.version = live.output)
    /\ r.step = "target" => r.kind = "market"

LEMMA RecordRequest ==
    ASSUME TypeInv, NEW d \in Doors, OpenRecord(d)
    PROVE  \E r : NewRequest(d, r) /\ Open(d, r)
<1>1. PICK kind \in {"record", "run"} :
        Open(d, [Idle EXCEPT !.step = "append", !.kind = kind, !.version = live.output,
                   !.event = [type |-> "recorded", design |-> live.design,
                              hash |-> live.output, by |-> d]])
  BY DEF OpenRecord
<1> DEFINE e == [type |-> "recorded", design |-> live.design, hash |-> live.output, by |-> d]
           r == [Idle EXCEPT !.step = "append", !.kind = kind, !.version = live.output,
                   !.event = e]
<1>2. live.design \in Designs /\ live.output \in Outputs
  BY LiveTypes DEF TypeInv
<1>3. e \in Recorded /\ e.hash = live.output /\ e.design = live.design
  BY <1>2 DEF Recorded
<1>4. Open(d, r)
  BY <1>1
<1> HIDE DEF e
<1>5. r \in Door
  BY <1>2, <1>3, Fresh DEF Door, Steps, Event
<1>6. r.step = "append" /\ r.kind = kind /\ r.version = live.output /\ r.event = e /\ ~r.edited
  BY DEF Idle
<1> HIDE DEF r
<1>7. NewRequest(d, r)
  BY <1>2, <1>3, <1>5, <1>6 DEF NewRequest, Lawful, Recorder, Publisher, InHand
<1>8. QED
  BY <1>4, <1>7

LEMMA InstallRequest ==
    ASSUME TypeInv, NEW d \in Doors, OpenInstall(d)
    PROVE  \E r : NewRequest(d, r) /\ Open(d, r)
<1>1. PICK to \in Audiences \union {None}, latest \in BOOLEAN, i \in 1..Len(journal) :
        /\ journal[i].type = "recorded"
        /\ latest => InSync(journal) /\ journal[i] = Last(Versions(journal))
        /\ to = None => remembered # <<>>
        /\ Open(d, [Idle EXCEPT !.step = "collect", !.kind = "install",
                      !.version = journal[i].hash, !.fallback = latest,
                      !.todo = IF to = None THEN remembered ELSE <<to>>,
                      !.to = to, !.read = Len(journal)])
  BY DEF OpenInstall
<1> DEFINE todo == IF to = None THEN remembered ELSE <<to>>
           r == [Idle EXCEPT !.step = "collect", !.kind = "install",
                   !.version = journal[i].hash, !.fallback = latest,
                   !.todo = todo, !.to = to, !.read = Len(journal)]
<1>2. Open(d, r)
  BY <1>1
<1>3. journal[i].hash \in Outputs
  BY <1>1, JournalTypes DEF TypeInv, Event, Recorded, Published
<1>4. latest => journal[i].hash = live.output
  BY <1>1 DEF InSync
<1>5. todo \in Seq(Audiences) /\ todo # <<>>
  BY <1>1 DEF TypeInv, PublishTypeOK
<1>6. todo \in Seq(Targets)
  BY <1>5, MarketsAre
<1>7. Len(journal) \in Nat
  BY JournalTypes DEF TypeInv
<1> HIDE DEF todo
<1>8. r \in Door
  BY <1>3, <1>6, <1>7, Fresh DEF Door, Steps
<1>9. /\ r.step = "collect" /\ r.kind = "install" /\ r.version = journal[i].hash
      /\ r.fallback = latest /\ r.todo = todo /\ r.read = Len(journal) /\ ~r.edited
  BY DEF Idle
<1> HIDE DEF r
<1>10. NewRequest(d, r)
  BY <1>3, <1>4, <1>5, <1>8, <1>9 DEF NewRequest, Lawful, Recorder, Publisher, InHand
<1>11. QED
  BY <1>2, <1>10

LEMMA MarketRequest ==
    ASSUME TypeInv, NEW d \in Doors, OpenMarket(d)
    PROVE  \E r : NewRequest(d, r) /\ Open(d, r)
<1>1. PICK todo \in {<<t>> : t \in Markets} \union {MARKETS} :
        /\ todo # <<>>
        /\ Open(d, [Idle EXCEPT !.step = "target", !.kind = "market",
                      !.version = live.output, !.todo = todo, !.read = Len(journal)])
  BY DEF OpenMarket
<1> DEFINE r == [Idle EXCEPT !.step = "target", !.kind = "market",
                   !.version = live.output, !.todo = todo, !.read = Len(journal)]
<1>2. Open(d, r)
  BY <1>1
<1>3. live.output \in Outputs /\ Len(journal) \in Nat
  BY LiveTypes, JournalTypes DEF TypeInv
<1>4. todo \in Seq(Markets) /\ todo \in Seq(Targets)
  <2>1. todo \in Seq(Markets)
    <3>1. MARKETS \in Seq(Markets)
      BY MarketsAre
    <3>2. todo \in {<<t>> : t \in Markets} \/ todo = MARKETS
      OBVIOUS
    <3>3. \A t \in Markets : <<t>> \in Seq(Markets)
      OBVIOUS
    <3>4. QED
      BY <3>1, <3>2, <3>3
  <2>2. Markets \subseteq Targets
    BY MarketsAre
  <2>3. QED
    BY <2>1, <2>2
<1>5. r \in Door
  BY <1>3, <1>4, Fresh DEF Door, Steps
<1>6. /\ r.step = "target" /\ r.kind = "market" /\ r.version = live.output
      /\ r.todo = todo /\ r.read = Len(journal) /\ ~r.edited
  BY DEF Idle
<1> HIDE DEF r
<1>7. NewRequest(d, r)
  BY <1>1, <1>3, <1>4, <1>5, <1>6 DEF NewRequest, Lawful, Recorder, Publisher, InHand
<1>8. QED
  BY <1>2, <1>7
LEMMA StepKinds ==
    ASSUME NEW r \in Door, Lawful(r)
    PROVE  /\ r.step \in {"collect", "copy", "remember"} =>
                 r.kind = "install" /\ Publisher(r) /\ r.version \in Outputs
           /\ r.step \in {"snapshot", "rename"} =>
                 Recorder(r) /\ ~Publisher(r) /\ r.version \in Outputs
           /\ r.step = "target" => Publisher(r) /\ ~Recorder(r) /\ r.version \in Outputs
           /\ r.step \in {"append", "write"} => (Recorder(r) /\ ~Publisher(r)) \/ InHand(r)
           /\ r.step \in {"append", "write"} => r.event \in Event
           /\ Recorder(r) => r.version = r.event.hash /\ r.event \in Recorded
           /\ Publisher(r) => ~Recorder(r)
<1>1. r.kind = "none" => r.step = "idle"
  BY Fresh DEF Lawful
<1>2. \A e \in Recorded : e.hash \in Outputs
  BY DEF Recorded
<1>3. QED
  BY <1>1, <1>2, FieldTypes DEF Lawful, Recorder, Publisher, InHand, Event

LEMMA CollectIs ==
    ASSUME TypeInv, NEW d \in Doors, Collect(d), NEW old, old = door[d],
           NEW r, r = door'[d]
    PROVE  /\ door' = [door EXCEPT ![d] = r] /\ r \in Door /\ Lawful(r) /\ ~InHand(r)
           /\ \/ r = Idle
              \/ /\ r.step = "target" /\ r.kind = "install" /\ r.read = old.read
                 /\ r.got \in Copy /\ r.got.version = old.version
                 /\ r.got.body \in Payload(old)
                 /\ r.edited = IF snapshots[old.version] # None
                               THEN old.version \in torn ELSE old.edited
<1>1. old \in Door /\ Lawful(old) /\ door \in [Doors -> Door] /\ old.step = "collect"
  BY DoorTypes DEF TypeInv, PublishTypeOK, Collect
<1>2. old.kind = "install" /\ old.version \in Outputs /\ Publisher(old)
  BY <1>1, StepKinds
<1>3. CASE door' = [door EXCEPT ![d] = Idle]
  <2>1. r = Idle /\ door' = [door EXCEPT ![d] = r]
    BY <1>1, <1>3
  <2>2. QED
    BY <2>1, Fresh DEF InHand
<1>4. ASSUME NEW body \in Payload(old),
             door' = [door EXCEPT
                 ![d].step = "target",
                 ![d].got = [version |-> old.version, body |-> body, evidence |-> measured],
                 ![d].edited = IF snapshots[old.version] # None
                               THEN old.version \in torn ELSE @]
      PROVE  /\ door' = [door EXCEPT ![d] = r] /\ r \in Door /\ Lawful(r) /\ ~InHand(r)
             /\ r.step = "target" /\ r.kind = "install" /\ r.read = old.read
             /\ r.got \in Copy /\ r.got.version = old.version /\ r.got.body \in Payload(old)
             /\ r.edited = IF snapshots[old.version] # None
                           THEN old.version \in torn ELSE old.edited
  <2> DEFINE got == [version |-> old.version, body |-> body, evidence |-> measured]
             edited == IF snapshots[old.version] # None THEN old.version \in torn
                       ELSE old.edited
  <2>1. r = [old EXCEPT !.step = "target", !.got = got, !.edited = edited]
    BY <1>1, <1>4
  <2>2. door' = [door EXCEPT ![d] = r]
    BY <1>1, <1>4
  <2>3. body \in Outputs
    <3>1. snapshots[old.version] \in Content \union {None} /\ live.output \in Outputs
      BY <1>2, LiveTypes DEF TypeInv, PublishTypeOK
    <3>2. QED
      BY <3>1, <1>4 DEF Payload, WithoutSnapshot, Content
  <2>4. got \in Copy /\ got.version = old.version /\ got.body = body
    BY <1>2, <2>3 DEF Copy, TypeInv, PublishTypeOK
  <2>5. edited \in BOOLEAN
    <3>1. old.edited \in BOOLEAN
      BY <1>1, FieldTypes
    <3>2. (old.version \in torn) \in BOOLEAN
      OBVIOUS
    <3>3. CASE snapshots[old.version] # None
      BY <3>2, <3>3, Zenon
    <3>4. CASE snapshots[old.version] = None
      BY <3>1, <3>4
    <3>5. QED
      BY <3>3, <3>4
  <2> HIDE DEF got, edited
  <2>6. r \in Door
    BY <1>1, <2>1, <2>4, <2>5 DEF Door, Steps
  <2>7. /\ r.step = "target" /\ r.got = got /\ r.kind = old.kind /\ r.todo = old.todo
        /\ r.read = old.read /\ r.version = old.version
    BY <1>1, <2>1 DEF Door
  <2>8. r.edited = edited
    BY <1>1, <2>1 DEF Door
  <2>9. Lawful(r) /\ ~InHand(r)
    BY <1>1, <1>2, <2>4, <2>7 DEF Lawful, Publisher, Recorder, InHand
  <2>10. QED
    BY <1>2, <2>2, <2>4, <2>6, <2>7, <2>8, <2>9 DEF edited
<1>5. QED
  BY <1>1, <1>3, <1>4 DEF Collect

LEMMA TypeOpen ==
    ASSUME TypeInv, NEW d \in Doors, NEW r, NewRequest(d, r), Open(d, r)
    PROVE  TypeInv'
<1>1. door' \in [Doors -> Door] /\ \A e \in Doors : Lawful(door'[e])
  BY OneDoorMoves DEF NewRequest, Open
<1>2. requests' \in 0..MaxRequests
  BY PublishConstants DEF Open, TypeInv, PublishTypeOK
<1>3. QED
  BY <1>1, <1>2 DEF Open, TypeInv, PublishTypeOK, world, files, history

LEMMA TypeChange == TypeInv /\ Change => TypeInv'
<1> SUFFICES ASSUME TypeInv, Change PROVE TypeInv'
  OBVIOUS
<1>1. door \in [Doors -> Door] /\ \A e \in Doors : Lawful(door[e])
  BY DEF TypeInv, PublishTypeOK
<1>2. changes' \in 0..MaxChanges
  BY PublishConstants DEF Change, TypeInv, PublishTypeOK
<1>3. /\ live' \in Content /\ stage' \in {"published", "earlier"}
      /\ measured' \in Evidence
  BY DEF Change, Edit, Move, Measure, TypeInv, PublishTypeOK
<1>4. door' \in [Doors -> Door] /\ \A e \in Doors : Lawful(door'[e])
  <2>1. CASE Edit
    <3>1. \A e \in Doors : door'[e] = [door[e] EXCEPT !.edited = @ \/ WillCopy(door[e])]
      BY <2>1 DEF Edit
    <3>2. ASSUME NEW e \in Doors
          PROVE  door'[e] \in Door /\ Lawful(door'[e])
      <4> DEFINE r == door[e]
                 s == [r EXCEPT !.edited = @ \/ WillCopy(r)]
      <4>1. r \in Door /\ Lawful(r) /\ door'[e] = s
        BY <1>1, <3>1
      <4>2. s \in Door
        BY <4>1 DEF Door
      <4>3. /\ s.step = r.step /\ s.kind = r.kind /\ s.event = r.event
            /\ s.version = r.version /\ s.got = r.got /\ s.todo = r.todo
        BY <4>1 DEF Door
      <4> HIDE DEF s
      <4>4. Lawful(s)
        BY <4>1, <4>3 DEF Lawful, Publisher, Recorder, InHand
      <4>5. QED
        BY <4>1, <4>2, <4>4
    <3>3. QED
      BY <2>1, <3>2 DEF Edit
  <2>2. CASE ~Edit
    BY <1>1, <2>2 DEF Change, Move, Measure
  <2>3. QED
    BY <2>1, <2>2
<1>5. QED
  BY <1>2, <1>3, <1>4 DEF Change, TypeInv, PublishTypeOK, files, history

LEMMA TypeReceipt ==
    ASSUME TypeInv, NEW d \in Doors, LookForKey(d) \/ WriteEvent(d)
    PROVE  TypeInv'
<1> DEFINE r == door[d]
<1>1. r \in Door /\ Lawful(r) /\ door \in [Doors -> Door] /\ r.step \in {"append", "write"}
  BY DoorTypes DEF TypeInv, PublishTypeOK, LookForKey, WriteEvent
<1>2. r.event \in Event
  BY <1>1, StepKinds
<1>3. Receipted(r) \in Door /\ Lawful(Receipted(r))
  BY <1>1, ReceiptedIs
<1>4. journal \in Seq(Event) /\ outdated \subseteq 1..Len(journal)
  BY DEF TypeInv, PublishTypeOK
<1>9. Len(journal) \in Nat
  BY <1>4
<1>5. ASSUME NEW s \in Door, Lawful(s), door' = [door EXCEPT ![d] = s]
      PROVE  door' \in [Doors -> Door] /\ \A e \in Doors : Lawful(door'[e])
  BY <1>5, OneDoorMoves
<1>6. CASE LookForKey(d)
  <2>1. \/ door' = [door EXCEPT ![d].step = "write", ![d].seen = Len(journal)]
        \/ door' = [door EXCEPT ![d] = Receipted(@)]
        \/ door' = [door EXCEPT ![d] = Idle]
    BY <1>6 DEF LookForKey, Drop
  <2>2. disturbed' \subseteq Targets
    BY <1>6 DEF LookForKey, Drop, TypeInv, PublishTypeOK
  <2>3. door' \in [Doors -> Door] /\ \A e \in Doors : Lawful(door'[e])
    <3>1. CASE door' = [door EXCEPT ![d].step = "write", ![d].seen = Len(journal)]
      <4> DEFINE s == [r EXCEPT !.step = "write", !.seen = Len(journal)]
      <4>1. door' = [door EXCEPT ![d] = s]
        BY <1>1, <3>1
      <4>2. s \in Door
        BY <1>1, <1>9 DEF Door, Steps
      <4>3. /\ s.step = "write" /\ s.kind = r.kind /\ s.event = r.event
            /\ s.version = r.version /\ s.got = r.got /\ s.todo = r.todo
        BY <1>1 DEF Door
      <4> HIDE DEF s
      <4>4. r.step = "append"
        BY <1>6 DEF LookForKey
      <4>5. r.kind # "none"
        BY <1>1, Fresh DEF Lawful
      <4>6. Lawful(s)
        BY <1>1, <4>3, <4>4, <4>5 DEF Lawful, Publisher, Recorder, InHand
      <4>7. QED
        BY <1>5, <4>1, <4>2, <4>6
    <3>2. CASE door' = [door EXCEPT ![d] = Receipted(@)]
      BY <1>1, <1>3, <1>5, <3>2
    <3>3. CASE door' = [door EXCEPT ![d] = Idle]
      BY <1>5, <3>3, Fresh
    <3>4. QED
      BY <2>1, <3>1, <3>2, <3>3
  <2>4. QED
    BY <1>6, <2>2, <2>3 DEF LookForKey, TypeInv, PublishTypeOK, world, files, counts
<1>7. CASE WriteEvent(d)
  <2>1. journal' \in Seq(Event) /\ Len(journal') = Len(journal) + 1
    BY <1>2, <1>4, <1>7 DEF WriteEvent
  <2>2. outdated' \subseteq 1..Len(journal')
    <3>1. outdated' \subseteq outdated \union {Len(journal) + 1}
      BY <1>7 DEF WriteEvent
    <3>2. 1..Len(journal) \union {Len(journal) + 1} \subseteq 1..Len(journal')
      BY <1>9, <2>1
    <3>3. QED
      BY <1>4, <3>1, <3>2
  <2>3. door' = [door EXCEPT ![d] = Receipted(r)]
    BY <1>1, <1>7 DEF WriteEvent
  <2>4. door' \in [Doors -> Door] /\ \A e \in Doors : Lawful(door'[e])
    BY <1>3, <1>5, <2>3
  <2>5. QED
    BY <1>7, <2>1, <2>2, <2>4 DEF WriteEvent, TypeInv, PublishTypeOK, world, files, counts
<1>8. QED
  BY <1>6, <1>7

LEMMA TypeSnapshot ==
    ASSUME TypeInv, NEW d \in Doors, CopySnapshot(d) \/ RenameSnapshot(d)
    PROVE  TypeInv'
<1> DEFINE r == door[d]
<1>1. r \in Door /\ Lawful(r) /\ door \in [Doors -> Door] /\ r.step \in {"snapshot", "rename"}
  BY DoorTypes DEF TypeInv, PublishTypeOK, CopySnapshot, RenameSnapshot
<1>2. Recorder(r) /\ r.version \in Outputs /\ ~Publisher(r)
  BY <1>1, StepKinds
<1>3. ASSUME NEW s \in Door, Lawful(s), door' = [door EXCEPT ![d] = s]
      PROVE  door' \in [Doors -> Door] /\ \A e \in Doors : Lawful(door'[e])
  BY <1>3, OneDoorMoves
<1>4. CASE CopySnapshot(d)
  <2> DEFINE s == [r EXCEPT !.step = "rename", !.got = live]
  <2>1. s \in Door
    BY <1>1, LiveTypes DEF Door, Steps, TypeInv
  <2>2. /\ s.step = "rename" /\ s.kind = r.kind /\ s.event = r.event
        /\ s.version = r.version /\ s.got = live
    BY <1>1 DEF Door
  <2>3. door' = [door EXCEPT ![d] = Idle] \/ door' = [door EXCEPT ![d] = s]
    BY <1>1, <1>4 DEF CopySnapshot
  <2> HIDE DEF s
  <2>4. Lawful(s)
    BY <1>1, <1>2, <2>2, LiveTypes DEF Lawful, Recorder, Publisher, InHand, TypeInv
  <2>5. door' \in [Doors -> Door] /\ \A e \in Doors : Lawful(door'[e])
    BY <1>3, <2>1, <2>3, <2>4, Fresh
  <2>6. QED
    BY <1>4, <2>5 DEF CopySnapshot, TypeInv, PublishTypeOK, world, files, history, counts
<1>5. CASE RenameSnapshot(d)
  <2>1. door' \in [Doors -> Door] /\ \A e \in Doors : Lawful(door'[e])
    BY <1>3, <1>5, Fresh DEF RenameSnapshot
  <2>2. r.got \in Content
    BY <1>1, <1>2, <1>5 DEF Lawful, RenameSnapshot
  <2>3. /\ snapshots' \in [Outputs -> Content \union {None}]
        /\ contentless' \subseteq Outputs
        /\ torn' \subseteq Outputs \union Targets
    <3>1. /\ snapshots \in [Outputs -> Content \union {None}]
          /\ contentless \subseteq Outputs /\ torn \subseteq Outputs \union Targets
      BY DEF TypeInv, PublishTypeOK
    <3>2. CASE snapshots[r.version] # None
      BY <1>5, <3>1, <3>2 DEF RenameSnapshot
    <3>3. CASE snapshots[r.version] = None
      <4>1. /\ snapshots' = [snapshots EXCEPT ![r.version] = r.got]
            /\ contentless' = contentless \ {r.version}
            /\ torn' = IF r.edited THEN torn \union {r.version} ELSE torn
        BY <1>5, <3>3 DEF RenameSnapshot
      <4>2. QED
        BY <1>2, <2>2, <3>1, <4>1
    <3>4. QED
      BY <3>2, <3>3
  <2>4. QED
    BY <1>5, <2>1, <2>3 DEF RenameSnapshot, TypeInv, PublishTypeOK, world, counts
<1>6. QED
  BY <1>4, <1>5

LEMMA TypeWalk ==
    ASSUME TypeInv, NEW d \in Doors, Collect(d) \/ AlreadyPublished(d)
    PROVE  TypeInv'
<1>1. \E s \in Door : Lawful(s) /\ door' = [door EXCEPT ![d] = s]
  <2>1. CASE Collect(d)
    BY <2>1, CollectIs
  <2>2. CASE AlreadyPublished(d)
    <3>1. door[d] \in Door /\ Lawful(door[d]) /\ door[d].step = "target"
      BY <2>2, DoorTypes DEF TypeInv, AlreadyPublished
    <3>2. Publisher(door[d])
      BY <3>1, StepKinds
    <3>3. NextTarget(door[d]) \in Door /\ Lawful(NextTarget(door[d]))
      BY <3>1, <3>2, NextTargetIs
    <3>4. door' = [door EXCEPT ![d] = NextTarget(door[d])]
      BY <2>2 DEF AlreadyPublished, TypeInv, PublishTypeOK
    <3>5. QED
      BY <3>3, <3>4
  <2>3. QED
    BY <2>1, <2>2
<1>2. door' \in [Doors -> Door] /\ \A e \in Doors : Lawful(door'[e])
  BY <1>1, OneDoorMoves
<1>3. UNCHANGED <<world, journal, files, history, counts>>
  BY DEF Collect, AlreadyPublished
<1>4. QED
  BY <1>2, <1>3 DEF TypeInv, PublishTypeOK, world, files, history, counts

LEMMA TouchIs ==
    ASSUME NEW d \in Doors, Touch(d), NEW t, t = Head(door[d].todo)
    PROVE  /\ door[d].step = "target"
           /\ copies[t] # Wanted(d) \/ Landing(d, t, Wanted(d)) = 0
           /\ \/ copies[t] = Wanted(d) /\ ToReceipt(d, t, "append") /\ UNCHANGED copies
              \/ /\ copies[t] # Wanted(d) /\ t \in Audiences /\ ToReceipt(d, t, "copy")
                 /\ copies' = [copies EXCEPT ![t] = Torn]
              \/ /\ copies[t] # Wanted(d) /\ t \in Markets /\ ToReceipt(d, t, "append")
                 /\ copies' = [copies EXCEPT ![t] = Wanted(d)]
           /\ disturbed' = IF At(t) # {} \/ \E i \in Receipts(journal, t) : i > door[d].read
                           THEN disturbed \union {t} ELSE disturbed \ {t}
           /\ UNCHANGED <<journal, live, snapshots, contentless, torn, outdated>>
BY Zenon DEF Touch, world

LEMMA TypeTouch ==
    ASSUME TypeInv, NEW d \in Doors, Touch(d), door[d].read <= Len(journal)
    PROVE  TypeInv'
<1> DEFINE t == Head(door[d].todo)
<1>0. t = Head(door[d].todo) /\ Touch(d)
  OBVIOUS
<1>1. door[d].step = "target" /\ t \in Targets /\ Wanted(d) \in Copy
      /\ (t \in Audiences => door[d].kind = "install")
  BY WantedIs, MarketsAre DEF Touch, Publisher
<1> HIDE DEF t
<1>2. ToReceipt(d, t, "append") \/ (ToReceipt(d, t, "copy") /\ t \in Audiences)
  BY <1>0, TouchIs
<1>3. \E s \in Door : Lawful(s) /\ door' = [door EXCEPT ![d] = s]
  BY <1>0, <1>1, <1>2, ToReceiptIs
<1>4. door' \in [Doors -> Door] /\ \A e \in Doors : Lawful(door'[e])
  BY <1>3, OneDoorMoves
<1>5. copies' \in [Targets -> Copy \union {None, Torn}]
  BY <1>0, <1>1, TouchIs DEF TypeInv, PublishTypeOK
<1>6. disturbed' \subseteq Targets
  BY <1>0, <1>1, TouchIs DEF TypeInv, PublishTypeOK
<1>7. QED
  BY <1>4, <1>5, <1>6 DEF Touch, TypeInv, PublishTypeOK, world, counts

LEMMA TypeCopyFiles ==
    ASSUME TypeInv, NEW d \in Doors, CopyFiles(d)
    PROVE  TypeInv'
<1> DEFINE r == door[d]
           s == [r EXCEPT !.step = "append"]
<1>1. r \in Door /\ Lawful(r) /\ door \in [Doors -> Door] /\ r.step = "copy"
  BY DoorTypes DEF TypeInv, PublishTypeOK, CopyFiles
<1>2. /\ Head(r.todo) \in Targets /\ r.got \in Copy /\ r.kind = "install"
  BY <1>1, StepKinds, WantedIs
<1>3. s \in Door
  BY <1>1 DEF Door, Steps
<1>4. /\ s.step = "append" /\ s.kind = r.kind /\ s.event = r.event /\ s.got = r.got
      /\ s.version = r.version /\ s.todo = r.todo
  BY <1>1 DEF Door
<1>5. door' = [door EXCEPT ![d] = s]
  BY <1>1 DEF CopyFiles
<1> HIDE DEF s
<1>6. Lawful(s)
  BY <1>1, <1>2, <1>4 DEF Lawful, Recorder, Publisher, InHand
<1>7. door' \in [Doors -> Door] /\ \A e \in Doors : Lawful(door'[e])
  BY <1>3, <1>5, <1>6, OneDoorMoves
<1>8. copies' \in [Targets -> Copy \union {None, Torn}]
  BY <1>2 DEF CopyFiles, TypeInv, PublishTypeOK
<1>9. torn' \subseteq Outputs \union Targets
  BY <1>2 DEF CopyFiles, TypeInv, PublishTypeOK
<1>10. QED
  BY <1>7, <1>8, <1>9 DEF CopyFiles, TypeInv, PublishTypeOK, world, counts

LEMMA TypeRemember ==
    ASSUME TypeInv, NEW d \in Doors, Remember(d)
    PROVE  TypeInv'
<1>1. door' \in [Doors -> Door] /\ \A e \in Doors : Lawful(door'[e])
  BY Fresh, OneDoorMoves DEF Remember
<1>2. remembered' \in Seq(Audiences) /\ Distinct(remembered')
  <2>1. remembered \in Seq(Audiences) /\ Len(remembered) \in Nat /\ Distinct(remembered)
    BY DEF TypeInv, PublishTypeOK
  <2>2. CASE UNCHANGED remembered
    BY <2>1, <2>2
  <2>3. ASSUME NEW a \in ToRemember(door[d]), remembered' = Append(remembered, a)
        PROVE  remembered' \in Seq(Audiences) /\ Distinct(remembered')
    <3>1. a \in Audiences /\ \A i \in 1..Len(remembered) : remembered[i] # a
      BY DoorTypes DEF ToRemember, TypeInv
    <3>2. /\ remembered' \in Seq(Audiences) /\ Len(remembered') = Len(remembered) + 1
          /\ \A i \in 1..Len(remembered) : remembered'[i] = remembered[i]
          /\ remembered'[Len(remembered) + 1] = a
      BY <2>1, <2>3, <3>1
    <3>3. ASSUME NEW i \in 1..Len(remembered'), NEW j \in 1..Len(remembered'),
                 remembered'[i] = remembered'[j]
          PROVE  i = j
      <4>1. /\ i \in 1..Len(remembered) \/ i = Len(remembered) + 1
            /\ j \in 1..Len(remembered) \/ j = Len(remembered) + 1
        BY <2>1, <3>2
      <4>2. QED
        BY <2>1, <3>1, <3>2, <3>3, <4>1 DEF Distinct
    <3>4. QED
      BY <3>2, <3>3 DEF Distinct
  <2>4. QED
    BY <2>2, <2>3 DEF Remember
<1>3. QED
  BY <1>1, <1>2 DEF Remember, TypeInv, PublishTypeOK, world, history, counts

LEMMA TypeCrash ==
    ASSUME TypeInv, NEW d \in Doors, Crash(d)
    PROVE  TypeInv'
<1>1. door' \in [Doors -> Door] /\ \A e \in Doors : Lawful(door'[e])
  BY Fresh, OneDoorMoves DEF Crash, Drop
<1>2. contentless' \subseteq Outputs
  <2>1. door[d].step \in {"snapshot", "rename"} => door[d].version \in Outputs
    BY DoorTypes, StepKinds DEF TypeInv
  <2>2. QED
    BY <2>1 DEF Crash, TypeInv, PublishTypeOK
<1>3. crashes' \in 0..MaxCrashes /\ disturbed' \subseteq Targets
  BY PublishConstants DEF Crash, Drop, TypeInv, PublishTypeOK
<1>4. QED
  BY <1>1, <1>2, <1>3 DEF Crash, TypeInv, PublishTypeOK, world, files
-----------------------------------------------------------------------------
\* What a door about to write does to the journal.
LEMMA JournalGrows ==
    ASSUME TypeInv, NEW d \in Doors, WriteEvent(d), NEW n, n = Len(journal)
    PROVE  /\ journal' \in Seq(Event) /\ n \in Nat /\ Len(journal') = n + 1
           /\ \A i \in 1..n : journal'[i] = journal[i] /\ i \in 1..Len(journal')
           /\ journal'[n + 1] = door[d].event /\ n + 1 \in 1..Len(journal')
           /\ \A i \in 1..Len(journal') : i \in 1..n \/ i = n + 1
           /\ door[d].event \in Event
<1>1. door[d].event \in Event
  BY DoorTypes, StepKinds DEF TypeInv, WriteEvent
<1>2. journal \in Seq(Event) /\ n \in Nat
  BY JournalTypes DEF TypeInv
<1>3. journal' = Append(journal, door[d].event)
  BY DEF WriteEvent
<1>4. QED
  BY <1>1, <1>2, <1>3

LEMMA RecordedStays ==
    ASSUME TypeInv, NEW m, NEW h, RecordedAs(m, h),
           UNCHANGED journal \/ \E d \in Doors : WriteEvent(d)
    PROVE  RecordedAs(m, h)'
<1>1. CASE UNCHANGED journal
  BY <1>1 DEF RecordedAs
<1>2. ASSUME NEW d \in Doors, WriteEvent(d)
      PROVE  RecordedAs(m, h)'
  <2>1. PICK k \in 1..Len(journal) : /\ journal[k].type = "recorded"
                                     /\ journal[k].design = m /\ journal[k].hash = h
    BY DEF RecordedAs
  <2>2. journal'[k] = journal[k] /\ k \in 1..Len(journal')
    BY <1>2, JournalGrows
  <2>3. QED
    BY <2>1, <2>2 DEF RecordedAs
<1>3. QED
  BY <1>1, <1>2

\* Idle doors, and those that have nothing of a version in hand.
LEMMA NothingToName ==
    ASSUME NEW r \in Door, Lawful(r), r.kind \in {"none", "market"}
    PROVE  Faithful(r)
BY DEF Lawful, Faithful, Recorder

LEMMA FaithfulNext ==
    ASSUME NEW r \in Door, Lawful(r), Faithful(r), Publisher(r),
           r.step \in {"target", "append", "write"}
    PROVE  Faithful(NextTarget(r))
<1> DEFINE s == NextTarget(r)
<1>1. s \in Door /\ Lawful(s)
  BY NextTargetIs
<1>2. CASE s = Idle
  BY <1>1, <1>2, Fresh, NothingToName
<1>3. CASE /\ s.step \in {"target", "remember"}
           /\ s.kind = r.kind /\ s.got = r.got /\ s.edited = r.edited
  BY <1>3 DEF Faithful, Publisher, Recorder
<1>4. QED
  BY <1>2, <1>3, NextTargetIs

LEMMA FaithfulReceipted ==
    ASSUME NEW r \in Door, Lawful(r), Faithful(r), r.step \in {"append", "write"}
    PROVE  Faithful(Receipted(r))
<1>1. CASE Publisher(r)
  BY <1>1, FaithfulNext, ReceiptedIs
<1>2. CASE ~Publisher(r)
  <2> DEFINE s == Receipted(r)
  <2>1. Recorder(r) /\ s = [r EXCEPT !.step = "snapshot"]
    BY <1>2, ReceiptedIs
  <2>2. /\ s.step = "snapshot" /\ s.kind = r.kind /\ s.event = r.event
        /\ s.edited = r.edited
    BY <2>1 DEF Door
  <2> HIDE DEF s
  <2>3. Faithful(s)
    BY <1>2, <2>1, <2>2 DEF Faithful, Recorder, Publisher
  <2>4. QED
    BY <2>3 DEF s
<1>3. QED
  BY <1>1, <1>2

\* A payload not touched by an edit is that of the version.
LEMMA PayloadIsOfVersion ==
    ASSUME TypeInv, SnapshotsHold, NEW r \in Door, Lawful(r), Faithful(r),
           r.step = "collect", NEW body \in Payload(r),
           IF snapshots[r.version] # None THEN r.version \notin torn ELSE ~r.edited
    PROVE  body = r.version
<1>1. r.version \in Outputs
  BY StepKinds
<1>2. CASE snapshots[r.version] # None
  BY <1>1, <1>2 DEF Payload, SnapshotsHold
<1>3. CASE snapshots[r.version] = None
  BY <1>3 DEF Payload, WithoutSnapshot, Faithful
<1>4. QED
  BY <1>2, <1>3

\* Every step of a door leaves it faithful.
LEMMA FaithfulStep ==
    ASSUME TypeInv, ContentInv, NEW d \in Doors, Step(d),
           door[d].step = "target" => door[d].read <= Len(journal)
    PROVE  Faithful(door'[d])
<1> DEFINE r == door[d]
           s == door'[d]
<1>1. r \in Door /\ Lawful(r) /\ Faithful(r) /\ door \in [Doors -> Door]
  BY DoorTypes DEF TypeInv, PublishTypeOK, ContentInv
<1>2. ASSUME s = Idle PROVE Faithful(s)
  BY <1>2, Fresh, NothingToName
<1>3. CASE OpenRecord(d) \/ OpenInstall(d) \/ OpenMarket(d)
  <2>1. PICK new : NewRequest(d, new) /\ Open(d, new)
    BY <1>3, RecordRequest, InstallRequest, MarketRequest
  <2>2. s = new
    BY <1>1, <2>1 DEF Open
  <2>3. /\ new.kind = "install" => new.step = "collect"
        /\ Recorder(new) => new.step = "append"
    BY <2>1 DEF NewRequest, Lawful, Recorder
  <2>4. QED
    BY <2>1, <2>2, <2>3 DEF NewRequest, Faithful, Recorder
<1>4. CASE LookForKey(d)
  <2>1. \/ s = [r EXCEPT !.step = "write", !.seen = Len(journal)]
        \/ s = Receipted(r)
        \/ s = Idle
    BY <1>1, <1>4 DEF LookForKey, Drop
  <2>2. r.step = "append"
    BY <1>4 DEF LookForKey
  <2>3. CASE s = [r EXCEPT !.step = "write", !.seen = Len(journal)]
    <3>1. /\ s.step = "write" /\ s.kind = r.kind /\ s.event = r.event /\ s.got = r.got
          /\ s.edited = r.edited
      BY <1>1, <2>3 DEF Door
    <3>2. QED
      BY <1>1, <2>2, <3>1 DEF Faithful, Recorder
  <2>4. QED
    BY <1>1, <1>2, <2>1, <2>2, <2>3, FaithfulReceipted
<1>5. CASE WriteEvent(d)
  <2>1. s = Receipted(r) /\ r.step = "write"
    BY <1>1, <1>5 DEF WriteEvent
  <2>2. QED
    BY <1>1, <2>1, FaithfulReceipted
<1>6. CASE CopySnapshot(d)
  <2>1. s = Idle \/ s = [r EXCEPT !.step = "rename", !.got = live]
    BY <1>1, <1>6 DEF CopySnapshot
  <2>2. CASE s = [r EXCEPT !.step = "rename", !.got = live]
    <3>1. /\ s.step = "rename" /\ s.kind = r.kind /\ s.event = r.event /\ s.got = live
          /\ s.edited = r.edited
      BY <1>1, <2>2 DEF Door
    <3>2. Recorder(r) /\ r.step = "snapshot"
      BY <1>1, <1>6, StepKinds DEF CopySnapshot
    <3>3. QED
      BY <1>1, <3>1, <3>2 DEF Faithful, Recorder
  <2>3. QED
    BY <1>2, <2>1, <2>2
<1>7. CASE RenameSnapshot(d) \/ Remember(d) \/ Crash(d)
  BY <1>1, <1>2, <1>7 DEF RenameSnapshot, Remember, Crash, Drop
<1>8. CASE Collect(d)
  <2>1. CASE s = Idle
    BY <1>2, <2>1
  <2>2. CASE /\ s.step = "target" /\ s.kind = "install"
             /\ s.got.version = r.version /\ s.got.body \in Payload(r)
             /\ s.edited = IF snapshots[r.version] # None THEN r.version \in torn
                           ELSE r.edited
    <3>1. r.step = "collect"
      BY <1>8 DEF Collect
    <3>2. ~s.edited => s.got.body = s.got.version
      BY <1>1, <2>2, <3>1, PayloadIsOfVersion DEF ContentInv
    <3>3. QED
      BY <2>2, <3>2 DEF Faithful, Recorder
  <2>3. QED
    BY <1>8, <2>1, <2>2, CollectIs
<1>9. CASE AlreadyPublished(d)
  <2>1. s = NextTarget(r) /\ r.step = "target"
    BY <1>1, <1>9 DEF AlreadyPublished
  <2>2. QED
    BY <1>1, <2>1, FaithfulNext, StepKinds
<1>10. CASE Touch(d)
  <2> DEFINE t == Head(r.todo)
  <2>1. t = Head(door[d].todo) /\ r.step = "target"
    BY <1>10, TouchIs
  <2> HIDE DEF t
  <2>2. ToReceipt(d, t, "append") \/ (ToReceipt(d, t, "copy") /\ t \in Audiences)
    BY <1>10, <2>1, TouchIs
  <2>3. t \in Audiences => r.kind = "install"
    BY <2>1, WantedIs, MarketsAre DEF Publisher
  <2>4. /\ s.step \in {"copy", "append"} /\ s.kind = r.kind /\ s.got = r.got
        /\ s.edited = r.edited
    BY <2>1, <2>2, <2>3, ToReceiptIs
  <2>5. ~Recorder(r)
    BY <1>1, <2>1, StepKinds
  <2>6. QED
    BY <1>1, <2>1, <2>4, <2>5 DEF Faithful, Recorder
<1>11. CASE CopyFiles(d)
  <2>1. r.step = "copy" /\ s = [r EXCEPT !.step = "append"]
    BY <1>1, <1>11 DEF CopyFiles
  <2>2. s.step = "append" /\ s.kind = r.kind /\ s.got = r.got /\ s.edited = r.edited
    BY <1>1, <2>1 DEF Door
  <2>3. r.kind = "install"
    BY <1>1, <2>1, StepKinds
  <2>4. QED
    BY <1>1, <2>1, <2>2, <2>3 DEF Faithful, Recorder
<1>12. QED
  BY <1>3, <1>4, <1>5, <1>6, <1>7, <1>8, <1>9, <1>10, <1>11 DEF Step
-----------------------------------------------------------------------------
\* What a door changes of itself alone, by kind of step.
LEMMA DoorMoves ==
    ASSUME TypeInv, NEW d \in Doors, Step(d),
           door[d].step = "target" => door[d].read <= Len(journal)
    PROVE  /\ door' = [door EXCEPT ![d] = door'[d]] /\ UNCHANGED live
           /\ door'[d] \in Door /\ Lawful(door'[d])
           /\ \A e \in Doors : e # d => door'[e] = door[e]
           /\ UNCHANGED journal \/ WriteEvent(d)
<1>1. door \in [Doors -> Door] /\ \A e \in Doors : Lawful(door[e])
  BY DEF TypeInv, PublishTypeOK
<1>2. \E r : door' = [door EXCEPT ![d] = r]
  <2>1. CASE OpenRecord(d) \/ OpenInstall(d) \/ OpenMarket(d)
    BY <2>1, RecordRequest, InstallRequest, MarketRequest DEF Open
  <2>2. CASE LookForKey(d)
    <3>1. \/ door' = [door EXCEPT ![d].step = "write", ![d].seen = Len(journal)]
          \/ door' = [door EXCEPT ![d] = Receipted(@)]
          \/ door' = [door EXCEPT ![d] = Idle]
      BY <2>2 DEF LookForKey, Drop
    <3>2. CASE door' = [door EXCEPT ![d].step = "write", ![d].seen = Len(journal)]
      <4>1. door' = [door EXCEPT ![d] = [door[d] EXCEPT !.step = "write",
                                                       !.seen = Len(journal)]]
        BY <1>1, <3>2
      <4>2. QED
        BY <4>1
    <3>3. CASE door' = [door EXCEPT ![d] = Receipted(@)]
      BY <1>1, <3>3
    <3>4. QED
      BY <3>1, <3>2, <3>3
  <2>3. CASE WriteEvent(d) \/ RenameSnapshot(d) \/ AlreadyPublished(d) \/ Remember(d)
    BY <1>1, <2>3 DEF WriteEvent, RenameSnapshot, AlreadyPublished, Remember
  <2>4. CASE CopySnapshot(d)
    BY <1>1, <2>4 DEF CopySnapshot
  <2>5. CASE Collect(d)
    BY <2>5, CollectIs
  <2>6. CASE Touch(d)
    <3>1. door' = [door EXCEPT ![d] = door'[d]]
      <4> DEFINE t == Head(door[d].todo)
      <4>1. t = Head(door[d].todo) /\ door[d].step = "target"
        BY <2>6, TouchIs
      <4> HIDE DEF t
      <4>2. ToReceipt(d, t, "append") \/ ToReceipt(d, t, "copy")
        BY <2>6, <4>1, TouchIs
      <4>3. QED
        BY <1>1, <4>2 DEF ToReceipt
    <3>2. QED
      BY <3>1
  <2>7. CASE CopyFiles(d)
    <3>1. door' = [door EXCEPT ![d] = [door[d] EXCEPT !.step = "append"]]
      BY <1>1, <2>7 DEF CopyFiles
    <3>2. QED
      BY <3>1
  <2>8. CASE Crash(d)
    BY <2>8 DEF Crash, Drop
  <2>9. QED
    BY <2>1, <2>2, <2>3, <2>4, <2>5, <2>6, <2>7, <2>8 DEF Step
<1>3. PICK r : door' = [door EXCEPT ![d] = r]
  BY <1>2
<1>4. door'[d] = r /\ \A e \in Doors : e # d => door'[e] = door[e]
  BY <1>1, <1>3
<1>5. UNCHANGED live /\ (UNCHANGED journal \/ WriteEvent(d))
  <2>1. CASE OpenRecord(d) \/ OpenInstall(d) \/ OpenMarket(d)
    BY <2>1, RecordRequest, InstallRequest, MarketRequest DEF Open, world
  <2>2. CASE Touch(d)
    BY <2>2, TouchIs
  <2>3. CASE ~(OpenRecord(d) \/ OpenInstall(d) \/ OpenMarket(d)) /\ ~Touch(d)
    BY <2>3 DEF Step, LookForKey, WriteEvent, CopySnapshot, RenameSnapshot, Collect,
                AlreadyPublished, CopyFiles, Remember, Crash, world
  <2>4. QED
    BY <2>1, <2>2, <2>3
<1>6. TypeInv'
  BY TypeOpen, TypeReceipt, TypeSnapshot, TypeWalk, TypeTouch, TypeCopyFiles,
     TypeRemember, TypeCrash, RecordRequest, InstallRequest, MarketRequest, TouchIs DEF Step
<1>7. door'[d] \in Door /\ Lawful(door'[d])
  BY <1>6 DEF TypeInv, PublishTypeOK
<1>8. QED
  BY <1>3, <1>4, <1>5, <1>7

LEMMA TypeStep ==
    ASSUME TypeInv, NEW d \in Doors, Step(d),
           door[d].step = "target" => door[d].read <= Len(journal)
    PROVE  TypeInv'
BY TypeOpen, TypeReceipt, TypeSnapshot, TypeWalk, TypeTouch, TypeCopyFiles,
   TypeRemember, TypeCrash, RecordRequest, InstallRequest, MarketRequest, TouchIs DEF Step

LEMMA SnapshotsStep ==
    ASSUME TypeInv, ContentInv, NEW d \in Doors, Step(d),
           door[d].step \in {"snapshot", "rename"} =>
               RecordedAs(door[d].event.design, door[d].event.hash),
           door[d].step = "target" => door[d].read <= Len(journal)
    PROVE  SnapshotsHold'
<1>1. \A m, h : RecordedAs(m, h) => RecordedAs(m, h)'
  BY DoorMoves, RecordedStays
<1>2. CASE snapshots' = snapshots /\ \A h \in Outputs : h \in torn => h \in torn'
  BY <1>1, <1>2 DEF ContentInv, SnapshotsHold
<1>3. CASE RenameSnapshot(d) /\ snapshots[door[d].version] = None
  <2> DEFINE r == door[d]
             v == r.version
  <2>1. r \in Door /\ Lawful(r) /\ r.step = "rename" /\ Faithful(r)
    BY <1>3, DoorTypes DEF TypeInv, ContentInv, RenameSnapshot
  <2>2. Recorder(r) /\ v \in Outputs /\ v = r.event.hash
    BY <2>1, StepKinds
  <2>3. /\ snapshots' = [snapshots EXCEPT ![v] = r.got]
        /\ torn' = IF r.edited THEN torn \union {v} ELSE torn
    BY <1>3 DEF RenameSnapshot
  <2>4. \A h \in Outputs : snapshots'[h] = IF h = v THEN r.got ELSE snapshots[h]
    BY <2>2, <2>3 DEF TypeInv, PublishTypeOK
  <2>5. v \notin torn' => r.got.output = v /\ RecordedAs(r.got.design, v)
    BY <2>1, <2>2, <2>3 DEF Faithful
  <2>6. \A h \in Outputs : h \notin torn' => h \notin torn
    BY <2>3
  <2> HIDE DEF r, v
  <2>7. ASSUME NEW h \in Outputs, snapshots'[h] # None, h \notin torn'
        PROVE  snapshots'[h].output = h /\ RecordedAs(snapshots'[h].design, h)
    <3>1. CASE h = v
      BY <2>4, <2>5, <2>7, <3>1
    <3>2. CASE h # v
      BY <2>4, <2>6, <2>7, <3>2 DEF ContentInv, SnapshotsHold
    <3>3. QED
      BY <3>1, <3>2
  <2>8. ASSUME NEW h \in Outputs, snapshots'[h] # None, h \notin torn'
        PROVE  snapshots'[h].output = h /\ RecordedAs(snapshots[h].design, h)'
    BY <1>1, <2>7, <2>8
  <2>9. QED
    BY <2>8 DEF SnapshotsHold
<1>4. snapshots' = snapshots \/ (RenameSnapshot(d) /\ snapshots[door[d].version] = None)
  <2>1. CASE OpenRecord(d) \/ OpenInstall(d) \/ OpenMarket(d)
    BY <2>1, RecordRequest, InstallRequest, MarketRequest DEF Open, files
  <2>2. CASE Touch(d)
    BY <2>2, TouchIs
  <2>3. CASE ~(OpenRecord(d) \/ OpenInstall(d) \/ OpenMarket(d)) /\ ~Touch(d)
    BY <2>3 DEF Step, LookForKey, WriteEvent, CopySnapshot, RenameSnapshot, Collect,
                AlreadyPublished, CopyFiles, Remember, Crash, files
  <2>4. QED
    BY <2>1, <2>2, <2>3
<1>5. \A h \in Outputs : h \in torn => h \in torn'
  <2>1. CASE OpenRecord(d) \/ OpenInstall(d) \/ OpenMarket(d)
    BY <2>1, RecordRequest, InstallRequest, MarketRequest DEF Open, history
  <2>2. CASE Touch(d)
    BY <2>2, TouchIs
  <2>3. CASE CopyFiles(d)
    <3>1. Head(door[d].todo) \in Targets
      BY <2>3, WantedIs DEF CopyFiles
    <3>2. torn \ {Head(door[d].todo)} \subseteq torn'
      BY <2>3 DEF CopyFiles
    <3>3. QED
      BY <3>1, <3>2, MarketsAre
  <2>4. CASE RenameSnapshot(d)
    BY <2>4 DEF RenameSnapshot
  <2>5. CASE /\ ~(OpenRecord(d) \/ OpenInstall(d) \/ OpenMarket(d)) /\ ~Touch(d)
             /\ ~CopyFiles(d) /\ ~RenameSnapshot(d)
    BY <2>5 DEF Step, LookForKey, WriteEvent, CopySnapshot, Collect,
                AlreadyPublished, Remember, Crash, history
  <2>6. QED
    BY <2>1, <2>2, <2>3, <2>4, <2>5
<1>6. QED
  BY <1>2, <1>3, <1>4, <1>5

\* Who has a snapshot to take, and what it is of.
Covering(e, h) == door[e].step \in {"snapshot", "rename"} /\ door[e].version = h
Covered(h) ==
    \/ h \in contentless
    \/ \E e \in Doors : Covering(e, h)
    \/ snapshots[h] # None

LEMMA CoveredIs ==
    VersionsAreCovered <=>
        \A i \in 1..Len(journal) :
            journal[i].type = "recorded" => Covered(journal[i].hash)
BY DEF VersionsAreCovered, Covered, Covering

\* A version a door neither covers nor loses its snapshot of stays covered.
LEMMA CoveredStays ==
    ASSUME TypeInv, NEW d \in Doors, Step(d), NEW h \in Outputs, Covered(h),
           door[d].step = "target" => door[d].read <= Len(journal)
    PROVE  Covered(h)'
<1> DEFINE r == door[d]
           s == door'[d]
<1>1. r \in Door /\ Lawful(r) /\ door \in [Doors -> Door]
  BY DoorTypes DEF TypeInv, PublishTypeOK
<1>2. \A e \in Doors : e # d => (Covering(e, h) => Covering(e, h)')
  BY DoorMoves DEF Covering
<1>3. CASE CopySnapshot(d)
  <2>1. UNCHANGED <<contentless, snapshots>>
    BY <1>3 DEF CopySnapshot, files, history
  <2>2. CASE snapshots[r.version] # None
    <3>1. Covering(d, h) => snapshots[h] # None
      BY <2>2 DEF Covering
    <3>2. QED
      BY <1>2, <2>1, <3>1 DEF Covered
  <2>3. CASE snapshots[r.version] = None
    <3>1. s = [r EXCEPT !.step = "rename", !.got = live]
      BY <1>1, <1>3, <2>3 DEF CopySnapshot
    <3>2. s.step = "rename" /\ s.version = r.version
      BY <1>1, <3>1 DEF Door
    <3>3. Covering(d, h) => Covering(d, h)'
      BY <3>2 DEF Covering
    <3>4. QED
      BY <1>2, <2>1, <3>3 DEF Covered
  <2>4. QED
    BY <2>2, <2>3
<1>4. CASE RenameSnapshot(d)
  <2>1. r.step = "rename" /\ Recorder(r) /\ r.version \in Outputs /\ r.got \in Content
    BY <1>1, <1>4, StepKinds DEF RenameSnapshot, Lawful
  <2>2. r.got # None
    BY <2>1, PublishConstants
  <2>3. snapshots \in [Outputs -> Content \union {None}]
    BY DEF TypeInv, PublishTypeOK
  <2>4. snapshots'[r.version] # None
    BY <1>4, <2>1, <2>2, <2>3 DEF RenameSnapshot
  <2>5. \A g \in Outputs : snapshots[g] # None => snapshots'[g] # None
    BY <1>4, <2>1, <2>2, <2>3 DEF RenameSnapshot
  <2>6. contentless \ {r.version} \subseteq contentless'
    BY <1>4 DEF RenameSnapshot
  <2>7. CASE h = r.version
    BY <2>4, <2>7 DEF Covered
  <2>8. CASE h # r.version
    BY <1>2, <2>5, <2>6, <2>8 DEF Covered, Covering
  <2>9. QED
    BY <2>7, <2>8
<1>5. CASE Crash(d)
  <2>1. /\ snapshots' = snapshots /\ contentless \subseteq contentless'
        /\ r.step \in {"snapshot", "rename"} => r.version \in contentless'
    BY <1>5 DEF Crash, files
  <2>2. QED
    BY <1>2, <2>1 DEF Covered, Covering
<1>6. CASE ~CopySnapshot(d) /\ ~RenameSnapshot(d) /\ ~Crash(d)
  <2>1. UNCHANGED <<contentless, snapshots>> /\ r.step \notin {"snapshot", "rename"}
    <3>1. CASE OpenRecord(d) \/ OpenInstall(d) \/ OpenMarket(d)
      BY <3>1, RecordRequest, InstallRequest, MarketRequest, Fresh
         DEF Open, files, history
    <3>2. CASE Touch(d)
      BY <3>2, TouchIs
    <3>3. CASE ~(OpenRecord(d) \/ OpenInstall(d) \/ OpenMarket(d)) /\ ~Touch(d)
      BY <1>6, <3>3 DEF Step, LookForKey, WriteEvent, Collect, AlreadyPublished,
                       CopyFiles, Remember, files, history
    <3>4. QED
      BY <3>1, <3>2, <3>3
  <2>2. QED
    BY <1>2, <2>1 DEF Covered, Covering
<1>7. QED
  BY <1>3, <1>4, <1>5, <1>6

LEMMA CoveredStep ==
    ASSUME TypeInv, VersionsAreCovered, NEW d \in Doors, Step(d),
           door[d].step = "target" => door[d].read <= Len(journal)
    PROVE  VersionsAreCovered'
<1> DEFINE n == Len(journal)
           All == \A i \in 1..Len(journal) :
                      journal[i].type = "recorded" => Covered(journal[i].hash)
<1>1. \A i \in 1..n : journal[i].type = "recorded" => journal[i].hash \in Outputs
  BY JournalTypes DEF TypeInv, Event, Recorded, Published
<1>2. \A h \in Outputs : Covered(h) => Covered(h)'
  BY CoveredStays
<1>3. All
  BY CoveredIs
<1>4. All'
  <2>1. CASE UNCHANGED journal
    BY <1>1, <1>2, <1>3, <2>1
  <2>2. CASE WriteEvent(d)
    <3> DEFINE r == door[d]
    <3>1. r \in Door /\ Lawful(r) /\ door \in [Doors -> Door] /\ r.step = "write"
      BY <2>2, DoorTypes DEF TypeInv, PublishTypeOK, WriteEvent
    <3>2. ASSUME NEW h, h = r.event.hash, r.event.type = "recorded"
          PROVE  Covered(h)'
      <4>1. ~InHand(r)
        BY <3>1, <3>2 DEF Lawful, Published
      <4>2. Recorder(r) /\ ~Publisher(r) /\ r.version = r.event.hash
        BY <3>1, <4>1, StepKinds
      <4>3. Receipted(r) = [r EXCEPT !.step = "snapshot"]
        BY <3>1, <4>2, ReceiptedIs
      <4>4. door'[d] = Receipted(r)
        BY <2>2, <3>1 DEF WriteEvent
      <4>5. door'[d].step = "snapshot" /\ door'[d].version = h
        BY <3>1, <3>2, <4>2, <4>3, <4>4 DEF Door
      <4>6. Covering(d, h)'
        BY <4>5 DEF Covering
      <4>7. QED
        BY <4>6 DEF Covered
    <3>3. /\ \A i \in 1..n : journal'[i] = journal[i]
          /\ \A i \in 1..Len(journal') : i \in 1..n \/ i = n + 1
          /\ journal'[n + 1] = r.event
      BY <2>2, JournalGrows
    <3> HIDE DEF r
    <3>4. ASSUME NEW i \in 1..Len(journal'), journal'[i].type = "recorded",
                 NEW h, h = journal'[i].hash
          PROVE  Covered(h)'
      <4>1. CASE i \in 1..n
        BY <1>1, <1>2, <1>3, <3>3, <3>4, <4>1
      <4>2. CASE i = n + 1
        BY <3>2, <3>3, <3>4, <4>2
      <4>3. QED
        BY <3>3, <4>1, <4>2
    <3>5. QED
      BY <3>4
  <2>3. QED
    BY <2>1, <2>2, DoorMoves
<1>5. QED
  <2>1. All' => VersionsAreCovered'
    BY DEF VersionsAreCovered, Covered, Covering
  <2>2. QED
    BY <1>4, <2>1

LEMMA StampStep ==
    ASSUME TypeInv, ContentInv, NEW d \in Doors, Step(d),
           door[d].step = "target" => door[d].read <= Len(journal)
    PROVE  StampNamesContent'
<1> DEFINE r == door[d]
           t == Head(r.todo)
<1>1. r \in Door /\ Lawful(r) /\ Faithful(r)
  BY DoorTypes DEF TypeInv, ContentInv
<1>2. copies \in [Targets -> Copy \union {None, Torn}]
  BY DEF TypeInv, PublishTypeOK
<1>3. CASE copies' = copies /\ torn \subseteq torn'
  BY <1>3 DEF ContentInv, StampNamesContent
<1>4. CASE CopyFiles(d)
  <2>1. r.step = "copy" /\ r.kind = "install" /\ t \in Targets
    BY <1>1, <1>4, StepKinds, WantedIs DEF CopyFiles
  <2>2. /\ copies' = [copies EXCEPT ![t] = r.got]
        /\ torn' = IF r.edited THEN torn \union {t} ELSE torn \ {t}
    BY <1>4 DEF CopyFiles
  <2>3. ~r.edited => r.got.body = r.got.version
    BY <1>1, <2>1 DEF Faithful
  <2>4. QED
    BY <1>2, <2>1, <2>2, <2>3 DEF ContentInv, StampNamesContent
<1>5. CASE Touch(d)
  <2>0. t = Head(door[d].todo) /\ r.step = "target"
    BY <1>5, TouchIs
  <2>1. t \in Targets /\ (t \in Markets => Wanted(d).body = Wanted(d).version)
    BY <2>0, WantedIs, MarketsAre DEF Publisher
  <2> HIDE DEF t
  <2>2. /\ \/ copies' = copies
           \/ copies' = [copies EXCEPT ![t] = Torn]
           \/ t \in Markets /\ copies' = [copies EXCEPT ![t] = Wanted(d)]
        /\ torn' = torn
    BY <1>5, <2>0, TouchIs
  <2>3. QED
    BY <1>2, <2>1, <2>2 DEF ContentInv, StampNamesContent
<1>6. CASE ~CopyFiles(d) /\ ~Touch(d)
  <2>1. CASE OpenRecord(d) \/ OpenInstall(d) \/ OpenMarket(d)
    BY <1>3, <2>1, RecordRequest, InstallRequest, MarketRequest DEF Open, files, history
  <2>2. CASE ~(OpenRecord(d) \/ OpenInstall(d) \/ OpenMarket(d))
    <3>1. copies' = copies /\ torn \subseteq torn'
      BY <1>6, <2>2 DEF Step, LookForKey, WriteEvent, CopySnapshot, RenameSnapshot,
                  Collect, AlreadyPublished, Remember, Crash, files, history
    <3>2. QED
      BY <1>3, <3>1
  <2>3. QED
    BY <2>1, <2>2
<1>7. QED
  BY <1>4, <1>5, <1>6

LEMMA FaithfulEdit ==
    ASSUME TypeInv, ContentInv, Change, NEW d \in Doors
    PROVE  Faithful(door[d])'
<1> DEFINE r == door[d]
           s == door'[d]
<1>1. r \in Door /\ Lawful(r) /\ Faithful(r)
  BY DoorTypes DEF TypeInv, ContentInv
<1>2. CASE Edit
  <2>1. s = [r EXCEPT !.edited = r.edited \/ WillCopy(r)]
    BY <1>2 DEF Edit
  <2>2. /\ s.step = r.step /\ s.kind = r.kind /\ s.event = r.event
        /\ s.version = r.version /\ s.got = r.got /\ s.fallback = r.fallback
    BY <1>1, <2>1 DEF Door
  <2>3. s.edited = (r.edited \/ WillCopy(r))
    BY <1>1, <2>1, Zenon DEF Door
  <2>4. ASSUME ~s.edited PROVE ~r.edited /\ ~WillCopy(r)
    BY <2>3, <2>4, Zenon
  <2>5. Recorder(r) => r.event.type = "recorded"
    BY <1>1, StepKinds DEF Recorded
  <2>6. ASSUME ~s.edited
        PROVE  /\ r.step # "collect" /\ (Recorder(r) => r.step = "rename")
    BY <1>1, <2>4, <2>5, <2>6 DEF WillCopy, Lawful, Recorder
  <2>7. QED
    BY <1>1, <2>2, <2>4, <2>6 DEF Faithful, Recorder
<1>3. CASE ~Edit
  BY <1>1, <1>3 DEF Change, Move, Measure, Faithful, Recorder
<1>4. QED
  BY <1>2, <1>3
-----------------------------------------------------------------------------
LEMMA ReceiptsGrow ==
    ASSUME TypeInv, NEW d \in Doors, WriteEvent(d), NEW n, n = Len(journal), NEW t, NEW c,
           NEW e, e = door[d].event
    PROVE  /\ \A i : i \in Receipts(journal', t) <=>
                  \/ i \in Receipts(journal, t)
                  \/ i = n + 1 /\ e.type = "published" /\ e.target = t
           /\ \A i : i \in Landed(journal', t, c) <=>
                  \/ i \in Landed(journal, t, c)
                  \/ i = n + 1 /\ e.type = "published" /\ e.target = t /\ e.copy = c
           /\ \A i \in Receipts(journal, t) : journal'[i] = journal[i] /\ i \in 1..n
           /\ n \in Nat
<1>1. /\ \A i \in 1..n : journal'[i] = journal[i] /\ i \in 1..Len(journal')
      /\ journal'[n + 1] = e /\ n + 1 \in 1..Len(journal')
      /\ \A i \in 1..Len(journal') : i \in 1..n \/ i = n + 1
      /\ n \in Nat
  BY JournalGrows
<1>2. \A i : i \in Receipts(journal', t) <=>
          \/ i \in Receipts(journal, t)
          \/ i = n + 1 /\ e.type = "published" /\ e.target = t
  BY <1>1 DEF Receipts
<1>3. \A i \in Receipts(journal, t) : journal'[i] = journal[i] /\ i \in 1..n
  BY <1>1 DEF Receipts
<1>4. \A i : i \in Landed(journal', t, c) <=>
          \/ i \in Landed(journal, t, c)
          \/ i = n + 1 /\ e.type = "published" /\ e.target = t /\ e.copy = c
  BY <1>1, <1>2, <1>3 DEF Landed
<1>5. QED
  BY <1>1, <1>2, <1>3, <1>4

LEMMA NthStays ==
    ASSUME TypeInv, NEW d \in Doors, WriteEvent(d), NEW k \in Nat, k <= Len(journal),
           NEW t, NEW c
    PROVE  NthAt(k, t, c)' = NthAt(k, t, c)
<1> DEFINE n == Len(journal)
<1>1. n = Len(journal) /\ n \in Nat
  BY JournalTypes DEF TypeInv
<1> HIDE DEF n
<1>2. ~(n + 1 <= k)
  BY <1>1
<1>3. {i \in Landed(journal', t, c) : i <= k} = {i \in Landed(journal, t, c) : i <= k}
  BY <1>1, <1>2, ReceiptsGrow
<1>4. \A i : i \in Receipts(journal', t) /\ i <= k <=> i \in Receipts(journal, t) /\ i <= k
  BY <1>1, <1>2, ReceiptsGrow
<1>5. \A i \in Receipts(journal, t) : journal'[i] = journal[i]
  BY <1>1, ReceiptsGrow
<1>6. (\E i \in Receipts(journal', t) :
          i <= k /\ journal'[i].copy.version = c.version /\ journal'[i].nth = 0)
      <=> (\E i \in Receipts(journal, t) :
          i <= k /\ journal[i].copy.version = c.version /\ journal[i].nth = 0)
  BY <1>4, <1>5
<1>7. QED
  BY <1>3, <1>6 DEF NthAt

\* What a door knows of the journal it still knows when the journal has grown.
LEMMA GroundedStays ==
    ASSUME TypeInv, NEW r \in Door, Lawful(r), Grounded(r),
           UNCHANGED journal \/ \E d \in Doors : WriteEvent(d)
    PROVE  Grounded(r)'
<1>1. CASE UNCHANGED journal
  BY <1>1 DEF Grounded, RecordedAs, NthAt
<1>2. ASSUME NEW d \in Doors, WriteEvent(d)
      PROVE  Grounded(r)'
  <2> DEFINE n == Len(journal)
  <2>1. /\ n \in Nat /\ Len(journal') = n + 1
        /\ \A i \in 1..n : journal'[i] = journal[i]
    BY <1>2, JournalGrows
  <2>2. r.read \in Nat /\ r.seen \in Nat
    BY FieldTypes
  <2>3. Publisher(r) => r.read <= n /\ r.read <= Len(journal')
    BY <2>1, <2>2 DEF Grounded
  <2>4. InHand(r) =>
            r.event.nth = NthAt(r.read, r.event.target, r.event.copy)'
    BY <1>2, <2>2, <2>3, NthStays DEF Grounded, InHand
  <2>5. Recorder(r) /\ r.step \in {"snapshot", "rename"} =>
            RecordedAs(r.event.design, r.event.hash)'
    BY <1>2, RecordedStays DEF Grounded
  <2>6. ASSUME r.step = "write"
        PROVE  /\ r.seen <= Len(journal')
               /\ \A i \in 1..r.seen :
                     journal'[i].type = r.event.type => KeyOf(journal'[i]) # KeyOf(r.event)
    <3>1. /\ r.seen <= n
          /\ \A i \in 1..r.seen :
                journal[i].type = r.event.type => KeyOf(journal[i]) # KeyOf(r.event)
      BY <2>6 DEF Grounded
    <3>2. \A i \in 1..r.seen : i \in 1..n
      BY <2>1, <2>2, <3>1
    <3>3. QED
      BY <2>1, <2>2, <3>1, <3>2
  <2>7. QED
    BY <2>3, <2>4, <2>5, <2>6 DEF Grounded
<1>3. QED
  BY <1>1, <1>2

LEMMA GroundedNext ==
    ASSUME NEW r \in Door, Lawful(r), Grounded(r), Publisher(r),
           r.step \in {"target", "append", "write"}
    PROVE  Grounded(NextTarget(r))
<1> DEFINE s == NextTarget(r)
<1>1. s \in Door /\ Lawful(s) /\ ~InHand(s)
  BY NextTargetIs
<1>2. CASE s = Idle
  BY <1>2, Fresh DEF Grounded, Recorder, Publisher, InHand
<1>3. CASE /\ s.step \in {"target", "remember"}
           /\ s.kind = r.kind /\ s.read = r.read
  BY <1>1, <1>3 DEF Grounded, Publisher, Recorder
<1>4. QED
  BY <1>2, <1>3, NextTargetIs

LEMMA GroundedReceipted ==
    ASSUME NEW r \in Door, Lawful(r), Grounded(r), r.step \in {"append", "write"},
           Recorder(r) => RecordedAs(r.event.design, r.event.hash)
    PROVE  Grounded(Receipted(r))
<1>1. CASE Publisher(r)
  BY <1>1, GroundedNext, ReceiptedIs
<1>2. CASE ~Publisher(r)
  <2> DEFINE s == Receipted(r)
  <2>1. Recorder(r) /\ s = [r EXCEPT !.step = "snapshot"]
    BY <1>2, ReceiptedIs
  <2>2. s.step = "snapshot" /\ s.kind = r.kind /\ s.event = r.event
    BY <2>1 DEF Door
  <2> HIDE DEF s
  <2>3. Grounded(s)
    BY <1>2, <2>1, <2>2 DEF Grounded, Recorder, Publisher, InHand
  <2>4. QED
    BY <2>3 DEF s
<1>3. QED
  BY <1>1, <1>2

\* What two events with one key have in common.
LEMMA SameKeySame ==
    ASSUME NEW e \in Event, NEW f \in Event, e.type = f.type, KeyOf(e) = KeyOf(f)
    PROVE  /\ e.type = "recorded" => e.design = f.design /\ e.hash = f.hash
           /\ e.type = "published" =>
                 /\ e.target = f.target
                 /\ \/ e.copy = f.copy /\ e.nth = f.nth
                    \/ /\ e.target \in Markets /\ e.nth = 0 /\ f.nth = 0
                       /\ e.copy.version = f.copy.version
<1>1. \A a, b, x, y : <<a, b>> = <<x, y>> => a = x /\ b = y
  OBVIOUS
<1>2. \A a, b, c, x, y, z : <<a, b, c>> = <<x, y, z>> => a = x /\ b = y /\ c = z
  OBVIOUS
<1>3. \A a, b, c, x, y : <<a, b, c>> # <<x, y>>
  OBVIOUS
<1>4. CASE e.type = "recorded"
  BY <1>1, <1>4 DEF KeyOf
<1>5. CASE e.type = "published"
  <2> DEFINE Short(g) == g.target \in Markets /\ g.nth = 0
  <2>1. \A g : g.type = "published" =>
            KeyOf(g) = IF Short(g) THEN <<g.target, g.copy.version>>
                       ELSE <<g.target, g.copy, g.nth>>
    BY DEF KeyOf
  <2> HIDE DEF Short
  <2>2. CASE Short(e) /\ Short(f)
    <3>1. <<e.target, e.copy.version>> = <<f.target, f.copy.version>>
      BY <1>5, <2>1, <2>2
    <3>2. e.target = f.target /\ e.copy.version = f.copy.version
      BY <3>1
    <3>3. QED
      BY <1>5, <2>2, <3>2 DEF Short
  <2>3. CASE ~Short(e) /\ ~Short(f)
    <3>1. <<e.target, e.copy, e.nth>> = <<f.target, f.copy, f.nth>>
      BY <1>5, <2>1, <2>3
    <3>2. e.target = f.target /\ e.copy = f.copy /\ e.nth = f.nth
      BY <3>1
    <3>3. QED
      BY <1>5, <3>2
  <2>4. CASE ~Short(e) /\ Short(f)
    BY <1>3, <1>5, <2>1, <2>4
  <2>5. CASE Short(e) /\ ~Short(f)
    BY <1>3, <1>5, <2>1, <2>5
  <2>6. QED
    BY <1>5, <2>2, <2>3, <2>4, <2>5
<1>6. QED
  BY <1>4, <1>5 DEF Event, Recorded, Published

\* Every step of a door leaves it grounded, in the journal as it was before.
LEMMA GroundedStep ==
    ASSUME TypeInv, JournalInv, NEW d \in Doors, Step(d), ~WriteEvent(d)
    PROVE  Grounded(door'[d])
<1> DEFINE r == door[d]
           s == door'[d]
<1>1. r \in Door /\ Lawful(r) /\ Grounded(r) /\ door \in [Doors -> Door]
  BY DoorTypes DEF TypeInv, PublishTypeOK, JournalInv
<1>2. Len(journal) \in Nat /\ \A i \in 1..Len(journal) : journal[i] \in Event
  BY JournalTypes DEF TypeInv
<1>3. ASSUME s = Idle PROVE Grounded(s)
  BY <1>3, Fresh DEF Grounded, Recorder, Publisher, InHand
<1>4. CASE OpenRecord(d) \/ OpenInstall(d) \/ OpenMarket(d)
  <2>1. PICK new : NewRequest(d, new) /\ Open(d, new)
    BY <1>4, RecordRequest, InstallRequest, MarketRequest
  <2>2. s = new
    BY <1>1, <2>1 DEF Open
  <2>3. QED
    BY <1>2, <2>1, <2>2 DEF NewRequest, Grounded
<1>5. CASE LookForKey(d)
  <2> DEFINE hits == SameKey(d, r.event)
             known == journal[CHOOSE i \in hits : \A k \in hits : i <= k]
  <2>0. r.step = "append" /\ r.event \in Event
    BY <1>1, <1>5, StepKinds DEF LookForKey
  <2>1. \/ hits = {} /\ door' = [door EXCEPT ![d].step = "write", ![d].seen = Len(journal)]
        \/ hits # {} /\ door' = [door EXCEPT ![d] = Receipted(r)]
        \/ door' = [door EXCEPT ![d] = Idle]
    BY <1>1, <1>5, Zenon DEF LookForKey, Drop
  <2>2. CASE hits = {} /\ door' = [door EXCEPT ![d].step = "write", ![d].seen = Len(journal)]
    <3>1. s = [r EXCEPT !.step = "write", !.seen = Len(journal)]
      BY <1>1, <2>2
    <3>2. /\ s.step = "write" /\ s.kind = r.kind /\ s.event = r.event /\ s.read = r.read
          /\ s.seen = Len(journal)
      BY <1>1, <3>1 DEF Door
    <3>3. \A i \in 1..Len(journal) :
              journal[i].type = r.event.type => KeyOf(journal[i]) # KeyOf(r.event)
      BY <2>2 DEF SameKey
    <3> HIDE DEF s, r
    <3>5. Publisher(s) <=> Publisher(r)
      BY <3>2 DEF Publisher
    <3>6. InHand(s) => InHand(r)
      BY <2>0, <3>2, <3>5 DEF InHand
    <3>7. /\ Publisher(r) => r.read <= Len(journal)
          /\ InHand(r) => r.event.nth = NthAt(r.read, r.event.target, r.event.copy)
      BY <1>1 DEF Grounded
    <3>8. /\ Publisher(s) => s.read <= Len(journal)
          /\ InHand(s) => s.event.nth = NthAt(s.read, s.event.target, s.event.copy)
      BY <3>2, <3>5, <3>6, <3>7
    <3>9. /\ s.seen <= Len(journal)
          /\ \A i \in 1..s.seen :
                journal[i].type = s.event.type => KeyOf(journal[i]) # KeyOf(s.event)
      BY <1>2, <3>2, <3>3
    <3>10. Grounded(s)
      BY <3>2, <3>8, <3>9 DEF Grounded
    <3>11. QED
      BY <3>10 DEF s
  <2>3. CASE hits # {} /\ door' = [door EXCEPT ![d] = Receipted(r)]
    <3>1. s = Receipted(r)
      BY <1>1, <2>3
    <3>2. PICK i \in 1..Len(journal) :
              journal[i].type = r.event.type /\ KeyOf(journal[i]) = KeyOf(r.event)
      BY <2>3 DEF SameKey
    <3>3. Recorder(r) => r.event.type = "recorded"
      BY <1>1, StepKinds DEF Recorded
    <3>4. Recorder(r) => journal[i].design = r.event.design /\ journal[i].hash = r.event.hash
      BY <1>2, <2>0, <3>2, <3>3, SameKeySame
    <3>5. Recorder(r) => RecordedAs(r.event.design, r.event.hash)
      BY <3>2, <3>3, <3>4 DEF RecordedAs
    <3>6. QED
      BY <1>1, <2>0, <3>1, <3>5, GroundedReceipted
  <2>4. CASE door' = [door EXCEPT ![d] = Idle]
    BY <1>1, <1>3, <2>4
  <2> HIDE DEF hits
  <2>5. QED
    BY <2>1, <2>2, <2>3, <2>4
<1>6. CASE CopySnapshot(d)
  <2>1. s = Idle \/ s = [r EXCEPT !.step = "rename", !.got = live]
    BY <1>1, <1>6 DEF CopySnapshot
  <2>2. CASE s = [r EXCEPT !.step = "rename", !.got = live]
    <3>1. s.step = "rename" /\ s.kind = r.kind /\ s.event = r.event
      BY <1>1, <2>2 DEF Door
    <3>2. Recorder(r) /\ ~Publisher(r) /\ r.step = "snapshot"
      BY <1>1, <1>6, StepKinds DEF CopySnapshot
    <3>3. QED
      BY <1>1, <3>1, <3>2 DEF Grounded, Recorder, Publisher, InHand
  <2>3. QED
    BY <1>3, <2>1, <2>2
<1>7. CASE RenameSnapshot(d) \/ Remember(d) \/ Crash(d)
  BY <1>1, <1>3, <1>7 DEF RenameSnapshot, Remember, Crash, Drop
<1>8. CASE Collect(d)
  <2>1. CASE s = Idle
    BY <1>3, <2>1
  <2>2. CASE s.step = "target" /\ s.kind = "install" /\ s.read = r.read
    <3>1. Publisher(r)
      BY <1>1, <1>8, StepKinds DEF Collect
    <3>2. QED
      BY <1>1, <2>2, <3>1 DEF Grounded, Recorder, Publisher, InHand
  <2>3. QED
    BY <1>8, <2>1, <2>2, CollectIs
<1>9. CASE AlreadyPublished(d)
  <2>1. s = NextTarget(r) /\ r.step = "target"
    BY <1>1, <1>9 DEF AlreadyPublished
  <2>2. QED
    BY <1>1, <2>1, GroundedNext, StepKinds
<1>10. CASE Touch(d)
  <2> DEFINE t == Head(r.todo)
  <2>1. t = Head(door[d].todo) /\ r.step = "target"
    BY <1>10, TouchIs
  <2> HIDE DEF t
  <2>2. ToReceipt(d, t, "append") \/ (ToReceipt(d, t, "copy") /\ t \in Audiences)
    BY <1>10, <2>1, TouchIs
  <2>3. t \in Audiences => r.kind = "install"
    BY <2>1, WantedIs, MarketsAre DEF Publisher
  <2>4. r.read <= Len(journal) /\ Publisher(r) /\ ~Recorder(r)
    BY <1>1, <2>1, StepKinds DEF Grounded
  <2>5. /\ s.step \in {"copy", "append"} /\ s.kind = r.kind /\ s.read = r.read
        /\ s.event.target = t /\ s.event.copy = Wanted(d)
        /\ s.event.nth = NthAt(s.read, t, Wanted(d))
    BY <2>1, <2>2, <2>3, <2>4, ToReceiptIs
  <2>6. QED
    BY <2>4, <2>5 DEF Grounded, Recorder, Publisher
<1>11. CASE CopyFiles(d)
  <2>1. r.step = "copy" /\ s = [r EXCEPT !.step = "append"]
    BY <1>1, <1>11 DEF CopyFiles
  <2>2. s.step = "append" /\ s.kind = r.kind /\ s.event = r.event /\ s.read = r.read
    BY <1>1, <2>1 DEF Door
  <2>3. Publisher(r) /\ ~Recorder(r)
    BY <1>1, <2>1, StepKinds
  <2>4. QED
    BY <1>1, <2>1, <2>2, <2>3 DEF Grounded, Recorder, Publisher, InHand
<1>12. QED
  BY <1>4, <1>5, <1>6, <1>7, <1>8, <1>9, <1>10, <1>11 DEF Step

LEMMA GroundedWriter ==
    ASSUME TypeInv, JournalInv, NEW d \in Doors, WriteEvent(d), NEW s, s = door'[d]
    PROVE  Grounded(s)'
<1> DEFINE r == door[d]
           n == Len(journal)
<1>0. r = door[d] /\ n = Len(journal)
  OBVIOUS
<1>1. /\ r \in Door /\ Lawful(r) /\ Grounded(r) /\ r.step = "write"
      /\ s = Receipted(r)
  BY DoorTypes DEF TypeInv, PublishTypeOK, JournalInv, WriteEvent
<1>2. /\ n \in Nat /\ Len(journal') = n + 1
      /\ journal'[n + 1] = r.event /\ n + 1 \in 1..Len(journal')
  BY JournalGrows
<1>3. r.read \in Nat
  BY <1>1, FieldTypes
<1> HIDE DEF r, n
<1>4. CASE Publisher(r)
  <2>1. s = NextTarget(r) /\ r.read <= n
    BY <1>0, <1>1, <1>4, ReceiptedIs DEF Grounded
  <2>2. CASE s = Idle
    BY <2>2, Fresh DEF Grounded, Recorder, Publisher, InHand
  <2>3. CASE /\ s.step \in {"target", "remember"} /\ s.kind = r.kind /\ s.read = r.read
    BY <1>2, <1>3, <1>4, <2>1, <2>3 DEF Grounded, Publisher, Recorder, InHand
  <2>4. QED
    BY <1>1, <1>4, <2>1, <2>2, <2>3, NextTargetIs
<1>5. CASE ~Publisher(r)
  <2>1. Recorder(r) /\ s = [r EXCEPT !.step = "snapshot"]
    BY <1>1, <1>5, ReceiptedIs
  <2>2. s.step = "snapshot" /\ s.kind = r.kind /\ s.event = r.event
    BY <1>1, <2>1 DEF Door
  <2>3. r.event.type = "recorded"
    BY <1>1, <2>1, StepKinds DEF Recorded
  <2>4. RecordedAs(s.event.design, s.event.hash)'
    BY <1>2, <2>2, <2>3 DEF RecordedAs
  <2>5. QED
    BY <1>5, <2>2, <2>4 DEF Grounded, Publisher, InHand
<1>6. QED
  BY <1>4, <1>5

LEMMA AllGrounded ==
    ASSUME TypeInv, JournalInv, NEW d \in Doors, Step(d)
    PROVE  \A e \in Doors : Grounded(door[e])'
<1>0. door[d].step = "target" => door[d].read <= Len(journal)
  BY DoorTypes, StepKinds DEF TypeInv, JournalInv, Grounded
<1>1. \A e \in Doors : e # d => door'[e] = door[e]
  BY <1>0, DoorMoves
<1>2. UNCHANGED journal \/ WriteEvent(d)
  BY <1>0, DoorMoves
<1>3. \A r \in Door : Lawful(r) /\ Grounded(r) => Grounded(r)'
  BY <1>2, GroundedStays
<1>4. ASSUME NEW e \in Doors, NEW r, r = door'[e]
      PROVE  Grounded(r)'
  <2>1. CASE e # d
    <3>1. r \in Door /\ Lawful(r) /\ Grounded(r)
      BY <1>1, <1>4, <2>1, DoorTypes DEF TypeInv, JournalInv
    <3>2. QED
      BY <1>3, <3>1
  <2>2. CASE e = d /\ ~WriteEvent(d)
    <3>1. r \in Door /\ Lawful(r) /\ Grounded(r)
      BY <1>0, <1>4, <2>2, DoorMoves, GroundedStep
    <3>2. QED
      BY <1>3, <3>1
  <2>3. CASE e = d /\ WriteEvent(d)
    BY <1>4, <2>3, GroundedWriter
  <2>4. QED
    BY <2>1, <2>2, <2>3
<1>5. QED
  BY <1>4
-----------------------------------------------------------------------------
\* Whoever writes a receipt has numbered it by the landings it had read.
LEMMA WriterIs ==
    ASSUME TypeInv, JournalInv, NEW d \in Doors, door[d].step \in {"append", "write"},
           door[d].event.type = "published"
    PROVE  /\ InHand(door[d]) /\ Publisher(door[d]) /\ door[d].event \in Published
           /\ door[d].event.target = Head(door[d].todo) /\ door[d].event.target \in Targets
           /\ door[d].read \in Nat /\ door[d].read <= Len(journal)
           /\ door[d].event.nth =
                 NthAt(door[d].read, door[d].event.target, door[d].event.copy)
<1>1. door[d] \in Door /\ Lawful(door[d]) /\ Grounded(door[d])
  BY DoorTypes DEF TypeInv, JournalInv
<1>2. InHand(door[d])
  BY <1>1, StepKinds DEF Recorded
<1>3. door[d].event \in Published
  BY <1>1, <1>2 DEF Lawful
<1>4. QED
  BY <1>1, <1>2, <1>3, FieldTypes DEF Lawful, Grounded, InHand, Published

LEMMA NumberedStep ==
    ASSUME TypeInv, JournalInv, NEW d \in Doors, UNCHANGED journal \/ WriteEvent(d)
    PROVE  ReceiptsAreNumbered'
<1>1. CASE UNCHANGED journal
  BY <1>1 DEF JournalInv, ReceiptsAreNumbered
<1>2. CASE WriteEvent(d)
  <2> DEFINE n == Len(journal)
             e == door[d].event
  <2>0. n = Len(journal) /\ e = door[d].event /\ door[d].step = "write"
    BY <1>2 DEF WriteEvent
  <2>1. /\ \A i \in 1..n : journal'[i] = journal[i]
        /\ journal'[n + 1] = e
        /\ \A i \in 1..Len(journal') : i \in 1..n \/ i = n + 1
        /\ n \in Nat /\ journal' \in Seq(Event) /\ journal \in Seq(Event)
    BY <1>2, JournalGrows, JournalTypes DEF TypeInv
  <2>2. \A i \in 1..n : journal[i] \in Event
    BY JournalTypes DEF TypeInv
  <2> HIDE DEF n, e
  <2>3. ASSUME NEW t, NEW c
        PROVE  /\ Landed(journal, t, c) \subseteq Landed(journal', t, c)
               /\ n + 1 \notin Landed(journal, t, c)
               /\ e.type = "published" /\ e.target = t /\ e.copy = c =>
                     n + 1 \in Landed(journal', t, c)
    <3>1. n + 1 \notin Landed(journal, t, c)
      BY <2>0, <2>1 DEF Landed, Receipts
    <3>2. QED
      BY <1>2, <2>0, <3>1, ReceiptsGrow
  <2>4. ASSUME NEW t, NEW c
        PROVE  /\ Cardinality(Landed(journal, t, c)) \in Nat
               /\ Cardinality(Landed(journal', t, c)) \in Nat
               /\ Cardinality(Landed(journal, t, c)) <= Cardinality(Landed(journal', t, c))
    BY <2>1, <2>3, LandedFinite
  <2>5. ASSUME NEW i \in 1..n, journal[i].type = "published", journal[i].target \in Audiences
        PROVE  journal[i].nth < Cardinality(Landed(journal', journal[i].target,
                                                   journal[i].copy))
    <3>1. journal[i].nth < Cardinality(Landed(journal, journal[i].target, journal[i].copy))
      BY <2>0, <2>5 DEF JournalInv, ReceiptsAreNumbered
    <3>2. journal[i].nth \in Nat
      BY <2>2, <2>5 DEF Event, Recorded, Published
    <3>3. QED
      BY <2>4, <3>1, <3>2
  <2>6. ASSUME e.type = "published", e.target \in Audiences
        PROVE  e.nth < Cardinality(Landed(journal', e.target, e.copy))
    <3> DEFINE L == Landed(journal, e.target, e.copy)
               M == {i \in L : i <= door[d].read}
    <3>1. e.nth = Cardinality(M)
      BY <2>0, <2>6, WriterIs DEF NthAt
    <3>2. Cardinality(M) \in Nat /\ Cardinality(L) \in Nat /\ IsFiniteSet(L)
          /\ Cardinality(M) <= Cardinality(L)
      BY <2>1, LandedFinite
    <3>3. L \union {n + 1} \subseteq Landed(journal', e.target, e.copy) /\ n + 1 \notin L
      BY <2>3, <2>6
    <3> HIDE DEF L, M
    <3>4. Cardinality(L \union {n + 1}) = Cardinality(L) + 1
      BY <3>2, <3>3, FS_AddElement
    <3>5. Cardinality(L \union {n + 1}) <= Cardinality(Landed(journal', e.target, e.copy))
      BY <2>1, <3>3, LandedFinite
    <3>6. Cardinality(Landed(journal', e.target, e.copy)) \in Nat
      BY <2>4
    <3>7. QED
      BY <3>1, <3>2, <3>4, <3>5, <3>6
  <2>7. ASSUME NEW i \in 1..Len(journal'), journal'[i].type = "published",
               journal'[i].target \in Audiences
        PROVE  journal'[i].nth < Cardinality(Landed(journal', journal'[i].target,
                                                    journal'[i].copy))
    <3>1. CASE i \in 1..n
      <4>1. journal'[i] = journal[i]
        BY <2>1, <3>1
      <4>2. QED
        BY <2>5, <2>7, <3>1, <4>1
    <3>2. CASE i = n + 1
      <4>1. journal'[i] = e
        BY <2>1, <3>2
      <4>2. QED
        BY <2>6, <2>7, <4>1
    <3>3. QED
      BY <2>1, <3>1, <3>2
  <2>8. QED
    BY <2>7 DEF ReceiptsAreNumbered
<1>3. QED
  BY <1>1, <1>2

LEMMA RepeatsStep ==
    ASSUME TypeInv, JournalInv, NEW d \in Doors,
           UNCHANGED <<journal, outdated>> \/ WriteEvent(d)
    PROVE  RepeatsAreRaces'
<1>1. CASE UNCHANGED <<journal, outdated>>
  BY <1>1 DEF JournalInv, RepeatsAreRaces
<1>2. CASE WriteEvent(d)
  <2> DEFINE n == Len(journal)
             e == door[d].event
             k == door[d].seen
  <2>1. /\ \A i \in 1..n : journal'[i] = journal[i]
        /\ journal'[n + 1] = e
        /\ \A i \in 1..Len(journal') : i \in 1..n \/ i = n + 1
        /\ n \in Nat
    BY <1>2, JournalGrows
  <2>2. /\ k \in Nat /\ k <= n
        /\ \A i \in 1..k : journal[i].type = e.type => KeyOf(journal[i]) # KeyOf(e)
    <3>1. Grounded(door[d]) /\ door[d].step = "write"
      BY <1>2 DEF JournalInv, WriteEvent
    <3>2. QED
      BY <3>1, DoorTypes DEF TypeInv, Grounded
  <2>3. outdated' = IF k < n THEN outdated \union {n + 1} ELSE outdated
    BY <1>2 DEF WriteEvent
  <2> HIDE DEF n, e, k
  <2>4. ASSUME NEW j \in 1..Len(journal'), j \notin outdated', NEW i \in 1..(j - 1),
               journal'[i].type = journal'[j].type
        PROVE  KeyOf(journal'[i]) # KeyOf(journal'[j])
    <3>1. CASE j \in 1..n
      <4>1. /\ i \in 1..n /\ j \notin outdated
            /\ journal'[i] = journal[i] /\ journal'[j] = journal[j]
        BY <2>1, <2>3, <2>4, <3>1
      <4>2. QED
        BY <2>4, <3>1, <4>1 DEF JournalInv, RepeatsAreRaces, n
    <3>2. CASE j = n + 1
      <4>1. k = n
        BY <2>1, <2>2, <2>3, <2>4, <3>2
      <4>2. i \in 1..n
        BY <2>1, <3>2
      <4>3. journal'[i] = journal[i] /\ journal'[j] = e
        BY <2>1, <3>2, <4>2
      <4>4. QED
        BY <2>2, <2>4, <4>1, <4>2, <4>3
    <3>3. QED
      BY <2>1, <3>1, <3>2
  <2>5. QED
    BY <2>4 DEF RepeatsAreRaces
<1>3. QED
  BY <1>1, <1>2
-----------------------------------------------------------------------------
LEMMA AtIs ==
    ASSUME NEW t
    PROVE  At(t) = {d \in Doors : Works(d, t)}
BY DEF At, Works, InHand, Publisher

\* A target where the door that moves is not at work.
LEMMA OrderElsewhere ==
    ASSUME NEW t, Orderly(t), NEW d \in Doors,
           \A e \in Doors : e # d => door'[e] = door[e],
           ~Works(d, t), ~Works(d, t)', copies'[t] = copies[t],
           \A i : i \in Receipts(journal', t) <=> i \in Receipts(journal, t),
           \A i \in Receipts(journal, t) : journal'[i] = journal[i]
    PROVE  Orderly(t)'
<1>1. \A e \in Doors : Works(e, t)' <=> Works(e, t)
  BY DEF Works
<1>2. \A e \in Doors : Works(e, t) => door'[e] = door[e]
  OBVIOUS
<1>3. LastReceiptIsTrue(t) => LastReceiptIsTrue(t)'
  BY DEF LastReceiptIsTrue
<1>4. \A e, f \in Doors : Works(e, t)' /\ Works(f, t)' => e = f
  BY <1>1 DEF Orderly
<1>5. \A e \in Doors : Works(e, t)' =>
          /\ \A i \in Receipts(journal', t) : i <= door'[e].read
          /\ copies'[t] = IF door'[e].step = "copy" THEN Torn ELSE door'[e].event.copy
  BY <1>1, <1>2 DEF Orderly
<1>6. (\A e \in Doors : ~Works(e, t)') /\ copies'[t] # None => LastReceiptIsTrue(t)'
  BY <1>1, <1>3 DEF Orderly
<1>7. QED
  BY <1>4, <1>5, <1>6 DEF Orderly

\* A target where only the door that moves is at work, and still is.
LEMMA OrderHere ==
    ASSUME NEW t, NEW d \in Doors, UNCHANGED journal,
           \A e \in Doors : e # d => door'[e] = door[e] /\ ~Works(e, t),
           Works(d, t)', \A i \in Receipts(journal, t) : i <= door'[d].read,
           copies'[t] = IF door'[d].step = "copy" THEN Torn ELSE door'[d].event.copy
    PROVE  Orderly(t)'
<1>1. \A e \in Doors : Works(e, t)' <=> e = d
  BY DEF Works
<1>2. QED
  BY <1>1 DEF Orderly

\* A target where the door that moves has been the only one at work.
LEMMA OrderAfter ==
    ASSUME NEW t, NEW d \in Doors,
           \A e \in Doors : e # d => door'[e] = door[e] /\ ~Works(e, t),
           ~Works(d, t)', LastReceiptIsTrue(t)'
    PROVE  Orderly(t)'
<1>1. \A e \in Doors : ~Works(e, t)'
  BY DEF Works
<1>2. QED
  BY <1>1 DEF Orderly

\* Only one door works at a target that is in order.
LEMMA AloneAt ==
    ASSUME NEW t, Orderly(t), NEW d \in Doors, Works(d, t)
    PROVE  /\ \A e \in Doors : e # d => ~Works(e, t)
           /\ \A i \in Receipts(journal, t) : i <= door[d].read
           /\ copies[t] = IF door[d].step = "copy" THEN Torn ELSE door[d].event.copy
BY DEF Orderly

LEMMA OrderChange ==
    ASSUME TypeInv, Change, NEW t \in Targets \ disturbed, Orderly(t)
    PROVE  Orderly(t)'
<1>1. UNCHANGED <<journal, copies>>
  BY DEF Change, files
<1>2. ASSUME NEW e \in Doors
      PROVE  /\ door'[e].step = door[e].step /\ door'[e].kind = door[e].kind
             /\ door'[e].todo = door[e].todo /\ door'[e].event = door[e].event
             /\ door'[e].read = door[e].read
  <2>1. door[e] \in Door
    BY DoorTypes DEF TypeInv
  <2>2. \/ door'[e] = door[e]
        \/ door'[e] = [door[e] EXCEPT !.edited = @ \/ WillCopy(door[e])]
    BY DEF Change, Edit, Move, Measure
  <2>3. QED
    BY <2>1, <2>2 DEF Door
<1>3. \A e \in Doors : Works(e, t)' <=> Works(e, t)
  BY <1>2 DEF Works, InHand, Publisher
<1>4. LastReceiptIsTrue(t)' <=> LastReceiptIsTrue(t)
  BY <1>1 DEF LastReceiptIsTrue
<1>5. \A e, f \in Doors : Works(e, t)' /\ Works(f, t)' => e = f
  BY <1>3 DEF Orderly
<1>6. \A e \in Doors : Works(e, t)' =>
          /\ \A i \in Receipts(journal', t) : i <= door'[e].read
          /\ copies'[t] = IF door'[e].step = "copy" THEN Torn ELSE door'[e].event.copy
  BY <1>1, <1>2, <1>3 DEF Orderly
<1>7. (\A e \in Doors : ~Works(e, t)') /\ copies'[t] # None => LastReceiptIsTrue(t)'
  BY <1>1, <1>3, <1>4 DEF Orderly
<1>8. QED
  BY <1>5, <1>6, <1>7 DEF Orderly

\* Steps of a door with nothing at any target, before or after.
LEMMA OrderAway ==
    ASSUME TypeInv, NEW t \in Targets, Orderly(t), NEW d \in Doors,
           \A e \in Doors : e # d => door'[e] = door[e],
           ~InHand(door[d]), ~InHand(door'[d]), UNCHANGED <<journal, copies>>
    PROVE  Orderly(t)'
<1>1. ~Works(d, t) /\ ~Works(d, t)'
  BY DEF Works
<1>2. QED
  BY <1>1, OrderElsewhere

\* A receipt that is there already is true: an install's cannot be, and a
\* regenerated manifest's names the content.
LEMMA KnownReceiptIsTrue ==
    ASSUME TypeInv, JournalInv, NEW d \in Doors, door[d].step = "append", NEW t,
           t = door[d].event.target, t \notin disturbed, Works(d, t),
           SameKey(d, door[d].event) # {}
    PROVE  LastReceiptIsTrue(t)
<1> DEFINE e == door[d].event
           c == e.copy
           k == door[d].read
           L == Landed(journal, t, c)
<1>0. door[d] \in Door /\ Lawful(door[d])
  BY DoorTypes DEF TypeInv
<1>1. e \in Published /\ e.type = "published"
  BY <1>0 DEF Lawful, Works, Published
<1>2. /\ k \in Nat /\ k <= Len(journal) /\ t \in Targets
      /\ e.nth = NthAt(k, t, c)
  BY <1>1, WriterIs
<1>3. Orderly(t)
  BY <1>2 DEF JournalInv
<1>4. /\ \A i \in Receipts(journal, t) : i <= k
      /\ copies[t] = c
  BY <1>3, AloneAt
<1>5. PICK i \in 1..Len(journal) : journal[i].type = e.type /\ KeyOf(journal[i]) = KeyOf(e)
  BY DEF SameKey
<1>6. journal[i] \in Event /\ e \in Event
  BY <1>1, JournalTypes DEF TypeInv, Event
<1>7. /\ journal[i].target = t
      /\ \/ journal[i].copy = c /\ journal[i].nth = e.nth
         \/ /\ t \in Markets /\ journal[i].nth = 0 /\ e.nth = 0
            /\ journal[i].copy.version = c.version
  BY <1>1, <1>5, <1>6, SameKeySame
<1>8. i \in Receipts(journal, t) /\ i <= k
  BY <1>1, <1>4, <1>5, <1>7 DEF Receipts
<1>9. CASE t \in Audiences
  <2>1. journal[i].copy = c /\ journal[i].nth = e.nth
    BY <1>7, <1>9, MarketsAre
  <2>2. journal[i].nth < Cardinality(L)
    BY <1>1, <1>5, <1>7, <1>9, <2>1 DEF JournalInv, ReceiptsAreNumbered
  <2>3. {j \in L : j <= k} = L
    BY <1>4 DEF Landed
  <2>4. e.nth = Cardinality(L)
    BY <1>2, <1>9, <2>3 DEF NthAt
  <2>5. Cardinality(L) \in Nat
    BY LandedFinite, JournalTypes DEF TypeInv
  <2>6. QED
    BY <2>1, <2>2, <2>4, <2>5
<1>10. CASE t \notin Audiences
  <2>1. ~(journal[i].nth = 0 /\ e.nth = 0 /\ journal[i].copy.version = c.version)
    BY <1>2, <1>8, <1>10 DEF NthAt
  <2>2. journal[i].copy = c
    BY <1>7, <2>1
  <2>3. QED
    BY <1>4, <1>8, <1>10, <2>2 DEF LastReceiptIsTrue
<1>11. QED
  BY <1>9, <1>10
-----------------------------------------------------------------------------
LEMMA OrderLook ==
    ASSUME TypeInv, JournalInv, NEW d \in Doors, LookForKey(d),
           NEW t \in Targets, t \notin disturbed'
    PROVE  Orderly(t)'
<1> DEFINE r == door[d]
           s == door'[d]
           hits == SameKey(d, r.event)
<1>0. Step(d) /\ r.step = "append"
  BY DEF Step, LookForKey
<1>1. r \in Door /\ Lawful(r) /\ door \in [Doors -> Door]
  BY DoorTypes DEF TypeInv, PublishTypeOK
<1>2. UNCHANGED <<journal, copies>> /\ \A e \in Doors : e # d => door'[e] = door[e]
  <2>1. \A e \in Doors : e # d => door'[e] = door[e]
    BY <1>0, DoorMoves
  <2>2. QED
    BY <2>1 DEF LookForKey, files
<1>3. t \notin disturbed /\ Orderly(t)
  BY DEF LookForKey, Drop, JournalInv
<1>4. \/ hits = {} /\ door' = [door EXCEPT ![d].step = "write", ![d].seen = Len(journal)]
      \/ hits # {} /\ door' = [door EXCEPT ![d] = Receipted(r)]
      \/ Drop(d)
  BY <1>1, Zenon DEF LookForKey
<1>5. CASE ~Works(d, t)
  <2>1. ~Works(d, t)'
    <3>1. CASE door' = [door EXCEPT ![d].step = "write", ![d].seen = Len(journal)]
      <4>1. s = [r EXCEPT !.step = "write", !.seen = Len(journal)]
        BY <1>1, <3>1
      <4>2. s.step = "write" /\ s.kind = r.kind /\ s.todo = r.todo
        BY <1>1, <4>1 DEF Door
      <4>3. QED
        BY <1>0, <1>5, <4>2 DEF Works, InHand, Publisher
    <3>2. CASE door' = [door EXCEPT ![d] = Receipted(r)]
      <4>1. s = Receipted(r)
        BY <1>1, <3>2
      <4>2. ~InHand(s)
        BY <1>0, <1>1, <4>1, ReceiptedIs
      <4>3. QED
        BY <4>2 DEF Works
    <3>3. CASE Drop(d)
      <4>1. s = Idle
        BY <1>1, <3>3 DEF Drop
      <4>2. QED
        BY <4>1, Fresh DEF Works, InHand
    <3> HIDE DEF hits
    <3>4. QED
      BY <1>4, <3>1, <3>2, <3>3
  <2>2. QED
    BY <1>2, <1>3, <1>5, <2>1, OrderElsewhere
<1>6. CASE Works(d, t)
  <2>0. /\ \A e \in Doors : e # d => ~Works(e, t)
        /\ \A i \in Receipts(journal, t) : i <= r.read
        /\ copies[t] = r.event.copy
    BY <1>0, <1>3, <1>6, AloneAt
  <2>1. CASE door' = [door EXCEPT ![d].step = "write", ![d].seen = Len(journal)]
    <3>1. s = [r EXCEPT !.step = "write", !.seen = Len(journal)]
      BY <1>1, <2>1
    <3>2. /\ s.step = "write" /\ s.kind = r.kind /\ s.todo = r.todo /\ s.read = r.read
          /\ s.event = r.event
      BY <1>1, <3>1 DEF Door
    <3>3. Works(d, t)'
      BY <1>6, <3>2 DEF Works, InHand, Publisher
    <3>4. /\ \A i \in Receipts(journal, t) : i <= s.read
          /\ copies'[t] = IF s.step = "copy" THEN Torn ELSE s.event.copy
      BY <1>2, <2>0, <3>2
    <3>5. QED
      BY <1>2, <2>0, <3>3, <3>4, OrderHere
  <2>2. CASE hits # {} /\ door' = [door EXCEPT ![d] = Receipted(r)]
    <3>1. s = Receipted(r)
      BY <1>1, <2>2
    <3>2. ~Works(d, t)'
      BY <1>0, <1>1, <3>1, ReceiptedIs DEF Works
    <3>3. t = r.event.target
      BY <1>1, <1>6 DEF Works, Lawful
    <3>4. LastReceiptIsTrue(t)
      BY <1>0, <1>3, <1>6, <2>2, <3>3, KnownReceiptIsTrue
    <3>5. LastReceiptIsTrue(t)'
      BY <1>2, <3>4 DEF LastReceiptIsTrue
    <3>6. QED
      BY <1>2, <2>0, <3>2, <3>5, OrderAfter
  <2>3. CASE Drop(d)
    <3>1. d \in At(t)
      BY <1>6, AtIs
    <3>2. t \in disturbed'
      BY <2>3, <3>1 DEF Drop
    <3>3. QED
      BY <3>2
  <2> HIDE DEF hits
  <2>4. QED
    BY <1>4, <2>1, <2>2, <2>3
<1>7. QED
  BY <1>5, <1>6

LEMMA OrderWrite ==
    ASSUME TypeInv, JournalInv, NEW d \in Doors, WriteEvent(d),
           NEW t \in Targets, t \notin disturbed'
    PROVE  Orderly(t)'
<1> DEFINE r == door[d]
           s == door'[d]
           e == r.event
           n == Len(journal)
<1>0. Step(d) /\ r.step = "write" /\ n = Len(journal) /\ e = door[d].event
  BY DEF Step, WriteEvent
<1>1. r \in Door /\ Lawful(r) /\ door \in [Doors -> Door]
  BY DoorTypes DEF TypeInv, PublishTypeOK
<1>2. copies' = copies /\ \A f \in Doors : f # d => door'[f] = door[f]
  <2>1. \A f \in Doors : f # d => door'[f] = door[f]
    BY <1>0, DoorMoves
  <2>2. QED
    BY <2>1 DEF WriteEvent, files
<1>3. t \notin disturbed /\ Orderly(t)
  BY DEF WriteEvent, JournalInv
<1>4. s = Receipted(r)
  BY <1>1 DEF WriteEvent
<1>5. ~Works(d, t)'
  BY <1>0, <1>1, <1>4, ReceiptedIs DEF Works
<1>6. e.type = "published" /\ e.target = t => Works(d, t)
  BY <1>0, WriterIs DEF Works
<1>7. Works(d, t) => e.type = "published" /\ e.target = t
  BY <1>1 DEF Works, Lawful, Published
<1> HIDE DEF n, e
<1>8. /\ \A i : i \in Receipts(journal', t) <=>
             \/ i \in Receipts(journal, t)
             \/ i = n + 1 /\ e.type = "published" /\ e.target = t
      /\ \A i \in Receipts(journal, t) : journal'[i] = journal[i] /\ i \in 1..n
      /\ n \in Nat /\ journal'[n + 1] = e
  BY <1>0, ReceiptsGrow, JournalGrows
<1>9. CASE ~Works(d, t)
  <2>1. \A i : i \in Receipts(journal', t) <=> i \in Receipts(journal, t)
    BY <1>6, <1>8, <1>9
  <2>2. QED
    BY <1>2, <1>3, <1>5, <1>8, <1>9, <2>1, OrderElsewhere
<1>10. CASE Works(d, t)
  <2>1. /\ \A f \in Doors : f # d => ~Works(f, t)
        /\ copies[t] = e.copy
    BY <1>0, <1>3, <1>10, AloneAt
  <2>2. n + 1 \in Receipts(journal', t)
    BY <1>7, <1>8, <1>10
  <2>3. \A k \in Receipts(journal', t) : k <= n + 1
    BY <1>8
  <2>4. LastReceiptIsTrue(t)'
    BY <1>2, <1>8, <2>1, <2>2, <2>3 DEF LastReceiptIsTrue
  <2>5. QED
    BY <1>2, <1>5, <2>1, <2>4, OrderAfter
<1>11. QED
  BY <1>9, <1>10

LEMMA OrderTouch ==
    ASSUME TypeInv, JournalInv, NEW d \in Doors, Touch(d),
           NEW t \in Targets, t \notin disturbed'
    PROVE  Orderly(t)'
<1> DEFINE r == door[d]
           s == door'[d]
           u == Head(r.todo)
<1>0. Step(d) /\ r.step = "target" /\ u = Head(door[d].todo)
  BY TouchIs DEF Step
<1>1. r \in Door /\ Lawful(r) /\ Grounded(r)
  BY DoorTypes DEF TypeInv, JournalInv
<1>2. Publisher(r) /\ r.read <= Len(journal) /\ u \in Targets
      /\ (u \in Audiences => r.kind = "install") /\ r.read \in Nat
  BY <1>0, <1>1, StepKinds, WantedIs, MarketsAre, FieldTypes DEF Grounded, Publisher
<1>3. \A e \in Doors : e # d => door'[e] = door[e]
  BY <1>0, <1>2, DoorMoves
<1> HIDE DEF u
<1>4. /\ \/ copies[u] = Wanted(d) /\ ToReceipt(d, u, "append") /\ UNCHANGED copies
         \/ /\ copies[u] # Wanted(d) /\ u \in Audiences /\ ToReceipt(d, u, "copy")
            /\ copies' = [copies EXCEPT ![u] = Torn]
         \/ /\ copies[u] # Wanted(d) /\ u \in Markets /\ ToReceipt(d, u, "append")
            /\ copies' = [copies EXCEPT ![u] = Wanted(d)]
      /\ disturbed' = IF At(u) # {} \/ \E i \in Receipts(journal, u) : i > r.read
                      THEN disturbed \union {u} ELSE disturbed \ {u}
      /\ UNCHANGED journal
  BY <1>0, TouchIs
<1>5. ToReceipt(d, u, "append") \/ (ToReceipt(d, u, "copy") /\ u \in Audiences)
  BY <1>4
<1>6. /\ InHand(s) /\ s.todo = r.todo /\ s.read = r.read /\ s.event.copy = Wanted(d)
  BY <1>0, <1>2, <1>5, ToReceiptIs
<1>7. copies \in [Targets -> Copy \union {None, Torn}]
  BY DEF TypeInv, PublishTypeOK
<1>8. CASE t # u
  <2>1. t \notin disturbed /\ Orderly(t)
    BY <1>4, <1>8 DEF JournalInv
  <2>2. ~Works(d, t) /\ ~Works(d, t)'
    BY <1>0, <1>6, <1>8 DEF Works
  <2>3. copies'[t] = copies[t]
    BY <1>4, <1>7, <1>8
  <2>4. QED
    BY <1>3, <1>4, <2>1, <2>2, <2>3, OrderElsewhere
<1>9. CASE t = u
  <2>1. At(t) = {} /\ \A i \in Receipts(journal, t) : ~(i > r.read)
    BY <1>4, <1>9
  <2>2. \A e \in Doors : ~Works(e, t)
    BY <2>1, AtIs
  <2>3. \A i \in Receipts(journal, t) : i <= s.read
    BY <1>2, <1>6, <2>1, JournalTypes DEF Receipts, TypeInv
  <2>4. Works(d, t)'
    BY <1>0, <1>6, <1>9 DEF Works
  <2>5. copies'[t] = IF s.step = "copy" THEN Torn ELSE s.event.copy
    <3>1. CASE ToReceipt(d, u, "append")
      <4>1. s.step = "append"
        BY <1>0, <1>2, <3>1, ToReceiptIs
      <4>2. CASE copies[u] = Wanted(d) /\ UNCHANGED copies
        BY <1>6, <1>9, <4>1, <4>2
      <4>3. CASE copies' = [copies EXCEPT ![u] = Wanted(d)]
        BY <1>6, <1>7, <1>9, <4>1, <4>3
      <4>4. CASE ToReceipt(d, u, "copy") /\ u \in Audiences
        <5>1. s.step = "copy"
          BY <1>0, <1>2, <4>4, ToReceiptIs
        <5>2. QED
          BY <4>1, <5>1
      <4>5. QED
        BY <1>4, <4>2, <4>3, <4>4
    <3>2. CASE ToReceipt(d, u, "copy") /\ ~ToReceipt(d, u, "append")
      <4>1. u \in Audiences /\ copies' = [copies EXCEPT ![u] = Torn]
        BY <1>4, <3>2
      <4>2. s.step = "copy"
        BY <1>0, <1>2, <3>2, <4>1, ToReceiptIs
      <4>3. QED
        BY <1>7, <1>9, <4>1, <4>2
    <3>3. QED
      BY <1>5, <3>1, <3>2
  <2>6. QED
    BY <1>3, <1>4, <2>2, <2>3, <2>4, <2>5, OrderHere
<1>10. QED
  BY <1>8, <1>9

LEMMA OrderCopyFiles ==
    ASSUME TypeInv, JournalInv, NEW d \in Doors, CopyFiles(d),
           NEW t \in Targets, t \notin disturbed'
    PROVE  Orderly(t)'
<1> DEFINE r == door[d]
           s == door'[d]
           u == Head(r.todo)
<1>0. Step(d) /\ r.step = "copy"
  BY DEF Step, CopyFiles
<1>1. r \in Door /\ Lawful(r) /\ door \in [Doors -> Door]
  BY DoorTypes DEF TypeInv, PublishTypeOK
<1>2. /\ s = [r EXCEPT !.step = "append"]
      /\ copies' = [copies EXCEPT ![u] = r.got]
      /\ UNCHANGED <<journal, disturbed>>
  BY <1>1 DEF CopyFiles
<1>3. /\ s.step = "append" /\ s.kind = r.kind /\ s.todo = r.todo /\ s.read = r.read
      /\ s.event = r.event
  BY <1>1, <1>2 DEF Door
<1>4. r.kind = "install" /\ InHand(r) /\ r.event.copy = r.got
  BY <1>0, <1>1, StepKinds DEF Lawful, InHand
<1>5. \A e \in Doors : e # d => door'[e] = door[e]
  BY <1>0, DoorMoves
<1>6. InHand(s)
  BY <1>3, <1>4 DEF InHand, Publisher
<1>7. t \notin disturbed /\ Orderly(t)
  BY <1>2 DEF JournalInv
<1>8. copies \in [Targets -> Copy \union {None, Torn}]
  BY DEF TypeInv, PublishTypeOK
<1> HIDE DEF u
<1>9. CASE t # u
  <2>1. ~Works(d, t) /\ ~Works(d, t)'
    BY <1>3, <1>9 DEF Works, u
  <2>2. copies'[t] = copies[t]
    BY <1>2, <1>8, <1>9
  <2>3. QED
    BY <1>2, <1>5, <1>7, <2>1, <2>2, OrderElsewhere
<1>10. CASE t = u
  <2>1. Works(d, t) /\ Works(d, t)'
    BY <1>3, <1>4, <1>6, <1>10 DEF Works, u
  <2>2. /\ \A e \in Doors : e # d => ~Works(e, t)
        /\ \A i \in Receipts(journal, t) : i <= r.read
    BY <1>7, <2>1, AloneAt
  <2>3. copies'[t] = r.got
    BY <1>2, <1>8, <1>10
  <2>4. QED
    BY <1>2, <1>3, <1>4, <1>5, <2>1, <2>2, <2>3, OrderHere
<1>11. QED
  BY <1>9, <1>10
LEMMA OrderCrash ==
    ASSUME TypeInv, JournalInv, NEW d \in Doors, Crash(d),
           NEW t \in Targets, t \notin disturbed'
    PROVE  Orderly(t)'
<1>1. door \in [Doors -> Door]
  BY DEF TypeInv, PublishTypeOK
<1>2. /\ door' = [door EXCEPT ![d] = Idle] /\ UNCHANGED <<journal, copies>>
      /\ disturbed' = disturbed \union {u \in Targets : d \in At(u)}
  BY DEF Crash, Drop, files
<1>3. t \notin disturbed /\ d \notin At(t)
  BY <1>2
<1>4. ~Works(d, t) /\ Orderly(t)
  BY <1>3, AtIs DEF JournalInv
<1>5. door'[d] = Idle /\ \A e \in Doors : e # d => door'[e] = door[e]
  BY <1>1, <1>2
<1>6. ~Works(d, t)'
  BY <1>5, Fresh DEF Works, InHand
<1>7. QED
  BY <1>2, <1>4, <1>5, <1>6, OrderElsewhere

LEMMA OrderRest ==
    ASSUME TypeInv, JournalInv, NEW d \in Doors, Step(d),
           ~(LookForKey(d) \/ WriteEvent(d) \/ Touch(d) \/ CopyFiles(d) \/ Crash(d)),
           NEW t \in Targets, t \notin disturbed'
    PROVE  Orderly(t)'
<1> DEFINE r == door[d]
           s == door'[d]
<1>1. r \in Door /\ Lawful(r) /\ Grounded(r) /\ door \in [Doors -> Door]
  BY DoorTypes DEF TypeInv, PublishTypeOK, JournalInv
<1>2. \A e \in Doors : e # d => door'[e] = door[e]
  BY <1>1, DoorMoves, StepKinds DEF Grounded
<1>3. UNCHANGED <<journal, copies, disturbed>> /\ ~InHand(r) /\ ~InHand(s)
  <2>1. CASE OpenRecord(d) \/ OpenInstall(d) \/ OpenMarket(d)
    <3>1. PICK new : NewRequest(d, new) /\ Open(d, new)
      BY <2>1, RecordRequest, InstallRequest, MarketRequest
    <3>2. s = new /\ r = Idle
      BY <1>1, <3>1 DEF Open
    <3>3. QED
      BY <3>1, <3>2, Fresh DEF Open, NewRequest, InHand, files, history
  <2>2. CASE CopySnapshot(d) \/ RenameSnapshot(d)
    <3>1. r.step \in {"snapshot", "rename"}
      BY <2>2 DEF CopySnapshot, RenameSnapshot
    <3>2. s = Idle \/ s = [r EXCEPT !.step = "rename", !.got = live]
      BY <1>1, <2>2 DEF CopySnapshot, RenameSnapshot
    <3>3. s.step \in {"idle", "rename"}
      BY <1>1, <3>2, Fresh DEF Door
    <3>4. QED
      BY <2>2, <3>1, <3>3 DEF CopySnapshot, RenameSnapshot, InHand, files, history
  <2>3. CASE Collect(d)
    BY <2>3, CollectIs DEF Collect, InHand, files, history
  <2>4. CASE AlreadyPublished(d)
    <3>1. s = NextTarget(r) /\ r.step = "target"
      BY <1>1, <2>4 DEF AlreadyPublished
    <3>2. ~InHand(s)
      BY <1>1, <3>1, StepKinds, NextTargetIs
    <3>3. QED
      BY <2>4, <3>1, <3>2 DEF AlreadyPublished, InHand, files, history
  <2>5. CASE Remember(d)
    BY <1>1, <2>5, Fresh DEF Remember, InHand, history
  <2>6. QED
    BY <2>1, <2>2, <2>3, <2>4, <2>5 DEF Step
<1>4. Orderly(t)
  BY <1>3 DEF JournalInv
<1>5. QED
  BY <1>2, <1>3, <1>4, OrderAway

LEMMA OutdatedStays ==
    ASSUME NEW d \in Doors, Step(d)
    PROVE  UNCHANGED <<journal, outdated>> \/ WriteEvent(d)
<1>1. CASE OpenRecord(d) \/ OpenInstall(d) \/ OpenMarket(d)
  BY <1>1 DEF OpenRecord, OpenInstall, OpenMarket, Open, history
<1>2. CASE Touch(d)
  BY <1>2, TouchIs
<1>3. CASE ~(OpenRecord(d) \/ OpenInstall(d) \/ OpenMarket(d)) /\ ~Touch(d)
  BY <1>3 DEF Step, LookForKey, WriteEvent, CopySnapshot, RenameSnapshot, Collect,
              AlreadyPublished, CopyFiles, Remember, Crash, history
<1>4. QED
  BY <1>1, <1>2, <1>3

LEMMA JournalStep ==
    ASSUME TypeInv, JournalInv, NEW d \in Doors, Step(d)
    PROVE  JournalInv'
<1>1. UNCHANGED <<journal, outdated>> \/ WriteEvent(d)
  BY OutdatedStays
<1>2. \A e \in Doors : Grounded(door[e])'
  BY AllGrounded
<1>3. ReceiptsAreNumbered' /\ RepeatsAreRaces'
  BY <1>1, NumberedStep, RepeatsStep
<1>4. ASSUME NEW t \in Targets, t \notin disturbed'
      PROVE  Orderly(t)'
  BY <1>4, OrderLook, OrderWrite, OrderTouch, OrderCopyFiles, OrderCrash, OrderRest
<1>5. \A t \in Targets \ disturbed' : Orderly(t)'
  BY <1>4
<1>6. QED
  BY <1>2, <1>3, <1>5 DEF JournalInv

LEMMA JournalChange == TypeInv /\ JournalInv /\ Change => JournalInv'
<1> SUFFICES ASSUME TypeInv, JournalInv, Change PROVE JournalInv'
  OBVIOUS
<1>1. UNCHANGED <<journal, outdated, disturbed>>
  BY DEF Change, history
<1>2. ReceiptsAreNumbered' /\ RepeatsAreRaces'
  BY <1>1 DEF JournalInv, ReceiptsAreNumbered, RepeatsAreRaces
<1>3. ASSUME NEW e \in Doors
      PROVE  Grounded(door[e])'
  <2>1. door[e] \in Door /\ Grounded(door[e])
    BY DoorTypes DEF TypeInv, JournalInv
  <2>2. \/ door'[e] = door[e]
        \/ door'[e] = [door[e] EXCEPT !.edited = @ \/ WillCopy(door[e])]
    BY DEF Change, Edit, Move, Measure
  <2>3. /\ door'[e].step = door[e].step /\ door'[e].kind = door[e].kind
        /\ door'[e].event = door[e].event /\ door'[e].read = door[e].read
        /\ door'[e].seen = door[e].seen
    BY <2>1, <2>2 DEF Door
  <2>4. QED
    BY <1>1, <2>1, <2>3 DEF Grounded, Recorder, Publisher, InHand, RecordedAs, NthAt
<1>4. \A t \in Targets \ disturbed' : Orderly(t)'
  BY <1>1, OrderChange DEF JournalInv
<1>5. QED
  BY <1>2, <1>3, <1>4 DEF JournalInv

LEMMA ContentStep ==
    ASSUME TypeInv, ContentInv, JournalInv, NEW d \in Doors, Step(d)
    PROVE  ContentInv'
<1>1. door[d] \in Door /\ Lawful(door[d]) /\ Grounded(door[d])
  BY DoorTypes DEF TypeInv, JournalInv
<1>2. /\ door[d].step = "target" => door[d].read <= Len(journal)
      /\ door[d].step \in {"snapshot", "rename"} =>
             RecordedAs(door[d].event.design, door[d].event.hash)
  BY <1>1, StepKinds DEF Grounded
<1>3. SnapshotsHold' /\ VersionsAreCovered' /\ StampNamesContent'
  BY <1>2, SnapshotsStep, CoveredStep, StampStep DEF ContentInv
<1>4. UNCHANGED live /\ \A e \in Doors : e # d => door'[e] = door[e]
  BY <1>2, DoorMoves
<1>5. \A e \in Doors : Faithful(door'[e])
  BY <1>2, <1>4, FaithfulStep DEF ContentInv
<1>6. \A e \in Doors : Faithful(door[e])'
  BY <1>4, <1>5 DEF Faithful
<1>7. QED
  BY <1>3, <1>6 DEF ContentInv

LEMMA ContentChange == TypeInv /\ ContentInv /\ Change => ContentInv'
<1> SUFFICES ASSUME TypeInv, ContentInv, Change PROVE ContentInv'
  OBVIOUS
<1>1. UNCHANGED <<journal, snapshots, copies, contentless, torn>>
  BY DEF Change, files, history
<1>2. SnapshotsHold' /\ StampNamesContent'
  BY <1>1 DEF ContentInv, SnapshotsHold, StampNamesContent, RecordedAs
<1>3. ASSUME NEW e \in Doors
      PROVE  door'[e].step = door[e].step /\ door'[e].version = door[e].version
  <2>1. door[e] \in Door
    BY DoorTypes DEF TypeInv
  <2>2. \/ door'[e] = door[e]
        \/ door'[e] = [door[e] EXCEPT !.edited = @ \/ WillCopy(door[e])]
    BY DEF Change, Edit, Move, Measure
  <2>3. QED
    BY <2>1, <2>2 DEF Door
<1>4. VersionsAreCovered'
  BY <1>1, <1>3 DEF ContentInv, VersionsAreCovered
<1>5. \A e \in Doors : Faithful(door[e])'
  BY FaithfulEdit
<1>6. QED
  BY <1>2, <1>4, <1>5 DEF ContentInv

\* A bundle starts with one version or none, its snapshot in place or lost.
LEMMA InitHolds == PublishInit => PubInv
<1> SUFFICES ASSUME PublishInit PROVE PubInv
  OBVIOUS
<1>1. door = [d \in Doors |-> Idle] /\ \A d \in Doors : door[d] = Idle
  BY DEF PublishInit
<1>2. live \in Content /\ live.design \in Designs /\ live.output \in Outputs /\ live # None
  BY PublishConstants DEF PublishInit, Content
<1>3. /\ journal \in Seq(Event) /\ Len(journal) \in 0..1
      /\ \A i \in 1..Len(journal) :
            journal[i] \in Recorded /\ journal[i].type = "recorded"
            /\ journal[i].design = live.design /\ journal[i].hash = live.output
      /\ contentless \subseteq Outputs
  <2>1. CASE journal = <<>> /\ contentless = {}
    BY <2>1
  <2>2. ASSUME NEW d \in Doors, contentless \in {{}, {live.output}},
               journal = <<[type |-> "recorded", design |-> live.design,
                            hash |-> live.output, by |-> d]>>
        PROVE  /\ journal \in Seq(Event) /\ Len(journal) \in 0..1
               /\ \A i \in 1..Len(journal) :
                     journal[i] \in Recorded /\ journal[i].type = "recorded"
                     /\ journal[i].design = live.design /\ journal[i].hash = live.output
               /\ contentless \subseteq Outputs
    <3> DEFINE e == [type |-> "recorded", design |-> live.design,
                     hash |-> live.output, by |-> d]
    <3>1. /\ e \in Recorded /\ e.type = "recorded" /\ e.design = live.design
          /\ e.hash = live.output /\ e \in Event
      BY <1>2 DEF Recorded, Event
    <3> HIDE DEF e
    <3>2. journal = <<e>>
      BY <2>2 DEF e
    <3>3. journal \in Seq(Event) /\ Len(journal) = 1 /\ journal[1] = e
      BY <3>1, <3>2
    <3>4. contentless \subseteq Outputs
      BY <1>2, <2>2
    <3>5. QED
      BY <3>1, <3>3, <3>4
  <2>3. QED
    BY <2>1, <2>2 DEF PublishInit
<1>4. journal # <<>> <=> Len(journal) = 1
  <2>1. journal = <<>> <=> Len(journal) = 0
    BY <1>3, EmptySeq
  <2>2. Len(journal) = 0 \/ Len(journal) = 1
    BY <1>3
  <2>3. QED
    BY <2>1, <2>2
<1>5. \A h \in Outputs : snapshots[h] =
          IF journal # <<>> /\ h = live.output /\ h \notin contentless THEN live ELSE None
  BY DEF PublishInit
<1>6. TypeInv
  <2>1. snapshots \in [Outputs -> Content \union {None}]
    BY <1>2 DEF PublishInit
  <2>2. copies \in [Targets -> Copy \union {None, Torn}]
    BY DEF PublishInit
  <2>3. remembered \in Seq(Audiences) /\ Distinct(remembered)
    BY DEF PublishInit, Distinct
  <2>4. door \in [Doors -> Door] /\ \A d \in Doors : Lawful(door[d])
    BY <1>1, Fresh
  <2>5. requests \in 0..MaxRequests /\ changes \in 0..MaxChanges /\ crashes \in 0..MaxCrashes
    BY PublishConstants DEF PublishInit
  <2>6. QED
    BY <1>3, <2>1, <2>2, <2>3, <2>4, <2>5 DEF PublishInit, TypeInv, PublishTypeOK
<1>7. ContentInv
  <2>1. \A d \in Doors : Faithful(door[d])
    BY <1>1, Fresh, NothingToName
  <2>2. SnapshotsHold
    BY <1>3, <1>4, <1>5 DEF SnapshotsHold, RecordedAs
  <2>3. VersionsAreCovered
    BY <1>2, <1>3, <1>4, <1>5 DEF VersionsAreCovered
  <2>4. StampNamesContent
    BY DEF PublishInit, StampNamesContent
  <2>5. QED
    BY <2>1, <2>2, <2>3, <2>4 DEF ContentInv
<1>8. JournalInv
  <2>1. \A d \in Doors : Grounded(door[d]) /\ ~InHand(door[d])
    BY <1>1, Fresh DEF Grounded, Recorder, Publisher, InHand
  <2>2. ReceiptsAreNumbered
    BY <1>3 DEF ReceiptsAreNumbered
  <2>3. RepeatsAreRaces
    BY <1>3 DEF RepeatsAreRaces
  <2>4. \A t \in Targets : copies[t] = None
    BY DEF PublishInit
  <2>5. \A t \in Targets : Orderly(t)
    BY <2>1, <2>4 DEF Orderly, Works
  <2>6. QED
    BY <2>1, <2>2, <2>3, <2>5 DEF JournalInv
<1>9. QED
  BY <1>6, <1>7, <1>8 DEF PubInv

LEMMA PubInductive == PubInv /\ [PublishNext]_publishVars => PubInv'
<1> SUFFICES ASSUME PubInv, [PublishNext]_publishVars PROVE PubInv'
  OBVIOUS
<1>1. TypeInv /\ ContentInv /\ JournalInv
  BY DEF PubInv
<1>2. CASE Change
  BY <1>1, <1>2, TypeChange, ContentChange, JournalChange DEF PubInv
<1>3. ASSUME NEW d \in Doors, Step(d)
      PROVE  PubInv'
  <2>1. door[d].step = "target" => door[d].read <= Len(journal)
    BY <1>1, DoorTypes, StepKinds DEF TypeInv, JournalInv, Grounded
  <2>2. QED
    BY <1>1, <1>3, <2>1, TypeStep, ContentStep, JournalStep DEF PubInv
<1>4. CASE UNCHANGED publishVars
  <2>1. UNCHANGED <<live, stage, measured, journal, snapshots, copies, remembered, door,
                    contentless, torn, disturbed, outdated, requests, changes, crashes>>
    BY <1>4 DEF publishVars, world, files, history, counts
  <2>2. TypeInv'
    BY <1>1, <2>1 DEF TypeInv, PublishTypeOK
  <2>3. ContentInv'
    BY <1>1, <2>1 DEF ContentInv, Faithful, SnapshotsHold, VersionsAreCovered,
                      StampNamesContent, RecordedAs
  <2>4. \A d \in Doors : Grounded(door[d])'
    BY <1>1, <2>1 DEF JournalInv, Grounded, RecordedAs, NthAt
  <2>5. ReceiptsAreNumbered' /\ RepeatsAreRaces'
    BY <1>1, <2>1 DEF JournalInv, ReceiptsAreNumbered, RepeatsAreRaces
  <2>6. \A t \in Targets \ disturbed' : Orderly(t)'
    BY <1>1, <2>1 DEF JournalInv, Orderly, Works, LastReceiptIsTrue
  <2>7. QED
    BY <2>2, <2>3, <2>4, <2>5, <2>6 DEF PubInv, JournalInv
<1>5. QED
  BY <1>2, <1>3, <1>4 DEF PublishNext

\* What the invariant says, as the runs check it.
LEMMA InvariantSays == PubInv => PublishTypeOK /\ VersionsKeepContent /\ JournalIsTrue
<1> SUFFICES ASSUME PubInv PROVE VersionsKeepContent /\ JournalIsTrue
  BY DEF PubInv, TypeInv
<1>1. TypeInv /\ ContentInv /\ JournalInv
  BY DEF PubInv
<1>2. \A i \in 1..Len(journal) : journal[i].type = "recorded" => journal[i].hash \in Outputs
  BY <1>1, JournalTypes DEF TypeInv, Event, Recorded, Published
<1>3. SnapshotsKeepVersions
  BY <1>1, <1>2 DEF ContentInv, SnapshotsHold, VersionsAreCovered, RecordedAs,
                    SnapshotsKeepVersions
<1>4. ReceiptMatchesCopy
  <2>1. SUFFICES ASSUME NEW t \in Targets, At(t) = {}, t \notin disturbed, copies[t] # None
                 PROVE  LastReceiptIsTrue(t)
    BY DEF ReceiptMatchesCopy, LastReceiptIsTrue
  <2>2. Orderly(t) /\ \A d \in Doors : ~Works(d, t)
    BY <1>1, <2>1, AtIs DEF JournalInv
  <2>3. QED
    BY <2>1, <2>2 DEF Orderly
<1>5. QED
  BY <1>1, <1>3, <1>4 DEF ContentInv, JournalInv, VersionsKeepContent, JournalIsTrue

\* The state of a bundle and of its doors is of the types of the model.
THEOREM PublishingTypeCorrect == PublishSpec => []PublishTypeOK
<1>1. PublishInit => PubInv
  BY InitHolds
<1>2. PubInv /\ [PublishNext]_publishVars => PubInv'
  BY PubInductive
<1>3. PubInv => PublishTypeOK
  BY InvariantSays
<1>4. QED
  BY <1>1, <1>2, <1>3, PTL DEF PublishSpec

\* What was recorded is what is kept and handed out: a snapshot has the content
\* of its version, and a stamp at a target names the content that lies there
\* (recordSkillVersion, snapshotVersionContent, publishToInstallTargets).
THEOREM VersionsKeep == PublishSpec => []VersionsKeepContent
<1>1. PublishInit => PubInv
  BY InitHolds
<1>2. PubInv /\ [PublishNext]_publishVars => PubInv'
  BY PubInductive
<1>3. PubInv => VersionsKeepContent
  BY InvariantSays
<1>4. QED
  BY <1>1, <1>2, <1>3, PTL DEF PublishSpec

\* The journal says of versions and targets what is there, and says it once: an
\* event whose key is there already comes of a race, and the last receipt of an
\* undisturbed target matches the copy there (append of JournalService.ts,
\* publishToInstallTargets, publishBundle).
THEOREM JournalTrue == PublishSpec => []JournalIsTrue
<1>1. PublishInit => PubInv
  BY InitHolds
<1>2. PubInv /\ [PublishNext]_publishVars => PubInv'
  BY PubInductive
<1>3. PubInv => JournalIsTrue
  BY InvariantSays
<1>4. QED
  BY <1>1, <1>2, <1>3, PTL DEF PublishSpec
=============================================================================
