------------------------- MODULE StageMachineProofs -------------------------
(***************************************************************************)
(* Proofs about StageMachine, for any ladder, any number of doors and any  *)
(* length of the journal: the history is legal but for what was decided on *)
(* an old reading, forward moves rest on approvals, and skill.json differs *)
(* from the journal only after a request that wrote but half of it, or such *)
(* a decision. At the end, of SharedJournal, what any number of clones make *)
(* of the journals that git joins.                                         *)
(***************************************************************************)
EXTENDS StageMachine, SharedJournal, FiniteSetTheorems, SequenceTheorems, TLAPS

Approval(s) == [type |-> "review.resolved", state |-> s, decision |-> "approve"]

ApprovedSinceChange(j, s) ==
    \E k \in 1..Len(j) :
        /\ j[k] = Approval(s)
        /\ \A m \in k..Len(j) : j[m].type # "bundle.stage_changed"

Awaited(j) ==
    \E k \in 1..Len(j) :
        /\ j[k].type = "review.requested"
        /\ \A m \in k..Len(j) : j[m].type # "review.resolved"

\* Event e is one the guards allow after the events `before`.
LegalAfter(before, e) ==
    /\ e.type = "bundle.stage_changed" =>
           \/ e.override
           \/ e.reason = "entry"
           \/ e.from > e.to /\ e.from = StageOf(before) /\ e.reason # "none"
           \/ /\ e.to = e.from + 1
              /\ e.from = StageOf(before)
              /\ ApprovedSinceChange(before, e.from)
    /\ e.type = "review.resolved" =>
           e.state = StageOf(before) /\ Awaited(before)

\* Every request in flight was legal when its door read the journal.
RequestsLegal ==
    \A d \in Doors : request[d] # NoRequest =>
        LegalAfter(SubSeq(journal, 1, request[d].read), request[d].event)

HistoryLegal ==
    \A i \in 1..Len(journal) :
        i \notin outdated => LegalAfter(SubSeq(journal, 1, i - 1), journal[i])

\* What waits to be written into skill.json, and what was, is the stage of a
\* stage change.
StagesToWrite ==
    \A d \in Doors :
        /\ request[d].step = "checked" =>
              request[d].event \in StageChange /\ ~request[d].written
        /\ HasWritten(d) => request[d].event \in StageChange

\* The doors that have written a stage and not yet appended its event.
Writers == {d \in Doors : HasWritten(d)}

\* The declared stage is that of a writer.
InFlight == \E d \in Writers : declared = request[d].event.to

\* Between the writes: the declared stage is on its way into the journal or
\* there already, and every writer whose stage was overwritten by another
\* that is no longer in flight has read a journal that has grown since.
RecordInv ==
    declared # Undeclared /\ ~interrupted =>
        /\ \/ InFlight
           \/ LastChange(journal) \in outdated \union unwritten
           \/ declared = StageOf(journal)
        /\ \A d \in Writers : InFlight \/ request[d].read < Len(journal)

IndInv ==
    /\ TypeOK
    /\ StagesToWrite
    /\ RequestsLegal
    /\ HistoryLegal
    /\ ForwardWasApproved
    /\ RecordInv
-----------------------------------------------------------------------------
\* An event is of the class its type names.
LEMMA EventClass ==
    ASSUME NEW e \in Event
    PROVE  /\ e.type = "bundle.stage_changed" <=> e \in StageChange
           /\ e.type = "review.requested" <=> e \in Requested
           /\ e.type = "review.resolved" <=> e \in Resolved
  BY DEF Event, StageChange, Requested, Resolved

\* A nonempty set of positions has a last one. (The sets i..n are well-founded
\* under strict inclusion.)
LEMMA GreatestPosition ==
    ASSUME NEW n \in Nat, NEW S \in SUBSET (1..n), S # {}
    PROVE  \E i \in S : \A k \in S : k <= i
<1> DEFINE rest == {i..n : i \in S}
<1>1. rest \subseteq FiniteSubsetsOf(Nat)
  <2>1. \A i \in S : i..n \subseteq Nat /\ IsFiniteSet(i..n)
    BY FS_Interval
  <2>2. QED
    BY <2>1 DEF FiniteSubsetsOf
<1>2. rest # {}
  OBVIOUS
<1>3. PICK least \in rest :
         \A s \in rest : ~(<<s, least>> \in StrictSubsetOrdering(Nat))
  <2> HIDE DEF rest
  <2>1. IsWellFoundedOn(StrictSubsetOrdering(Nat), FiniteSubsetsOf(Nat))
    BY FS_StrictSubsetOrderingWellFounded
  <2>2. QED
    BY <1>1, <1>2, <2>1, WFMin
<1>4. PICK i \in S : least = i..n
  OBVIOUS
<1>5. ASSUME NEW k \in S, ~(k <= i)
      PROVE  FALSE
  <2>1. k..n \subseteq i..n /\ i \in i..n /\ i \notin k..n
    BY <1>5
  <2>2. <<k..n, least>> \in StrictSubsetOrdering(Nat)
    BY <1>4, <2>1 DEF StrictSubsetOrdering
  <2>3. QED
    BY <1>3, <2>2
<1>6. QED
  BY <1>5

\* Latest is the greatest position of the set, or 0 if it is empty.
LEMMA LatestIs ==
    ASSUME NEW n \in Nat, NEW S \in SUBSET (1..n)
    PROVE  /\ Latest(S) \in S \union {0}
           /\ Latest(S) \in 0..n
           /\ \A k \in S : k <= Latest(S)
<1>1. \E i \in S \union {0} : \A k \in S : k <= i
  <2>1. CASE S = {}
    BY <2>1
  <2>2. CASE S # {}
    BY <2>2, GreatestPosition
  <2>3. QED
    BY <2>1, <2>2
<1>2. Latest(S) \in S \union {0} /\ \A k \in S : k <= Latest(S)
  BY <1>1, Zenon DEF Latest
<1>3. S \union {0} \subseteq 0..n
  OBVIOUS
<1>4. QED
  BY <1>2, <1>3

\* lastStageChangedIndex finds the last stage change, or none.
LEMMA LastChangeIs ==
    ASSUME NEW j \in Seq(Event)
    PROVE  /\ LastChange(j) \in 0..Len(j)
           /\ LastChange(j) # 0 => j[LastChange(j)] \in StageChange
           /\ \A m \in 1..Len(j) :
                  j[m].type = "bundle.stage_changed" => m <= LastChange(j)
<1>1. Changes(j) \in SUBSET (1..Len(j)) /\ Len(j) \in Nat
  BY DEF Changes
<1>2. /\ LastChange(j) \in Changes(j) \union {0}
      /\ LastChange(j) \in 0..Len(j)
      /\ \A m \in Changes(j) : m <= LastChange(j)
  BY <1>1, LatestIs DEF LastChange
<1>3. ASSUME LastChange(j) # 0
      PROVE  j[LastChange(j)] \in StageChange
  <2>1. /\ LastChange(j) \in 1..Len(j)
        /\ j[LastChange(j)].type = "bundle.stage_changed"
    BY <1>2, <1>3 DEF Changes
  <2>2. j[LastChange(j)] \in Event
    BY <2>1
  <2>3. QED
    BY <2>1, <2>2, EventClass
<1>4. QED
  BY <1>2, <1>3 DEF Changes

\* The fold stays on the ladder.
LEMMA StageOfIsStage ==
    ASSUME NEW j \in Seq(Event)
    PROVE  StageOf(j) \in Stage
<1>1. Idea \in Stage
  BY ConstantsAssumption DEF Idea, Stage
<1>2. CASE LastChange(j) = 0
  BY <1>1, <1>2 DEF StageOf
<1>3. CASE LastChange(j) # 0
  BY <1>3, LastChangeIs DEF StageOf, StageChange
<1>4. QED
  BY <1>2, <1>3

\* What an appended event does to the fold.
LEMMA FoldOfAppend ==
    ASSUME NEW j \in Seq(Event), NEW e \in Event
    PROVE  /\ e \in StageChange =>
                  /\ LastChange(Append(j, e)) = Len(j) + 1
                  /\ StageOf(Append(j, e)) = e.to
           /\ e \notin StageChange =>
                  /\ LastChange(Append(j, e)) = LastChange(j)
                  /\ StageOf(Append(j, e)) = StageOf(j)
<1> DEFINE J == Append(j, e)
<1>1. /\ J \in Seq(Event) /\ Len(J) = Len(j) + 1 /\ J[Len(j) + 1] = e
      /\ \A m \in 1..Len(j) : J[m] = j[m]
      /\ Len(j) \in Nat
  BY AppendProperties, LenProperties
<1> HIDE DEF J
<1>2. /\ LastChange(J) \in 0..Len(J)
      /\ LastChange(J) # 0 => J[LastChange(J)] \in StageChange
      /\ \A m \in 1..Len(J) :
             J[m].type = "bundle.stage_changed" => m <= LastChange(J)
  BY <1>1, LastChangeIs
<1>3. /\ LastChange(j) \in 0..Len(j)
      /\ LastChange(j) # 0 => j[LastChange(j)] \in StageChange
      /\ \A m \in 1..Len(j) :
             j[m].type = "bundle.stage_changed" => m <= LastChange(j)
  BY LastChangeIs
<1>4. CASE e \in StageChange
  <2>1. e.type = "bundle.stage_changed"
    BY <1>4, EventClass
  <2>2. LastChange(J) = Len(j) + 1
    BY <1>1, <1>2, <2>1
  <2>3. StageOf(J) = e.to
    BY <1>1, <2>2 DEF StageOf
  <2>4. QED
    BY <1>4, <2>2, <2>3 DEF J
<1>5. CASE e \notin StageChange
  <2>1. LastChange(J) # Len(j) + 1
    BY <1>1, <1>2, <1>5
  <2>2. LastChange(J) <= LastChange(j)
    <3>1. CASE LastChange(J) = 0
      BY <1>1, <1>3, <3>1
    <3>2. CASE LastChange(J) # 0
      <4>1. LastChange(J) \in 1..Len(j) /\ J[LastChange(J)] \in StageChange
        BY <1>1, <1>2, <2>1, <3>2
      <4>2. j[LastChange(J)].type = "bundle.stage_changed"
        BY <1>1, <4>1 DEF StageChange
      <4>3. QED
        BY <1>3, <4>1, <4>2
    <3>3. QED
      BY <3>1, <3>2
  <2>3. LastChange(j) <= LastChange(J)
    <3>1. CASE LastChange(j) = 0
      BY <1>1, <1>2, <3>1
    <3>2. CASE LastChange(j) # 0
      <4>1. LastChange(j) \in 1..Len(j) /\ j[LastChange(j)] \in StageChange
        BY <1>1, <1>3, <3>2
      <4>2. /\ LastChange(j) \in 1..Len(J)
            /\ J[LastChange(j)].type = "bundle.stage_changed"
        BY <1>1, <4>1 DEF StageChange
      <4>3. QED
        BY <1>2, <4>2
    <3>3. QED
      BY <3>1, <3>2
  <2>4. LastChange(J) = LastChange(j)
    BY <1>1, <1>2, <1>3, <2>2, <2>3
  <2>5. StageOf(J) = StageOf(j)
    BY <1>1, <1>3, <2>4 DEF StageOf
  <2>6. QED
    BY <1>5, <2>4, <2>5 DEF J
<1>6. QED
  BY <1>4, <1>5

\* Appending leaves every reading of the journal what it was.
LEMMA ReadingsStay ==
    ASSUME NEW j \in Seq(Event), NEW e \in Event, NEW n \in 0..Len(j)
    PROVE  /\ SubSeq(Append(j, e), 1, n) = SubSeq(j, 1, n)
           /\ SubSeq(j, 1, n) \in Seq(Event)
           /\ Len(SubSeq(j, 1, n)) = n
           /\ \A i \in 1..n : SubSeq(j, 1, n)[i] = j[i]
<1>1. /\ Append(j, e) \in Seq(Event) /\ Len(Append(j, e)) = Len(j) + 1
      /\ \A m \in 1..Len(j) : Append(j, e)[m] = j[m]
      /\ Len(j) \in Nat /\ n \in Nat /\ n <= Len(j)
  BY AppendProperties, LenProperties
<1>2. /\ SubSeq(j, 1, n) \in Seq(Event)
      /\ Len(SubSeq(j, 1, n)) = n
      /\ \A i \in 1..n : SubSeq(j, 1, n)[i] = j[i]
  <2>1. \A i \in 1..n : j[i] \in Event
    BY <1>1
  <2>2. QED
    BY <1>1, <2>1, SubSeqProperties
<1>3. /\ SubSeq(Append(j, e), 1, n) \in Seq(Event)
      /\ Len(SubSeq(Append(j, e), 1, n)) = n
      /\ \A i \in 1..n : SubSeq(Append(j, e), 1, n)[i] = Append(j, e)[i]
  <2>1. \A i \in 1..n : Append(j, e)[i] \in Event
    BY <1>1
  <2>2. QED
    BY <1>1, <2>1, SubSeqProperties
<1>4. SubSeq(Append(j, e), 1, n) = SubSeq(j, 1, n)
  <2>1. \A i \in 1..n : SubSeq(Append(j, e), 1, n)[i] = SubSeq(j, 1, n)[i]
    BY <1>1, <1>2, <1>3
  <2>2. QED
    BY <1>2, <1>3, <2>1, SeqEqual
<1>5. QED
  BY <1>2, <1>4

\* A door whose reading is as long as the journal has read all of it.
LEMMA WholeReading ==
    ASSUME NEW j \in Seq(Event)
    PROVE  SubSeq(j, 1, Len(j)) = j
<1>1. Len(j) \in Nat /\ \A i \in 1..Len(j) : j[i] \in Event
  OBVIOUS
<1>2. /\ SubSeq(j, 1, Len(j)) \in Seq(Event)
      /\ Len(SubSeq(j, 1, Len(j))) = Len(j)
      /\ \A i \in 1..Len(j) : SubSeq(j, 1, Len(j))[i] = j[i]
  BY <1>1, SubSeqProperties
<1>3. QED
  BY <1>2, SeqEqual
-----------------------------------------------------------------------------
\* What the guard lets through is legal after the events it has seen.
LEMMA GuardAllows ==
    ASSUME NEW j \in Seq(Event), NEW e \in StageChange, CheckTransition(j, e)
    PROVE  LegalAfter(j, e)
<1>1. e.type = "bundle.stage_changed" /\ e.type # "review.resolved"
  BY DEF StageChange
<1>2. CASE e.override
  BY <1>1, <1>2 DEF LegalAfter
<1>3. CASE ~e.override
  <2>1. /\ e.from = StageOf(j)
        /\ \/ e.to < e.from /\ e.reason # "none"
           \/ e.to = e.from + 1 /\ HasApprovedReview(j, e.from)
    BY <1>3 DEF CheckTransition
  <2>2. CASE e.to < e.from /\ e.reason # "none"
    <3>1. e.from > e.to
      BY <2>2, ConstantsAssumption DEF StageChange, Stage
    <3>2. QED
      BY <1>1, <2>1, <2>2, <3>1 DEF LegalAfter
  <2>3. CASE e.to = e.from + 1 /\ HasApprovedReview(j, e.from)
    <3>1. PICK i \in (LastChange(j) + 1)..Len(j) :
              /\ j[i].type = "review.resolved"
              /\ j[i].state = e.from
              /\ j[i].decision = "approve"
      BY <2>3 DEF HasApprovedReview
    <3>2. /\ LastChange(j) \in 0..Len(j) /\ Len(j) \in Nat
          /\ \A m \in 1..Len(j) :
                 j[m].type = "bundle.stage_changed" => m <= LastChange(j)
      BY LastChangeIs
    <3>3. i \in 1..Len(j)
      BY <3>2
    <3>4. j[i] = Approval(e.from)
      <4>1. j[i] \in Resolved
        BY <3>1, <3>3, EventClass
      <4>2. QED
        BY <3>1, <4>1 DEF Approval, Resolved
    <3>5. \A m \in i..Len(j) : j[m].type # "bundle.stage_changed"
      BY <3>2, <3>3
    <3>6. ApprovedSinceChange(j, e.from)
      BY <3>3, <3>4, <3>5 DEF ApprovedSinceChange
    <3>7. QED
      BY <1>1, <2>1, <2>3, <3>6 DEF LegalAfter
  <2>4. QED
    BY <2>1, <2>2, <2>3
<1>4. QED
  BY <1>2, <1>3

\* So is a review that is resolved while the bundle awaits it.
LEMMA ResolutionAllowed ==
    ASSUME NEW j \in Seq(Event), NEW e \in Resolved,
           e.state = StageOf(j), AwaitingReview(j)
    PROVE  LegalAfter(j, e)
<1> DEFINE reviews == 1..Len(j) \ Changes(j)
           review == Latest(reviews)
<1>1. /\ Len(j) \in Nat /\ reviews \in SUBSET (1..Len(j))
      /\ e.type # "bundle.stage_changed"
  BY DEF Resolved
<1>2. /\ review \in reviews \union {0}
      /\ \A k \in reviews : k <= review
  <2> HIDE DEF reviews
  <2>1. QED
    BY <1>1, LatestIs
<1>3. review # 0 /\ j[review].type = "review.requested"
  BY DEF AwaitingReview
<1>4. review \in 1..Len(j)
  BY <1>2, <1>3
<1>5. \A m \in review..Len(j) : j[m].type # "review.resolved"
  <2> SUFFICES ASSUME NEW m \in review..Len(j), j[m].type = "review.resolved"
               PROVE  FALSE
    OBVIOUS
  <2> HIDE DEF review
  <2>1. m \in 1..Len(j)
    BY <1>4
  <2>2. m \in reviews
    BY <2>1 DEF Changes
  <2>3. m = review
    BY <1>2, <1>4, <2>1, <2>2
  <2>4. QED
    BY <1>3, <2>3
<1>6. Awaited(j)
  BY <1>3, <1>4, <1>5 DEF Awaited
<1>7. QED
  BY <1>1, <1>6 DEF LegalAfter
-----------------------------------------------------------------------------
\* What TypeOK says of the journal and of one door.
LEMMA Types ==
    TypeOK => /\ journal \in Seq(Event) /\ Len(journal) \in Nat
              /\ \A d \in Doors :
                    /\ request[d].read \in Nat
                    /\ request[d].read <= Len(journal)
                    /\ request[d] # NoRequest =>
                          request[d] \in Request /\ request[d].event \in Event
<1> SUFFICES ASSUME TypeOK, NEW d \in Doors
             PROVE  /\ journal \in Seq(Event) /\ Len(journal) \in Nat
                    /\ request[d].read \in Nat
                    /\ request[d].read <= Len(journal)
                    /\ request[d] # NoRequest =>
                          request[d] \in Request /\ request[d].event \in Event
  BY LenProperties DEF TypeOK
<1>1. request[d] \in Request \union {NoRequest}
  BY DEF TypeOK
<1>2. journal \in Seq(Event) /\ request[d].read <= Len(journal)
  BY DEF TypeOK
<1>3. request[d].read \in Nat
  BY <1>1 DEF Request, NoRequest
<1>4. request[d] # NoRequest => request[d] \in Request /\ request[d].event \in Event
  BY <1>1 DEF Request
<1>5. QED
  BY <1>2, <1>3, <1>4, LenProperties

\* Whatever is asked for is an event.
LEMMA AskedTypes ==
    ASSUME TypeOK, NEW d \in Doors
    PROVE  /\ Accepted(d) \subseteq StageChange
           /\ ReviewsAsked(d) \subseteq Requested
           /\ Resolutions \subseteq Resolved
<1>1. journal \in Seq(Event)
  BY Types
<1>2. Shown(d) \subseteq Stage
  <2>1. StageOf(journal) \in Stage
    BY <1>1, StageOfIsStage
  <2>2. ASSUME NEW n \in 0..Len(journal)
        PROVE  StageOf(SubSeq(journal, 1, n)) \in Stage
    <3>1. \A i \in 1..n : journal[i] \in Event
      BY <1>1
    <3>2. SubSeq(journal, 1, n) \in Seq(Event)
      BY <1>1, <3>1, SubSeqProperties
    <3>3. QED
      BY <3>2, StageOfIsStage
  <2>3. {declared} \ {Undeclared} \subseteq Stage
    BY DEF TypeOK
  <2>4. QED
    BY <2>1, <2>2, <2>3 DEF Shown
<1>3. Accepted(d) \subseteq StageChange
  BY <1>2 DEF Accepted, Asked, Destination, StageChange
<1>4. ReviewsAsked(d) \subseteq Requested
  BY <1>1, StageOfIsStage DEF ReviewsAsked, Requested
<1>5. Resolutions \subseteq Resolved
  BY <1>1, StageOfIsStage DEF Resolutions, Resolved
<1>6. QED
  BY <1>3, <1>4, <1>5

\* The invariant gives the properties of the model.
LEMMA InvariantSuffices ==
    ASSUME IndInv
    PROVE  LegalHistory /\ RecordAgrees
<1>1. journal \in Seq(Event) /\ Len(journal) \in Nat
  BY Types DEF IndInv
<1>2. LegalHistory
  <2> SUFFICES ASSUME NEW i \in 1..Len(journal), i \notin outdated
               PROVE  LegalEvent(i)
    BY DEF LegalHistory
  <2> DEFINE before == SubSeq(journal, 1, i - 1)
             e == journal[i]
  <2>1. LegalAfter(before, e)
    BY DEF IndInv, HistoryLegal
  <2>2. /\ Len(before) = i - 1
        /\ \A k \in 1..(i - 1) : before[k] = journal[k]
    <3>1. i - 1 \in 0..Len(journal)
      BY <1>1
    <3>2. QED
      BY <1>1, <3>1, ReadingsStay
  <2>3. e \in Event
    BY <1>1
  <2> HIDE DEF before
  <2>4. ASSUME NEW s \in Stage, ApprovedSinceChange(before, s)
        PROVE  \E k \in 1..(i - 1) :
                  /\ journal[k] = [type |-> "review.resolved", state |-> s,
                                   decision |-> "approve"]
                  /\ \A m \in k..(i - 1) :
                        journal[m].type # "bundle.stage_changed"
    BY <2>2, <2>4 DEF ApprovedSinceChange, Approval
  <2>5. ASSUME Awaited(before)
        PROVE  \E k \in 1..(i - 1) :
                  /\ journal[k].type = "review.requested"
                  /\ \A m \in k..(i - 1) :
                        journal[m].type # "review.resolved"
    BY <2>2, <2>5 DEF Awaited
  <2>6. CASE e \in StageChange
    <3>1. e.type = "bundle.stage_changed" /\ e.from \in Stage
      BY <2>6 DEF StageChange
    <3>2. QED
      BY <2>1, <2>4, <3>1 DEF LegalAfter, LegalEvent, before
  <2>7. CASE e \in Requested
    <3>1. e.type = "review.requested"
      BY <2>7 DEF Requested
    <3>2. QED
      BY <3>1 DEF LegalEvent
  <2>8. CASE e \in Resolved
    <3>1. e.type = "review.resolved"
      BY <2>8 DEF Resolved
    <3>2. QED
      BY <2>1, <2>5, <3>1 DEF LegalAfter, LegalEvent, before
  <2>9. QED
    BY <2>3, <2>6, <2>7, <2>8 DEF Event
<1>3. RecordAgrees
  <2> SUFFICES ASSUME \A d \in Doors : request[d] = NoRequest,
                      declared # Undeclared, ~interrupted
               PROVE  \/ LastChange(journal) \in outdated \union unwritten
                      \/ declared = StageOf(journal)
    BY DEF RecordAgrees
  <2>1. Writers = {}
    BY DEF Writers, HasWritten, NoRequest
  <2>2. QED
    BY <2>1 DEF IndInv, RecordInv, InFlight
<1>4. QED
  BY <1>2, <1>3

\* A new or an adopted bundle satisfies the invariant.
LEMMA InitEstablishes == Init => IndInv
<1> SUFFICES ASSUME Init
             PROVE  IndInv
  OBVIOUS
<1>1. \A d \in Doors : request[d] = NoRequest
  BY DEF Init
<1>2. \/ journal = <<>>
      \/ \E e \in StageChange :
            /\ journal = <<e>>
            /\ e.reason = "entry" \/ e.override
  <2>1. Idea \in Stage
    BY ConstantsAssumption DEF Idea, Stage
  <2>2. QED
    BY <2>1 DEF Init, StageChange, EntryStage
<1>3. journal \in Seq(Event)
  <2>1. <<>> \in Seq(Event)
    BY EmptySeq
  <2>2. ASSUME NEW e \in StageChange
        PROVE  <<e>> \in Seq(Event)
    BY DEF Event
  <2>3. QED
    BY <1>2, <2>1, <2>2
<1>4. declared \in Stage \union {Undeclared}
  BY <1>3, StageOfIsStage DEF Init
<1>5. TypeOK
  <2>1. /\ \A d \in Doors : request[d].read <= Len(journal)
        /\ request \in [Doors -> Request \union {NoRequest}]
    BY <1>1, <1>3, LenProperties DEF Init, NoRequest
  <2>2. outdated = {} /\ unwritten = {} /\ interrupted = FALSE
    BY Zenon DEF Init
  <2>3. QED
    BY <1>3, <1>4, <2>1, <2>2 DEF TypeOK
<1>6. RequestsLegal /\ StagesToWrite
  BY <1>1 DEF RequestsLegal, StagesToWrite, HasWritten, NoRequest
<1>7. HistoryLegal /\ ForwardWasApproved
  <2>1. CASE journal = <<>>
    BY <2>1 DEF HistoryLegal, ForwardWasApproved
  <2>2. CASE journal # <<>>
    <3>1. PICK e \in StageChange :
              journal = <<e>> /\ (e.reason = "entry" \/ e.override)
      BY <1>2, <2>2
    <3>2. \A i \in 1..Len(journal) : journal[i] = e
      BY <3>1
    <3>3. e.type = "bundle.stage_changed"
      BY DEF StageChange
    <3>4. HistoryLegal
      BY <3>1, <3>2, <3>3 DEF HistoryLegal, LegalAfter
    <3>5. ForwardWasApproved
      BY <3>1, <3>2 DEF ForwardWasApproved
    <3>6. QED
      BY <3>4, <3>5
  <2>3. QED
    BY <2>1, <2>2
<1>8. RecordInv
  <2>1. Writers = {}
    BY <1>1 DEF Writers, HasWritten, NoRequest
  <2>2. declared # Undeclared => declared = StageOf(journal)
    BY DEF Init
  <2>3. QED
    BY <2>1, <2>2 DEF RecordInv
<1>9. QED
  BY <1>5, <1>6, <1>7, <1>8 DEF IndInv
-----------------------------------------------------------------------------
\* A door that has checked its request holds one that is legal, and changes
\* nothing else.
LEMMA CheckStep ==
    ASSUME IndInv, NEW d \in Doors, NEW e \in Event, LegalAfter(journal, e),
           NEW next \in {"checked", "recorded"}, Check(d, e, next),
           next = "checked" <=> e \in StageChange
    PROVE  IndInv'
<1> DEFINE r == [step |-> next, event |-> e, read |-> Len(journal), written |-> FALSE]
<1>1. /\ journal \in Seq(Event) /\ Len(journal) \in Nat
      /\ TypeOK
      /\ request \in [Doors -> Request \union {NoRequest}]
  BY Types DEF IndInv, TypeOK
<1>2. /\ request[d] = NoRequest
      /\ request' = [request EXCEPT ![d] = r]
      /\ UNCHANGED <<journal, declared, outdated, unwritten, interrupted>>
  BY DEF Check
<1>3. r \in Request
  BY <1>1 DEF Request
<1>4. /\ request'[d] = r
      /\ \A o \in Doors : o # d => request'[o] = request[o]
  BY <1>1, <1>2
<1>5. TypeOK'
  <2>1. request' \in [Doors -> Request \union {NoRequest}]
    BY <1>1, <1>2, <1>3
  <2>2. \A o \in Doors : request'[o].read <= Len(journal)
    BY <1>1, <1>4 DEF TypeOK
  <2>3. QED
    BY <1>1, <1>2, <2>1, <2>2 DEF TypeOK
<1>6. RequestsLegal'
  <2> SUFFICES ASSUME NEW o \in Doors, request'[o] # NoRequest
               PROVE  LegalAfter(SubSeq(journal, 1, request'[o].read),
                                 request'[o].event)
    BY <1>2 DEF RequestsLegal
  <2>1. CASE o = d
    <3>1. SubSeq(journal, 1, Len(journal)) = journal
      BY <1>1, WholeReading
    <3>2. request'[o].read = Len(journal) /\ request'[o].event = e
      BY <1>4, <2>1
    <3>3. QED
      BY <3>1, <3>2
  <2>2. CASE o # d
    BY <1>4, <2>2 DEF IndInv, RequestsLegal
  <2>3. QED
    BY <2>1, <2>2
<1>7. HistoryLegal' /\ ForwardWasApproved'
  BY <1>2 DEF IndInv, HistoryLegal, ForwardWasApproved
<1>8. RecordInv'
  <2>1. d \notin Writers
    BY <1>2 DEF Writers, HasWritten, NoRequest
  <2>2. ~request'[d].written
    BY <1>4
  <2>3. Writers' = Writers
    BY <1>4, <2>1, <2>2 DEF Writers, HasWritten
  <2>4. \A o \in Writers : request'[o] = request[o]
    BY <1>4, <2>1 DEF Writers
  <2>5. InFlight' <=> InFlight
    BY <1>2, <2>3, <2>4 DEF InFlight
  <2>6. QED
    BY <1>2, <2>3, <2>4, <2>5 DEF IndInv, RecordInv
<1>9. StagesToWrite'
  BY <1>4 DEF IndInv, StagesToWrite, HasWritten
<1>10. QED
  BY <1>5, <1>6, <1>7, <1>8, <1>9 DEF IndInv

\* A door that gives its request up leaves the rest in order, provided that
\* it had no stage written, or that the interruption is recorded.
LEMMA GivingUp ==
    ASSUME IndInv, NEW d \in Doors,
           request' = [request EXCEPT ![d] = NoRequest],
           UNCHANGED <<journal, declared, outdated, unwritten>>,
           interrupted' \in BOOLEAN, interrupted => interrupted',
           d \in Writers => interrupted'
    PROVE  IndInv'
<1>1. /\ journal \in Seq(Event) /\ Len(journal) \in Nat
      /\ request \in [Doors -> Request \union {NoRequest}]
  BY Types DEF IndInv, TypeOK
<1>2. /\ request'[d] = NoRequest
      /\ \A o \in Doors : o # d => request'[o] = request[o]
  BY <1>1
<1>3. TypeOK'
  <2>1. \A o \in Doors : request'[o].read <= Len(journal)
    BY <1>1, <1>2 DEF IndInv, TypeOK, NoRequest
  <2>2. QED
    BY <1>1, <2>1 DEF IndInv, TypeOK
<1>4. RequestsLegal'
  <2> SUFFICES ASSUME NEW o \in Doors, request'[o] # NoRequest
               PROVE  LegalAfter(SubSeq(journal, 1, request'[o].read),
                                 request'[o].event)
    BY DEF RequestsLegal
  <2>1. QED
    BY <1>2 DEF IndInv, RequestsLegal
<1>5. HistoryLegal' /\ ForwardWasApproved'
  BY DEF IndInv, HistoryLegal, ForwardWasApproved
<1>6. RecordInv'
  <2> SUFFICES ASSUME d \notin Writers, ~interrupted
               PROVE  RecordInv'
    BY DEF RecordInv
  <2>1. d \notin Writers'
    BY <1>2 DEF Writers, HasWritten, NoRequest
  <2>2. Writers' = Writers
    BY <1>2, <2>1 DEF Writers, HasWritten
  <2>3. \A o \in Writers : request'[o] = request[o]
    BY <1>2 DEF Writers
  <2>4. InFlight' <=> InFlight
    BY <2>2, <2>3 DEF InFlight
  <2>5. QED
    BY <2>2, <2>3, <2>4 DEF IndInv, RecordInv
<1>7. StagesToWrite'
  BY <1>2 DEF IndInv, StagesToWrite, HasWritten, NoRequest
<1>8. QED
  BY <1>3, <1>4, <1>5, <1>6, <1>7 DEF IndInv

\* Writing the stage puts its request in flight.
LEMMA StageWritten ==
    ASSUME IndInv, NEW d \in Doors,
           request[d].step = "checked",
           declared' = NewDeclaration(request[d].event),
           interrupted' = FALSE,
           request' = [request EXCEPT ![d].step = "recorded", ![d].written = TRUE],
           UNCHANGED <<journal, outdated, unwritten>>
    PROVE  IndInv'
<1>1. /\ journal \in Seq(Event) /\ Len(journal) \in Nat
      /\ request \in [Doors -> Request \union {NoRequest}]
  BY Types DEF IndInv, TypeOK
<1>2. /\ request[d] \in Request
      /\ request[d].event \in Event
      /\ request[d] # NoRequest
  BY <1>1 DEF NoRequest, Request
<1>3. /\ request'[d] \in Request
      /\ request'[d].step = "recorded" /\ request'[d].written
      /\ request'[d].event = request[d].event
      /\ request'[d].read = request[d].read
      /\ \A o \in Doors : o # d => request'[o] = request[o]
  BY <1>1, <1>2 DEF Request
<1>4. request' \in [Doors -> Request \union {NoRequest}]
  BY <1>1, <1>3
<1>5. TypeOK' /\ (declared' # Undeclared =>
                      declared' = request[d].event.to)
  <2>1. request[d].event \in StageChange
    BY DEF IndInv, StagesToWrite
  <2>2. declared' \in Stage \union {Undeclared}
    BY <2>1 DEF NewDeclaration, StageChange
  <2>3. \A o \in Doors : request'[o].read <= Len(journal)
    BY <1>3 DEF IndInv, TypeOK
  <2>4. QED
    BY <1>1, <1>4, <2>2, <2>3 DEF IndInv, TypeOK, NewDeclaration
<1>6. RequestsLegal'
  <2> SUFFICES ASSUME NEW o \in Doors, request'[o] # NoRequest
               PROVE  LegalAfter(SubSeq(journal, 1, request'[o].read),
                                 request'[o].event)
    BY DEF RequestsLegal
  <2>1. request[o] # NoRequest
    BY <1>2, <1>3
  <2>2. request'[o].read = request[o].read /\ request'[o].event = request[o].event
    BY <1>3
  <2>3. LegalAfter(SubSeq(journal, 1, request[o].read), request[o].event)
    BY <2>1 DEF IndInv, RequestsLegal
  <2>4. QED
    BY <2>2, <2>3
<1>7. HistoryLegal' /\ ForwardWasApproved'
  BY DEF IndInv, HistoryLegal, ForwardWasApproved
<1>8. RecordInv'
  <2> SUFFICES ASSUME declared' # Undeclared
               PROVE  RecordInv'
    BY DEF RecordInv
  <2>1. d \in Writers'
    BY <1>3 DEF Writers, HasWritten
  <2>2. InFlight'
    BY <1>3, <1>5, <2>1 DEF InFlight
  <2>3. QED
    BY <2>2 DEF RecordInv
<1>9. StagesToWrite'
  BY <1>3 DEF IndInv, StagesToWrite, HasWritten
<1>10. QED
  BY <1>5, <1>6, <1>7, <1>8, <1>9 DEF IndInv

\* A door that misses skill.json goes on with nothing written.
LEMMA StageMissed ==
    ASSUME IndInv, NEW d \in Doors,
           request[d].step = "checked",
           request' = [request EXCEPT ![d].step = "recorded"],
           UNCHANGED <<journal, declared, outdated, unwritten, interrupted>>
    PROVE  IndInv'
<1>1. /\ journal \in Seq(Event) /\ Len(journal) \in Nat
      /\ request \in [Doors -> Request \union {NoRequest}]
  BY Types DEF IndInv, TypeOK
<1>2. /\ request[d] \in Request
      /\ request[d] # NoRequest
      /\ ~request[d].written
  BY <1>1 DEF NoRequest, Request, IndInv, StagesToWrite
<1>3. /\ request'[d] \in Request
      /\ request'[d].step = "recorded" /\ ~request'[d].written
      /\ request'[d].event = request[d].event
      /\ request'[d].read = request[d].read
      /\ \A o \in Doors : o # d => request'[o] = request[o]
  BY <1>1, <1>2 DEF Request
<1>4. TypeOK'
  <2>1. request' \in [Doors -> Request \union {NoRequest}]
    BY <1>1, <1>3
  <2>2. \A o \in Doors : request'[o].read <= Len(journal)
    BY <1>3 DEF IndInv, TypeOK
  <2>3. QED
    BY <1>1, <2>1, <2>2 DEF IndInv, TypeOK
<1>5. RequestsLegal'
  <2> SUFFICES ASSUME NEW o \in Doors, request'[o] # NoRequest
               PROVE  LegalAfter(SubSeq(journal, 1, request'[o].read),
                                 request'[o].event)
    BY DEF RequestsLegal
  <2>1. request[o] # NoRequest
    BY <1>2, <1>3
  <2>2. request'[o].read = request[o].read /\ request'[o].event = request[o].event
    BY <1>3
  <2>3. QED
    BY <2>1, <2>2 DEF IndInv, RequestsLegal
<1>6. HistoryLegal' /\ ForwardWasApproved'
  BY DEF IndInv, HistoryLegal, ForwardWasApproved
<1>7. RecordInv'
  <2>1. Writers' = Writers /\ \A o \in Writers : request'[o] = request[o]
    BY <1>2, <1>3 DEF Writers, HasWritten
  <2>2. InFlight' <=> InFlight
    BY <2>1 DEF InFlight
  <2>3. QED
    BY <2>1, <2>2 DEF IndInv, RecordInv
<1>8. StagesToWrite'
  BY <1>3 DEF IndInv, StagesToWrite, HasWritten
<1>9. QED
  BY <1>4, <1>5, <1>6, <1>7, <1>8 DEF IndInv

\* Appending: the event is legal unless its position is outdated.
LEMMA AppendStep ==
    ASSUME IndInv, NEW d \in Doors, AppendEvent(d),
           journal' = Append(journal, request[d].event)
    PROVE  IndInv'
<1> DEFINE e == request[d].event
           n == Len(journal) + 1
<1>1. /\ journal \in Seq(Event) /\ Len(journal) \in Nat
      /\ request \in [Doors -> Request \union {NoRequest}]
      /\ TypeOK
  BY Types DEF IndInv, TypeOK
<1>2. /\ request[d].step = "recorded"
      /\ request' = [request EXCEPT ![d] = NoRequest]
      /\ journal' = Append(journal, e)
      /\ outdated' = IF request[d].read < Len(journal)
                     THEN outdated \union {n} ELSE outdated
      /\ unwritten' = IF e.type = "bundle.stage_changed" /\ ~request[d].written
                      THEN unwritten \union {n} ELSE unwritten
      /\ UNCHANGED <<declared, interrupted>>
  <2>1. UNCHANGED journal => journal' # Append(journal, e)
    <3>1. e \in Event
      BY <1>1, Types DEF AppendEvent, NoRequest
    <3>2. Len(Append(journal, e)) = Len(journal) + 1
      BY <1>1, <3>1, AppendProperties
    <3>3. QED
      BY <1>1, <3>2
  <2>2. QED
    BY <2>1 DEF AppendEvent
<1>3. /\ request[d] # NoRequest
      /\ e \in Event
      /\ request[d].read \in 0..Len(journal)
  BY <1>1, <1>2, Types DEF NoRequest
<1> HIDE DEF e
<1>4. /\ journal' \in Seq(Event) /\ Len(journal') = n
      /\ journal'[n] = e
      /\ \A i \in 1..Len(journal) : journal'[i] = journal[i]
  BY <1>1, <1>2, <1>3, AppendProperties
<1>5. /\ request'[d] = NoRequest
      /\ \A o \in Doors : o # d => request'[o] = request[o]
  BY <1>1, <1>2
<1>6. /\ outdated \subseteq outdated' /\ unwritten \subseteq unwritten'
      /\ n \notin outdated' => request[d].read = Len(journal)
  BY <1>1, <1>2, <1>3
<1>7. \A i \in 0..Len(journal) : SubSeq(journal', 1, i) = SubSeq(journal, 1, i)
  BY <1>1, <1>2, <1>3, ReadingsStay
<1>8. LegalAfter(SubSeq(journal, 1, request[d].read), e)
  BY <1>3 DEF IndInv, RequestsLegal, e
<1>9. TypeOK' /\ StagesToWrite'
  <2>1. outdated' \in SUBSET (1..n)
    <3>1. outdated \subseteq 1..n /\ n \in 1..n
      BY <1>1 DEF TypeOK
    <3>2. outdated' \subseteq outdated \union {n}
      BY <1>2
    <3>3. QED
      BY <3>1, <3>2
  <2>7. unwritten' \in SUBSET (1..n)
    <3>1. unwritten \subseteq 1..n /\ n \in 1..n
      BY <1>1 DEF TypeOK
    <3>2. unwritten' \subseteq unwritten \union {n}
      BY <1>2
    <3>3. QED
      BY <3>1, <3>2
  <2>2. request' \in [Doors -> Request \union {NoRequest}]
    BY <1>1, <1>2
  <2>3. \A o \in Doors : request'[o].read <= n
    <3>1. NoRequest.read = 0
      BY DEF NoRequest
    <3>2. \A o \in Doors : request[o].read <= Len(journal) /\ request[o].read \in Nat
      BY <1>1, Types
    <3>3. QED
      BY <1>1, <1>5, <3>1, <3>2
  <2>4. \A o \in Doors : request'[o].read <= Len(journal')
    BY <1>4, <2>3
  <2>5. TypeOK'
    BY <1>1, <1>2, <1>4, <2>1, <2>2, <2>4, <2>7 DEF TypeOK
  <2>6. QED
    BY <1>5, <2>5 DEF IndInv, StagesToWrite, HasWritten, NoRequest
<1>10. RequestsLegal'
  <2> SUFFICES ASSUME NEW o \in Doors, request'[o] # NoRequest
               PROVE  LegalAfter(SubSeq(journal', 1, request'[o].read),
                                 request'[o].event)
    BY DEF RequestsLegal
  <2>1. request'[o] = request[o] /\ request[o] # NoRequest
    BY <1>5
  <2>2. request[o].read \in 0..Len(journal)
    BY <1>1, <2>1, Types
  <2>3. SubSeq(journal', 1, request[o].read) = SubSeq(journal, 1, request[o].read)
    BY <1>7, <2>2
  <2>4. LegalAfter(SubSeq(journal, 1, request[o].read), request[o].event)
    BY <2>1 DEF IndInv, RequestsLegal
  <2>5. QED
    BY <2>1, <2>3, <2>4
<1>11. HistoryLegal'
  <2> SUFFICES ASSUME NEW i \in 1..n, i \notin outdated'
               PROVE  LegalAfter(SubSeq(journal', 1, i - 1), journal'[i])
    BY <1>4 DEF HistoryLegal
  <2>1. SubSeq(journal', 1, i - 1) = SubSeq(journal, 1, i - 1)
    <3>1. i - 1 \in 0..Len(journal)
      BY <1>1
    <3>2. QED
      BY <1>7, <3>1
  <2>2. CASE i = n
    <3>1. i - 1 = Len(journal) /\ request[d].read = Len(journal) /\ journal'[i] = e
      BY <1>1, <1>4, <1>6, <2>2
    <3>2. QED
      BY <1>8, <2>1, <3>1
  <2>3. CASE i # n
    <3>1. i \in 1..Len(journal) /\ i \notin outdated
      BY <1>1, <1>6, <2>3
    <3>2. LegalAfter(SubSeq(journal, 1, i - 1), journal[i])
      BY <3>1 DEF IndInv, HistoryLegal
    <3>3. journal'[i] = journal[i]
      BY <1>4, <3>1
    <3>4. QED
      BY <2>1, <3>2, <3>3
  <2>4. QED
    BY <2>2, <2>3
<1>12. ForwardWasApproved'
  <2> SUFFICES ASSUME NEW i \in 1..n,
                      journal'[i].type = "bundle.stage_changed",
                      ~journal'[i].override,
                      journal'[i].reason # "entry",
                      journal'[i].to > journal'[i].from
               PROVE  \E k \in 1..(i - 1) :
                          journal'[k] = Approval(journal'[i].from)
    BY <1>4, Zenon DEF ForwardWasApproved, Approval
  <2>1. CASE i = n
    <3>1. journal'[i] = e
      BY <1>4, <2>1
    <3>2. e \in StageChange /\ e.to \in Int /\ e.from \in Int
      <4>1. e \in StageChange
        BY <1>3, <3>1, EventClass
      <4>2. QED
        BY <4>1 DEF StageChange, Stage
    <3>3. ApprovedSinceChange(SubSeq(journal, 1, request[d].read), e.from)
      BY <1>8, <3>1, <3>2 DEF LegalAfter
    <3>4. /\ Len(SubSeq(journal, 1, request[d].read)) = request[d].read
          /\ \A k \in 1..request[d].read :
                 SubSeq(journal, 1, request[d].read)[k] = journal[k]
      BY <1>1, <1>3, ReadingsStay
    <3>5. PICK k \in 1..request[d].read : journal[k] = Approval(e.from)
      BY <3>3, <3>4 DEF ApprovedSinceChange
    <3>6. k \in 1..Len(journal) /\ k \in 1..(i - 1)
      BY <1>1, <1>3, <2>1
    <3>7. journal'[k] = Approval(e.from)
      BY <1>4, <3>5, <3>6
    <3>8. QED
      BY <3>1, <3>6, <3>7
  <2>2. CASE i # n
    <3>1. i \in 1..Len(journal) /\ journal'[i] = journal[i]
      BY <1>1, <1>4, <2>2
    <3>2. PICK k \in 1..(i - 1) : journal[k] = Approval(journal[i].from)
      BY <3>1 DEF IndInv, ForwardWasApproved, Approval
    <3>3. journal'[k] = journal[k]
      BY <1>1, <1>4, <3>1
    <3>4. QED
      BY <3>1, <3>2, <3>3
  <2>3. QED
    BY <2>1, <2>2
<1>13. RecordInv'
  <2> SUFFICES ASSUME declared # Undeclared, ~interrupted
               PROVE  /\ \/ InFlight'
                         \/ LastChange(journal') \in outdated' \union unwritten'
                         \/ declared = StageOf(journal')
                      /\ \A o \in Writers' : request'[o].read < n
    BY <1>2, <1>4 DEF RecordInv
  <2>1. \A o \in Writers' : o \in Writers \ {d} /\ request'[o] = request[o]
    BY <1>5 DEF Writers, HasWritten, NoRequest
  <2>2. \A o \in Writers \ {d} : o \in Writers' /\ request'[o] = request[o]
    BY <1>5 DEF Writers, HasWritten
  <2>3. \A o \in Writers' : request'[o].read < n
    <3>1. \A o \in Doors : request[o].read <= Len(journal) /\ request[o].read \in Nat
      BY <1>1, Types
    <3>2. QED
      BY <1>1, <2>1, <3>1 DEF Writers
  <2>4. /\ \/ InFlight
           \/ LastChange(journal) \in outdated \union unwritten
           \/ declared = StageOf(journal)
        /\ \A o \in Writers : InFlight \/ request[o].read < Len(journal)
    BY DEF IndInv, RecordInv
  <2>5. \/ InFlight'
        \/ LastChange(journal') \in outdated' \union unwritten'
        \/ declared = StageOf(journal')
    <3>1. CASE e \in StageChange
      <4>1. LastChange(journal') = n /\ StageOf(journal') = e.to
        BY <1>1, <1>2, <1>3, <3>1, FoldOfAppend
      <4>6. CASE d \notin Writers
        <5>1. ~request[d].written /\ e.type = "bundle.stage_changed"
          BY <1>2, <3>1, <4>6 DEF Writers, HasWritten, StageChange
        <5>2. QED
          BY <1>2, <4>1, <5>1
      <4>3. CASE InFlight /\ d \in Writers
        <5>1. PICK o \in Writers : declared = request[o].event.to
          BY <4>3 DEF InFlight
        <5>2. CASE o = d
          BY <4>1, <5>1, <5>2 DEF e
        <5>3. CASE o # d
          BY <1>2, <2>2, <5>1, <5>3 DEF InFlight
        <5>4. QED
          BY <5>2, <5>3
      <4>4. CASE ~InFlight /\ d \in Writers
        <5>1. request[d].read < Len(journal)
          BY <2>4, <4>4
        <5>2. QED
          BY <1>2, <4>1, <5>1
      <4>5. QED
        BY <4>3, <4>4, <4>6
    <3>2. CASE e \notin StageChange
      <4>1. /\ LastChange(journal') = LastChange(journal)
            /\ StageOf(journal') = StageOf(journal)
        BY <1>1, <1>2, <1>3, <3>2, FoldOfAppend
      <4>2. d \notin Writers
        BY <3>2 DEF Writers, IndInv, StagesToWrite, e
      <4>3. InFlight => InFlight'
        BY <1>2, <2>2, <4>2 DEF InFlight
      <4>4. QED
        BY <1>6, <2>4, <4>1, <4>3
    <3>3. QED
      BY <3>1, <3>2
  <2>6. QED
    BY <2>3, <2>5
<1>14. QED
  BY <1>9, <1>10, <1>11, <1>12, <1>13 DEF IndInv
-----------------------------------------------------------------------------
\* Every step of a door preserves it.
LEMMA StepPreserves == IndInv /\ [Next]_vars => IndInv'
<1> SUFFICES ASSUME IndInv, [Next]_vars
             PROVE  IndInv'
  OBVIOUS
<1>0. TypeOK /\ journal \in Seq(Event)
  BY DEF IndInv, TypeOK
<1>1. ASSUME NEW d \in Doors, CheckStageChange(d)
      PROVE  IndInv'
  <2>1. PICK e \in Accepted(d) : Check(d, e, "checked")
    BY <1>1 DEF CheckStageChange
  <2>2. e \in StageChange /\ e \in Event
    BY <1>0, AskedTypes DEF Event
  <2>3. LegalAfter(journal, e)
    <3>1. CheckTransition(journal, e)
      BY DEF Accepted
    <3>2. QED
      BY <1>0, <2>2, <3>1, GuardAllows
  <2>4. QED
    BY <2>1, <2>2, <2>3, CheckStep
<1>2. ASSUME NEW d \in Doors, CheckReview(d)
      PROVE  IndInv'
  <2>1. PICK e \in ReviewsAsked(d) \union Resolutions : Check(d, e, "recorded")
    BY <1>2 DEF CheckReview
  <2>2. CASE e \in ReviewsAsked(d)
    <3>1. e \in Requested /\ e \in Event
      BY <1>0, <2>2, AskedTypes DEF Event
    <3>2. e \notin StageChange /\ LegalAfter(journal, e)
      BY <3>1 DEF Requested, StageChange, LegalAfter
    <3>3. QED
      BY <2>1, <3>1, <3>2, CheckStep
  <2>3. CASE e \in Resolutions
    <3>1. e \in Resolved /\ e \in Event
      BY <1>0, <2>3, AskedTypes DEF Event
    <3>2. e.state = StageOf(journal) /\ AwaitingReview(journal)
      BY <2>3 DEF Resolutions
    <3>3. e \notin StageChange
      BY <3>1 DEF Resolved, StageChange
    <3>4. LegalAfter(journal, e)
      BY <1>0, <3>1, <3>2, ResolutionAllowed
    <3>5. QED
      BY <2>1, <3>1, <3>3, <3>4, CheckStep
  <2>4. QED
    BY <2>2, <2>3
<1>3. ASSUME NEW d \in Doors, WriteStage(d)
      PROVE  IndInv'
  <2>1. CASE /\ declared' = NewDeclaration(request[d].event)
             /\ interrupted' = FALSE
             /\ request' = [request EXCEPT ![d].step = "recorded", ![d].written = TRUE]
    BY <1>3, <2>1, StageWritten DEF WriteStage
  <2>2. CASE /\ request' = [request EXCEPT ![d].step = "recorded"]
             /\ UNCHANGED <<declared, interrupted>>
    BY <1>3, <2>2, StageMissed DEF WriteStage
  <2>3. CASE /\ WhenRefused(request[d].event)
             /\ request' = [request EXCEPT ![d] = NoRequest]
             /\ UNCHANGED interrupted
    <3>1. d \notin Writers
      BY <1>3 DEF WriteStage, Writers, HasWritten
    <3>2. UNCHANGED <<journal, declared, outdated, unwritten>>
      BY <1>3, <2>3 DEF WriteStage, WhenRefused
    <3>3. interrupted' \in BOOLEAN
      BY <1>0, <2>3, <3>2 DEF TypeOK
    <3>4. QED
      BY <2>3, <3>1, <3>2, <3>3, GivingUp
  <2>4. QED
    BY <1>3, <2>1, <2>2, <2>3 DEF WriteStage
<1>4. ASSUME NEW d \in Doors, AppendEvent(d)
      PROVE  IndInv'
  <2>1. CASE journal' = Append(journal, request[d].event)
    BY <1>4, <2>1, AppendStep
  <2>2. CASE /\ interrupted' = (interrupted \/ HasWritten(d))
             /\ UNCHANGED <<journal, outdated, unwritten>>
    <3>1. /\ request' = [request EXCEPT ![d] = NoRequest]
          /\ UNCHANGED declared
      BY <1>4 DEF AppendEvent
    <3>2. /\ interrupted' \in BOOLEAN
          /\ interrupted => interrupted'
          /\ d \in Writers => interrupted'
      BY <1>0, <2>2 DEF Writers, HasWritten, TypeOK
    <3>3. QED
      BY <2>2, <3>1, <3>2, GivingUp
  <2>3. QED
    BY <1>4, <2>1, <2>2 DEF AppendEvent
<1>5. ASSUME NEW d \in Doors, Crash(d)
      PROVE  IndInv'
  <2>1. /\ request' = [request EXCEPT ![d] = NoRequest]
        /\ UNCHANGED <<journal, declared, outdated, unwritten>>
    BY <1>5 DEF Crash
  <2>2. /\ interrupted' \in BOOLEAN
        /\ interrupted => interrupted'
        /\ d \in Writers => interrupted'
    BY <1>0, <1>5 DEF Crash, Writers, HasWritten, TypeOK
  <2>3. QED
    BY <2>1, <2>2, GivingUp
<1>6. CASE UNCHANGED vars
  BY <1>6 DEF vars, IndInv, TypeOK, StagesToWrite, RequestsLegal, HistoryLegal,
              ForwardWasApproved, RecordInv, InFlight, Writers, HasWritten
<1>7. QED
  BY <1>1, <1>2, <1>3, <1>4, <1>5, <1>6 DEF Next
-----------------------------------------------------------------------------
\* The inductive invariant holds in every reachable state.
THEOREM Invariance == Spec => []IndInv
<1>1. Init => IndInv
  BY InitEstablishes
<1>2. IndInv /\ [Next]_vars => IndInv'
  BY StepPreserves
<1>3. QED
  BY <1>1, <1>2, PTL DEF Spec

\* Every event in the journal, every request at a door and both records of
\* the stage stay of their kind, and the stage on the ladder.
THEOREM TypeCorrect == Spec => []TypeOK
<1>1. IndInv => TypeOK
  BY DEF IndInv
<1>2. QED
  BY <1>1, Invariance, PTL

\* However many doors take requests at once, every event in the journal is one
\* the guard table of Machine.ts allows after the events before it, but for
\* those appended on a reading another door had outrun.
THEOREM HistoryIsLegal == Spec => []LegalHistory
<1>1. IndInv => LegalHistory
  BY InvariantSuffices
<1>2. QED
  BY <1>1, Invariance, PTL

\* No bundle is advanced without an override before somebody approved the
\* stage it leaves, outdated readings included.
THEOREM MovesWereApproved == Spec => []ForwardWasApproved
<1>1. IndInv => ForwardWasApproved
  BY DEF IndInv
<1>2. QED
  BY <1>1, Invariance, PTL

\* Both of the journal at the same time.
THEOREM HistorySound == Spec => []HistoryIsSound
<1>1. LegalHistory /\ ForwardWasApproved => HistoryIsSound
  BY DEF HistoryIsSound
<1>2. QED
  BY HistoryIsLegal, MovesWereApproved, <1>1, PTL

\* When no request is under way, skill.json declares the stage the journal
\* replays to, unless a door died between its two writes or the last stage
\* change was decided on an old reading.
THEOREM RecordsAgree == Spec => []RecordAgrees
<1>1. IndInv => RecordAgrees
  BY InvariantSuffices
<1>2. QED
  BY <1>1, Invariance, PTL
-----------------------------------------------------------------------------
(***************************************************************************)
(* One journal in several clones of a workspace (SharedJournal): each is   *)
(* replayed where it is, and git joins them.                               *)
(***************************************************************************)
Start == [status |-> Unknown, terminalAt |-> -1, pinned |-> FALSE]

\* t has the lines of s, in the same order.
Extends(s, t) == Lines(s) \subseteq Lines(t) /\ Order(s) \subseteq Order(t)

\* Every line at one place.
Distinct(s) == \A i, j \in 1..Len(s) : s[i] = s[j] => i = j

EveryLine == UNION {Lines(copies[c]) : c \in Clones}
Busy == {d \in CloneDoors : pending[d] # Blank}

\* What decision x was made upon is in s: the opening of the todo that it
\* changes, its signal, no version, and the status it starts from as the last
\* of those it saw.
Decided(s, x) ==
    /\ x.seen \subseteq IdsOf(s)
    /\ x.type \in {"status", "updated"} =>
          \E f \in Lines(s) : f.id \in x.seen /\ f.said.type = "opened"
    /\ x.origin # 0 =>
          \E f \in Lines(s) : /\ f.id \in x.seen /\ f.id = x.origin
                              /\ f.said.type = "signal"
    /\ x.type = "version" =>
          \A f \in Lines(s) : f.id \in x.seen => f.said.type # "version"
    /\ x.type = "status" =>
          \/ /\ x.from = "open"
             /\ \A g \in Lines(s) : g.id \in x.seen => g.said.type # "status"
          \/ \E f \in Lines(s) :
                /\ f.id \in x.seen /\ f.said.type = "status" /\ f.said.to = x.from
                /\ \A g \in Lines(s) : g.id \in x.seen /\ g.said.type = "status" =>
                      g = f \/ <<g, f>> \in Order(s)

\* Every line follows what it was decided upon, and is not older.
Grounded(s) ==
    \A e \in Lines(s) :
        /\ Decided(s, e.said)
        /\ \A f \in Lines(s) : f.id \in e.said.seen =>
              <<f, e>> \in Order(s) /\ f.at <= e.at

\* The lines written: one of each id, and one opening of the todo.
LinesInv ==
    /\ Lines(origin) \subseteq EveryLine
    /\ \A e \in EveryLine : e.id \in 1..written /\ e.at <= day
    /\ \A e, f \in EveryLine : e.id = f.id => e = f
    /\ \A e, f \in EveryLine : e.said.type = "opened" /\ f.said.type = "opened" => e = f
    /\ \A d \in CloneDoors : pending[d].type = "opened" =>
          /\ \A e \in EveryLine : e.said.type # "opened"
          /\ \A b \in CloneDoors : pending[b].type = "opened" => b = d

\* What a clone has in common with the origin is in both; what it has besides
\* is nowhere else.
ClonesInv ==
    /\ Distinct(origin)
    /\ \A c \in Clones :
          /\ Distinct(copies[c]) /\ Distinct(base[c])
          /\ Extends(base[c], copies[c]) /\ Extends(base[c], origin)
          /\ \A e \in Lines(copies[c]) \ Lines(base[c]) :
                e \notin Lines(origin) /\ \A b \in Clones \ {c} : e \notin Lines(copies[b])

GroundsInv ==
    /\ Grounded(origin)
    /\ \A c \in Clones : Grounded(copies[c])
    /\ \A d \in CloneDoors : Decided(copies[At[d]], pending[d])

RoomInv == IsFiniteSet(Busy) /\ written + Cardinality(Busy) <= MaxLines

JournalInv == CloneTypeOK /\ LinesInv /\ ClonesInv /\ GroundsInv /\ RoomInv
-----------------------------------------------------------------------------
\* Every nonempty set of positions has a first one.
LEMMA FirstPosition ==
    ASSUME NEW n \in Nat, NEW S \in SUBSET (0..n), S # {}
    PROVE  \E i \in S : \A k \in S : i <= k
<1> DEFINE below == {0..i : i \in S}
<1>1. below \subseteq FiniteSubsetsOf(Nat)
  <2>1. \A i \in S : 0..i \subseteq Nat /\ IsFiniteSet(0..i)
    BY FS_Interval
  <2>2. QED
    BY <2>1 DEF FiniteSubsetsOf
<1>2. below # {}
  OBVIOUS
<1>3. PICK least \in below :
         \A s \in below : ~(<<s, least>> \in StrictSubsetOrdering(Nat))
  <2> HIDE DEF below
  <2>1. IsWellFoundedOn(StrictSubsetOrdering(Nat), FiniteSubsetsOf(Nat))
    BY FS_StrictSubsetOrderingWellFounded
  <2>2. QED
    BY <1>1, <1>2, <2>1, WFMin
<1>4. PICK i \in S : least = 0..i
  OBVIOUS
<1>5. ASSUME NEW k \in S, ~(i <= k)
      PROVE  FALSE
  <2>1. 0..k \subseteq 0..i /\ i \in 0..i /\ i \notin 0..k
    BY <1>5
  <2>2. <<0..k, least>> \in StrictSubsetOrdering(Nat)
    BY <1>4, <2>1 DEF StrictSubsetOrdering
  <2>3. QED
    BY <1>3, <2>2
<1>6. QED
  BY <1>5

LEMMA OrderIs ==
    ASSUME NEW s, NEW e, NEW f
    PROVE  <<e, f>> \in Order(s) <=>
              \E i, j \in 1..Len(s) : i < j /\ s[i] = e /\ s[j] = f
<1>1. ASSUME NEW i \in 1..Len(s), NEW j \in 1..Len(s), i < j, s[i] = e, s[j] = f
      PROVE  <<e, f>> \in Order(s)
  <2>1. i \in 1..(j - 1)
    BY <1>1
  <2>2. <<e, f>> \in {<<s[k], s[j]>> : k \in 1..(j - 1)}
    BY <1>1, <2>1
  <2>3. QED
    BY <1>1, <2>2 DEF Order
<1>2. ASSUME <<e, f>> \in Order(s)
      PROVE  \E i, j \in 1..Len(s) : i < j /\ s[i] = e /\ s[j] = f
  <2>1. PICK j \in 1..Len(s) : <<e, f>> \in {<<s[k], s[j]>> : k \in 1..(j - 1)}
    BY <1>2 DEF Order
  <2>2. PICK i \in 1..(j - 1) : <<e, f>> = <<s[i], s[j]>>
    BY <2>1
  <2>3. i \in 1..Len(s) /\ i < j /\ s[i] = e /\ s[j] = f
    BY <2>2
  <2>4. QED
    BY <2>3
<1>3. QED
  BY <1>1, <1>2

\* Of two lines of a sequence in which each is once, one is before the other.
LEMMA OrderTotal ==
    ASSUME NEW s \in Seq(Entry), Distinct(s), NEW e \in Lines(s), NEW f \in Lines(s)
    PROVE  /\ e # f => <<e, f>> \in Order(s) \/ <<f, e>> \in Order(s)
           /\ ~(<<e, f>> \in Order(s) /\ <<f, e>> \in Order(s))
           /\ <<e, e>> \notin Order(s)
<1>1. PICK i \in 1..Len(s), j \in 1..Len(s) : s[i] = e /\ s[j] = f
  BY DEF Lines
<1>2. e # f => <<e, f>> \in Order(s) \/ <<f, e>> \in Order(s)
  <2>1. e # f => i < j \/ j < i
    BY <1>1
  <2>2. QED
    BY <1>1, <2>1, OrderIs
<1>3. \A k, l \in 1..Len(s) : s[k] = e /\ s[l] = f => k = i /\ l = j
  BY <1>1 DEF Distinct
<1>4. ~(<<e, f>> \in Order(s) /\ <<f, e>> \in Order(s))
  <2>1. <<e, f>> \in Order(s) => i < j
    BY <1>3, OrderIs
  <2>2. <<f, e>> \in Order(s) => j < i
    BY <1>3, OrderIs
  <2>3. QED
    BY <2>1, <2>2
<1>5. <<e, e>> \notin Order(s)
  <2>1. \A k, l \in 1..Len(s) : s[k] = e /\ s[l] = e => k = l
    BY DEF Distinct
  <2>2. QED
    BY <2>1, OrderIs
<1>6. QED
  BY <1>2, <1>4, <1>5

LEMMA LinesAre ==
    ASSUME NEW s \in Seq(Entry)
    PROVE  /\ Lines(s) \subseteq Entry
           /\ \A i \in 1..Len(s) : s[i] \in Lines(s)
           /\ \A e, f : <<e, f>> \in Order(s) => e \in Lines(s) /\ f \in Lines(s)
           /\ Len(s) \in Nat
<1>1. \A i \in 1..Len(s) : s[i] \in Entry
  OBVIOUS
<1>2. \A e, f : <<e, f>> \in Order(s) => e \in Lines(s) /\ f \in Lines(s)
  BY OrderIs DEF Lines
<1>3. QED
  BY <1>1, <1>2 DEF Lines

LEMMA AppendedLines ==
    ASSUME NEW s \in Seq(Entry), NEW e \in Entry
    PROVE  /\ Append(s, e) \in Seq(Entry)
           /\ Lines(Append(s, e)) = Lines(s) \union {e}
           /\ Extends(s, Append(s, e))
           /\ \A f \in Lines(s) : <<f, e>> \in Order(Append(s, e))
           /\ Distinct(s) /\ e \notin Lines(s) => Distinct(Append(s, e))
<1> DEFINE t == Append(s, e)
<1>1. /\ t \in Seq(Entry) /\ Len(t) = Len(s) + 1 /\ Len(s) \in Nat
      /\ \A i \in 1..Len(s) : t[i] = s[i]
      /\ t[Len(s) + 1] = e
  OBVIOUS
<1>2. \A i \in 1..Len(t) : i \in 1..Len(s) \/ i = Len(s) + 1
  BY <1>1
<1>3. 1..Len(s) \subseteq 1..Len(t) /\ Len(s) + 1 \in 1..Len(t)
  BY <1>1
<1> HIDE DEF t
<1>4. Lines(t) = Lines(s) \union {e}
  BY <1>1, <1>2, <1>3 DEF Lines
<1>5. \A f, g : <<f, g>> \in Order(s) => <<f, g>> \in Order(t)
  <2>1. ASSUME NEW f, NEW g, <<f, g>> \in Order(s)
        PROVE  <<f, g>> \in Order(t)
    <3>1. PICK i \in 1..Len(s), j \in 1..Len(s) : i < j /\ s[i] = f /\ s[j] = g
      BY <2>1, OrderIs
    <3>2. i \in 1..Len(t) /\ j \in 1..Len(t) /\ t[i] = f /\ t[j] = g
      BY <1>1, <1>3, <3>1
    <3>3. QED
      BY <3>1, <3>2, OrderIs
  <2>2. QED
    BY <2>1
<1>6. Order(s) \subseteq Order(t)
  <2>1. \A p \in Order(s) : p = <<p[1], p[2]>>
    BY DEF Order
  <2>2. QED
    BY <1>5, <2>1
<1>7. \A f \in Lines(s) : <<f, e>> \in Order(t)
  <2>1. ASSUME NEW f \in Lines(s)
        PROVE  <<f, e>> \in Order(t)
    <3>1. PICK i \in 1..Len(s) : s[i] = f
      BY DEF Lines
    <3>2. i \in 1..Len(t) /\ t[i] = f /\ i < Len(s) + 1
      BY <1>1, <1>3, <3>1
    <3>3. QED
      BY <1>1, <1>3, <3>2, OrderIs
  <2>2. QED
    BY <2>1
<1>8. ASSUME Distinct(s), e \notin Lines(s)
      PROVE  Distinct(t)
  <2>1. ASSUME NEW i \in 1..Len(t), NEW j \in 1..Len(t), t[i] = t[j]
        PROVE  i = j
    <3>1. CASE i \in 1..Len(s) /\ j \in 1..Len(s)
      BY <1>1, <1>8, <2>1, <3>1 DEF Distinct
    <3>2. CASE i = Len(s) + 1 /\ j \in 1..Len(s)
      BY <1>1, <1>8, <2>1, <3>2 DEF Lines
    <3>3. CASE j = Len(s) + 1 /\ i \in 1..Len(s)
      BY <1>1, <1>8, <2>1, <3>3 DEF Lines
    <3>4. QED
      BY <1>2, <3>1, <3>2, <3>3
  <2>2. QED
    BY <2>1 DEF Distinct
<1>9. QED
  BY <1>1, <1>4, <1>6, <1>7, <1>8 DEF t, Extends

LEMMA LinesFinite ==
    ASSUME NEW s \in Seq(Entry)
    PROVE  IsFiniteSet(Lines(s))
<1>1. s \in Surjection(1..Len(s), Lines(s)) /\ Len(s) \in Nat
  BY DEF Surjection, Lines
<1>2. QED
  BY <1>1, FS_Interval, FS_Surjection

\* What git joins has every line of both sides once, and their orders.
LEMMA Joined ==
    ASSUME NEW old, NEW ours \in Seq(Entry), NEW theirs \in Seq(Entry),
           NEW joined \in Union(old, ours, theirs)
    PROVE  /\ joined \in Seq(Entry)
           /\ Lines(joined) = Lines(ours) \union Lines(theirs)
           /\ Distinct(joined)
           /\ Extends(ours, joined) /\ Extends(theirs, joined)
<1> DEFINE lines == Lines(ours) \union Lines(theirs)
           n == Cardinality(lines)
<1>1. /\ joined \in [1..n -> lines] /\ Lines(joined) = lines
      /\ Order(ours) \subseteq Order(joined) /\ Order(theirs) \subseteq Order(joined)
  BY DEF Union
<1>2. IsFiniteSet(lines) /\ n \in Nat
  BY LinesFinite, FS_Union, FS_CardinalityType
<1>3. lines \subseteq Entry
  BY LinesAre
<1> HIDE DEF lines, n
<1>4. joined \in Seq(Entry) /\ Len(joined) = n
  BY <1>1, <1>2, <1>3
<1>5. joined \in Surjection(1..n, lines)
  BY <1>1, <1>4 DEF Surjection, Lines
<1>6. joined \in Injection(1..n, lines)
  <2>1. IsFiniteSet(1..n) /\ Cardinality(1..n) = n
    BY <1>2, FS_Interval
  <2>2. Cardinality(lines) = n
    BY DEF n
  <2>3. QED
    BY <1>5, <2>1, <2>2, FS_Surjection
<1>7. Distinct(joined)
  BY <1>4, <1>6 DEF Injection, IsInjective, Distinct
<1>8. QED
  BY <1>1, <1>4, <1>7 DEF Extends, lines
-----------------------------------------------------------------------------
(***************************************************************************)
(* The fold. It is a recursive function; induction on the number of lines  *)
(* is by the first position where what is claimed fails.                   *)
(***************************************************************************)
Todo == [status : Status \union {Unknown}, terminalAt : Int, pinned : BOOLEAN]

LEMMA ApplyTypes ==
    ASSUME NEW todo \in Todo, NEW e \in Entry
    PROVE  Apply(todo, e) \in Todo
<1>1. e.said \in Decision /\ e.at \in Int
  BY CloneConstants DEF Entry, Day
<1>2. /\ e.said.pinned \in BOOLEAN
      /\ e.said.type = "status" => e.said.to \in Status
  BY <1>1 DEF Decision
<1>3. TerminalAt(todo, e.said.to, e.at) \in Int
  BY <1>1 DEF TerminalAt, Todo
<1>4. "open" \in Status
  BY DEF Status
<1>5. [status |-> "open", terminalAt |-> -1, pinned |-> e.said.pinned] \in Todo
  BY <1>2, <1>4 DEF Todo
<1>6. [todo EXCEPT !.pinned = e.said.pinned] \in Todo
  BY <1>2 DEF Todo
<1>7. e.said.type = "status" =>
         [todo EXCEPT !.status = e.said.to,
                      !.terminalAt = TerminalAt(todo, e.said.to, e.at)] \in Todo
  BY <1>2, <1>3 DEF Todo
<1>8. QED
  BY <1>5, <1>6, <1>7, Zenon DEF Apply

\* f is the todo after each of the first n lines.
Folds(f, s, n) == /\ f \in [0..n -> Todo]
                  /\ f[0] = Start
                  /\ \A i \in 1..n : f[i] = Apply(f[i - 1], s[i])

LEMMA FoldExists ==
    ASSUME NEW s \in Seq(Entry)
    PROVE  \E f : Folds(f, s, Len(s))
<1> DEFINE bad == {n \in 0..Len(s) : ~ \E f : Folds(f, s, n)}
<1>1. Len(s) \in Nat
  OBVIOUS
<1>2. ASSUME bad # {}
      PROVE  FALSE
  <2>1. PICK n \in bad : \A k \in bad : n <= k
    BY <1>1, <1>2, FirstPosition
  <2>2. CASE n = 0
    <3>1. Folds([i \in 0..0 |-> Start], s, 0)
      BY DEF Folds, Start, Todo
    <3>2. QED
      BY <2>1, <2>2, <3>1
  <2>3. CASE n # 0
    <3>1. n \in 1..Len(s) /\ n - 1 \in 0..Len(s) /\ n - 1 \notin bad
      BY <1>1, <2>1, <2>3
    <3>2. PICK f : Folds(f, s, n - 1)
      BY <3>1
    <3> DEFINE g == [i \in 0..n |-> IF i = n THEN Apply(f[n - 1], s[n]) ELSE f[i]]
    <3>3. f[n - 1] \in Todo /\ s[n] \in Entry
      BY <3>1, <3>2 DEF Folds
    <3>4. g \in [0..n -> Todo]
      BY <3>1, <3>2, <3>3, ApplyTypes DEF Folds
    <3>5. g[0] = Start
      BY <2>3, <3>1, <3>2 DEF Folds
    <3>6. ASSUME NEW i \in 1..n
          PROVE  g[i] = Apply(g[i - 1], s[i])
      <4>1. g[i - 1] = f[i - 1]
        BY <3>1, <3>6
      <4>2. CASE i = n
        BY <4>1, <4>2
      <4>3. CASE i # n
        <5>1. i \in 1..(n - 1) /\ g[i] = f[i]
          BY <3>1, <3>6, <4>3
        <5>2. QED
          BY <3>2, <4>1, <5>1 DEF Folds
      <4>4. QED
        BY <4>2, <4>3
    <3> HIDE DEF g
    <3>7. Folds(g, s, n)
      BY <3>4, <3>5, <3>6 DEF Folds
    <3>8. QED
      BY <2>1, <3>7
  <2>4. QED
    BY <2>2, <2>3
<1>3. QED
  BY <1>1, <1>2

LEMMA FoldIs ==
    ASSUME NEW s \in Seq(Entry)
    PROVE  \E f : Folds(f, s, Len(s)) /\ foldTodos(s) = f[Len(s)]
<1> DEFINE F == CHOOSE f : f = [n \in 0..Len(s) |->
                                  IF n = 0 THEN Start ELSE Apply(f[n - 1], s[n])]
<1>1. PICK g : Folds(g, s, Len(s))
  BY FoldExists
<1>2. g = [n \in 0..Len(s) |-> IF n = 0 THEN Start ELSE Apply(g[n - 1], s[n])]
  BY <1>1 DEF Folds
<1>3. F = [n \in 0..Len(s) |-> IF n = 0 THEN Start ELSE Apply(F[n - 1], s[n])]
  BY <1>2
<1>4. foldTodos(s) = F[Len(s)]
  BY Zenon DEF foldTodos, Start
<1> HIDE DEF F
\* There is one such function.
<1>5. \A n \in 0..Len(s) : F[n] = g[n]
  <2> DEFINE bad == {n \in 0..Len(s) : F[n] # g[n]}
  <2>1. ASSUME bad # {}
        PROVE  FALSE
    <3>1. Len(s) \in Nat /\ bad \in SUBSET (0..Len(s))
      OBVIOUS
    <3>2. PICK n \in bad : \A k \in bad : n <= k
      BY <2>1, <3>1, FirstPosition
    <3>3. CASE n = 0
      BY <1>1, <1>3, <3>2, <3>3 DEF Folds
    <3>4. CASE n # 0
      <4>1. n \in 1..Len(s) /\ n - 1 \in 0..Len(s) /\ F[n - 1] = g[n - 1]
        BY <3>1, <3>2, <3>4
      <4>2. F[n] = Apply(F[n - 1], s[n]) /\ g[n] = Apply(g[n - 1], s[n])
        BY <1>1, <1>3, <3>4, <4>1 DEF Folds
      <4>3. QED
        BY <3>2, <4>1, <4>2
    <3>5. QED
      BY <3>3, <3>4
  <2>2. QED
    BY <2>1
<1>6. foldTodos(s) = g[Len(s)]
  BY <1>4, <1>5
<1>7. QED
  BY <1>1, <1>6

\* What the fold makes of n lines: a todo that is known was opened; its status
\* is that of the last line which gives it one; and if that is terminal, it has
\* been so since a line that finished it, of which it has the day.
Tells(todo, s, n) ==
    /\ todo \in Todo
    /\ todo.status # Unknown <=> \E k \in 1..n : s[k].said.type = "opened"
    /\ todo.status # Unknown =>
          \E k \in 1..n :
             /\ \/ s[k].said.type = "opened" /\ todo.status = "open"
                \/ s[k].said.type = "status" /\ todo.status = s[k].said.to
             /\ \A l \in (k + 1)..n : s[l].said.type \notin {"opened", "status"}
    /\ todo.status \in Terminal =>
          \E k \in 1..n : /\ Finishes(s[k]) /\ todo.terminalAt = s[k].at
                          /\ \A l \in (k + 1)..n : ~Reopens(s[l])

LEMMA ApplyTells ==
    ASSUME NEW s \in Seq(Entry), NEW n \in 1..Len(s), NEW todo, Tells(todo, s, n - 1)
    PROVE  Tells(Apply(todo, s[n]), s, n)
<1> DEFINE e == s[n]
           next == Apply(todo, e)
<1>1. e \in Entry /\ todo \in Todo /\ n \in 1..n /\ n \in Nat
  BY DEF Tells
<1>2. next \in Todo
  BY <1>1, ApplyTypes
<1>3. e.said.type = "status" => e.said.to \in Status
  BY <1>1 DEF Entry, Decision
<1>4. \A k \in 1..n : k \in 1..(n - 1) \/ k = n
  BY <1>1
<1>5. 1..(n - 1) \subseteq 1..n
  BY <1>1
<1>6. Unknown \notin Status /\ Unknown # "open" /\ "open" \notin Terminal
      /\ Terminal \subseteq Status
  BY DEF Status, Terminal, Unknown
<1>7. CASE e.said.type = "opened"
  <2>1. next = [status |-> "open", terminalAt |-> -1, pinned |-> e.said.pinned]
    BY <1>7 DEF Apply
  <2>2. next.status = "open"
    BY <2>1
  <2>3. (n + 1)..n = {}
    BY <1>1
  <2>4. QED
    BY <1>1, <1>2, <1>6, <1>7, <2>2, <2>3 DEF Tells
<1>8. CASE e.said.type = "status" /\ todo.status # Unknown
  <2>1. next = [todo EXCEPT !.status = e.said.to,
        !.terminalAt = TerminalAt(todo, e.said.to, e.at)]
    BY <1>8 DEF Apply
  <2>2. next.status = e.said.to /\ next.terminalAt = TerminalAt(todo, e.said.to, e.at)
    BY <1>1, <2>1 DEF Todo
  <2>3. (n + 1)..n = {}
    BY <1>1
  <2>4. \E k \in 1..n : s[k].said.type = "opened"
    BY <1>5, <1>8 DEF Tells
  <2>5. next.status # Unknown
    BY <1>3, <1>6, <1>8, <2>2
  <2>6. \E k \in 1..n :
           /\ \/ s[k].said.type = "opened" /\ next.status = "open"
              \/ s[k].said.type = "status" /\ next.status = s[k].said.to
           /\ \A l \in (k + 1)..n : s[l].said.type \notin {"opened", "status"}
    BY <1>1, <1>8, <2>2, <2>3
  <2>7. ASSUME next.status \in Terminal
        PROVE  \E k \in 1..n : /\ Finishes(s[k]) /\ next.terminalAt = s[k].at
                               /\ \A l \in (k + 1)..n : ~Reopens(s[l])
    <3>1. e.said.to \in Terminal
      BY <2>2, <2>7
    <3>2. CASE todo.status \in Terminal
      <4>1. next.terminalAt = todo.terminalAt
        BY <2>2, <3>1, <3>2 DEF TerminalAt
      <4>2. PICK k \in 1..(n - 1) : /\ Finishes(s[k]) /\ todo.terminalAt = s[k].at
                                    /\ \A l \in (k + 1)..(n - 1) : ~Reopens(s[l])
        BY <3>2 DEF Tells
      <4>3. ~Reopens(s[n])
        BY <3>1 DEF Reopens
      <4>4. \A l \in (k + 1)..n : l \in (k + 1)..(n - 1) \/ l = n
        BY <1>1
      <4>5. QED
        BY <1>5, <4>1, <4>2, <4>3, <4>4
    <3>3. CASE todo.status \notin Terminal
      <4>1. next.terminalAt = s[n].at
        BY <2>2, <3>1, <3>3 DEF TerminalAt
      <4>2. Finishes(s[n])
        BY <1>8, <3>1 DEF Finishes
      <4>3. QED
        BY <1>1, <2>3, <4>1, <4>2
    <3>4. QED
      BY <3>2, <3>3
  <2> HIDE DEF next
  <2>8. Tells(next, s, n)
    BY <1>2, <2>4, <2>5, <2>6, <2>7 DEF Tells
  <2>9. QED
    BY <2>8 DEF next
<1>9. CASE e.said.type # "opened" /\ ~(e.said.type = "status" /\ todo.status # Unknown)
  <2>1. next.status = todo.status /\ next.terminalAt = todo.terminalAt
    BY <1>1, <1>9 DEF Apply, Todo
  <2> HIDE DEF next
  <2>2. next.status # Unknown <=> \E k \in 1..n : s[k].said.type = "opened"
    BY <1>4, <1>5, <1>9, <2>1 DEF Tells
  <2>3. ASSUME next.status # Unknown
        PROVE  \E k \in 1..n :
                  /\ \/ s[k].said.type = "opened" /\ next.status = "open"
                     \/ s[k].said.type = "status" /\ next.status = s[k].said.to
                  /\ \A l \in (k + 1)..n : s[l].said.type \notin {"opened", "status"}
    <3>1. PICK k \in 1..(n - 1) :
             /\ \/ s[k].said.type = "opened" /\ todo.status = "open"
                \/ s[k].said.type = "status" /\ todo.status = s[k].said.to
             /\ \A l \in (k + 1)..(n - 1) : s[l].said.type \notin {"opened", "status"}
      BY <2>1, <2>3 DEF Tells
    <3>2. \A l \in (k + 1)..n : l \in (k + 1)..(n - 1) \/ l = n
      BY <1>1
    <3>3. s[n].said.type \notin {"opened", "status"}
      BY <1>9, <2>1, <2>3
    <3>4. QED
      BY <1>5, <2>1, <3>1, <3>2, <3>3
  <2>4. ASSUME next.status \in Terminal
        PROVE  \E k \in 1..n : /\ Finishes(s[k]) /\ next.terminalAt = s[k].at
                               /\ \A l \in (k + 1)..n : ~Reopens(s[l])
    <3>1. PICK k \in 1..(n - 1) : /\ Finishes(s[k]) /\ todo.terminalAt = s[k].at
                                  /\ \A l \in (k + 1)..(n - 1) : ~Reopens(s[l])
      BY <2>1, <2>4 DEF Tells
    <3>2. \A l \in (k + 1)..n : l \in (k + 1)..(n - 1) \/ l = n
      BY <1>1
    <3>3. ~Reopens(s[n])
      BY <1>6, <1>9, <2>1, <2>4 DEF Reopens
    <3>4. QED
      BY <1>5, <2>1, <3>1, <3>2, <3>3
  <2>5. Tells(next, s, n)
    BY <1>2, <2>2, <2>3, <2>4 DEF Tells
  <2>6. QED
    BY <2>5 DEF next
<1>10. QED
  BY <1>7, <1>8, <1>9

\* What the fold of a journal tells of it.
LEMMA FoldTells ==
    ASSUME NEW s \in Seq(Entry)
    PROVE  Tells(foldTodos(s), s, Len(s))
<1>1. PICK f : Folds(f, s, Len(s)) /\ foldTodos(s) = f[Len(s)]
  BY FoldIs
<1> DEFINE bad == {n \in 0..Len(s) : ~Tells(f[n], s, n)}
<1>2. Len(s) \in Nat
  OBVIOUS
<1>3. ASSUME bad # {}
      PROVE  FALSE
  <2>1. PICK n \in bad : \A k \in bad : n <= k
    BY <1>2, <1>3, FirstPosition
  <2>2. CASE n = 0
    <3>1. f[0] = Start /\ f[0] \in Todo
      BY <1>1, <1>2 DEF Folds
    <3>2. Start.status = Unknown /\ Unknown \notin Terminal
      BY DEF Start, Unknown, Terminal
    <3>3. QED
      BY <2>1, <2>2, <3>1, <3>2 DEF Tells
  <2>3. CASE n # 0
    <3>1. n \in 1..Len(s) /\ n - 1 \in 0..Len(s) /\ n - 1 \notin bad
      BY <1>2, <2>1, <2>3
    <3>2. Tells(Apply(f[n - 1], s[n]), s, n)
      BY <3>1, ApplyTells
    <3>3. f[n] = Apply(f[n - 1], s[n])
      BY <1>1, <3>1 DEF Folds
    <3>4. QED
      BY <2>1, <3>2, <3>3
  <2>4. QED
    BY <2>2, <2>3
<1>4. QED
  BY <1>1, <1>2, <1>3
-----------------------------------------------------------------------------
(***************************************************************************)
(* Decisions in a journal that grows, and what they come to.               *)
(***************************************************************************)
OneOfEachId(lines) == \A e, f \in lines : e.id = f.id => e = f

LEMMA DecidedStays ==
    ASSUME NEW s, NEW t, Extends(s, t), OneOfEachId(Lines(t)), NEW x, Decided(s, x)
    PROVE  Decided(t, x)
<1>1. Lines(s) \subseteq Lines(t) /\ Order(s) \subseteq Order(t)
  BY DEF Extends
<1>2. \A r : IdsOf(r) = {e.id : e \in Lines(r)}
  BY DEF IdsOf, Lines
<1>3. x.seen \subseteq IdsOf(t)
  BY <1>1, <1>2 DEF Decided
<1>4. \A f \in Lines(t) : f.id \in x.seen => f \in Lines(s)
  <2>1. ASSUME NEW f \in Lines(t), f.id \in x.seen
        PROVE  f \in Lines(s)
    <3>1. PICK e \in Lines(s) : e.id = f.id
      BY <1>2, <2>1 DEF Decided
    <3>2. e = f
      BY <1>1, <3>1 DEF OneOfEachId
    <3>3. QED
      BY <3>1, <3>2
  <2>2. QED
    BY <2>1
<1>5. x.type = "status" =>
         \/ /\ x.from = "open"
            /\ \A g \in Lines(t) : g.id \in x.seen => g.said.type # "status"
         \/ \E f \in Lines(t) :
               /\ f.id \in x.seen /\ f.said.type = "status" /\ f.said.to = x.from
               /\ \A g \in Lines(t) : g.id \in x.seen /\ g.said.type = "status" =>
                     g = f \/ <<g, f>> \in Order(t)
  BY <1>1, <1>4 DEF Decided
<1>6. QED
  BY <1>1, <1>3, <1>4, <1>5 DEF Decided

\* A sequence that only has the lines of two grounded ones it extends is
\* grounded.
LEMMA GroundedJoined ==
    ASSUME NEW s, NEW r, NEW t, Grounded(s), Grounded(r), Extends(s, t), Extends(r, t),
           Lines(t) = Lines(s) \union Lines(r), OneOfEachId(Lines(t))
    PROVE  Grounded(t)
<1>1. ASSUME NEW q, Grounded(q), Extends(q, t), NEW e \in Lines(q)
      PROVE  /\ Decided(t, e.said)
             /\ \A f \in Lines(t) : f.id \in e.said.seen =>
                   <<f, e>> \in Order(t) /\ f.at <= e.at
  <2>1. Decided(q, e.said) /\ Decided(t, e.said)
    BY <1>1, DecidedStays DEF Grounded
  <2>2. ASSUME NEW f \in Lines(t), f.id \in e.said.seen
        PROVE  <<f, e>> \in Order(t) /\ f.at <= e.at
    <3>1. f.id \in IdsOf(q)
      BY <2>1, <2>2 DEF Decided
    <3>2. PICK g \in Lines(q) : g.id = f.id
      BY <3>1 DEF IdsOf, Lines
    <3>3. g = f
      BY <1>1, <3>2 DEF Extends, OneOfEachId
    <3>4. QED
      BY <1>1, <2>2, <3>2, <3>3 DEF Grounded, Extends
  <2>3. QED
    BY <2>1, <2>2
<1>2. QED
  BY <1>1 DEF Grounded

\* Appending a line with what it was decided upon.
LEMMA GroundedAppended ==
    ASSUME NEW s \in Seq(Entry), Grounded(s), NEW e \in Entry, Decided(s, e.said),
           OneOfEachId(Lines(s) \union {e}), e \notin Lines(s),
           \A f \in Lines(s) : f.at <= e.at
    PROVE  Grounded(Append(s, e))
<1> DEFINE t == Append(s, e)
<1>1. /\ Lines(t) = Lines(s) \union {e} /\ Extends(s, t)
      /\ \A f \in Lines(s) : <<f, e>> \in Order(t)
  BY AppendedLines
<1> HIDE DEF t
<1>2. OneOfEachId(Lines(t))
  BY <1>1
<1>3. Decided(t, e.said)
  BY <1>1, <1>2, DecidedStays
<1>4. \A f \in Lines(t) : f.id \in e.said.seen => <<f, e>> \in Order(t) /\ f.at <= e.at
  <2>1. ASSUME NEW f \in Lines(t), f.id \in e.said.seen
        PROVE  f \in Lines(s)
    <3>1. f.id \in IdsOf(s)
      BY <2>1 DEF Decided
    <3>2. PICK g \in Lines(s) : g.id = f.id
      BY <3>1 DEF IdsOf, Lines
    <3>3. QED
      BY <1>1, <1>2, <3>2 DEF OneOfEachId
  <2>2. QED
    BY <1>1, <2>1
<1>5. ASSUME NEW g \in Lines(s)
      PROVE  /\ Decided(t, g.said)
             /\ \A f \in Lines(t) : f.id \in g.said.seen =>
                   <<f, g>> \in Order(t) /\ f.at <= g.at
  <2>1. Decided(s, g.said) /\ Decided(t, g.said)
    BY <1>1, <1>2, DecidedStays DEF Grounded
  <2>2. ASSUME NEW f \in Lines(t), f.id \in g.said.seen
        PROVE  <<f, g>> \in Order(t) /\ f.at <= g.at
    <3>1. f.id \in IdsOf(s)
      BY <2>1, <2>2 DEF Decided
    <3>2. PICK h \in Lines(s) : h.id = f.id
      BY <3>1 DEF IdsOf, Lines
    <3>3. h = f
      BY <1>1, <1>2, <3>2 DEF OneOfEachId
    <3>4. QED
      BY <1>1, <2>2, <3>2, <3>3 DEF Grounded, Extends
  <2>3. QED
    BY <2>1, <2>2
<1>6. Grounded(t)
  BY <1>1, <1>3, <1>4, <1>5 DEF Grounded
<1>7. QED
  BY <1>6 DEF t

OneOpening(s) ==
    \A e, f \in Lines(s) : e.said.type = "opened" /\ f.said.type = "opened" => e = f

\* In a grounded journal with one opening, a change of status has the opening
\* before it.
LEMMA OpenedFirst ==
    ASSUME NEW s \in Seq(Entry), Grounded(s), Distinct(s), OneOpening(s),
           NEW k \in 1..Len(s), NEW l \in 1..Len(s),
           s[k].said.type = "opened", s[l].said.type = "status"
    PROVE  k < l
<1>1. s[k] \in Lines(s) /\ s[l] \in Lines(s)
  BY DEF Lines
<1>2. PICK f \in Lines(s) : f.id \in s[l].said.seen /\ f.said.type = "opened"
  BY <1>1 DEF Grounded, Decided
<1>3. f = s[k] /\ <<f, s[l]>> \in Order(s)
  BY <1>1, <1>2 DEF Grounded, OneOpening
<1>4. PICK i \in 1..Len(s), j \in 1..Len(s) : i < j /\ s[i] = s[k] /\ s[j] = s[l]
  BY <1>3, OrderIs
<1>5. QED
  BY <1>4 DEF Distinct

\* The first lines of a journal.
LEMMA Prefix ==
    ASSUME NEW s \in Seq(Entry), NEW n \in 0..Len(s)
    PROVE  /\ SubSeq(s, 1, n) \in Seq(Entry) /\ Len(SubSeq(s, 1, n)) = n
           /\ \A i \in 1..n : i \in 1..Len(s) /\ SubSeq(s, 1, n)[i] = s[i]
           /\ Lines(SubSeq(s, 1, n)) = {s[i] : i \in 1..n}
<1>1. /\ SubSeq(s, 1, n) \in Seq(Entry) /\ Len(SubSeq(s, 1, n)) = n
      /\ \A i \in 1..n : i \in 1..Len(s) /\ SubSeq(s, 1, n)[i] = s[i]
  OBVIOUS
<1>2. QED
  BY <1>1 DEF Lines

\* The status of the todo after the first n lines, when these have all that
\* decision x saw and no change of status besides, is the one x starts from.
LEMMA StatusIsFrom ==
    ASSUME NEW s \in Seq(Entry), Grounded(s), Distinct(s), OneOpening(s),
           NEW n \in 0..Len(s),
           NEW x, Decided(s, x), x.type = "status",
           \A f \in Lines(s) : f.id \in x.seen => \E i \in 1..n : s[i] = f,
           \A i \in 1..n : s[i].said.type = "status" => s[i].id \in x.seen
    PROVE  foldTodos(SubSeq(s, 1, n)).status = x.from
<1> DEFINE t == SubSeq(s, 1, n)
           todo == foldTodos(t)
<1>1. t \in Seq(Entry) /\ Len(t) = n /\ \A i \in 1..n : i \in 1..Len(s) /\ t[i] = s[i]
  BY Prefix
<1>2. Tells(todo, t, n)
  BY <1>1, FoldTells
<1> HIDE DEF t, todo
<1>3. PICK o \in 1..n : s[o].said.type = "opened"
  BY DEF Decided
<1>4. todo.status # Unknown
  BY <1>1, <1>2, <1>3 DEF Tells
<1>5. PICK k \in 1..n :
         /\ \/ t[k].said.type = "opened" /\ todo.status = "open"
            \/ t[k].said.type = "status" /\ todo.status = t[k].said.to
         /\ \A l \in (k + 1)..n : t[l].said.type \notin {"opened", "status"}
  BY <1>2, <1>4 DEF Tells
<1>6. \A i \in 1..n : s[i].said.type = "status" => i <= k
  BY <1>1, <1>5
<1>7. \A i \in 1..n : i \in 1..Len(s) /\ s[i] \in Lines(s)
  BY <1>1 DEF Lines
<1>8. CASE t[k].said.type = "opened" /\ todo.status = "open"
  <2>1. s[k].said.type = "opened"
    BY <1>1, <1>8
  <2>2. \A i \in 1..n : s[i].said.type # "status"
    <3>1. ASSUME NEW i \in 1..n, s[i].said.type = "status"
          PROVE  FALSE
      <4>1. k < i
        BY <1>7, <2>1, <3>1, OpenedFirst
      <4>2. QED
        BY <1>6, <3>1, <4>1
    <3>2. QED
      BY <3>1
  <2>3. x.from = "open"
    BY <2>2 DEF Decided
  <2>4. QED
    BY <1>8, <2>3 DEF todo, t
<1>9. CASE t[k].said.type = "status" /\ todo.status = t[k].said.to
  <2>1. s[k].said.type = "status" /\ s[k].id \in x.seen /\ s[k] \in Lines(s)
    BY <1>1, <1>7, <1>9
  <2>2. PICK f \in Lines(s) :
           /\ f.id \in x.seen /\ f.said.type = "status" /\ f.said.to = x.from
           /\ \A g \in Lines(s) : g.id \in x.seen /\ g.said.type = "status" =>
                 g = f \/ <<g, f>> \in Order(s)
    BY <2>1 DEF Decided
  <2>3. PICK i \in 1..n : s[i] = f
    BY <2>2
  <2>4. i <= k
    BY <1>6, <2>2, <2>3
  <2>5. s[k] = f
    <3>1. ASSUME <<s[k], f>> \in Order(s)
          PROVE  FALSE
      <4>1. PICK a \in 1..Len(s), b \in 1..Len(s) : a < b /\ s[a] = s[k] /\ s[b] = s[i]
        BY <2>3, <3>1, OrderIs
      <4>2. a = k /\ b = i
        BY <1>7, <4>1 DEF Distinct
      <4>3. QED
        BY <2>4, <4>1, <4>2
    <3>2. QED
      BY <2>1, <2>2, <3>1
  <2>6. QED
    BY <1>1, <1>9, <2>2, <2>5 DEF todo, t
<1>10. QED
  BY <1>5, <1>8, <1>9
-----------------------------------------------------------------------------
\* What the invariant says of each clone's journal.
LEMMA JournalIs ==
    ASSUME CloneTypeOK, LinesInv, ClonesInv, GroundsInv,
           NEW c \in Clones
    PROVE  /\ copies[c] \in Seq(Entry) /\ base[c] \in Seq(Entry) /\ origin \in Seq(Entry)
           /\ Lines(copies[c]) \subseteq EveryLine
           /\ Distinct(copies[c]) /\ Grounded(copies[c]) /\ OneOpening(copies[c])
           /\ OneOfEachId(EveryLine)
<1>1. Lines(copies[c]) \subseteq EveryLine
  BY DEF EveryLine
<1>2. OneOpening(copies[c]) /\ OneOfEachId(EveryLine)
  BY <1>1 DEF LinesInv, OneOpening, OneOfEachId
<1>3. QED
  BY <1>1, <1>2 DEF CloneTypeOK, ClonesInv, GroundsInv

LEMMA DecisionsAreSound ==
    ASSUME JournalInv
    PROVE  DecisionsStand
<1>1. ASSUME NEW c \in Clones, NEW i \in 1..Len(copies[c])
      PROVE  Stands(c, i)
  <2> DEFINE s == copies[c]
             e == s[i].said
             n == i - 1
             before == SubSeq(s, 1, n)
             status == foldTodos(before).status
  <2>1. /\ s \in Seq(Entry) /\ Distinct(s) /\ Grounded(s) /\ OneOpening(s)
        /\ Lines(s) \subseteq EveryLine /\ OneOfEachId(EveryLine)
    BY JournalIs DEF JournalInv
  <2> HIDE DEF s
  <2>2. i \in 1..Len(s) /\ Len(s) \in Nat /\ n \in 0..Len(s) /\ s[i] \in Lines(s)
    BY <2>1 DEF Lines, s
  <2> HIDE DEF n
  <2>3. /\ before \in Seq(Entry) /\ Len(before) = n
        /\ \A k \in 1..n : k \in 1..Len(s) /\ before[k] = s[k]
        /\ Lines(before) = {s[k] : k \in 1..n}
    BY <2>1, <2>2, Prefix
  <2> HIDE DEF before
  \* What e has seen is before it.
  <2>4. Decided(s, e)
    BY <2>1, <2>2 DEF Grounded
  <2>5. \A f \in Lines(s) : f.id \in e.seen => \E k \in 1..n : s[k] = f
    <3>1. ASSUME NEW f \in Lines(s), f.id \in e.seen
          PROVE  \E k \in 1..n : s[k] = f
      <4>1. <<f, s[i]>> \in Order(s)
        BY <2>1, <2>2, <3>1 DEF Grounded
      <4>2. PICK k \in 1..Len(s), l \in 1..Len(s) : k < l /\ s[k] = f /\ s[l] = s[i]
        BY <4>1, OrderIs
      <4>3. l = i
        BY <2>1, <2>2, <4>2 DEF Distinct
      <4>4. k \in 1..n
        BY <4>2, <4>3 DEF n
      <4>5. QED
        BY <4>2, <4>4
    <3>2. QED
      BY <3>1
  <2>6. \A f \in Lines(s) : f.id \in e.seen => f \in Lines(before)
    BY <2>3, <2>5
  <2>7. e.seen \subseteq IdsOf(before)
    <3>1. \A m \in e.seen : \E f \in Lines(s) : f.id = m
      BY <2>4 DEF Decided, IdsOf, Lines
    <3>2. \A f \in Lines(before) : f.id \in IdsOf(before)
      BY DEF IdsOf, Lines
    <3>3. QED
      BY <2>6, <3>1, <3>2
  <2>8. e.type \in {"status", "updated"} => status # Unknown
    <3>1. ASSUME e.type \in {"status", "updated"}
          PROVE  \E k \in 1..n : before[k].said.type = "opened"
      BY <2>3, <2>4, <2>5, <3>1 DEF Decided
    <3>2. Tells(foldTodos(before), before, n)
      BY <2>3, FoldTells
    <3>3. QED
      BY <3>1, <3>2 DEF Tells
  <2>9. ASSUME e.type = "status", status # e.from
        PROVE  \E f \in Lines(before) : f.said.type = "status" /\ f.id \notin e.seen
    <3>1. ASSUME \A f \in Lines(before) : f.said.type = "status" => f.id \in e.seen
          PROVE  FALSE
      <4>1. \A k \in 1..n : s[k].said.type = "status" => s[k].id \in e.seen
        BY <2>3, <3>1
      <4>2. foldTodos(SubSeq(s, 1, n)).status = e.from
        BY <2>1, <2>2, <2>4, <2>5, <2>9, <4>1, StatusIsFrom
      <4>3. QED
        BY <2>9, <4>2 DEF before
    <3>2. QED
      BY <3>1
  <2>10. e.origin # 0 => \E f \in Lines(before) : f.id = e.origin /\ f.said.type = "signal"
    BY <2>4, <2>6 DEF Decided
  <2>11. ASSUME e.type = "version", NEW f \in Lines(before), f.said.type = "version"
         PROVE  f.id \notin e.seen
    <3>1. f \in Lines(s)
      BY <2>3, <2>11 DEF Lines
    <3>2. QED
      BY <2>4, <2>11, <3>1 DEF Decided
  <2>12. before = Before(c, i)
    BY DEF before, Before, s, n
  <2>13. QED
    BY <2>7, <2>8, <2>9, <2>10, <2>11, <2>12 DEF Stands, s
<1>2. QED
  BY <1>1 DEF DecisionsStand

LEMMA SweptAreSettled ==
    ASSUME JournalInv
    PROVE  SweptIsSettled
<1>1. ASSUME NEW c \in Clones, isSwept(foldTodos(copies[c]), day),
             NEW i \in 1..Len(copies[c]),
             Reopens(copies[c][i]), day - copies[c][i].at < SweepDays
      PROVE  \E k \in i + 1..Len(copies[c]) :
                Finishes(copies[c][k]) /\ copies[c][i].id \notin copies[c][k].said.seen
  <2> DEFINE s == copies[c]
  <2>1. s \in Seq(Entry) /\ Grounded(s) /\ Len(s) \in Nat
    BY JournalIs DEF JournalInv
  <2>2. Tells(foldTodos(s), s, Len(s))
    BY <2>1, FoldTells
  <2>3. PICK k \in 1..Len(s) : /\ Finishes(s[k]) /\ foldTodos(s).terminalAt = s[k].at
                               /\ \A l \in (k + 1)..Len(s) : ~Reopens(s[l])
    BY <1>1, <2>2 DEF Tells, isSwept
  <2>4. day - s[k].at >= SweepDays
    BY <1>1, <2>3 DEF isSwept
  <2>5. i <= k /\ i # k
    <3>1. ~(Reopens(s[k]) /\ Finishes(s[k]))
      BY DEF Reopens, Finishes
    <3>2. QED
      BY <1>1, <2>3, <3>1
  <2>6. s[i].at \in Int /\ s[k].at \in Int /\ day \in Int /\ SweepDays \in Int
    <3>1. s[i] \in Entry /\ s[k] \in Entry
      BY <2>1
    <3>2. Day \subseteq Int /\ SweepDays \in Int
      BY CloneConstants DEF Day
    <3>3. s[i].at \in Day /\ s[k].at \in Day /\ day \in Day
      BY <3>1 DEF Entry, JournalInv, CloneTypeOK
    <3>4. QED
      BY <3>2, <3>3
  <2>7. s[i].id \notin s[k].said.seen
    <3>1. ASSUME s[i].id \in s[k].said.seen
          PROVE  s[i].at <= s[k].at
      BY <2>1, <3>1 DEF Grounded, Lines
    <3>2. QED
      BY <1>1, <2>4, <2>6, <3>1
  <2>8. k \in i + 1..Len(s)
    BY <2>5
  <2>9. QED
    BY <2>3, <2>7, <2>8
<1>2. QED
  BY <1>1 DEF SweptIsSettled

\* The lines that two clones share came through the origin, and have its order.
LEMMA HistoriesAgree ==
    ASSUME JournalInv
    PROVE  OneHistory
<1>1. ASSUME NEW c \in Clones, NEW d \in Clones, NEW e, NEW f,
             <<e, f>> \in Order(copies[c]), <<f, e>> \in Order(copies[d])
      PROVE  FALSE
  <2>1. ClonesInv
    BY DEF JournalInv
  <2>2. \A b \in Clones : /\ copies[b] \in Seq(Entry) /\ base[b] \in Seq(Entry)
                          /\ origin \in Seq(Entry)
    BY DEF JournalInv, CloneTypeOK
  <2>3. /\ e \in Lines(copies[c]) /\ f \in Lines(copies[c])
        /\ e \in Lines(copies[d]) /\ f \in Lines(copies[d])
    BY <1>1, <2>2, LinesAre
  <2>4. c # d
    BY <1>1, <2>1, <2>2, <2>3, OrderTotal DEF ClonesInv
  <2>5. /\ e \in Lines(base[c]) /\ f \in Lines(base[c])
        /\ e \in Lines(base[d]) /\ f \in Lines(base[d])
    BY <2>1, <2>3, <2>4 DEF ClonesInv
  <2>6. e # f
    BY <1>1, <2>1, <2>2, <2>3, OrderTotal DEF ClonesInv
  <2>7. <<e, f>> \in Order(origin)
    <3>1. <<f, e>> \notin Order(copies[c])
      BY <1>1, <2>1, <2>2, <2>3, OrderTotal DEF ClonesInv
    <3>2. <<e, f>> \in Order(base[c])
      BY <2>1, <2>2, <2>5, <2>6, <3>1, OrderTotal DEF ClonesInv, Extends
    <3>3. QED
      BY <2>1, <3>2 DEF ClonesInv, Extends
  <2>8. <<f, e>> \in Order(origin)
    <3>1. <<e, f>> \notin Order(copies[d])
      BY <1>1, <2>1, <2>2, <2>3, OrderTotal DEF ClonesInv
    <3>2. <<f, e>> \in Order(base[d])
      BY <2>1, <2>2, <2>5, <2>6, <3>1, OrderTotal DEF ClonesInv, Extends
    <3>3. QED
      BY <2>1, <3>2 DEF ClonesInv, Extends
  <2>9. e \in Lines(origin) /\ f \in Lines(origin)
    BY <2>2, <2>7, LinesAre
  <2>10. QED
    BY <2>1, <2>2, <2>7, <2>8, <2>9, OrderTotal DEF ClonesInv
<1>2. \A c \in Clones : \A p \in Order(copies[c]) : p = <<p[1], p[2]>>
  BY DEF Order
<1>3. QED
  BY <1>1, <1>2 DEF OneHistory
-----------------------------------------------------------------------------
(***************************************************************************)
(* The steps.                                                              *)
(***************************************************************************)
LEMMA Starts ==
    ASSUME CloneInit
    PROVE  JournalInv
<1> USE DEF CloneInit
<1>1. Blank \in Decision
  BY DEF Blank, Decision, Unknown
<1>2. CloneTypeOK
  BY <1>1, CloneConstants DEF CloneTypeOK, Day
<1>3. /\ Lines(origin) = {} /\ EveryLine = {}
      /\ \A c \in Clones : Lines(copies[c]) = {} /\ Lines(base[c]) = {}
      /\ \A c \in Clones : Order(base[c]) = {}
  BY DEF Lines, EveryLine, Order
<1>4. LinesInv
  BY <1>3 DEF LinesInv, Blank
<1>5. ClonesInv
  BY <1>3 DEF ClonesInv, Distinct, Extends
<1>6. \A d \in CloneDoors : Decided(copies[At[d]], pending[d])
  BY DEF Decided, Blank, IdsOf
<1>7. GroundsInv
  BY <1>3, <1>6 DEF GroundsInv, Grounded
<1>8. RoomInv
  <2>1. Busy = {}
    BY DEF Busy
  <2>2. QED
    BY <2>1, FS_EmptySet, CloneConstants DEF RoomInv
<1>9. QED
  BY <1>2, <1>4, <1>5, <1>7, <1>8 DEF JournalInv

FileInv == CloneTypeOK /\ LinesInv /\ ClonesInv /\ GroundsInv

\* A line is appended in the clone of door d. (What the doors hold is as it was,
\* but for what d has written.)
LEMMA Appends ==
    ASSUME JournalInv, NEW d \in CloneDoors, NEW x \in Decision,
           Decided(copies[At[d]], x), written < MaxLines,
           x.type = "opened" => /\ \A e \in EveryLine : e.said.type # "opened"
                                /\ \A b \in CloneDoors : pending'[b].type # "opened",
           copies' = [copies EXCEPT ![At[d]] = Append(@, Line(x))],
           written' = written + 1, UNCHANGED <<origin, base, day>>,
           \A b \in CloneDoors : pending'[b] \in {pending[b], Blank},
           pending' \in [CloneDoors -> Decision]
    PROVE  FileInv'
<1> DEFINE c == At[d]
           e == Line(x)
<1>1. CloneTypeOK /\ LinesInv /\ ClonesInv /\ GroundsInv
  BY DEF JournalInv
<1>2. c \in Clones /\ written \in Nat
  BY <1>1, CloneConstants DEF CloneTypeOK
<1>3. e = [said |-> x, id |-> written + 1, at |-> day]
  BY DEF Line
<1>4. e \in Entry /\ e.id = written + 1 /\ e.said = x /\ e.at = day
  <2>1. written + 1 \in Ids /\ day \in Day
    BY <1>1, <1>2, CloneConstants DEF Ids, CloneTypeOK
  <2>2. QED
    BY <1>3, <2>1 DEF Entry
<1> HIDE DEF c, e
<1>5. /\ copies[c] \in Seq(Entry) /\ Lines(copies[c]) \subseteq EveryLine
      /\ Distinct(copies[c]) /\ Grounded(copies[c]) /\ OneOfEachId(EveryLine)
  BY <1>1, <1>2, JournalIs
<1>6. copies' = [copies EXCEPT ![c] = Append(copies[c], e)]
  BY DEF c, e
<1>7. /\ copies' \in [Clones -> Seq(Entry)]
      /\ copies'[c] = Append(copies[c], e)
      /\ \A b \in Clones \ {c} : copies'[b] = copies[b]
  BY <1>1, <1>2, <1>4, <1>5, <1>6, AppendedLines DEF CloneTypeOK
<1>8. /\ Lines(copies'[c]) = Lines(copies[c]) \union {e}
      /\ Extends(copies[c], copies'[c])
  BY <1>4, <1>5, <1>7, AppendedLines
<1>9. EveryLine' = EveryLine \union {e}
  <2>1. EveryLine' = UNION {Lines(copies'[b]) : b \in Clones}
    BY DEF EveryLine, Lines
  <2>2. \A b \in Clones : Lines(copies'[b]) \subseteq EveryLine \union {e}
    BY <1>7, <1>8 DEF EveryLine
  <2>3. \A b \in Clones : Lines(copies[b]) \subseteq Lines(copies'[b])
    BY <1>7, <1>8
  <2>4. EveryLine \union {e} \subseteq EveryLine'
    BY <1>2, <1>8, <2>1, <2>3 DEF EveryLine
  <2>5. EveryLine' \subseteq EveryLine \union {e}
    BY <2>1, <2>2
  <2>6. QED
    BY <2>4, <2>5
<1>10. \A f \in EveryLine : f.id \in 1..written /\ f.at <= day
  BY <1>1 DEF LinesInv
<1>11. e \notin EveryLine /\ OneOfEachId(EveryLine \union {e})
  <2>1. \A f \in EveryLine : f.id # e.id
    BY <1>2, <1>4, <1>10
  <2>2. QED
    BY <1>5, <2>1 DEF OneOfEachId
<1>12. CloneTypeOK'
  <2>1. written' \in 0..MaxLines
    BY <1>2, CloneConstants
  <2>2. QED
    BY <1>1, <1>7, <2>1 DEF CloneTypeOK, Day
<1>13. LinesInv'
  <2>1. Lines(origin)' = Lines(origin)
    BY DEF Lines
  <2>2. Lines(origin)' \subseteq EveryLine'
    BY <1>1, <1>9, <2>1 DEF LinesInv
  <2>3. \A f \in EveryLine' : f.id \in 1..written' /\ f.at <= day'
    <3>1. day \in Int
      BY <1>1 DEF CloneTypeOK, Day
    <3>2. QED
      BY <1>2, <1>4, <1>9, <1>10, <3>1
  <2>4. \A f, g \in EveryLine' : f.id = g.id => f = g
    BY <1>9, <1>11 DEF OneOfEachId
  <2>5. \A b \in CloneDoors : pending'[b].type = "opened" => pending[b].type = "opened"
    BY DEF Blank
  <2>6. \A f, g \in EveryLine' : f.said.type = "opened" /\ g.said.type = "opened" => f = g
    BY <1>1, <1>4, <1>9 DEF LinesInv
  <2>7. \A b \in CloneDoors : pending'[b].type = "opened" =>
           /\ \A f \in EveryLine' : f.said.type # "opened"
           /\ \A a \in CloneDoors : pending'[a].type = "opened" => a = b
    BY <1>1, <1>4, <1>9, <2>5 DEF LinesInv
  <2>8. QED
    BY <2>2, <2>3, <2>4, <2>6, <2>7 DEF LinesInv
<1>14. ClonesInv'
  <2>1. Distinct(origin)' /\ \A b \in Clones : Distinct(base[b])'
    BY <1>1 DEF ClonesInv, Distinct
  <2>2. \A b \in Clones : Distinct(copies'[b])
    BY <1>1, <1>4, <1>5, <1>7, <1>11, AppendedLines DEF ClonesInv
  <2>3. \A b \in Clones : Extends(base[b], copies'[b])
    BY <1>1, <1>7, <1>8 DEF ClonesInv, Extends
  <2>4. \A b \in Clones : Extends(base[b], origin)
    BY <1>1 DEF ClonesInv
  <2>5. ASSUME NEW b \in Clones, NEW f \in Lines(copies'[b]) \ Lines(base[b])
        PROVE  f \notin Lines(origin) /\ \A a \in Clones \ {b} : f \notin Lines(copies'[a])
    <3>1. Lines(origin) \subseteq EveryLine
      BY <1>1 DEF LinesInv
    <3>2. CASE f = e
      <4>1. b = c
        BY <1>7, <1>11, <2>5, <3>2 DEF EveryLine
      <4>2. \A a \in Clones \ {b} : e \notin Lines(copies'[a])
        BY <1>7, <1>11, <4>1 DEF EveryLine
      <4>3. QED
        BY <1>11, <3>1, <3>2, <4>2
    <3>3. CASE f # e
      <4>1. f \in Lines(copies[b]) \ Lines(base[b])
        BY <1>7, <1>8, <2>5, <3>3
      <4>2. f \notin Lines(origin) /\ \A a \in Clones \ {b} : f \notin Lines(copies[a])
        BY <1>1, <4>1 DEF ClonesInv
      <4>3. QED
        BY <1>7, <1>8, <3>3, <4>2
    <3>4. QED
      BY <3>2, <3>3
  <2>6. /\ \A b \in Clones : Lines(base[b])' = Lines(base[b])
           /\ Lines(copies[b])' = Lines(copies'[b])
        /\ Lines(origin)' = Lines(origin)
        /\ \A b \in Clones : Extends(base[b], copies'[b]) = Extends(base[b], copies[b])'
        /\ \A b \in Clones : Extends(base[b], origin) = Extends(base[b], origin)'
        /\ \A b \in Clones : Distinct(copies'[b]) = Distinct(copies[b])'
    BY DEF Lines, Extends, Order, Distinct
  <2>7. QED
    BY <2>1, <2>2, <2>3, <2>4, <2>5, <2>6 DEF ClonesInv
<1>15. GroundsInv'
  <2>1. Grounded(copies'[c])
    <3>1. OneOfEachId(Lines(copies[c]) \union {e})
      BY <1>5, <1>11 DEF OneOfEachId
    <3>2. \A f \in Lines(copies[c]) : f.at <= e.at
      BY <1>4, <1>5, <1>10
    <3>3. Decided(copies[c], e.said) /\ e \notin Lines(copies[c])
      BY <1>4, <1>5, <1>11 DEF c
    <3>4. Grounded(Append(copies[c], e))
      BY <1>4, <1>5, <3>1, <3>2, <3>3, GroundedAppended
    <3>5. QED
      BY <1>7, <3>4
  <2>2. \A b \in Clones : Grounded(copies'[b])
    BY <1>1, <1>7, <2>1 DEF GroundsInv
  <2>3. \A b \in CloneDoors : Decided(copies'[At[b]], pending'[b])
    <3>1. ASSUME NEW b \in CloneDoors
          PROVE  Decided(copies'[At[b]], pending'[b])
      <4>1. CASE pending'[b] = Blank
        BY <4>1 DEF Decided, Blank
      <4>2. CASE pending'[b] = pending[b]
        <5>1. Decided(copies[At[b]], pending[b]) /\ At[b] \in Clones
          BY <1>1, CloneConstants DEF GroundsInv
        <5>2. CASE At[b] = c
          <6>1. OneOfEachId(Lines(copies'[c]))
            BY <1>5, <1>8, <1>11 DEF OneOfEachId
          <6>2. QED
            BY <1>8, <4>2, <5>1, <5>2, <6>1, DecidedStays
        <5>3. CASE At[b] # c
          BY <1>7, <4>2, <5>1, <5>3
        <5>4. QED
          BY <5>2, <5>3
      <4>3. QED
        BY <4>1, <4>2
    <3>2. QED
      BY <3>1
  <2>4. Grounded(origin)' <=> Grounded(origin)
    BY DEF Grounded, Decided, Lines, Order, IdsOf
  <2>5. /\ \A b \in Clones : Grounded(copies[b])' = Grounded(copies'[b])
        /\ \A b \in CloneDoors : Decided(copies[At[b]],
           pending[b])' = Decided(copies'[At[b]], pending'[b])
    BY DEF Grounded, Decided, Lines, Order, IdsOf
  <2>6. QED
    BY <1>1, <2>2, <2>3, <2>4, <2>5 DEF GroundsInv
<1>16. QED
  BY <1>12, <1>13, <1>14, <1>15 DEF FileInv
\* Lines and doors stay as they are, but for d, which decides on x.
LEMMA Decides ==
    ASSUME JournalInv, NEW d \in CloneDoors, NEW x \in Decision,
           Decided(copies[At[d]], x),
           x.type = "opened" => /\ \A e \in EveryLine : e.said.type # "opened"
                                /\ \A b \in CloneDoors : pending[b].type # "opened",
           pending' = [pending EXCEPT ![d] = x],
           UNCHANGED <<copies, origin, base, day, written>>
    PROVE  FileInv'
<1>1. CloneTypeOK /\ LinesInv /\ ClonesInv /\ GroundsInv
  BY DEF JournalInv
<1>2. /\ pending' \in [CloneDoors -> Decision] /\ pending'[d] = x
      /\ \A b \in CloneDoors \ {d} : pending'[b] = pending[b]
  BY <1>1 DEF CloneTypeOK
<1>3. CloneTypeOK'
  BY <1>1, <1>2 DEF CloneTypeOK, Day
<1>4. LinesInv'
  <2>1. Lines(origin)' = Lines(origin) /\ EveryLine' = EveryLine
    BY DEF Lines, EveryLine
  <2>2. \A a \in CloneDoors : pending'[a].type = "opened" =>
           /\ \A e \in EveryLine : e.said.type # "opened"
           /\ \A b \in CloneDoors : pending'[b].type = "opened" => b = a
    BY <1>1, <1>2 DEF LinesInv
  <2>3. QED
    BY <1>1, <2>1, <2>2 DEF LinesInv
<1>5. ClonesInv'
  <2>1. /\ Distinct(origin)' = Distinct(origin) /\ Lines(origin)' = Lines(origin)
        /\ \A c \in Clones :
              /\ Distinct(copies[c])' = Distinct(copies[c])
                 /\ Distinct(base[c])' = Distinct(base[c])
              /\ Lines(copies[c])' = Lines(copies[c]) /\ Lines(base[c])' = Lines(base[c])
              /\ Extends(base[c], copies[c])' = Extends(base[c], copies[c])
              /\ Extends(base[c], origin)' = Extends(base[c], origin)
    BY DEF Lines, Order, Extends, Distinct
  <2>2. QED
    BY <1>1, <2>1 DEF ClonesInv
<1>6. GroundsInv'
  <2>1. /\ Grounded(origin)' = Grounded(origin)
        /\ \A c \in Clones : Grounded(copies[c])' = Grounded(copies[c])
        /\ \A b \in CloneDoors : Decided(copies[At[b]],
           pending[b])' = Decided(copies[At[b]], pending'[b])
    BY DEF Grounded, Decided, Lines, Order, IdsOf
  <2>2. \A b \in CloneDoors : Decided(copies[At[b]], pending'[b])
    BY <1>1, <1>2 DEF GroundsInv
  <2>3. QED
    BY <1>1, <2>1, <2>2 DEF GroundsInv
<1>7. QED
  BY <1>3, <1>4, <1>5, <1>6 DEF FileInv

\* The room that is kept for what the doors hold.
LEMMA RoomKept ==
    ASSUME JournalInv, NEW d \in CloneDoors
    PROVE  /\ Room /\ written' = written + 1 /\ UNCHANGED pending => RoomInv'
           /\ \A x : Room /\ UNCHANGED written /\ pending' = [pending EXCEPT ![d] = x] => RoomInv'
           /\ pending[d] # Blank =>
                 /\ written < MaxLines
                 /\ written' = written + 1 /\ pending' = [pending EXCEPT ![d] = Blank] => RoomInv'
           /\ UNCHANGED <<written, pending>> => RoomInv'
<1>1. /\ IsFiniteSet(Busy) /\ written + Cardinality(Busy) <= MaxLines
      /\ pending \in [CloneDoors -> Decision] /\ written \in Nat /\ MaxLines \in Nat
  BY CloneConstants DEF JournalInv, CloneTypeOK, RoomInv
<1>2. Cardinality(Busy) \in Nat
  BY <1>1, FS_CardinalityType
<1>3. Room => written + Cardinality(Busy) < MaxLines
  BY DEF Room, Busy
<1>4. UNCHANGED pending => Busy' = Busy
  BY DEF Busy
<1>5. /\ Room /\ written' = written + 1 /\ UNCHANGED pending => RoomInv'
      /\ UNCHANGED <<written, pending>> => RoomInv'
  BY <1>1, <1>2, <1>3, <1>4 DEF RoomInv
<1>6. ASSUME NEW x, Room, written' = written, pending' = [pending EXCEPT ![d] = x]
      PROVE  RoomInv'
  <2>1. /\ IsFiniteSet(Busy \union {d})
        /\ Cardinality(Busy \union {d}) <= Cardinality(Busy) + 1
        /\ Cardinality(Busy \union {d}) \in Nat
    <3>1. /\ IsFiniteSet(Busy \union {d})
          /\ Cardinality(Busy \union {d}) =
                IF d \in Busy THEN Cardinality(Busy) ELSE Cardinality(Busy) + 1
      BY <1>1, FS_AddElement
    <3>2. QED
      BY <1>2, <3>1
  <2>2. Busy' \subseteq Busy \union {d}
    BY <1>1, <1>6 DEF Busy
  <2>3. IsFiniteSet(Busy') /\ Cardinality(Busy') <= Cardinality(Busy \union {d})
    BY <2>1, <2>2, FS_Subset
  <2>4. Cardinality(Busy') \in Nat
    BY <2>3, FS_CardinalityType
  <2>5. QED
    BY <1>1, <1>2, <1>3, <1>6, <2>1, <2>3, <2>4 DEF RoomInv
<1>7. ASSUME pending[d] # Blank
      PROVE  /\ written < MaxLines
             /\ written' = written + 1 /\ pending' = [pending EXCEPT ![d] = Blank] => RoomInv'
  <2>1. d \in Busy
    BY <1>7 DEF Busy
  <2>2. IsFiniteSet(Busy \ {d}) /\ Cardinality(Busy \ {d}) = Cardinality(Busy) - 1
    BY <1>1, <2>1, FS_RemoveElement
  <2>3. Cardinality(Busy \ {d}) \in Nat
    BY <2>2, FS_CardinalityType
  <2>4. ASSUME written' = written + 1, pending' = [pending EXCEPT ![d] = Blank]
        PROVE  RoomInv'
    <3>1. Busy' = Busy \ {d}
      BY <1>1, <2>4 DEF Busy
    <3>2. QED
      BY <1>1, <1>2, <2>2, <2>3, <2>4, <3>1 DEF RoomInv
  <2>5. QED
    BY <1>1, <1>2, <2>2, <2>3, <2>4
<1>8. QED
  BY <1>5, <1>6, <1>7

\* A todo that was opened nowhere has no opening in any journal.
LEMMA NotOpened ==
    ASSUME JournalInv, ~Opened
    PROVE  /\ \A e \in EveryLine : e.said.type # "opened"
           /\ \A b \in CloneDoors : pending[b].type # "opened"
<1>1. ASSUME NEW e \in EveryLine, e.said.type = "opened"
      PROVE  FALSE
  <2>1. PICK c \in Clones : e \in Lines(copies[c])
    BY DEF EveryLine
  <2>2. copies[c] \in Seq(Entry)
    BY DEF JournalInv, CloneTypeOK
  <2>3. PICK i \in 1..Len(copies[c]) : copies[c][i] = e
    BY <2>1 DEF Lines
  <2>4. foldTodos(copies[c]).status # Unknown
    BY <1>1, <2>2, <2>3, FoldTells DEF Tells
  <2>5. QED
    BY <2>4 DEF Opened
<1>2. QED
  BY <1>1 DEF Opened

LEMMA WritesAtOnce ==
    ASSUME JournalInv, NEW d \in CloneDoors, NEW x \in Decision,
           x.seen = {}, x.origin = 0, x.type \in {"signal", "opened"},
           x.type = "opened" => ~Opened, Free(d), WriteAtOnce(d, x)
    PROVE  JournalInv'
<1>1. Decided(copies[At[d]], x)
  BY DEF Decided
<1>2. written < MaxLines
  <2>1. /\ written + Cardinality(Busy) < MaxLines
        /\ Cardinality(Busy) \in Nat /\ written \in Nat /\ MaxLines \in Nat
    BY FS_CardinalityType, CloneConstants DEF Free, Room, Busy, JournalInv, RoomInv, CloneTypeOK
  <2>2. QED
    BY <2>1
<1>3. x.type = "opened" => /\ \A e \in EveryLine : e.said.type # "opened"
                           /\ \A b \in CloneDoors : pending[b].type # "opened"
  BY NotOpened
<1>4. /\ copies' = [copies EXCEPT ![At[d]] = Append(@, Line(x))]
      /\ written' = written + 1 /\ UNCHANGED <<origin, base, day>> /\ pending' = pending
  BY DEF WriteAtOnce
<1>5. pending' \in [CloneDoors -> Decision]
      /\ \A b \in CloneDoors : pending'[b] \in {pending[b], Blank}
  BY <1>4 DEF JournalInv, CloneTypeOK
<1>6. FileInv'
  <2>1. x.type = "opened" => /\ \A e \in EveryLine : e.said.type # "opened"
                             /\ \A b \in CloneDoors : pending'[b].type # "opened"
    BY <1>3, <1>4
  <2>2. QED
    BY <1>1, <1>2, <1>4, <1>5, <2>1, Appends
<1>7. RoomInv'
  BY <1>4, RoomKept DEF Free
<1>8. QED
  BY <1>6, <1>7 DEF FileInv, JournalInv

\* A decision x upon the whole journal of d's clone.
LEMMA DecidesUpon ==
    ASSUME JournalInv, NEW d \in CloneDoors, NEW x \in Decision,
           NEW y \in Decision, y = [x EXCEPT !.seen = IdsOf(copies[At[d]])],
           Decided(copies[At[d]], y), x.type = "opened" => ~Opened, Free(d),
           Decide(d, x)
    PROVE  JournalInv'
<1>1. y.type = x.type
  BY DEF Decision
<1>2. /\ pending' = [pending EXCEPT ![d] = y]
      /\ UNCHANGED <<copies, origin, base, day, written>>
  BY DEF Decide
<1>3. FileInv'
  BY <1>1, <1>2, NotOpened, Decides
<1>4. RoomInv'
  BY <1>2, RoomKept DEF Free
<1>5. QED
  BY <1>3, <1>4 DEF FileInv, JournalInv

\* What a door sees: the ids of the lines in its clone.
LEMMA SeenIs ==
    ASSUME JournalInv, NEW d \in CloneDoors
    PROVE  /\ copies[At[d]] \in Seq(Entry) /\ Grounded(copies[At[d]])
           /\ Distinct(copies[At[d]]) /\ OneOpening(copies[At[d]])
           /\ IdsOf(copies[At[d]]) \in SUBSET Ids
           /\ \A f \in Lines(copies[At[d]]) : f.id \in IdsOf(copies[At[d]]) /\ f.id \in Ids
           /\ \A x \in Decision :
                 LET y == [x EXCEPT !.seen = IdsOf(copies[At[d]])]
                 IN  /\ y \in Decision /\ y.seen = IdsOf(copies[At[d]])
                     /\ y.type = x.type /\ y.from = x.from /\ y.to = x.to
                     /\ y.pinned = x.pinned /\ y.origin = x.origin
<1>1. At[d] \in Clones
  BY CloneConstants
<1>2. /\ copies[At[d]] \in Seq(Entry) /\ Grounded(copies[At[d]])
      /\ Distinct(copies[At[d]]) /\ OneOpening(copies[At[d]])
  BY <1>1, JournalIs DEF JournalInv
<1>3. IdsOf(copies[At[d]]) = {f.id : f \in Lines(copies[At[d]])}
  BY DEF IdsOf, Lines
<1>4. \A f \in Lines(copies[At[d]]) : f.id \in Ids
  BY <1>2, LinesAre DEF Entry
<1>5. IdsOf(copies[At[d]]) \in SUBSET Ids
  BY <1>3, <1>4
<1>6. QED
  BY <1>2, <1>3, <1>4, <1>5 DEF Decision

\* What is said on each occasion.
LEMMA Sayings ==
    /\ [Blank EXCEPT !.type = "signal"] \in Decision
    /\ \A pin \in BOOLEAN, o \in Ids \union {0} :
          [Blank EXCEPT !.type = "opened", !.to = "open", !.pinned = pin,
                        !.origin = o] \in Decision
    /\ \A pin \in BOOLEAN :
          [Blank EXCEPT !.type = "opened", !.to = "open", !.pinned = pin] \in Decision
    /\ \A from, to \in Status :
          [Blank EXCEPT !.type = "status", !.from = from, !.to = to] \in Decision
    /\ \A pin \in BOOLEAN :
          [Blank EXCEPT !.type = "updated", !.pinned = pin] \in Decision
    /\ [Blank EXCEPT !.type = "version"] \in Decision
<1>1. "open" \in Status
  BY DEF Status
<1>2. QED
  BY <1>1 DEF Blank, Decision

LEMMA SignalKeeps ==
    ASSUME JournalInv, NEW d \in CloneDoors, Signal(d)
    PROVE  JournalInv'
<1>0. Free(d)
  BY DEF Signal
<1> DEFINE x == [Blank EXCEPT !.type = "signal"]
<1>1. x \in Decision
  BY Sayings
<1>2. x.seen = {} /\ x.origin = 0 /\ x.type = "signal"
  BY DEF Blank
<1>3. WriteAtOnce(d, x)
  BY DEF Signal
<1> HIDE DEF x
<1>4. QED
  BY <1>0, <1>1, <1>2, <1>3, WritesAtOnce

LEMMA OpenTodoKeeps ==
    ASSUME JournalInv, NEW d \in CloneDoors, OpenTodo(d)
    PROVE  JournalInv'
<1>0. Free(d)
  BY DEF OpenTodo
<1>1. PICK pin \in BOOLEAN :
         WriteAtOnce(d, [Blank EXCEPT !.type = "opened", !.to = "open", !.pinned = pin])
  BY DEF OpenTodo
<1> DEFINE x == [Blank EXCEPT !.type = "opened", !.to = "open", !.pinned = pin]
<1>2. x \in Decision
  BY Sayings
<1>3. x.seen = {} /\ x.origin = 0 /\ x.type = "opened"
  BY DEF Blank
<1>4. WriteAtOnce(d, x) /\ ~Opened
  BY <1>1 DEF OpenTodo
<1> HIDE DEF x
<1>5. QED
  BY <1>0, <1>2, <1>3, <1>4, WritesAtOnce

LEMMA OpenTodoFromKeeps ==
    ASSUME JournalInv, NEW d \in CloneDoors, OpenTodoFrom(d)
    PROVE  JournalInv'
<1>0. Free(d)
  BY DEF OpenTodoFrom
<1>1. PICK e \in LinesAt(d, "signal"), pin \in BOOLEAN :
         Decide(d, [Blank EXCEPT !.type = "opened", !.to = "open", !.pinned = pin,
                                 !.origin = e.id])
  BY DEF OpenTodoFrom
<1> DEFINE x == [Blank EXCEPT !.type = "opened", !.to = "open", !.pinned = pin,
                              !.origin = e.id]
           y == [x EXCEPT !.seen = IdsOf(copies[At[d]])]
<1>2. e \in Lines(copies[At[d]]) /\ e.said.type = "signal" /\ e.id \in Ids
  BY SeenIs DEF LinesAt
<1>3. x \in Decision
  BY <1>2, Sayings
<1>4. x.type = "opened" /\ x.origin = e.id
  BY DEF Blank
<1>5. Decide(d, x) /\ ~Opened
  BY <1>1 DEF OpenTodoFrom
<1> HIDE DEF x
<1>6. y \in Decision /\ y.seen = IdsOf(copies[At[d]]) /\ y.type = "opened" /\ y.origin = e.id
  BY <1>3, <1>4, SeenIs
<1> HIDE DEF y
<1>7. Decided(copies[At[d]], y)
  BY <1>2, <1>6, SeenIs DEF Decided
<1>8. QED
  BY <1>0, <1>3, <1>5, <1>6, <1>7, DecidesUpon DEF y

\* The status that a door reads is that of the last change in its clone, or
\* that of a todo which was only opened.
LEMMA ChangeStatusKeeps ==
    ASSUME JournalInv, NEW d \in CloneDoors, ChangeStatus(d)
    PROVE  JournalInv'
<1>0. Free(d)
  BY DEF ChangeStatus
<1> DEFINE s == copies[At[d]]
           from == TodoAt(d).status
<1>1. PICK to \in Goals :
         Decide(d, [Blank EXCEPT !.type = "status", !.from = from, !.to = to])
  BY DEF ChangeStatus
<1> DEFINE x == [Blank EXCEPT !.type = "status", !.from = from, !.to = to]
           y == [x EXCEPT !.seen = IdsOf(s)]
<1>2. s \in Seq(Entry) /\ Grounded(s) /\ Distinct(s) /\ OneOpening(s)
      /\ \A f \in Lines(s) : f.id \in IdsOf(s)
  BY SeenIs
<1>3. Tells(foldTodos(s), s, Len(s)) /\ foldTodos(s).status = from /\ from # Unknown
  BY <1>2, FoldTells DEF ChangeStatus, Known, TodoAt
<1>4. from \in Status /\ to \in Status
  BY <1>3, CloneConstants DEF Tells, Todo
<1>5. x \in Decision
  <2> HIDE DEF from
  <2>1. QED
    BY <1>4, Sayings
<1>6. x.type = "status" /\ x.from = from /\ x.origin = 0
  BY DEF Blank
<1>7. Decide(d, x)
  BY <1>1
<1> HIDE DEF x
<1>8. y \in Decision /\ y.seen = IdsOf(s) /\ y.type = "status" /\ y.from = from /\ y.origin = 0
  BY <1>5, <1>6, SeenIs
<1> HIDE DEF y, from, s
<1>9. Len(s) \in Nat /\ \A i \in 1..Len(s) : s[i] \in Lines(s)
  BY <1>2, LinesAre
<1>10. \A f \in Lines(s) : \E i \in 1..Len(s) : s[i] = f
  BY DEF Lines
<1>11. \E f \in Lines(s) : f.id \in y.seen /\ f.said.type = "opened"
  BY <1>2, <1>3, <1>8, <1>9 DEF Tells
<1>12. \/ /\ y.from = "open"
          /\ \A g \in Lines(s) : g.id \in y.seen => g.said.type # "status"
       \/ \E f \in Lines(s) :
             /\ f.id \in y.seen /\ f.said.type = "status" /\ f.said.to = y.from
             /\ \A g \in Lines(s) : g.id \in y.seen /\ g.said.type = "status" =>
                   g = f \/ <<g, f>> \in Order(s)
  <2>1. PICK k \in 1..Len(s) :
           /\ \/ s[k].said.type = "opened" /\ from = "open"
              \/ s[k].said.type = "status" /\ from = s[k].said.to
           /\ \A l \in (k + 1)..Len(s) : s[l].said.type \notin {"opened", "status"}
    BY <1>3 DEF Tells
  <2>2. \A l \in 1..Len(s) : s[l].said.type = "status" => l <= k
    BY <1>9, <2>1
  <2>3. CASE s[k].said.type = "opened" /\ from = "open"
    <3>1. \A l \in 1..Len(s) : s[l].said.type # "status"
      <4>1. ASSUME NEW l \in 1..Len(s), s[l].said.type = "status"
            PROVE  FALSE
        <5>1. k < l
          BY <1>2, <2>3, <4>1, OpenedFirst
        <5>2. QED
          BY <1>9, <2>2, <4>1, <5>1
      <4>2. QED
        BY <4>1
    <3>2. QED
      BY <1>8, <1>10, <2>3, <3>1
  <2>4. CASE s[k].said.type = "status" /\ from = s[k].said.to
    <3>1. ASSUME NEW g \in Lines(s), g.said.type = "status"
          PROVE  g = s[k] \/ <<g, s[k]>> \in Order(s)
      <4>1. PICK l \in 1..Len(s) : s[l] = g
        BY <1>10
      <4>2. l = k \/ l < k
        BY <1>9, <2>2, <3>1, <4>1
      <4>3. QED
        BY <4>1, <4>2, OrderIs
    <3>2. QED
      BY <1>2, <1>8, <1>9, <2>4, <3>1
  <2>5. QED
    BY <2>1, <2>3, <2>4
<1>13. Decided(s, y)
  BY <1>8, <1>11, <1>12 DEF Decided
<1>14. QED
  BY <1>0, <1>5, <1>6, <1>7, <1>8, <1>13, DecidesUpon DEF y, s

LEMMA UpdateTodoKeeps ==
    ASSUME JournalInv, NEW d \in CloneDoors, UpdateTodo(d)
    PROVE  JournalInv'
<1>0. Free(d)
  BY DEF UpdateTodo
<1>1. PICK pin \in BOOLEAN : Decide(d, [Blank EXCEPT !.type = "updated", !.pinned = pin])
  BY DEF UpdateTodo
<1> DEFINE s == copies[At[d]]
           x == [Blank EXCEPT !.type = "updated", !.pinned = pin]
           y == [x EXCEPT !.seen = IdsOf(s)]
<1>2. s \in Seq(Entry) /\ \A f \in Lines(s) : f.id \in IdsOf(s)
  BY SeenIs
<1>3. \E f \in Lines(s) : f.said.type = "opened"
  <2>1. Tells(foldTodos(s), s, Len(s)) /\ foldTodos(s).status # Unknown
    BY <1>2, FoldTells DEF UpdateTodo, Known, TodoAt
  <2>2. QED
    BY <1>2, <2>1, LinesAre DEF Tells
<1>4. x \in Decision /\ Decide(d, x)
  BY <1>1, Sayings
<1>5. x.type = "updated" /\ x.origin = 0
  BY DEF Blank
<1> HIDE DEF x
<1>6. y \in Decision /\ y.seen = IdsOf(s) /\ y.type = "updated" /\ y.origin = 0
  BY <1>4, <1>5, SeenIs
<1> HIDE DEF y
<1>7. Decided(s, y)
  BY <1>2, <1>3, <1>6 DEF Decided
<1>8. QED
  BY <1>0, <1>4, <1>5, <1>6, <1>7, DecidesUpon DEF y

LEMMA RecordVersionKeeps ==
    ASSUME JournalInv, NEW d \in CloneDoors, RecordVersion(d)
    PROVE  JournalInv'
<1>0. Free(d)
  BY DEF RecordVersion
<1> DEFINE s == copies[At[d]]
           x == [Blank EXCEPT !.type = "version"]
           y == [x EXCEPT !.seen = IdsOf(s)]
<1>1. \A f \in Lines(s) : f.said.type # "version"
  BY DEF RecordVersion, KeyIsNew, LinesAt
<1>2. x \in Decision /\ Decide(d, x)
  BY Sayings DEF RecordVersion
<1>3. x.type = "version" /\ x.origin = 0
  BY DEF Blank
<1> HIDE DEF x
<1>4. y \in Decision /\ y.seen = IdsOf(s) /\ y.type = "version" /\ y.origin = 0
  BY <1>2, <1>3, SeenIs
<1> HIDE DEF y
<1>5. Decided(s, y)
  BY <1>1, <1>4 DEF Decided
<1>6. QED
  BY <1>0, <1>2, <1>3, <1>4, <1>5, DecidesUpon DEF y

LEMMA WriteEventKeeps ==
    ASSUME JournalInv, NEW d \in CloneDoors, WriteEvent(d)
    PROVE  JournalInv'
<1> DEFINE x == pending[d]
<1>1. /\ copies' = [copies EXCEPT ![At[d]] = Append(copies[At[d]], Line(x))]
      /\ written' = written + 1 /\ UNCHANGED <<origin, base, day>>
      /\ pending' = [pending EXCEPT ![d] = Blank] /\ x # Blank
  BY DEF WriteEvent, Extended
<1>2. pending \in [CloneDoors -> Decision] /\ x \in Decision /\ Decided(copies[At[d]], x)
  BY DEF JournalInv, CloneTypeOK, GroundsInv
<1>3. Blank \in Decision
  BY DEF Blank, Decision
<1>4. /\ pending' \in [CloneDoors -> Decision] /\ pending'[d] = Blank
      /\ \A b \in CloneDoors \ {d} : pending'[b] = pending[b]
  BY <1>1, <1>2, <1>3
<1>5. x.type = "opened" => /\ \A e \in EveryLine : e.said.type # "opened"
                           /\ \A b \in CloneDoors : pending'[b].type # "opened"
  BY <1>4 DEF JournalInv, LinesInv, Blank
<1>6. written < MaxLines /\ RoomInv'
  BY <1>1, RoomKept
<1>7. FileInv'
  <2>1. \A b \in CloneDoors : pending'[b] \in {pending[b], Blank}
    BY <1>4
  <2>2. copies' = [copies EXCEPT ![At[d]] = Append(@, Line(x))]
    BY <1>1
  <2>3. QED
    BY <1>1, <1>2, <1>4, <1>5, <1>6, <2>1, <2>2, Appends
<1>8. QED
  BY <1>6, <1>7 DEF FileInv, JournalInv

LEMMA PushKeeps ==
    ASSUME JournalInv, NEW c \in Clones, Push(c)
    PROVE  JournalInv'
<1>1. CloneTypeOK /\ LinesInv /\ ClonesInv /\ GroundsInv
  BY DEF JournalInv
<1>2. /\ base[c] = origin /\ origin' = copies[c] /\ base' = [base EXCEPT ![c] = copies[c]]
      /\ UNCHANGED <<copies, pending, day, written>>
  BY DEF Push
<1>3. /\ base' \in [Clones -> Seq(Entry)] /\ base'[c] = copies[c]
      /\ \A b \in Clones \ {c} : base'[b] = base[b]
  BY <1>1, <1>2 DEF CloneTypeOK
<1>4. CloneTypeOK'
  BY <1>1, <1>2, <1>3 DEF CloneTypeOK, Day
<1>5. /\ Lines(copies[c]) \subseteq EveryLine /\ Distinct(copies[c]) /\ Grounded(copies[c])
      /\ Extends(origin, copies[c])
  BY <1>1, <1>2, JournalIs DEF ClonesInv
<1>6. LinesInv'
  <2>1. Lines(origin)' = Lines(copies[c]) /\ EveryLine' = EveryLine
    BY <1>2 DEF Lines, EveryLine
  <2>2. QED
    BY <1>1, <1>2, <1>5, <2>1 DEF LinesInv
<1>7. ClonesInv'
  <2>1. /\ Distinct(origin)' = Distinct(copies[c]) /\ Lines(origin)' = Lines(copies[c])
        /\ \A b \in Clones :
              /\ Distinct(copies[b])' = Distinct(copies[b])
                 /\ Distinct(base[b])' = Distinct(base'[b])
              /\ Lines(copies[b])' = Lines(copies[b]) /\ Lines(base[b])' = Lines(base'[b])
              /\ Extends(base[b], copies[b])' = Extends(base'[b], copies[b])
              /\ Extends(base[b], origin)' = Extends(base'[b], copies[c])
    BY <1>2 DEF Lines, Order, Extends, Distinct
  <2>2. ASSUME NEW b \in Clones
        PROVE  /\ Distinct(copies[b]) /\ Distinct(base'[b])
               /\ Extends(base'[b], copies[b]) /\ Extends(base'[b], copies[c])
               /\ \A e \in Lines(copies[b]) \ Lines(base'[b]) :
                     /\ e \notin Lines(copies[c])
                     /\ \A a \in Clones \ {b} : e \notin Lines(copies[a])
    <3>1. CASE b = c
      BY <1>3, <1>5, <3>1 DEF Extends
    <3>2. CASE b # c
      BY <1>1, <1>3, <1>5, <3>2 DEF ClonesInv, Extends
    <3>3. QED
      BY <3>1, <3>2
  <2>3. QED
    BY <1>2, <1>5, <2>1, <2>2 DEF ClonesInv
<1>8. GroundsInv'
  <2>1. /\ Grounded(origin)' = Grounded(copies[c])
        /\ \A b \in Clones : Grounded(copies[b])' = Grounded(copies[b])
        /\ \A d \in CloneDoors : Decided(copies[At[d]],
           pending[d])' = Decided(copies[At[d]], pending[d])
    BY <1>2 DEF Grounded, Decided, Lines, Order, IdsOf
  <2>2. QED
    BY <1>1, <1>5, <2>1 DEF GroundsInv
<1>9. RoomInv'
  BY <1>2 DEF JournalInv, RoomInv, Busy
<1>10. QED
  BY <1>4, <1>6, <1>7, <1>8, <1>9 DEF JournalInv

\* What a clone pulls: its own lines and the origin's, each in their order.
LEMMA Pulled ==
    ASSUME JournalInv, NEW c \in Clones, Pull(c)
    PROVE  \E joined \in Seq(Entry) :
              /\ copies' = [copies EXCEPT ![c] = joined]
              /\ Lines(joined) = Lines(copies[c]) \union Lines(origin)
              /\ Extends(copies[c], joined) /\ Extends(origin, joined)
              /\ Distinct(joined)
<1>1. copies[c] \in Seq(Entry) /\ origin \in Seq(Entry)
  BY DEF JournalInv, CloneTypeOK
<1>2. CASE copies[c] = base[c]
  <2>1. Extends(copies[c], origin) /\ Distinct(origin)
    BY <1>2 DEF JournalInv, ClonesInv
  <2>2. Lines(origin) = Lines(copies[c]) \union Lines(origin) /\ Extends(origin, origin)
    BY <2>1 DEF Extends
  <2>3. copies' = [copies EXCEPT ![c] = origin]
    BY <1>2 DEF Pull
  <2>4. QED
    BY <1>1, <2>1, <2>2, <2>3
<1>3. CASE copies[c] # base[c]
  <2>1. PICK joined \in Union(base[c], copies[c], origin) :
           copies' = [copies EXCEPT ![c] = joined]
    BY <1>3 DEF Pull
  <2>2. /\ joined \in Seq(Entry)
        /\ Lines(joined) = Lines(copies[c]) \union Lines(origin)
        /\ Distinct(joined)
        /\ Extends(copies[c], joined) /\ Extends(origin, joined)
    BY <1>1, <2>1, Joined
  <2>3. QED
    BY <2>1, <2>2
<1>4. QED
  BY <1>2, <1>3

LEMMA PullKeeps ==
    ASSUME JournalInv, NEW c \in Clones, Pull(c)
    PROVE  JournalInv'
<1>1. CloneTypeOK /\ LinesInv /\ ClonesInv /\ GroundsInv
  BY DEF JournalInv
<1>2. PICK joined \in Seq(Entry) :
         /\ copies' = [copies EXCEPT ![c] = joined]
         /\ Lines(joined) = Lines(copies[c]) \union Lines(origin)
         /\ Extends(copies[c], joined) /\ Extends(origin, joined)
         /\ Distinct(joined)
  BY Pulled
<1>3. base' = [base EXCEPT ![c] = origin] /\ UNCHANGED <<origin, pending, day, written>>
  BY DEF Pull
<1>4. /\ copies' \in [Clones -> Seq(Entry)] /\ base' \in [Clones -> Seq(Entry)]
      /\ copies'[c] = joined /\ base'[c] = origin
      /\ \A b \in Clones \ {c} : copies'[b] = copies[b] /\ base'[b] = base[b]
  BY <1>1, <1>2, <1>3 DEF CloneTypeOK
<1>5. CloneTypeOK'
  BY <1>1, <1>3, <1>4 DEF CloneTypeOK, Day
<1>6. EveryLine' = EveryLine
  <2>1. EveryLine' = UNION {Lines(copies'[b]) : b \in Clones}
    BY DEF EveryLine, Lines
  <2>2. Lines(origin) \subseteq EveryLine /\ Lines(copies[c]) \subseteq EveryLine
    BY <1>1 DEF LinesInv, EveryLine
  <2>3. \A b \in Clones : /\ Lines(copies'[b]) \subseteq EveryLine
                          /\ Lines(copies[b]) \subseteq Lines(copies'[b])
    BY <1>2, <1>4, <2>2 DEF EveryLine
  <2>4. EveryLine' \subseteq EveryLine
    BY <2>1, <2>3
  <2>5. EveryLine \subseteq EveryLine'
    BY <2>1, <2>3 DEF EveryLine
  <2>6. QED
    BY <2>4, <2>5
<1>7. LinesInv'
  <2>1. Lines(origin)' = Lines(origin)
    BY <1>3 DEF Lines
  <2>2. QED
    BY <1>1, <1>3, <1>6, <2>1 DEF LinesInv
<1>8. ClonesInv'
  <2>1. /\ Distinct(origin)' = Distinct(origin) /\ Lines(origin)' = Lines(origin)
        /\ \A b \in Clones :
              /\ Distinct(copies[b])' = Distinct(copies'[b])
                 /\ Distinct(base[b])' = Distinct(base'[b])
              /\ Lines(copies[b])' = Lines(copies'[b]) /\ Lines(base[b])' = Lines(base'[b])
              /\ Extends(base[b], copies[b])' = Extends(base'[b], copies'[b])
              /\ Extends(base[b], origin)' = Extends(base'[b], origin)
    BY <1>3 DEF Lines, Order, Extends, Distinct
  <2>2. ASSUME NEW b \in Clones
        PROVE  /\ Distinct(copies'[b]) /\ Distinct(base'[b])
               /\ Extends(base'[b], copies'[b]) /\ Extends(base'[b], origin)
    <3>1. CASE b = c
      BY <1>1, <1>2, <1>4, <3>1 DEF ClonesInv, Extends
    <3>2. CASE b # c
      BY <1>1, <1>4, <3>2 DEF ClonesInv
    <3>3. QED
      BY <3>1, <3>2
  <2>3. ASSUME NEW b \in Clones, NEW e \in Lines(copies'[b]) \ Lines(base'[b])
        PROVE  e \notin Lines(origin) /\ \A a \in Clones \ {b} : e \notin Lines(copies'[a])
    <3>1. CASE b = c
      <4>1. e \in Lines(copies[c]) /\ e \notin Lines(origin)
        BY <1>2, <1>4, <2>3, <3>1
      <4>2. e \notin Lines(base[c])
        BY <1>1, <4>1 DEF ClonesInv, Extends
      <4>3. \A a \in Clones \ {c} : e \notin Lines(copies[a])
        BY <1>1, <4>1, <4>2 DEF ClonesInv
      <4>4. QED
        BY <1>4, <3>1, <4>1, <4>3
    <3>2. CASE b # c
      <4>1. e \in Lines(copies[b]) \ Lines(base[b])
        BY <1>4, <2>3, <3>2
      <4>2. e \notin Lines(origin) /\ \A a \in Clones \ {b} : e \notin Lines(copies[a])
        BY <1>1, <4>1 DEF ClonesInv
      <4>3. e \notin Lines(copies'[c])
        BY <1>2, <1>4, <3>2, <4>2
      <4>4. QED
        BY <1>4, <4>2, <4>3
    <3>3. QED
      BY <3>1, <3>2
  <2>4. Distinct(origin)
    BY <1>1 DEF ClonesInv
  <2>5. QED
    BY <2>1, <2>2, <2>3, <2>4 DEF ClonesInv
<1>9. OneOfEachId(Lines(joined))
  <2>1. Lines(joined) \subseteq EveryLine
    BY <1>1, <1>2 DEF LinesInv, EveryLine
  <2>2. QED
    BY <1>1, <2>1 DEF LinesInv, OneOfEachId
<1>10. GroundsInv'
  <2>1. /\ Grounded(origin)' = Grounded(origin)
        /\ \A b \in Clones : Grounded(copies[b])' = Grounded(copies'[b])
        /\ \A d \in CloneDoors : Decided(copies[At[d]],
           pending[d])' = Decided(copies'[At[d]], pending[d])
    BY <1>3 DEF Grounded, Decided, Lines, Order, IdsOf
  <2>2. Grounded(joined)
    BY <1>1, <1>2, <1>9, GroundedJoined DEF GroundsInv
  <2>3. \A b \in Clones : Grounded(copies'[b])
    BY <1>1, <1>4, <2>2 DEF GroundsInv
  <2>4. ASSUME NEW d \in CloneDoors
        PROVE  Decided(copies'[At[d]], pending[d])
    <3>1. At[d] \in Clones /\ Decided(copies[At[d]], pending[d])
      BY <1>1, CloneConstants DEF GroundsInv
    <3>2. CASE At[d] = c
      BY <1>2, <1>4, <1>9, <3>1, <3>2, DecidedStays
    <3>3. CASE At[d] # c
      BY <1>4, <3>1, <3>3
    <3>4. QED
      BY <3>2, <3>3
  <2>5. QED
    BY <1>1, <2>1, <2>3, <2>4 DEF GroundsInv
<1>11. RoomInv'
  BY <1>3 DEF JournalInv, RoomInv, Busy
<1>12. QED
  BY <1>5, <1>7, <1>8, <1>10, <1>11 DEF JournalInv

\* A later day, and a step that changes nothing.
LEMMA DayKeeps ==
    ASSUME JournalInv, NextDay \/ UNCHANGED cloneVars
    PROVE  JournalInv'
<1>1. CloneTypeOK /\ LinesInv /\ ClonesInv /\ GroundsInv
  BY DEF JournalInv
<1>2. UNCHANGED <<copies, origin, base, pending, written>>
  BY DEF NextDay, cloneVars
<1>3. day \in Day /\ day' \in Day /\ day <= day' /\ Day \subseteq Int
  BY <1>1, CloneConstants DEF NextDay, cloneVars, CloneTypeOK, Day
<1>4. CloneTypeOK'
  BY <1>1, <1>2, <1>3 DEF CloneTypeOK
<1>5. LinesInv'
  <2>1. Lines(origin)' = Lines(origin) /\ EveryLine' = EveryLine
    BY <1>2 DEF Lines, EveryLine
  <2>2. \A e \in EveryLine : e.at \in Int
    <3>1. \A c \in Clones : Lines(copies[c]) \subseteq Entry
      BY <1>1, LinesAre DEF CloneTypeOK
    <3>2. EveryLine \subseteq Entry
      BY <3>1 DEF EveryLine
    <3>3. QED
      BY <1>3, <3>2 DEF Entry
  <2>3. \A e \in EveryLine : e.at <= day'
    BY <1>1, <1>3, <2>2 DEF LinesInv
  <2>4. QED
    BY <1>1, <1>2, <2>1, <2>3 DEF LinesInv
<1>6. ClonesInv'
  <2>1. /\ Distinct(origin)' = Distinct(origin) /\ Lines(origin)' = Lines(origin)
        /\ \A c \in Clones :
              /\ Distinct(copies[c])' = Distinct(copies[c])
                 /\ Distinct(base[c])' = Distinct(base[c])
              /\ Lines(copies[c])' = Lines(copies[c]) /\ Lines(base[c])' = Lines(base[c])
              /\ Extends(base[c], copies[c])' = Extends(base[c], copies[c])
              /\ Extends(base[c], origin)' = Extends(base[c], origin)
    BY <1>2 DEF Lines, Order, Extends, Distinct
  <2>2. QED
    BY <1>1, <2>1 DEF ClonesInv
<1>7. GroundsInv'
  <2>1. /\ Grounded(origin)' = Grounded(origin)
        /\ \A c \in Clones : Grounded(copies[c])' = Grounded(copies[c])
        /\ \A d \in CloneDoors : Decided(copies[At[d]],
           pending[d])' = Decided(copies[At[d]], pending[d])
    BY <1>2 DEF Grounded, Decided, Lines, Order, IdsOf
  <2>2. QED
    BY <1>1, <2>1 DEF GroundsInv
<1>8. RoomInv'
  BY <1>2 DEF JournalInv, RoomInv, Busy
<1>9. QED
  BY <1>4, <1>5, <1>6, <1>7, <1>8 DEF JournalInv

LEMMA StepKeeps ==
    ASSUME JournalInv, [CloneNext]_cloneVars
    PROVE  JournalInv'
<1>1. ASSUME NEW d \in CloneDoors, Door(d)
      PROVE  JournalInv'
  BY <1>1, SignalKeeps, OpenTodoKeeps, OpenTodoFromKeeps, ChangeStatusKeeps, UpdateTodoKeeps,
     RecordVersionKeeps, WriteEventKeeps DEF Door
<1>2. ASSUME NEW c \in Clones, Push(c) \/ Pull(c)
      PROVE  JournalInv'
  BY <1>2, PushKeeps, PullKeeps
<1>3. CASE NextDay \/ UNCHANGED cloneVars
  BY <1>3, DayKeeps
<1>4. QED
  BY <1>1, <1>2, <1>3 DEF CloneNext

\* No step takes a line from a clone or changes the order of two.
LEMMA StepGrows ==
    ASSUME JournalInv, [CloneNext]_cloneVars
    PROVE  \A c \in Clones : Extends(copies[c], copies'[c])
<1>1. /\ copies \in [Clones -> Seq(Entry)]
      /\ \A b \in Clones : Extends(copies[b], copies[b])
  BY DEF JournalInv, CloneTypeOK, Extends
<1>2. ASSUME NEW d \in CloneDoors, NEW x \in Decision,
             copies' = [copies EXCEPT ![At[d]] = Append(@, Line(x))], written < MaxLines
      PROVE  \A c \in Clones : Extends(copies[c], copies'[c])
  <2>1. At[d] \in Clones
    BY CloneConstants
  <2>2. Line(x) \in Entry
    <3>1. written + 1 \in Ids /\ day \in Day
      BY <1>2, CloneConstants DEF JournalInv, CloneTypeOK, Ids
    <3>2. QED
      BY <3>1 DEF Line, Entry
  <2>3. Extends(copies[At[d]], Append(copies[At[d]], Line(x)))
    BY <1>1, <2>1, <2>2, AppendedLines
  <2>4. QED
    BY <1>1, <1>2, <2>1, <2>3
<1>3. ASSUME NEW d \in CloneDoors, Free(d)
      PROVE  written < MaxLines
  <2>1. /\ written + Cardinality(Busy) < MaxLines
        /\ Cardinality(Busy) \in Nat /\ written \in Nat /\ MaxLines \in Nat
    BY <1>3, FS_CardinalityType, CloneConstants DEF Free, Room, Busy, JournalInv, RoomInv,
       CloneTypeOK
  <2>2. QED
    BY <2>1
<1>4. CASE copies' = copies
  BY <1>1, <1>4
<1>5. ASSUME NEW d \in CloneDoors, Signal(d) \/ OpenTodo(d)
      PROVE  \A c \in Clones : Extends(copies[c], copies'[c])
  <2>1. Free(d) /\ \E x \in Decision : WriteAtOnce(d, x)
    BY <1>5, Sayings DEF Signal, OpenTodo
  <2>2. QED
    BY <1>2, <1>3, <2>1 DEF WriteAtOnce
<1>6. ASSUME NEW d \in CloneDoors, OpenTodoFrom(d) \/ ChangeStatus(d) \/ UpdateTodo(d)
             \/ RecordVersion(d)
      PROVE  copies' = copies
  BY <1>6 DEF OpenTodoFrom, ChangeStatus, UpdateTodo, RecordVersion, Decide
<1>7. ASSUME NEW d \in CloneDoors, WriteEvent(d)
      PROVE  \A c \in Clones : Extends(copies[c], copies'[c])
  <2>1. copies' = [copies EXCEPT ![At[d]] = Append(@, Line(pending[d]))] /\ written < MaxLines
    BY <1>7, RoomKept DEF WriteEvent, Extended
  <2>2. pending[d] \in Decision
    BY DEF JournalInv, CloneTypeOK
  <2>3. QED
    BY <1>2, <2>1, <2>2
<1>8. ASSUME NEW c \in Clones, Pull(c)
      PROVE  \A b \in Clones : Extends(copies[b], copies'[b])
  BY <1>1, <1>8, Pulled
<1>9. QED
  BY <1>4, <1>5, <1>6, <1>7, <1>8 DEF CloneNext, Door, Push, NextDay, cloneVars
-----------------------------------------------------------------------------
LEMMA JournalsInvariant == CloneSpec => []JournalInv
BY Starts, StepKeeps, PTL DEF CloneSpec

\* The types of the clones' journals, of the origin and of what the doors hold.
THEOREM SharedTypeCorrect == CloneSpec => []CloneTypeOK
<1>1. JournalInv => CloneTypeOK
  BY DEF JournalInv
<1>2. QED
  BY <1>1, JournalsInvariant, PTL

\* However many clones there are, and in whatever order git leaves their lines,
\* each line follows what its door had read when it decided, and a todo that is
\* swept was not reopened since, but for a finishing that had not seen it.
THEOREM TodosStandFast == CloneSpec => []TodosStand
<1>1. JournalInv => TodosStand
  BY DecisionsAreSound, SweptAreSettled DEF TodosStand
<1>2. QED
  BY <1>1, JournalsInvariant, PTL

\* No clone ever loses a line or turns two round, and no two have the lines
\* they share in different orders.
THEOREM HistoriesOnlyGrow == CloneSpec => HistoriesGrow
<1>1. JournalInv => OneHistory
  BY HistoriesAgree
<1>2. JournalInv /\ [CloneNext]_cloneVars =>
         [\A c \in Clones : /\ Lines(copies[c]) \subseteq Lines(copies'[c])
                            /\ Order(copies[c]) \subseteq Order(copies'[c])]_cloneVars
  BY StepGrows DEF Extends
<1>3. QED
  BY <1>1, <1>2, JournalsInvariant, PTL DEF CloneSpec, HistoriesGrow
=============================================================================
