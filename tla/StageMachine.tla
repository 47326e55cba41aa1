---------------------------- MODULE StageMachine ----------------------------
(***************************************************************************)
(* The production state machine of one bundle: the journal, its replay     *)
(* (packages/core/src/Fold.ts), the guard on stage changes                 *)
(* (packages/core/src/Machine.ts), and the doors that use them -- the CLI  *)
(* (packages/cli/src/commands/Advance.ts, ReviewRequest.ts,                *)
(* ReviewResolve.ts) and the server's POST /api/events (handlePostEvent in *)
(* packages/cli/src/server/Server.ts).                                     *)
(*                                                                         *)
(* A door reads the journal, checks its request against what it read,      *)
(* writes the new stage into skill.json, and appends the event; doors are  *)
(* processes or concurrent requests of one, nothing locks the journal, and *)
(* any of them can die in between. A request that a guard refuses changes  *)
(* nothing and is not a step.                                              *)
(***************************************************************************)
EXTENDS Integers, Sequences, FiniteSets

CONSTANTS
    Doors,         \* who may have a request in flight; "cli" is the command line
    STAGES,        \* the ladder: idea, researching, drafting, evaluating, published
    MaxEvents,     \* bound: no request is taken once the journal is so long
    MaxOverrides   \* bound: no override is asked for once there are so many

ASSUME ConstantsAssumption ==
    /\ STAGES \in Seq(STRING) \ {<<>>}
    /\ MaxEvents \in Nat
    /\ MaxOverrides \in Nat

\* A stage is its index on the ladder.
Stage == 1..Len(STAGES)
Idea == 1
Undeclared == 0
EntryStage == {s \in Stage : STAGES[s] \in {"drafting", "evaluating"}}

\* `reason` is "none", or a text somebody gave, or the text of the placement
\* at birth.
StageChange == [type : {"bundle.stage_changed"}, from : Stage, to : Stage,
                reason : {"none", "given", "entry"}, override : BOOLEAN]
Requested == [type : {"review.requested"}, state : Stage]
Resolved == [type : {"review.resolved"}, state : Stage,
             decision : {"approve", "revise"}]
Event == StageChange \union Requested \union Resolved

Request == [step : {"checked", "recorded"}, event : Event, read : Nat,
            written : BOOLEAN]
NoRequest == [step |-> "idle", read |-> 0]

VARIABLES
    journal,      \* this bundle's events in .skillmaker/events.jsonl
    declared,     \* skill.stage in its skill.json, Undeclared without the file
    request,      \* the request at each door: how far it has got, the event
                  \* it will append, how long the journal was when it read it,
                  \* if it wrote its stage
    outdated,     \* history: positions of events appended on an old reading
    unwritten,    \* history: positions of stage changes whose door missed
                  \*          the skill.json that is there
    interrupted   \* history: the stage in skill.json is that of a request
                  \*          whose event was not appended

vars == <<journal, declared, request, outdated, unwritten, interrupted>>

TypeOK ==
    /\ journal \in Seq(Event)
    /\ declared \in Stage \union {Undeclared}
    /\ request \in [Doors -> Request \union {NoRequest}]
    /\ \A d \in Doors : request[d].read <= Len(journal)
    /\ outdated \in SUBSET (1..Len(journal))
    /\ unwritten \in SUBSET (1..Len(journal))
    /\ interrupted \in BOOLEAN
-----------------------------------------------------------------------------
Latest(S) == CHOOSE i \in S \union {0} : \A k \in S : k <= i

Changes(j) == {i \in 1..Len(j) : j[i].type = "bundle.stage_changed"}
LastChange(j) == Latest(Changes(j))
OverridesIn(j) == {i \in Changes(j) : j[i].override}

\* The fold. Reviews and stage changes do not touch each other's part of it.
StageOf(j) == IF LastChange(j) = 0 THEN Idea ELSE j[LastChange(j)].to

AwaitingReview(j) ==
    LET review == Latest(1..Len(j) \ Changes(j))
    IN  review # 0 /\ j[review].type = "review.requested"

\* An approved review of stage s, since the last stage change.
FaultAnyDecision(j, s) ==
    \E i \in (LastChange(j) + 1)..Len(j) :
        /\ j[i].type = "review.resolved"
        /\ j[i].state = s
FaultApprovedEver(j, s) ==
    \E i \in 1..Len(j) :
        /\ j[i].type = "review.resolved"
        /\ j[i].state = s
        /\ j[i].decision = "approve"
HasApprovedReview(j, s) ==
    \E i \in (LastChange(j) + 1)..Len(j) :
        /\ j[i].type = "review.resolved"
        /\ j[i].state = s
        /\ j[i].decision = "approve"

Forward(e) == e.to > e.from

\* checkTransition.
CheckTransition(j, e) ==
    \/ e.override
    \/ /\ e.from = StageOf(j)
       /\ \/ e.to < e.from /\ e.reason # "none"
          \/ e.to = e.from + 1 /\ HasApprovedReview(j, e.from)
-----------------------------------------------------------------------------
\* What may be asked for. The CLI moves the bundle from where it finds it; a
\* browser names the stage it was last shown -- the declared one where there
\* is one -- which may be out of date. (Nothing looks at the `from` and the
\* reason of an override, nor at a reason given with a forward move.)
Shown(d) ==
    IF d = "cli" THEN {StageOf(journal)}
    ELSE {StageOf(SubSeq(journal, 1, n)) : n \in 0..Len(journal)}
         \union ({declared} \ {Undeclared})

FaultPastTheTop == 1..(Len(STAGES) + 1)
Destination == Stage

Asked(d) ==
    {e \in [type : {"bundle.stage_changed"}, from : Shown(d), to : Destination,
            reason : {"none", "given"}, override : BOOLEAN] :
        /\ e.override => /\ Cardinality(OverridesIn(journal)) < MaxOverrides
                         /\ e.from = StageOf(journal) /\ e.reason = "none"
        /\ e.reason = "given" => e.to < e.from}

\* A second review request is refused by the CLI only. (Nothing looks at the
\* state of a request.) A review is resolved at the bundle's own stage, and
\* only when the bundle awaits it.
ReviewsAsked(d) ==
    {r \in [type : {"review.requested"}, state : {StageOf(journal)}] :
        d = "cli" => ~AwaitingReview(journal)}

Resolutions ==
    {r \in [type : {"review.resolved"}, state : {StageOf(journal)},
            decision : {"approve", "revise"}] : AwaitingReview(journal)}

Accepted(d) == {e \in Asked(d) : CheckTransition(journal, e)}

\* A new or migrated bundle declares its stage; an adopted one has no
\* skill.json until it is migrated. An adopted bundle may be placed further on
\* the ladder by a first event no guard has seen, to drafting or evaluating by
\* what its SKILL.md holds, or where a human says.
Init ==
    /\ \/ journal = <<>>
       \/ journal \in {<<e>> : e \in
                [type : {"bundle.stage_changed"}, from : {Idea}, to : EntryStage,
                 reason : {"entry"}, override : {FALSE}]
                \union
                [type : {"bundle.stage_changed"}, from : {Idea},
                 to : Stage \ {Idea}, reason : {"given"}, override : {TRUE}]}
    /\ declared \in {Undeclared, StageOf(journal)}
    /\ request = [d \in Doors |-> NoRequest]
    /\ outdated = {} /\ unwritten = {} /\ interrupted = FALSE

\* The door has read the journal and found the request in order.
Check(d, e, next) ==
    /\ Len(journal) < MaxEvents
    /\ request[d] = NoRequest
    /\ request' = [request EXCEPT ![d] = [step |-> next, event |-> e,
                                         read |-> Len(journal), written |-> FALSE]]
    /\ UNCHANGED <<journal, declared, outdated, unwritten, interrupted>>

CheckStageChange(d) == \E e \in Accepted(d) : Check(d, e, "checked")
CheckReview(d) ==
    \E e \in ReviewsAsked(d) \union Resolutions : Check(d, e, "recorded")

\* A door may miss a skill.json that is there: the command line looks for it
\* at <skillsDir>/<slug> only, and a bundle may lie elsewhere; the server asks
\* the index where it lies, and if that fails takes it for a bundle without
\* files; and both pass over a file that is no JSON object.
MissesFile == declared # Undeclared

\* The artifact gate of the destination, on forward moves without override.
\* (The command line's looks where it looks for the bundle; the server's is
\* passed over when the bundle is not found.)
Gated(e) == Forward(e) /\ ~e.override
NewDeclaration(e) == IF declared = Undeclared THEN Undeclared ELSE e.to

FaultWriteFirst(e) == declared' = NewDeclaration(e)
WhenRefused(e) == UNCHANGED declared

\* The gate, and then the stage in skill.json, if there is one where the door
\* looks for it. The event is appended also if not.
WriteStage(d) ==
    /\ request[d].step = "checked"
    /\ \/ /\ declared' = NewDeclaration(request[d].event)
          /\ interrupted' = FALSE
          /\ request' = [request EXCEPT ![d].step = "recorded", ![d].written = TRUE]
       \/ /\ MissesFile
          /\ request' = [request EXCEPT ![d].step = "recorded"]
          /\ UNCHANGED <<declared, interrupted>>
       \/ /\ Gated(request[d].event)
          /\ WhenRefused(request[d].event)
          /\ request' = [request EXCEPT ![d] = NoRequest]
          /\ UNCHANGED interrupted
    /\ UNCHANGED <<journal, outdated, unwritten>>

\* The stage in skill.json may be that of a request that ends without an event.
HasWritten(d) == request[d].step = "recorded" /\ request[d].written

\* journal.append looks at nothing but the event itself and its idempotency
\* key. A browser may send one that is taken, by an earlier event of this
\* request or by any other event of the project's: the request is then
\* answered with that event, or with an error, and nothing is appended.
AppendEvent(d) ==
    /\ request[d].step = "recorded"
    /\ request' = [request EXCEPT ![d] = NoRequest]
    /\ \/ /\ journal' = Append(journal, request[d].event)
          /\ outdated' = IF request[d].read < Len(journal)
                         THEN outdated \union {Len(journal) + 1}
                         ELSE outdated
          /\ unwritten' = IF /\ request[d].event.type = "bundle.stage_changed"
                             /\ ~request[d].written
                          THEN unwritten \union {Len(journal) + 1}
                          ELSE unwritten
          /\ UNCHANGED interrupted
       \/ /\ d # "cli"
          /\ interrupted' = (interrupted \/ HasWritten(d))
          /\ UNCHANGED <<journal, outdated, unwritten>>
    /\ UNCHANGED declared

\* The process behind the door dies, or its append fails.
Crash(d) ==
    /\ request[d] # NoRequest
    /\ request' = [request EXCEPT ![d] = NoRequest]
    /\ interrupted' = (interrupted \/ HasWritten(d))
    /\ UNCHANGED <<journal, declared, outdated, unwritten>>

Next ==
    \E d \in Doors :
        \/ CheckStageChange(d)
        \/ CheckReview(d)
        \/ WriteStage(d)
        \/ AppendEvent(d)
        \/ Crash(d)

Spec == Init /\ [][Next]_vars
-----------------------------------------------------------------------------
\* What the guard table allows event i of the journal to be, given the events
\* before it.
LegalEvent(i) ==
    LET before == SubSeq(journal, 1, i - 1)
        e == journal[i]
    IN  CASE e.type = "bundle.stage_changed" ->
                 \/ e.override \/ e.reason = "entry"
                 \/ e.from > e.to /\ e.from = StageOf(before) /\ e.reason # "none"
                 \/ /\ e.to = e.from + 1
                    /\ e.from = StageOf(before)
                    /\ \E k \in 1..(i - 1) :
                          /\ journal[k] = [type |-> "review.resolved",
                                           state |-> e.from,
                                           decision |-> "approve"]
                          /\ \A m \in k..(i - 1) :
                                journal[m].type # "bundle.stage_changed"
          [] e.type = "review.requested" -> TRUE
          [] e.type = "review.resolved" ->
                 /\ e.state = StageOf(before)
                 /\ \E k \in 1..(i - 1) :
                       /\ journal[k].type = "review.requested"
                       /\ \A m \in k..(i - 1) :
                             journal[m].type # "review.resolved"

\* Whatever the doors do at the same time, the only events in the journal
\* that the guard table does not allow at their place are those a door
\* appended after another door had got in between its reading and its append.
LegalHistory ==
    \A i \in 1..Len(journal) : i \notin outdated => LegalEvent(i)

\* Even such an event rests on a decision somebody took: no forward move
\* without an override enters the journal before an approval of the stage it
\* leaves.
ForwardWasApproved ==
    \A i \in 1..Len(journal) :
        LET e == journal[i]
        IN  /\ e.type = "bundle.stage_changed"
            /\ ~e.override /\ e.reason # "entry" /\ e.to > e.from
            => \E k \in 1..(i - 1) :
                  journal[k] = [type |-> "review.resolved", state |-> e.from,
                                decision |-> "approve"]

\* What the ladder promises of a journal, at the same time.
HistoryIsSound == LegalHistory /\ ForwardWasApproved

\* The two records of the stage agree between requests: skill.json differs
\* from the replayed journal only after a request whose event was not appended,
\* because its door died between the two writes or its key was taken, or when
\* the last stage change was decided on an old reading, or by a door that did
\* not find the file -- and the next stage change that is written repairs that.
RecordAgrees ==
    (\A d \in Doors : request[d] = NoRequest) /\ declared # Undeclared =>
        \/ interrupted
        \/ LastChange(journal) \in outdated \union unwritten
        \/ declared = StageOf(journal)
=============================================================================
