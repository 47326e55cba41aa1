-------------------------- MODULE ChatTurnsProofs --------------------------
(***************************************************************************)
(* Proofs about ChatTurns, for any number of messages and any adapters:    *)
(* one turn at a time, no backlog in an idle session, production context   *)
(* on the first prompt only, no message sent twice the same way, and a     *)
(* session running just while a turn is, unless a steer failed alone. At   *)
(* its end, about ChatPanel: what a panel shows and restores is what       *)
(* happened in its sessions.                                               *)
(***************************************************************************)
EXTENDS ChatTurns, ChatPanel, FiniteSetTheorems, TLAPS

\* turnsInFlight counts the driver prompts that have not settled and, on an
\* adapter that answers them, the steered ones: the count never drifts.
TurnsCounted ==
    turnsInFlight =
        prompts + (IF promptQueueing THEN Cardinality(steers) ELSE 0)

\* Before the adapter is established nothing has been sent.
NothingSentEarly ==
    status = "starting" => prompts = 0 /\ steers = {} /\ promptsSent = 0

\* promptsSent is the number of prompts that reached the wire: the busy guard
\* never swallowed one that was counted.
WireCounted ==
    /\ promptsSent = Len(wire)
    /\ status = "running" => promptsSent # 0

\* What is queued or steered, or on the wire, was typed before the next
\* message.
HeldWasTyped == \A m \in queue \union steers : m < nextMessageSeq
SentWasTyped == \A i \in 1..Len(wire) : wire[i].msg < nextMessageSeq

\* A message whose turn was dispatched is neither queued nor being steered.
TurnIsFinal ==
    \A i \in 1..Len(wire) :
        wire[i].as = "turn" => wire[i].msg \notin queue \union steers

CountInv ==
    /\ TypeOK
    /\ HeldWasTyped
    /\ TurnsCounted
    /\ NothingSentEarly
    /\ WireCounted
    /\ OneTurnAtATime
    /\ NoIdleBacklog

WireInv ==
    /\ ContextOnFirstPromptOnly
    /\ SentWasTyped
    /\ TurnIsFinal
    /\ SentOnceEachWay
-----------------------------------------------------------------------------
\* Every nonempty set of naturals has a least element. (The sets 1..m are
\* well-founded under strict inclusion.)
LEMMA LeastNatural ==
    ASSUME NEW q \in SUBSET Nat, q # {}
    PROVE  \E m \in q : \A n \in q : m <= n
<1> DEFINE below == {1..m : m \in q}
<1>1. below \subseteq FiniteSubsetsOf(Nat)
  <2>1. \A m \in q : 1..m \subseteq Nat /\ IsFiniteSet(1..m)
    BY FS_Interval
  <2>2. QED
    BY <2>1 DEF FiniteSubsetsOf
<1>2. below # {}
  OBVIOUS
<1>3. PICK least \in below :
         \A s \in below : ~(<<s, least>> \in StrictSubsetOrdering(Nat))
  <2> HIDE DEF below
  <2>1. IsWellFoundedOn(StrictSubsetOrdering(Nat), FiniteSubsetsOf(Nat))
    BY FS_StrictSubsetOrderingWellFounded
  <2>2. QED
    BY <1>1, <1>2, <2>1, WFMin
<1>4. PICK m \in q : least = 1..m
  OBVIOUS
<1>5. ASSUME NEW n \in q, n < m
      PROVE  FALSE
  <2>1. 1..n \subseteq 1..m /\ m \in 1..m /\ m \notin 1..n
    BY <1>5
  <2>2. <<1..n, least>> \in StrictSubsetOrdering(Nat)
    BY <1>4, <2>1 DEF StrictSubsetOrdering
  <2>3. QED
    BY <1>3, <2>2
<1>6. QED
  BY <1>5

\* queue.shift() takes one of the queued messages.
LEMMA OldestIsQueued ==
    ASSUME NEW q \in SUBSET Message, q # {}
    PROVE  Oldest(q) \in q
<1>1. q \in SUBSET Nat
  BY ConstantsAssumption DEF Message
<1>2. \E m \in q : \A n \in q : m <= n
  BY <1>1, LeastNatural
<1>3. QED
  BY <1>2, Zenon DEF Oldest

\* The unanswered steers can be counted.
LEMMA SteersAreCounted ==
    ASSUME NEW S \in SUBSET Message
    PROVE  IsFiniteSet(S) /\ Cardinality(S) \in Nat
<1>1. IsFiniteSet(Message)
  BY FS_Interval, ConstantsAssumption DEF Message
<1>2. QED
  BY <1>1, FS_Subset, FS_CardinalityType

\* How the number of unanswered steers changes with one of them.
LEMMA SteerCardinality ==
    ASSUME NEW S \in SUBSET Message, NEW m \in Message
    PROVE  /\ m \in S => Cardinality(S \ {m}) = Cardinality(S) - 1
           /\ m \notin S => Cardinality(S \union {m}) = Cardinality(S) + 1
  BY SteersAreCounted, FS_AddElement, FS_RemoveElement
-----------------------------------------------------------------------------
\* A dispatched turn leaves the variables it writes well-typed.
LEMMA DispatchType ==
    ASSUME TypeOK, NEW m \in Message \union {Orientation},
           NEW context \in BOOLEAN, NEW inFlight \in Nat, NEW unsettled \in Nat,
           DispatchTurn(m, context, inFlight, unsettled)
    PROVE  /\ status' \in {"starting", "ready", "running"}
           /\ turnsInFlight' \in Nat
           /\ promptsSent' \in Nat
           /\ prompts' \in Nat
           /\ wire' \in Seq(Prompt)
<1>1. [msg |-> m, as |-> "turn", context |-> context] \in Prompt
  BY DEF Prompt
<1>2. QED
  BY <1>1 DEF TypeOK, DispatchTurn

\* So does a pump of the queue,
LEMMA PumpType ==
    ASSUME TypeOK, NEW st \in {"starting", "ready", "running"},
           NEW q \in SUBSET Message, NEW inFlight \in Nat,
           PumpQueue(st, q, inFlight)
    PROVE  /\ queue' \in SUBSET Message
           /\ status' \in {"starting", "ready", "running"}
           /\ turnsInFlight' \in Nat
           /\ promptsSent' \in Nat
           /\ prompts' \in Nat
           /\ wire' \in Seq(Prompt)
<1>1. CASE CanFlush(st, q)
  <2>1. Oldest(q) \in Message
    BY <1>1, OldestIsQueued DEF CanFlush
  <2>2. FirstPromptContext \in BOOLEAN /\ prompts \in Nat
    BY DEF FirstPromptContext, TypeOK
  <2>3. DispatchTurn(Oldest(q), FirstPromptContext, inFlight, prompts)
    BY <1>1 DEF PumpQueue, DeliverAsTurn
  <2>4. queue' \in SUBSET Message
    BY <1>1 DEF PumpQueue, Shift
  <2>5. QED
    BY <2>1, <2>2, <2>3, <2>4, DispatchType
<1>2. CASE ~CanFlush(st, q)
  BY <1>2 DEF PumpQueue, TypeOK
<1>3. QED
  BY <1>1, <1>2

\* and the end of a turn.
LEMMA FinishType ==
    ASSUME TypeOK, NEW unsettled \in Nat, FinishTurn(unsettled)
    PROVE  /\ queue' \in SUBSET Message
           /\ status' \in {"starting", "ready", "running"}
           /\ turnsInFlight' \in Nat
           /\ promptsSent' \in Nat
           /\ prompts' \in Nat
           /\ wire' \in Seq(Prompt)
<1>1. OneLess \in Nat
  BY DEF OneLess, TypeOK
<1>2. CASE AtBoundary /\ queue # {}
  <2>1. Oldest(queue) \in Message
    BY <1>2, OldestIsQueued DEF TypeOK
  <2>2. FirstPromptContext \in BOOLEAN
    BY DEF FirstPromptContext
  <2>3. /\ DispatchTurn(Oldest(queue), FirstPromptContext, OneLess, unsettled)
        /\ queue' = Shift(queue)
    BY <1>2 DEF FinishTurn, DeliverAsTurn
  <2>4. QED
    BY <1>1, <2>1, <2>2, <2>3, DispatchType DEF Shift, TypeOK
<1>3. CASE ~(AtBoundary /\ queue # {})
  BY <1>1, <1>3 DEF FinishTurn, TypeOK
<1>4. QED
  BY <1>2, <1>3

\* No step takes a variable out of its type.
LEMMA TypeStep == TypeOK /\ [Next]_vars => TypeOK'
<1> SUFFICES ASSUME TypeOK, [Next]_vars PROVE TypeOK'
  OBVIOUS
<1>1. CASE SessionReady
  <2>1. CASE DispatchTurn(Orientation, TRUE, turnsInFlight, prompts) /\ UNCHANGED queue
    BY <1>1, <2>1, DispatchType DEF SessionReady, TypeOK
  <2>2. CASE PumpQueue("ready", queue, turnsInFlight)
    BY <1>1, <2>2, PumpType DEF SessionReady, TypeOK
  <2>3. QED
    BY <1>1, <2>1, <2>2 DEF SessionReady
<1>2. CASE SendMessage
  <2> DEFINE m == nextMessageSeq
  <2>1. m \in Message /\ nextMessageSeq' \in 1..(MaxMessages + 1)
    BY <1>2, ConstantsAssumption DEF SendMessage, Message
  <2>2. CASE DeliverAsTurn(m, turnsInFlight, prompts) /\ UNCHANGED <<queue, steers>>
    BY <1>2, <2>1, <2>2, DispatchType
       DEF SendMessage, DeliverAsTurn, FirstPromptContext, TypeOK
  <2>3. CASE SteerLive(m)
    <3>1. [msg |-> m, as |-> "steer", context |-> FALSE] \in Prompt
      BY <2>1 DEF Prompt
    <3>2. QED
      BY <1>2, <2>1, <2>3, <3>1 DEF SendMessage, SteerLive, TypeOK
  <2>4. CASE PumpQueue(status, queue \union {m}, turnsInFlight) /\ UNCHANGED steers
    BY <1>2, <2>1, <2>4, PumpType DEF SendMessage, TypeOK
  <2>5. QED
    BY <1>2, <2>2, <2>3, <2>4 DEF SendMessage
<1>3. CASE TurnSettles
  <2>1. prompts - 1 \in Nat
    BY <1>3 DEF TurnSettles, TypeOK
  <2>2. QED
    BY <1>3, <2>1, FinishType DEF TurnSettles, TypeOK
<1>4. ASSUME NEW m \in Message, SteerAnswered(m) PROVE TypeOK'
  <2>1. CASE FinishTurn(prompts)
    BY <1>4, <2>1, FinishType DEF SteerAnswered, TypeOK
  <2>2. CASE PumpQueue(status, queue, turnsInFlight)
    BY <1>4, <2>2, PumpType DEF SteerAnswered, TypeOK
  <2>3. QED
    BY <1>4, <2>1, <2>2 DEF SteerAnswered
<1>5. ASSUME NEW m \in Message, SteerRefused(m) PROVE TypeOK'
  <2> DEFINE left == IF promptQueueing THEN OneLess ELSE turnsInFlight
             kept == IF live THEN queue \union {m} ELSE queue
  <2>1. left \in Nat /\ kept \in SUBSET Message
    BY DEF OneLess, TypeOK
  <2>2. PumpQueue(status, kept, left)
    BY <1>5 DEF SteerRefused
  <2>3. failedAlone' \in SUBSET Message
    BY <1>5 DEF SteerRefused, TypeOK
  <2> HIDE DEF left, kept
  <2>4. QED
    BY <1>5, <2>1, <2>2, <2>3, PumpType DEF SteerRefused, TypeOK
<1>6. CASE Close \/ FallsSilentOrGoesOn
  BY <1>6 DEF Close, FallsSilentOrGoesOn, TypeOK
<1>7. CASE UNCHANGED vars
  BY <1>7 DEF vars, TypeOK
<1>8. QED
  BY <1>1, <1>2, <1>3, <1>4, <1>5, <1>6, <1>7 DEF Next

\* A session begins well-typed.
LEMMA TypeInit == Init => TypeOK
<1> SUFFICES ASSUME Init PROVE TypeOK
  OBVIOUS
<1>1. live \in BOOLEAN /\ hung \in BOOLEAN
  BY DEF Init
<1>2. wire \in Seq(Prompt) /\ nextMessageSeq \in 1..(MaxMessages + 1)
  BY ConstantsAssumption DEF Init
<1>3. QED
  BY <1>1, <1>2 DEF Init, TypeOK

\* Type correctness, for every number of messages and every kind of adapter.
THEOREM TypeCorrect == Spec => []TypeOK
  BY TypeInit, TypeStep, PTL DEF Spec
-----------------------------------------------------------------------------
\* A turn is dispatched only when no driver prompt is unsettled, and on an
\* adapter that answers steers only when none of them is counted any more.
LEMMA DispatchCounts ==
    ASSUME CountInv, TypeOK', HeldWasTyped', NEW m, NEW context, NEW inFlight \in Nat,
           NEW unsettled \in Nat,
           unsettled = 0,
           inFlight = IF promptQueueing' THEN Cardinality(steers') ELSE 0,
           DispatchTurn(m, context, inFlight, unsettled)
    PROVE  CountInv'
<1>1. wire' = Append(wire, [msg |-> m, as |-> "turn", context |-> context])
  BY DEF DispatchTurn
<1>2. Len(wire') = Len(wire) + 1
  BY <1>1 DEF CountInv, TypeOK
<1>3. TurnsCounted'
  BY DEF DispatchTurn, TurnsCounted
<1>4. WireCounted'
  BY <1>2 DEF DispatchTurn, WireCounted, CountInv, TypeOK
<1>5. status' = "running" /\ prompts' = 1
  BY DEF DispatchTurn
<1>6. NothingSentEarly' /\ OneTurnAtATime' /\ NoIdleBacklog'
  BY <1>5 DEF NothingSentEarly, OneTurnAtATime, NoIdleBacklog
<1>7. QED
  BY <1>3, <1>4, <1>6 DEF CountInv

\* A step holds back or steers only messages that it held already, and the
\* one that is being typed.
LEMMA HeldStep == TypeOK /\ HeldWasTyped /\ [Next]_vars => HeldWasTyped'
<1> SUFFICES ASSUME TypeOK, HeldWasTyped, [Next]_vars PROVE HeldWasTyped'
  OBVIOUS
<1> USE DEF HeldWasTyped
<1>1. ASSUME NEW st, NEW q, NEW inFlight, PumpQueue(st, q, inFlight)
      PROVE  queue' \subseteq q
  BY <1>1 DEF PumpQueue, Shift
<1>2. ASSUME NEW unsettled, FinishTurn(unsettled)
      PROVE  queue' \subseteq queue
  BY <1>2 DEF FinishTurn, Shift
<1>3. CASE SessionReady
  BY <1>1, <1>3 DEF SessionReady
<1>4. CASE SendMessage
  <2>1. /\ queue' \subseteq queue \union {nextMessageSeq}
        /\ steers' \subseteq steers \union {nextMessageSeq}
    BY <1>1, <1>4 DEF SendMessage, SteerLive
  <2>2. nextMessageSeq' = nextMessageSeq + 1 /\ nextMessageSeq \in Nat
    BY <1>4, ConstantsAssumption DEF SendMessage, Message
  <2>3. \A m \in queue \union steers : m \in Nat
    BY ConstantsAssumption DEF TypeOK, Message
  <2>4. QED
    BY <2>1, <2>2, <2>3
<1>5. CASE TurnSettles
  BY <1>2, <1>5 DEF TurnSettles
<1>6. ASSUME NEW m \in Message, SteerAnswered(m) PROVE HeldWasTyped'
  BY <1>1, <1>2, <1>6 DEF SteerAnswered
<1>7. ASSUME NEW m \in Message, SteerRefused(m) PROVE HeldWasTyped'
  BY <1>1, <1>7 DEF SteerRefused
<1>8. CASE Close \/ FallsSilentOrGoesOn \/ UNCHANGED vars
  BY <1>8 DEF Close, FallsSilentOrGoesOn, vars
<1>9. QED
  BY <1>3, <1>4, <1>5, <1>6, <1>7, <1>8 DEF Next

\* No step lets the count drift from what is outstanding.
LEMMA CountStep == CountInv /\ [Next]_vars => CountInv'
<1> SUFFICES ASSUME CountInv, [Next]_vars PROVE CountInv'
  OBVIOUS
<1>0. TypeOK /\ TypeOK' /\ HeldWasTyped'
  BY TypeStep, HeldStep DEF CountInv
<1> USE <1>0
<1>x. Cardinality(steers) \in Nat /\ Cardinality(steers') \in Nat
  BY SteersAreCounted DEF TypeOK
<1>1. CASE SessionReady
  <2>1. prompts = 0 /\ steers = {} /\ turnsInFlight = 0 /\ promptsSent = 0
    BY <1>1, SteerCardinality, FS_EmptySet
       DEF SessionReady, CountInv, NothingSentEarly, TurnsCounted
  <2>2. steers' = {} /\ promptQueueing' = promptQueueing /\ live' = live
    BY <1>1, <2>1 DEF SessionReady, promptQueueing
  <2>3. turnsInFlight = IF promptQueueing' THEN Cardinality(steers') ELSE 0
    BY <2>1, <2>2, FS_EmptySet
  <2>4. CASE DispatchTurn(Orientation, TRUE, turnsInFlight, prompts)
    BY <2>1, <2>3, <2>4, DispatchCounts DEF TypeOK
  <2>5. CASE PumpQueue("ready", queue, turnsInFlight) /\ CanFlush("ready", queue)
    BY <2>1, <2>3, <2>5, DispatchCounts DEF PumpQueue, DeliverAsTurn, TypeOK
  <2>6. CASE PumpQueue("ready", queue, turnsInFlight) /\ ~CanFlush("ready", queue)
    <3>1. /\ queue' = queue /\ status' = "ready"
          /\ UNCHANGED <<turnsInFlight, promptsSent, prompts, wire>>
          /\ live => queue = {}
      BY <2>6 DEF PumpQueue, CanFlush
    <3>2. TurnsCounted' /\ NothingSentEarly' /\ WireCounted'
      BY <2>1, <2>2, <2>3, <3>1
         DEF CountInv, TurnsCounted, NothingSentEarly, WireCounted
    <3>3. OneTurnAtATime' /\ NoIdleBacklog'
      BY <2>1, <2>2, <3>1 DEF OneTurnAtATime, NoIdleBacklog
    <3>4. QED
      BY <3>2, <3>3 DEF CountInv
  <2>7. QED
    BY <1>1, <2>4, <2>5, <2>6 DEF SessionReady
<1>2. CASE SendMessage
  <2>1. CASE /\ queue = {} /\ status = "ready"
             /\ DeliverAsTurn(nextMessageSeq, turnsInFlight, prompts)
             /\ UNCHANGED <<queue, steers>>
    <3>1. prompts = 0 /\ turnsInFlight = 0
      BY <1>2, <2>1 DEF SendMessage, CountInv, NoIdleBacklog
    <3>2. promptQueueing' = promptQueueing /\ steers' = steers
      BY <1>2, <2>1 DEF SendMessage, promptQueueing
    <3>3. turnsInFlight = IF promptQueueing' THEN Cardinality(steers') ELSE 0
      BY <1>x, <3>1, <3>2 DEF CountInv, TurnsCounted
    <3>4. QED
      BY <2>1, <3>1, <3>3, DispatchCounts DEF DeliverAsTurn, TypeOK
  <2>2. CASE queue = {} /\ status = "running" /\ SteerLive(nextMessageSeq)
    <3>1. nextMessageSeq \in Message /\ nextMessageSeq \notin steers
      BY <1>2 DEF SendMessage, CountInv, HeldWasTyped, TypeOK
    <3>2. Cardinality(steers') = Cardinality(steers) + 1
      BY <2>2, <3>1, SteerCardinality DEF SteerLive, TypeOK
    <3>3. promptQueueing' = promptQueueing
      BY <1>2 DEF SendMessage, promptQueueing
    <3>4. TurnsCounted'
      BY <1>x, <2>2, <3>2, <3>3 DEF CountInv, TurnsCounted, SteerLive, TypeOK
    <3>5. WireCounted'
      BY <2>2 DEF CountInv, WireCounted, SteerLive, TypeOK
    <3>6. NothingSentEarly' /\ OneTurnAtATime' /\ NoIdleBacklog'
      BY <2>2 DEF CountInv, SteerLive, NothingSentEarly, OneTurnAtATime,
                  NoIdleBacklog
    <3>7. QED
      BY <3>4, <3>5, <3>6 DEF CountInv
  <2>3. CASE /\ queue # {} \/ status = "starting"
             /\ PumpQueue(status, queue \union {nextMessageSeq}, turnsInFlight)
             /\ UNCHANGED steers
    <3>1. ~CanFlush(status, queue \union {nextMessageSeq})
      BY <1>2, <2>3 DEF SendMessage, CanFlush, CountInv, NoIdleBacklog
    <3>2. UNCHANGED <<live, status, adapter, turnsInFlight, promptsSent,
                      prompts, steers, wire>>
      BY <1>2, <2>3, <3>1 DEF SendMessage, PumpQueue
    <3>3. live /\ status # "ready"
      BY <1>2, <2>3 DEF SendMessage, CountInv, NoIdleBacklog
    <3>4. QED
      BY <3>2, <3>3 DEF CountInv, TurnsCounted, NothingSentEarly, WireCounted,
                        OneTurnAtATime, NoIdleBacklog, promptQueueing
  <2>4. QED
    BY <1>2, <2>1, <2>2, <2>3 DEF SendMessage
<1>3. ASSUME NEW unsettled \in Nat, FinishTurn(unsettled),
             UNCHANGED <<live, adapter>>,
             turnsInFlight > 0, unsettled <= 1,
             turnsInFlight - 1 =
                unsettled + IF promptQueueing THEN Cardinality(steers') ELSE 0,
             status # "starting"
      PROVE  CountInv'
  <2>1. OneLess = turnsInFlight - 1 /\ promptQueueing' = promptQueueing
    BY <1>3 DEF OneLess, promptQueueing, TypeOK
  <2>2. CASE AtBoundary /\ queue # {}
    <3>1. /\ unsettled = 0
          /\ OneLess = IF promptQueueing' THEN Cardinality(steers') ELSE 0
      BY <1>x, <1>3, <2>1, <2>2 DEF AtBoundary
    <3>2. DispatchTurn(Oldest(queue), FirstPromptContext, OneLess, unsettled)
      BY <1>3, <2>2 DEF FinishTurn, DeliverAsTurn
    <3>3. OneLess \in Nat
      BY <1>3, <2>1 DEF TypeOK
    <3>4. QED
      BY <3>1, <3>2, <3>3, DispatchCounts
  <2>3. CASE ~AtBoundary \/ queue = {}
    <3>1. /\ prompts' = unsettled /\ turnsInFlight' = OneLess
          /\ UNCHANGED <<queue, promptsSent, wire>>
          /\ status' # "starting"
          /\ status' = "running" => status = "running"
      BY <1>3, <2>3 DEF FinishTurn
    <3>2. TurnsCounted' /\ OneTurnAtATime'
      BY <1>3, <2>1, <3>1 DEF TurnsCounted, OneTurnAtATime
    <3>3. NothingSentEarly' /\ WireCounted'
      BY <3>1 DEF CountInv, NothingSentEarly, WireCounted
    <3>4. NoIdleBacklog'
      <4>1. CASE AtBoundary
        <5>1. queue = {} /\ OneLess = 0
          BY <2>3, <4>1 DEF AtBoundary
        <5>2. unsettled = 0
          BY <1>x, <1>3, <2>1, <5>1
        <5>3. QED
          BY <3>1, <5>1, <5>2 DEF NoIdleBacklog
      <4>2. CASE ~AtBoundary
        BY <1>3, <3>1, <4>2 DEF FinishTurn, CountInv, NoIdleBacklog
      <4>3. QED
        BY <4>1, <4>2
    <3>5. QED
      BY <3>2, <3>3, <3>4 DEF CountInv
  <2>4. QED
    BY <2>2, <2>3
<1>4. CASE TurnSettles
  <2>1. /\ prompts = 1 /\ prompts - 1 = 0
        /\ FinishTurn(prompts - 1)
        /\ UNCHANGED <<live, adapter, steers>>
    BY <1>4 DEF TurnSettles, CountInv, OneTurnAtATime, TypeOK
  <2>2. turnsInFlight = 1 + IF promptQueueing THEN Cardinality(steers') ELSE 0
    BY <2>1 DEF CountInv, TurnsCounted
  <2>3. status # "starting"
    BY <2>1 DEF CountInv, NothingSentEarly
  <2>4. QED
    BY <1>x, <1>3, <2>1, <2>2, <2>3 DEF TypeOK
<1>5. ASSUME NEW q, NEW inFlight \in Nat, PumpQueue(status, q, inFlight),
             UNCHANGED <<live, adapter>>,
             inFlight =
                prompts + IF promptQueueing THEN Cardinality(steers') ELSE 0,
             live /\ status = "ready" => inFlight = 0,
             status # "starting"
      PROVE  CountInv'
  <2>1. promptQueueing' = promptQueueing
    BY <1>5 DEF promptQueueing
  <2>2. CASE CanFlush(status, q)
    <3>1. /\ prompts = 0
          /\ inFlight = IF promptQueueing' THEN Cardinality(steers') ELSE 0
      BY <1>x, <1>5, <2>1, <2>2 DEF CanFlush, CountInv, NoIdleBacklog
    <3>2. DispatchTurn(Oldest(q), FirstPromptContext, inFlight, prompts)
      BY <1>5, <2>2 DEF PumpQueue, DeliverAsTurn
    <3>3. QED
      BY <1>5, <3>1, <3>2, DispatchCounts DEF TypeOK
  <2>3. CASE ~CanFlush(status, q)
    <3>1. /\ queue' = q /\ turnsInFlight' = inFlight
          /\ UNCHANGED <<status, promptsSent, prompts, wire>>
          /\ live /\ status = "ready" => q = {}
      BY <1>5, <2>3 DEF PumpQueue, CanFlush
    <3>2. TurnsCounted' /\ OneTurnAtATime' /\ NoIdleBacklog'
      BY <1>5, <2>1, <3>1
         DEF CountInv, TurnsCounted, OneTurnAtATime, NoIdleBacklog
    <3>3. NothingSentEarly' /\ WireCounted'
      BY <1>5, <3>1 DEF CountInv, NothingSentEarly, WireCounted
    <3>4. QED
      BY <3>2, <3>3 DEF CountInv
  <2>4. QED
    BY <2>2, <2>3
<1>6. ASSUME NEW m \in Message, m \in steers, steers' = steers \ {m}
      PROVE  /\ Cardinality(steers') = Cardinality(steers) - 1
             /\ status # "starting"
             /\ promptQueueing =>
                    /\ turnsInFlight > 0
                    /\ turnsInFlight - 1 = prompts + Cardinality(steers')
             /\ ~promptQueueing => turnsInFlight = prompts
             /\ live /\ status = "ready" => turnsInFlight = 0
             /\ prompts \in Nat /\ prompts <= 1 /\ turnsInFlight \in Nat
  <2>1. Cardinality(steers') = Cardinality(steers) - 1
    BY <1>6, SteerCardinality DEF TypeOK
  <2>2. status # "starting"
    BY <1>6 DEF CountInv, NothingSentEarly
  <2>3. prompts \in Nat /\ prompts <= 1 /\ turnsInFlight \in Nat
    BY DEF CountInv, OneTurnAtATime, TypeOK
  <2>4. live /\ status = "ready" => turnsInFlight = 0
    BY DEF CountInv, NoIdleBacklog
  <2>5. turnsInFlight =
            prompts + IF promptQueueing THEN Cardinality(steers) ELSE 0
    BY DEF CountInv, TurnsCounted
  <2>6. QED
    BY <1>x, <2>1, <2>2, <2>3, <2>4, <2>5
<1>7. ASSUME NEW m \in Message, SteerAnswered(m) PROVE CountInv'
  <2>1. m \in steers /\ steers' = steers \ {m} /\ UNCHANGED <<live, adapter>>
    BY <1>7 DEF SteerAnswered
  <2>2. CASE promptQueueing
    <3>1. FinishTurn(prompts)
      BY <1>7, <2>2 DEF SteerAnswered
    <3>2. QED
      BY <1>3, <1>6, <2>1, <2>2, <3>1
  <2>3. CASE ~promptQueueing
    <3>1. PumpQueue(status, queue, turnsInFlight)
      BY <1>7, <2>3 DEF SteerAnswered
    <3>2. QED
      BY <1>5, <1>6, <2>1, <2>3, <3>1
  <2>4. QED
    BY <2>2, <2>3
<1>8. ASSUME NEW m \in Message, SteerRefused(m) PROVE CountInv'
  <2> DEFINE left == IF promptQueueing THEN OneLess ELSE turnsInFlight
             kept == IF live THEN queue \union {m} ELSE queue
  <2>1. m \in steers /\ steers' = steers \ {m} /\ UNCHANGED <<live, adapter>>
    BY <1>8 DEF SteerRefused
  <2>2. PumpQueue(status, kept, left)
    BY <1>8 DEF SteerRefused
  <2>3. /\ left \in Nat
        /\ left = prompts + IF promptQueueing THEN Cardinality(steers') ELSE 0
        /\ live /\ status = "ready" => left = 0
    <3>1. CASE promptQueueing
      <4>1. /\ turnsInFlight \in Nat /\ turnsInFlight > 0
            /\ turnsInFlight - 1 = prompts + Cardinality(steers')
            /\ ~(live /\ status = "ready")
        BY <1>6, <2>1, <3>1
      <4>2. OneLess = turnsInFlight - 1 /\ OneLess \in Nat
        BY <4>1 DEF OneLess
      <4>3. QED
        BY <3>1, <4>1, <4>2
    <3>2. CASE ~promptQueueing
      <4>1. left = turnsInFlight /\ turnsInFlight = prompts
        BY <1>6, <2>1, <3>2
      <4>2. prompts = prompts + IF promptQueueing THEN Cardinality(steers') ELSE 0
        BY <3>2 DEF TypeOK
      <4>3. QED
        BY <1>6, <2>1, <4>1, <4>2
    <3>3. QED
      BY <3>1, <3>2
  <2> HIDE DEF left, kept
  <2>4. QED
    BY <1>5, <1>6, <2>1, <2>2, <2>3
<1>9. CASE Close \/ FallsSilentOrGoesOn \/ UNCHANGED vars
  BY <1>9 DEF Close, FallsSilentOrGoesOn, vars, CountInv, TurnsCounted, NothingSentEarly, WireCounted,
              OneTurnAtATime, NoIdleBacklog, promptQueueing
<1>10. QED
  BY <1>1, <1>2, <1>4, <1>7, <1>8, <1>9 DEF Next

\* Nothing is outstanding at first.
LEMMA CountInit == Init => CountInv
<1> SUFFICES ASSUME Init PROVE CountInv
  OBVIOUS
<1>1. Cardinality({}) = 0
  BY FS_EmptySet
<1>2. QED
  BY <1>1, TypeInit
     DEF Init, CountInv, HeldWasTyped, TurnsCounted, NothingSentEarly,
         WireCounted, OneTurnAtATime, NoIdleBacklog

\* The count is right in every reachable state.
LEMMA CountInvariant == Spec => []CountInv
  BY CountInit, CountStep, PTL DEF Spec

\* The busy guard never swallows a message, for any number of messages.
THEOREM OneTurn == Spec => []OneTurnAtATime
<1>1. CountInv => OneTurnAtATime
  BY DEF CountInv
<1>2. QED
  BY <1>1, CountInvariant, PTL

\* A session that reports `ready` has nothing outstanding and nothing queued.
THEOREM NoBacklog == Spec => []NoIdleBacklog
<1>1. CountInv => NoIdleBacklog
  BY DEF CountInv
<1>2. QED
  BY <1>1, CountInvariant, PTL
-----------------------------------------------------------------------------
\* Messages held after the step were held before it, or are new, and no
\* message is both queued and steered.
Held == queue \union steers
HeldOrNew ==
    /\ \A m \in Held' : m \in Held \/ m = nextMessageSeq
    /\ queue' \intersect steers' = {}
    /\ nextMessageSeq' \in {nextMessageSeq, nextMessageSeq + 1}

\* The messages of the wire are numbers.
LEMMA WireTypes == TypeOK => \A i \in 1..Len(wire) : wire[i].msg \in Int
<1> SUFFICES ASSUME TypeOK, NEW i \in 1..Len(wire) PROVE wire[i].msg \in Int
  OBVIOUS
<1>1. wire[i] \in Prompt
  BY DEF TypeOK
<1>2. wire[i].msg \in Message \union {Orientation}
  BY <1>1 DEF Prompt
<1>3. QED
  BY <1>2, ConstantsAssumption DEF Message, Orientation

\* A step that writes nothing to the wire.
LEMMA NothingSent ==
    ASSUME CountInv, WireInv, TypeOK', HeldOrNew, wire' = wire
    PROVE  WireInv'
<1>1. /\ nextMessageSeq \in Nat /\ nextMessageSeq' \in Nat
      /\ wire \in Seq(Prompt)
      /\ \A i \in 1..Len(wire) : wire[i].msg < nextMessageSeq
                                 /\ wire[i].msg \in Int
  BY WireTypes DEF CountInv, TypeOK, WireInv, SentWasTyped
<1>2. ContextOnFirstPromptOnly' /\ SentOnceEachWay'
  BY DEF WireInv, ContextOnFirstPromptOnly, SentOnceEachWay, HeldOrNew
<1>3. SentWasTyped'
  BY <1>1 DEF HeldOrNew, SentWasTyped
<1>4. TurnIsFinal'
  BY <1>1 DEF WireInv, TurnIsFinal, HeldOrNew, Held
<1>5. QED
  BY <1>2, <1>3, <1>4 DEF WireInv

\* A step that writes message m to the wire, in a way it was not sent before.
LEMMA OneSent ==
    ASSUME CountInv, WireInv, TypeOK', HeldOrNew,
           NEW e \in Prompt, wire' = Append(wire, e),
           e.context <=> promptsSent = 0,
           e.msg < nextMessageSeq',
           \A i \in 1..Len(wire) : ~(wire[i].msg = e.msg /\ wire[i].as = e.as),
           e.as = "turn" => e.msg \notin Held'
    PROVE  WireInv'
<1>1. /\ nextMessageSeq \in Nat /\ nextMessageSeq' \in Nat
      /\ wire \in Seq(Prompt)
      /\ \A i \in 1..Len(wire) : wire[i].msg < nextMessageSeq
                                 /\ wire[i].msg \in Int
  BY WireTypes DEF CountInv, TypeOK, WireInv, SentWasTyped
<1>2. /\ Len(wire') = Len(wire) + 1 /\ Len(wire) \in Nat
      /\ wire'[Len(wire')] = e
      /\ \A i \in 1..Len(wire) : wire'[i] = wire[i]
  BY <1>1
<1>3. promptsSent = 0 <=> Len(wire) = 0
  BY DEF CountInv, WireCounted
<1>4. ContextOnFirstPromptOnly'
  BY <1>2, <1>3 DEF WireInv, ContextOnFirstPromptOnly
<1>5. SentWasTyped'
  BY <1>1, <1>2 DEF HeldOrNew, SentWasTyped
<1>6. TurnIsFinal'
  BY <1>1, <1>2 DEF WireInv, TurnIsFinal, HeldOrNew, Held
<1>7. SentOnceEachWay'
  BY <1>1, <1>2 DEF WireInv, SentOnceEachWay, HeldOrNew
<1>8. QED
  BY <1>4, <1>5, <1>6, <1>7 DEF WireInv

\* A message that is held, or just typed, becomes a turn.
LEMMA TurnSent ==
    ASSUME CountInv, WireInv, CountInv', HeldOrNew,
           NEW m \in Message, m \in Held \/ m = nextMessageSeq,
           m \notin Held', m < nextMessageSeq',
           NEW inFlight, NEW unsettled \in Nat,
           DispatchTurn(m, FirstPromptContext, inFlight, unsettled)
    PROVE  WireInv'
<1> DEFINE e == [msg |-> m, as |-> "turn", context |-> FirstPromptContext]
<1>1. e \in Prompt
  BY DEF Prompt, FirstPromptContext
<1>2. unsettled = 0
  BY DEF DispatchTurn, CountInv, OneTurnAtATime
<1>3. wire' = Append(wire, e)
  BY <1>2 DEF DispatchTurn
<1>4. \A i \in 1..Len(wire) : ~(wire[i].msg = m /\ wire[i].as = "turn")
  <2>1. \A i \in 1..Len(wire) : wire[i].msg # nextMessageSeq
    BY DEF WireInv, SentWasTyped, CountInv, TypeOK
  <2>2. QED
    BY <2>1 DEF WireInv, TurnIsFinal, Held
<1>5. e.msg = m /\ e.as = "turn" /\ (e.context <=> promptsSent = 0)
  BY DEF FirstPromptContext
<1>6. TypeOK'
  BY DEF CountInv
<1> HIDE DEF e
<1>7. QED
  BY <1>1, <1>3, <1>4, <1>5, <1>6, OneSent

\* pumpQueue leaves the wire in order,
LEMMA PumpWire ==
    ASSUME CountInv, WireInv, CountInv',
           NEW st, NEW q \in SUBSET Message, NEW inFlight,
           PumpQueue(st, q, inFlight),
           \A m \in q \union steers' : m \in Held \/ m = nextMessageSeq,
           \A m \in q : m < nextMessageSeq',
           q \intersect steers' = {},
           nextMessageSeq' \in {nextMessageSeq, nextMessageSeq + 1}
    PROVE  WireInv'
<1>1. queue' \subseteq q
  BY DEF PumpQueue, Shift
<1>2. HeldOrNew
  BY <1>1 DEF HeldOrNew, Held
<1>3. CASE CanFlush(st, q)
  <2>1. /\ DispatchTurn(Oldest(q), FirstPromptContext, inFlight, prompts)
        /\ queue' = q \ {Oldest(q)}
    BY <1>3 DEF PumpQueue, DeliverAsTurn, Shift
  <2>2. Oldest(q) \in q
    BY <1>3, OldestIsQueued DEF CanFlush
  <2>3. Oldest(q) \notin Held'
    BY <2>1, <2>2 DEF Held
  <2>4. prompts \in Nat
    BY DEF CountInv, TypeOK
  <2>5. QED
    BY <1>2, <2>1, <2>2, <2>3, <2>4, TurnSent
<1>4. CASE ~CanFlush(st, q)
  BY <1>2, <1>4, NothingSent DEF PumpQueue, CountInv
<1>5. QED
  BY <1>3, <1>4

\* and so does finishTurn.
LEMMA FinishWire ==
    ASSUME CountInv, WireInv, CountInv', NEW unsettled \in Nat,
           FinishTurn(unsettled),
           steers' \subseteq steers,
           nextMessageSeq' = nextMessageSeq
    PROVE  WireInv'
<1>1. HeldOrNew
  BY DEF FinishTurn, Shift, HeldOrNew, Held, WireInv, SentOnceEachWay
<1>2. CASE AtBoundary /\ queue # {}
  <2>1. /\ DispatchTurn(Oldest(queue), FirstPromptContext, OneLess, unsettled)
        /\ queue' = queue \ {Oldest(queue)}
    BY <1>2 DEF FinishTurn, DeliverAsTurn, Shift
  <2>2. Oldest(queue) \in queue /\ Oldest(queue) \in Message
    BY <1>2, OldestIsQueued DEF CountInv, TypeOK
  <2>3. Oldest(queue) \notin Held'
    BY <2>1, <2>2 DEF Held, WireInv, SentOnceEachWay
  <2>4. Oldest(queue) < nextMessageSeq'
    BY <2>2 DEF CountInv, HeldWasTyped
  <2>5. QED
    BY <1>1, <2>1, <2>2, <2>3, <2>4, TurnSent DEF Held
<1>3. CASE ~(AtBoundary /\ queue # {})
  BY <1>1, <1>3, NothingSent DEF FinishTurn, CountInv
<1>4. QED
  BY <1>2, <1>3

\* What is on the wire stays in order, whatever the step.
LEMMA WireStep == CountInv /\ WireInv /\ [Next]_vars => WireInv'
<1> SUFFICES ASSUME CountInv, WireInv, [Next]_vars PROVE WireInv'
  OBVIOUS
<1>0. CountInv' /\ TypeOK /\ TypeOK'
  BY CountStep DEF CountInv
<1>h. /\ \A m \in Held : m < nextMessageSeq
      /\ queue \intersect steers = {}
      /\ queue \in SUBSET Message
  BY <1>0 DEF CountInv, HeldWasTyped, WireInv, SentOnceEachWay, Held, TypeOK
<1>1. CASE SessionReady
  <2>1. prompts = 0 /\ promptsSent = 0
    BY <1>1 DEF SessionReady, CountInv, NothingSentEarly
  <2>2. CASE DispatchTurn(Orientation, TRUE, turnsInFlight, prompts) /\ UNCHANGED queue
    <3> DEFINE e == [msg |-> Orientation, as |-> "turn", context |-> TRUE]
    <3>1. wire' = Append(wire, e)
      BY <2>1, <2>2 DEF DispatchTurn
    <3>2. e \in Prompt /\ Orientation \notin Held'
      BY <1>0, <1>1, <2>2, ConstantsAssumption
         DEF Prompt, Held, TypeOK, Message, Orientation
    <3>3. Len(wire) = 0
      BY <2>1 DEF CountInv, WireCounted
    <3>4. HeldOrNew
      BY <1>1, <1>h, <2>2 DEF SessionReady, HeldOrNew, Held
    <3>5. e.msg < nextMessageSeq'
      BY <1>0 DEF TypeOK, Orientation
    <3>6. QED
      BY <1>0, <2>1, <3>1, <3>2, <3>3, <3>4, <3>5, OneSent
  <2>3. CASE PumpQueue("ready", queue, turnsInFlight)
    BY <1>0, <1>1, <1>h, <2>3, PumpWire DEF SessionReady, Held
  <2>4. QED
    BY <1>1, <2>2, <2>3 DEF SessionReady
<1>2. CASE SendMessage
  <2>1. /\ nextMessageSeq \in Message /\ nextMessageSeq' = nextMessageSeq + 1
        /\ nextMessageSeq \in Nat /\ nextMessageSeq \notin Held
    BY <1>0, <1>2, <1>h DEF SendMessage, TypeOK
  <2>2. CASE DeliverAsTurn(nextMessageSeq, turnsInFlight, prompts)
             /\ UNCHANGED <<queue, steers>>
    <3>1. HeldOrNew /\ nextMessageSeq \notin Held'
      BY <1>h, <2>1, <2>2 DEF HeldOrNew, Held
    <3>2. prompts \in Nat
      BY <1>0 DEF TypeOK
    <3>3. QED
      BY <1>0, <2>1, <2>2, <3>1, <3>2, TurnSent DEF DeliverAsTurn
  <2>3. CASE status = "running" /\ SteerLive(nextMessageSeq)
    <3> DEFINE e == [msg |-> nextMessageSeq, as |-> "steer", context |-> FALSE]
    <3>1. wire' = Append(wire, e) /\ e \in Prompt
      BY <2>1, <2>3 DEF SteerLive, Prompt
    <3>2. promptsSent # 0
      BY <2>3 DEF CountInv, WireCounted
    <3>3. HeldOrNew
      BY <1>h, <2>1, <2>3 DEF SteerLive, HeldOrNew, Held
    <3>4. \A i \in 1..Len(wire) : wire[i].msg # nextMessageSeq
      BY <2>1 DEF WireInv, SentWasTyped
    <3>5. QED
      BY <1>0, <2>1, <3>1, <3>2, <3>3, <3>4, OneSent
  <2>4. CASE PumpQueue(status, queue \union {nextMessageSeq}, turnsInFlight)
             /\ UNCHANGED steers
    <3> DEFINE q == queue \union {nextMessageSeq}
    <3>1. /\ q \in SUBSET Message
          /\ \A m \in q \union steers' : m \in Held \/ m = nextMessageSeq
          /\ \A m \in q : m < nextMessageSeq'
          /\ q \intersect steers' = {}
      BY <1>h, <2>1, <2>4, ConstantsAssumption DEF Held, Message
    <3> HIDE DEF q
    <3>2. QED
      BY <1>0, <2>1, <2>4, <3>1, PumpWire DEF q
  <2>5. QED
    BY <1>2, <2>2, <2>3, <2>4 DEF SendMessage
<1>3. CASE TurnSettles
  <2>1. prompts - 1 \in Nat
    BY <1>0, <1>3 DEF TurnSettles, TypeOK
  <2>2. QED
    BY <1>0, <1>3, <2>1, FinishWire DEF TurnSettles
<1>4. ASSUME NEW m \in Message, SteerAnswered(m) PROVE WireInv'
  <2>1. steers' \subseteq steers /\ nextMessageSeq' = nextMessageSeq
    BY <1>4 DEF SteerAnswered
  <2>2. CASE FinishTurn(prompts)
    BY <1>0, <2>1, <2>2, FinishWire DEF TypeOK
  <2>3. CASE PumpQueue(status, queue, turnsInFlight)
    BY <1>0, <1>h, <2>1, <2>3, PumpWire DEF Held
  <2>4. QED
    BY <1>4, <2>2, <2>3 DEF SteerAnswered
<1>5. ASSUME NEW m \in Message, SteerRefused(m) PROVE WireInv'
  <2> DEFINE left == IF promptQueueing THEN OneLess ELSE turnsInFlight
             kept == IF live THEN queue \union {m} ELSE queue
  <2>1. m \in steers /\ steers' = steers \ {m} /\ nextMessageSeq' = nextMessageSeq
    BY <1>5 DEF SteerRefused
  <2>2. PumpQueue(status, kept, left)
    BY <1>5 DEF SteerRefused
  <2>3. /\ kept \in SUBSET Message
        /\ \A n \in kept \union steers' : n \in Held
        /\ \A n \in kept : n < nextMessageSeq'
        /\ kept \intersect steers' = {}
    BY <1>h, <2>1 DEF Held
  <2> HIDE DEF left, kept
  <2>4. QED
    BY <1>0, <2>1, <2>2, <2>3, PumpWire
<1>6. CASE Close \/ FallsSilentOrGoesOn \/ UNCHANGED vars
  <2>1. wire' = wire /\ UNCHANGED <<queue, steers, nextMessageSeq>>
    BY <1>6 DEF Close, FallsSilentOrGoesOn, vars
  <2>2. HeldOrNew
    BY <1>h, <2>1 DEF HeldOrNew, Held
  <2>3. QED
    BY <1>0, <2>1, <2>2, NothingSent
<1>7. QED
  BY <1>1, <1>2, <1>3, <1>4, <1>5, <1>6 DEF Next

\* An empty wire is in order.
LEMMA WireInit == Init => WireInv
  BY DEF Init, WireInv, ContextOnFirstPromptOnly, SentWasTyped, TurnIsFinal,
         SentOnceEachWay

\* The wire is in order in every reachable state.
LEMMA WireInvariant == Spec => [](CountInv /\ WireInv)
  BY CountInit, CountStep, WireInit, WireStep, PTL DEF Spec

\* The production context rides on the first prompt and on no other.
THEOREM ContextFirst == Spec => []ContextOnFirstPromptOnly
<1>1. WireInv => ContextOnFirstPromptOnly
  BY DEF WireInv
<1>2. QED
  BY <1>1, WireInvariant, PTL

\* No message is sent twice the same way, or queued while it is being steered.
THEOREM SentOnce == Spec => []SentOnceEachWay
<1>1. WireInv => SentOnceEachWay
  BY DEF WireInv
<1>2. QED
  BY <1>1, WireInvariant, PTL

-----------------------------------------------------------------------------
\* A running session has a turn in flight, unless a counted steer failed alone;
\* then it has none, and will have none, but still holds the message.
RunningHasTurn ==
    live /\ status = "running" /\ failedAlone = {} => turnsInFlight > 0
StuckRuns ==
    live /\ failedAlone # {} =>
        status = "running" /\ turnsInFlight = 0 /\ queue # {}
RunInv == RunningHasTurn /\ StuckRuns

\* A dispatched turn keeps a session that was not stuck running,
LEMMA DispatchRuns ==
    ASSUME NEW m, NEW context, NEW inFlight \in Nat, NEW unsettled,
           DispatchTurn(m, context, inFlight, unsettled),
           live => failedAlone' = {}, live' = live
    PROVE  RunInv'
  BY DEF DispatchTurn, RunInv, RunningHasTurn, StuckRuns

\* so does the end of a turn that was counted,
LEMMA FinishRuns ==
    ASSUME TypeOK, RunInv, NEW unsettled, FinishTurn(unsettled),
           turnsInFlight > 0, UNCHANGED <<live, failedAlone>>
    PROVE  RunInv'
<1>1. live => failedAlone' = {}
  BY DEF RunInv, StuckRuns
<1>2. OneLess \in Nat
  BY DEF OneLess, TypeOK
<1>3. CASE AtBoundary /\ queue # {}
  BY <1>1, <1>2, <1>3, DispatchRuns DEF FinishTurn, DeliverAsTurn
<1>4. CASE ~(AtBoundary /\ queue # {})
  BY <1>1, <1>2, <1>4
     DEF FinishTurn, AtBoundary, RunInv, RunningHasTurn, StuckRuns
<1>5. QED
  BY <1>3, <1>4

\* and a pump of a queue that keeps what it had.
LEMMA PumpRuns ==
    ASSUME TypeOK, RunInv, NEW q, queue \subseteq q,
           PumpQueue(status, q, turnsInFlight), UNCHANGED <<live, failedAlone>>
    PROVE  RunInv'
<1>1. CASE CanFlush(status, q)
  <2>1. failedAlone' = {}
    BY <1>1 DEF CanFlush, RunInv, StuckRuns
  <2>2. QED
    BY <1>1, <2>1, DispatchRuns DEF PumpQueue, DeliverAsTurn, TypeOK
<1>2. CASE ~CanFlush(status, q)
  BY <1>2 DEF PumpQueue, RunInv, RunningHasTurn, StuckRuns
<1>3. QED
  BY <1>1, <1>2

\* While an answering adapter owes a steer, the session counts it.
LEMMA SteerIsCounted ==
    ASSUME CountInv, NEW m \in steers
    PROVE  /\ promptQueueing => turnsInFlight > 0
           /\ live /\ promptQueueing => status = "running"
<1>1. TypeOK
  BY DEF CountInv
<1>2. steers \in SUBSET Message /\ m \in Message
  BY <1>1 DEF TypeOK
<1>3. Cardinality(steers \ {m}) = Cardinality(steers) - 1
      /\ Cardinality(steers \ {m}) \in Nat
  BY <1>2, SteerCardinality, SteersAreCounted
<1>4. Cardinality(steers) \in Nat /\ Cardinality(steers) > 0
  BY <1>2, <1>3, SteersAreCounted
<1>5. promptQueueing => turnsInFlight > 0
  BY <1>1, <1>4 DEF CountInv, TurnsCounted, TypeOK
<1>6. status # "starting"
  BY DEF CountInv, NothingSentEarly
<1>7. QED
  BY <1>1, <1>5, <1>6 DEF CountInv, NoIdleBacklog, TypeOK

\* No step leaves a session running with nothing to run, but a counted steer
\* that fails alone.
LEMMA RunStep == CountInv /\ RunInv /\ [Next]_vars => RunInv'
<1> SUFFICES ASSUME CountInv, RunInv, [Next]_vars PROVE RunInv'
  OBVIOUS
<1>0. TypeOK /\ turnsInFlight \in Nat /\ prompts \in Nat
  BY DEF CountInv, TypeOK
<1>1. CASE SessionReady
  <2>1. UNCHANGED <<live, failedAlone>> /\ (live => failedAlone' = {})
    BY <1>1 DEF SessionReady, RunInv, StuckRuns
  <2>2. CASE DispatchTurn(Orientation, TRUE, turnsInFlight, prompts)
    BY <1>0, <2>1, <2>2, DispatchRuns
  <2>3. CASE PumpQueue("ready", queue, turnsInFlight) /\ CanFlush("ready", queue)
    BY <1>0, <2>1, <2>3, DispatchRuns DEF PumpQueue, DeliverAsTurn
  <2>4. CASE PumpQueue("ready", queue, turnsInFlight) /\ ~CanFlush("ready", queue)
    BY <2>1, <2>4 DEF PumpQueue, RunInv, RunningHasTurn, StuckRuns
  <2>5. QED
    BY <1>1, <2>2, <2>3, <2>4 DEF SessionReady
<1>2. CASE SendMessage
  <2>1. UNCHANGED <<live, failedAlone>>
    BY <1>2 DEF SendMessage
  <2>2. CASE status = "ready" /\ DeliverAsTurn(nextMessageSeq, turnsInFlight, prompts)
    BY <1>0, <2>1, <2>2, DispatchRuns DEF DeliverAsTurn, RunInv, StuckRuns
  <2>3. CASE queue = {} /\ status = "running" /\ SteerLive(nextMessageSeq)
    BY <1>0, <2>1, <2>3 DEF SteerLive, RunInv, RunningHasTurn, StuckRuns
  <2>4. CASE PumpQueue(status, queue \union {nextMessageSeq}, turnsInFlight)
    BY <1>0, <2>1, <2>4, PumpRuns
  <2>5. QED
    BY <1>2, <2>2, <2>3, <2>4 DEF SendMessage
<1>3. CASE TurnSettles
  <2>1. turnsInFlight > 0
    <3>1. Cardinality(steers) \in Nat
      BY <1>0, SteersAreCounted DEF TypeOK
    <3>2. QED
      BY <1>0, <1>3, <3>1 DEF TurnSettles, CountInv, TurnsCounted
  <2>2. QED
    BY <1>0, <1>3, <2>1, FinishRuns DEF TurnSettles
<1>4. ASSUME NEW m \in Message, SteerAnswered(m) PROVE RunInv'
  <2>1. m \in steers /\ UNCHANGED <<live, failedAlone>>
    BY <1>4 DEF SteerAnswered
  <2>2. CASE promptQueueing
    BY <1>0, <1>4, <2>1, <2>2, SteerIsCounted, FinishRuns DEF SteerAnswered
  <2>3. CASE ~promptQueueing
    BY <1>0, <1>4, <2>1, <2>3, PumpRuns DEF SteerAnswered
  <2>4. QED
    BY <2>2, <2>3
<1>5. ASSUME NEW m \in Message, SteerRefused(m) PROVE RunInv'
  <2>1. m \in steers /\ UNCHANGED live
    BY <1>5 DEF SteerRefused
  <2>2. CASE ~live
    BY <2>1, <2>2 DEF RunInv, RunningHasTurn, StuckRuns
  <2>3. CASE live /\ promptQueueing
    <3>1. turnsInFlight > 0 /\ status = "running"
      BY <2>1, <2>3, SteerIsCounted
    <3>2. failedAlone = {}
      BY <2>3, <3>1 DEF RunInv, StuckRuns
    <3>3. PumpQueue(status, queue \union {m}, OneLess)
      BY <1>5, <2>3 DEF SteerRefused
    <3>4. /\ queue' = queue \union {m} /\ status' = status
          /\ turnsInFlight' = OneLess
      BY <3>1, <3>3 DEF PumpQueue, CanFlush
    <3>5. failedAlone' = IF OneLess = 0 THEN {m} ELSE {}
      BY <1>5, <2>3, <3>2 DEF SteerRefused, FailsAlone
    <3>6. OneLess \in Nat
      BY <1>0 DEF OneLess
    <3>7. QED
      BY <3>1, <3>4, <3>5, <3>6 DEF RunInv, RunningHasTurn, StuckRuns
  <2>4. CASE live /\ ~promptQueueing
    <3>1. PumpQueue(status, queue \union {m}, turnsInFlight)
      BY <1>5, <2>4 DEF SteerRefused
    <3>2. failedAlone' = failedAlone
      BY <1>5, <2>4 DEF SteerRefused, FailsAlone
    <3>3. QED
      BY <1>0, <2>1, <3>1, <3>2, PumpRuns
  <2>5. QED
    BY <2>2, <2>3, <2>4
<1>6. CASE Close \/ FallsSilentOrGoesOn \/ UNCHANGED vars
  BY <1>6 DEF Close, FallsSilentOrGoesOn, vars, RunInv, RunningHasTurn, StuckRuns
<1>7. QED
  BY <1>1, <1>2, <1>3, <1>4, <1>5, <1>6 DEF Next

\* `running` means a turn is in flight, but for steers that failed alone.
THEOREM RunningCounts == Spec => []RunningIffTurnsInFlight
<1>1. Init => RunInv
  BY DEF Init, RunInv, RunningHasTurn, StuckRuns
<1>2. CountInv /\ RunInv => RunningIffTurnsInFlight
  BY DEF CountInv, NoIdleBacklog, TypeOK, RunInv, RunningHasTurn, StuckRuns,
         RunningIffTurnsInFlight
<1>3. QED
  BY <1>1, <1>2, RunStep, CountInvariant, PTL DEF Spec

\* The turn engine's promises together, for any number of messages.
THEOREM TurnsSound == Spec => []TurnsAreSound
<1>1. OneTurnAtATime /\ NoIdleBacklog /\ ContextOnFirstPromptOnly
      /\ SentOnceEachWay /\ RunningIffTurnsInFlight => TurnsAreSound
  BY DEF TurnsAreSound
<1>2. QED
  BY OneTurn, NoBacklog, ContextFirst, SentOnce, RunningCounts, <1>1, PTL
-----------------------------------------------------------------------------
\* The refinement of ChatDelivery. The messages that have been on the wire:
Sent(w) == {w[i].msg : i \in 1..Len(w)}

\* A message whose steer is unanswered is among them, which is what lets its
\* refusal be a HandBack.
SteersWereSent == steers \subseteq Sent(wire)

MailInv == CountInv /\ WireInv /\ SteersWereSent

MailStep == [Delivery!Next]_(Delivery!vars)

\* A prompt put on the wire adds its message.
LEMMA SentByAppend ==
    ASSUME NEW w \in Seq(Prompt), NEW e \in Prompt
    PROVE  Sent(Append(w, e)) = Sent(w) \union {e.msg}
<1> DEFINE W == Append(w, e)
<1>1. /\ Len(W) = Len(w) + 1 /\ Len(w) \in Nat
      /\ W[Len(w) + 1] = e
      /\ \A i \in 1..Len(w) : W[i] = w[i]
  OBVIOUS
<1> HIDE DEF W
<1>2. Sent(W) \subseteq Sent(w) \union {e.msg}
  BY <1>1 DEF Sent
<1>3. Sent(w) \subseteq Sent(W)
  BY <1>1 DEF Sent
<1>4. e.msg \in Sent(W)
  BY <1>1 DEF Sent
<1>5. QED
  BY <1>2, <1>3, <1>4 DEF W

\* What a typed number has to do with the wire.
LEMMA MailTypes ==
    ASSUME MailInv
    PROVE  /\ TypeOK /\ wire \in Seq(Prompt) /\ queue \in SUBSET Message
           /\ nextMessageSeq \in Nat
           /\ \A m \in Sent(wire) : m < nextMessageSeq
           /\ nextMessageSeq \notin Sent(wire)
           /\ \A m \in Message : m \in Nat /\ m # Orientation
<1>1. TypeOK /\ wire \in Seq(Prompt) /\ queue \in SUBSET Message
  BY DEF MailInv, CountInv, TypeOK
<1>2. nextMessageSeq \in Nat
  BY <1>1, ConstantsAssumption DEF TypeOK
<1>3. \A m \in Sent(wire) : m < nextMessageSeq
  BY DEF MailInv, WireInv, SentWasTyped, Sent
<1>4. \A m \in Message : m \in Nat /\ m # Orientation
  BY ConstantsAssumption DEF Message, Orientation
<1>5. QED
  BY <1>1, <1>2, <1>3, <1>4

\* A step that leaves the messages where they are.
LEMMA MailStays ==
    ASSUME UNCHANGED <<live, nextMessageSeq, queue>>,
           Sent(wire') \ {Orientation} = Sent(wire) \ {Orientation}
    PROVE  MailStep
  BY DEF MailStep, Delivery!vars, Sent

\* A message is held back as it is typed,
LEMMA AcceptedHeld ==
    ASSUME MailInv, live, UNCHANGED <<live, wire>>,
           nextMessageSeq' = nextMessageSeq + 1,
           queue' = queue \union {nextMessageSeq}
    PROVE  MailStep
<1>1. /\ nextMessageSeq \in Nat
      /\ nextMessageSeq \notin Sent(wire)
  BY MailTypes
<1>2. Sent(wire) \ (queue' \union {Orientation})
        = Sent(wire) \ (queue \union {Orientation})
  BY <1>1
<1>3. Delivery!Accept
  BY <1>1, <1>2 DEF Delivery!Accept, Sent
<1>4. QED
  BY <1>3 DEF MailStep, Delivery!Next

\* or goes straight to the agent.
LEMMA AcceptedSent ==
    ASSUME MailInv, live, UNCHANGED live, nextMessageSeq \in Message,
           nextMessageSeq' = nextMessageSeq + 1,
           queue = {}, queue' = {},
           Sent(wire') = Sent(wire) \union {nextMessageSeq}
    PROVE  MailStep
<1>1. nextMessageSeq \in Nat /\ nextMessageSeq # Orientation
  BY MailTypes
<1>2. Sent(wire') \ (queue' \union {Orientation})
        = (Sent(wire) \ (queue \union {Orientation})) \union {nextMessageSeq}
  BY <1>1
<1>3. /\ nextMessageSeq - 1 + 1 = nextMessageSeq
      /\ nextMessageSeq' - 1 = nextMessageSeq
  BY <1>1
<1>4. Delivery!Accept
  BY <1>2, <1>3, Zenon DEF Delivery!Accept, Sent
<1>5. QED
  BY <1>4 DEF MailStep, Delivery!Next

\* The oldest message is handed over.
LEMMA OldestSent ==
    ASSUME MailInv, live, UNCHANGED <<live, nextMessageSeq>>, queue # {},
           queue' = Shift(queue),
           Sent(wire') = Sent(wire) \union {Oldest(queue)}
    PROVE  MailStep
<1>1. queue \in SUBSET Message /\ queue \in SUBSET Nat /\ nextMessageSeq \in Nat
  BY MailTypes
<1>2. PICK m \in queue : m = Oldest(queue) /\ \A n \in queue : m <= n
  <2>1. \E k \in queue : \A n \in queue : k <= n
    BY <1>1, LeastNatural
  <2>2. QED
    BY <2>1, Zenon DEF Oldest
<1>3. m \in 1..(nextMessageSeq - 1) /\ m # Orientation
  <2>1. m < nextMessageSeq /\ m \in Message
    BY <1>1, <1>2 DEF MailInv, CountInv, HeldWasTyped
  <2>2. QED
    BY <1>1, <2>1, ConstantsAssumption DEF Message, Orientation
<1>4. queue' = queue \ {m} /\ Sent(wire') = Sent(wire) \union {m}
  BY <1>2 DEF Shift
<1>5. Sent(wire') \ (queue' \union {Orientation})
        = (Sent(wire) \ (queue \union {Orientation})) \union {m}
  BY <1>3, <1>4
<1>6. Delivery!HandOver(m)
  BY <1>2, <1>4, <1>5 DEF Delivery!HandOver, Sent
<1>7. QED
  BY <1>3, <1>6 DEF MailStep, Delivery!Next

\* A refused message is handed back.
LEMMA RefusedReturns ==
    ASSUME MailInv, live, UNCHANGED <<live, nextMessageSeq, wire>>,
           NEW m \in steers,
           queue' = queue \union {m}
    PROVE  MailStep
<1>1. m \in Message /\ m \in Sent(wire) /\ m \notin queue
  BY DEF MailInv, SteersWereSent, WireInv, SentOnceEachWay, CountInv, TypeOK
<1>2. m \in 1..(nextMessageSeq - 1) /\ m # Orientation
  <2>1. m < nextMessageSeq /\ m \in Nat /\ m # Orientation
    BY <1>1, MailTypes
  <2>2. nextMessageSeq \in Nat
    BY MailTypes
  <2>3. m > 0
    BY <2>1 DEF Orientation
  <2>4. QED
    BY <2>1, <2>2, <2>3
<1>3. m \in Sent(wire) \ (queue \union {Orientation})
  BY <1>1, <1>2
<1>4. Sent(wire) \ (queue' \union {Orientation})
        = (Sent(wire) \ (queue \union {Orientation})) \ {m}
  BY <1>3
<1>5. Delivery!HandBack(m)
  BY <1>3, <1>4 DEF Delivery!HandBack, Sent
<1>6. QED
  BY <1>2, <1>5 DEF MailStep, Delivery!Next

\* How the turn engine's own steps move messages.
LEMMA TurnSends ==
    ASSUME MailInv, MailInv', NEW m \in Message \union {Orientation},
           NEW context \in BOOLEAN, NEW inFlight, NEW unsettled \in Nat,
           DispatchTurn(m, context, inFlight, unsettled)
    PROVE  Sent(wire') = Sent(wire) \union {m}
<1> DEFINE e == [msg |-> m, as |-> "turn", context |-> context]
<1>1. unsettled = 0
  BY DEF DispatchTurn, MailInv, CountInv, OneTurnAtATime
<1>2. wire' = Append(wire, e)
  BY <1>1 DEF DispatchTurn
<1>3. e \in Prompt /\ e.msg = m
  BY DEF Prompt
<1> HIDE DEF e
<1>4. wire \in Seq(Prompt)
  BY MailTypes
<1>5. QED
  BY <1>2, <1>3, <1>4, SentByAppend

\* finishTurn hands the oldest waiting message over, or moves none,
LEMMA FinishMails ==
    ASSUME MailInv, MailInv', NEW unsettled \in Nat, FinishTurn(unsettled),
           UNCHANGED <<live, nextMessageSeq>>
    PROVE  MailStep
<1>1. CASE AtBoundary /\ queue # {}
  <2>1. /\ DispatchTurn(Oldest(queue), FirstPromptContext, OneLess, unsettled)
        /\ queue' = Shift(queue)
        /\ live
    BY <1>1 DEF FinishTurn, DeliverAsTurn, AtBoundary
  <2>2. Oldest(queue) \in Message /\ FirstPromptContext \in BOOLEAN
    BY <1>1, OldestIsQueued, MailTypes DEF FirstPromptContext
  <2>3. Sent(wire') = Sent(wire) \union {Oldest(queue)}
    BY <2>1, <2>2, TurnSends
  <2>4. QED
    BY <1>1, <2>1, <2>3, OldestSent
<1>2. CASE ~(AtBoundary /\ queue # {})
  <2>1. UNCHANGED <<queue, wire>>
    BY <1>2 DEF FinishTurn
  <2>2. QED
    BY <2>1, MailStays
<1>3. QED
  BY <1>1, <1>2

\* and so does pumpQueue.
LEMMA PumpMails ==
    ASSUME MailInv, MailInv', NEW st, NEW inFlight,
           PumpQueue(st, queue, inFlight),
           UNCHANGED <<live, nextMessageSeq>>
    PROVE  MailStep
<1>1. CASE CanFlush(st, queue)
  <2>1. /\ DispatchTurn(Oldest(queue), FirstPromptContext, inFlight, prompts)
        /\ queue' = Shift(queue)
        /\ live /\ queue # {}
    BY <1>1 DEF PumpQueue, DeliverAsTurn, CanFlush
  <2>2. Oldest(queue) \in Message /\ FirstPromptContext \in BOOLEAN
        /\ prompts \in Nat
    BY <2>1, OldestIsQueued, MailTypes DEF FirstPromptContext, TypeOK
  <2>3. Sent(wire') = Sent(wire) \union {Oldest(queue)}
    BY <2>1, <2>2, TurnSends
  <2>4. QED
    BY <2>1, <2>3, OldestSent
<1>2. CASE ~CanFlush(st, queue)
  <2>1. UNCHANGED <<queue, wire>>
    BY <1>2 DEF PumpQueue
  <2>2. QED
    BY <2>1, MailStays
<1>3. QED
  BY <1>1, <1>2

\* What is on the wire stays on it, and what is steered is on it.
LEMMA SentStep == CountInv /\ WireInv /\ SteersWereSent /\ [Next]_vars => MailInv'
<1> SUFFICES ASSUME CountInv, WireInv, SteersWereSent, [Next]_vars
             PROVE  SteersWereSent'
  BY CountStep, WireStep DEF MailInv
<1>1. MailInv /\ wire \in Seq(Prompt)
  BY MailTypes DEF MailInv
<1>2. /\ \/ wire' = wire
         \/ \E e \in Prompt : wire' = Append(wire, e)
      /\ \/ steers' \subseteq steers
         \/ \E e \in Prompt : /\ wire' = Append(wire, e)
                              /\ steers' \subseteq steers \union {e.msg}
  <2>1. TypeOK /\ TypeOK'
    BY CountStep DEF CountInv
  <2>2. ASSUME NEW m, NEW context, NEW inFlight, NEW unsettled,
               DispatchTurn(m, context, inFlight, unsettled)
        PROVE  wire' = wire \/ \E e : wire' = Append(wire, e)
    BY <2>2 DEF DispatchTurn
  <2>3. ASSUME NEW st, NEW q, NEW inFlight, PumpQueue(st, q, inFlight)
        PROVE  wire' = wire \/ \E e : wire' = Append(wire, e)
    BY <2>2, <2>3 DEF PumpQueue, DeliverAsTurn
  <2>4. ASSUME NEW unsettled, FinishTurn(unsettled)
        PROVE  wire' = wire \/ \E e : wire' = Append(wire, e)
    BY <2>2, <2>4 DEF FinishTurn, DeliverAsTurn
  <2>5. ASSUME NEW e, wire' = Append(wire, e)
        PROVE  e \in Prompt
    <3>1. wire' \in Seq(Prompt) /\ wire \in Seq(Prompt)
      BY <2>1 DEF TypeOK
    <3>2. Len(wire') = Len(wire) + 1 /\ wire'[Len(wire) + 1] = e
      BY <2>5, <3>1
    <3>3. QED
      BY <3>1, <3>2
  <2>6. CASE SessionReady
    BY <2>2, <2>3, <2>5, <2>6 DEF SessionReady
  <2>7. CASE SendMessage
    <3>1. CASE SteerLive(nextMessageSeq)
      <4> DEFINE e == [msg |-> nextMessageSeq, as |-> "steer", context |-> FALSE]
      <4>1. /\ wire' = Append(wire, e)
            /\ steers' = steers \union {e.msg}
        BY <3>1 DEF SteerLive
      <4> HIDE DEF e
      <4>2. QED
        BY <2>5, <4>1
    <3>2. CASE ~SteerLive(nextMessageSeq)
      BY <2>2, <2>3, <2>5, <2>7, <3>2 DEF SendMessage, DeliverAsTurn
    <3>3. QED
      BY <3>1, <3>2
  <2>8. CASE TurnSettles
    BY <2>4, <2>5, <2>8 DEF TurnSettles
  <2>9. ASSUME NEW m \in Message, SteerAnswered(m) \/ SteerRefused(m)
        PROVE  /\ wire' = wire \/ \E e \in Prompt : wire' = Append(wire, e)
               /\ steers' \subseteq steers
    <3>1. steers' \subseteq steers
      BY <2>9 DEF SteerAnswered, SteerRefused
    <3>2. \/ \E unsettled : FinishTurn(unsettled)
          \/ \E st, q, inFlight : PumpQueue(st, q, inFlight)
      BY <2>9 DEF SteerAnswered, SteerRefused
    <3>3. QED
      BY <2>3, <2>4, <2>5, <3>1, <3>2
  <2>10. CASE Close \/ FallsSilentOrGoesOn \/ UNCHANGED vars
    BY <2>10 DEF Close, FallsSilentOrGoesOn, vars
  <2>11. QED
    BY <2>6, <2>7, <2>8, <2>9, <2>10 DEF Next
<1>3. Sent(wire) \subseteq Sent(wire')
  BY <1>1, <1>2, SentByAppend
<1>4. steers' \subseteq Sent(wire')
  BY <1>1, <1>2, <1>3, SentByAppend DEF SteersWereSent
<1>5. QED
  BY <1>4 DEF SteersWereSent

\* Every step of the engine is a step of the mailbox, or leaves it alone.
LEMMA EveryStepMails == MailInv /\ MailInv' /\ [Next]_vars => MailStep
<1> SUFFICES ASSUME MailInv, MailInv', [Next]_vars
             PROVE  MailStep
  OBVIOUS
<1>0. /\ TypeOK /\ wire \in Seq(Prompt) /\ queue \in SUBSET Message
      /\ NoIdleBacklog /\ prompts \in Nat
  BY MailTypes DEF MailInv, CountInv, TypeOK
<1>1. CASE SessionReady
  <2>1. UNCHANGED <<live, nextMessageSeq>>
    BY <1>1 DEF SessionReady
  <2>2. CASE DispatchTurn(Orientation, TRUE, turnsInFlight, prompts)
             /\ UNCHANGED queue
    <3>1. Sent(wire') = Sent(wire) \union {Orientation}
      BY <1>0, <2>2, TurnSends
    <3>2. QED
      BY <2>1, <2>2, <3>1, MailStays
  <2>3. CASE PumpQueue("ready", queue, turnsInFlight)
    BY <2>1, <2>3, PumpMails
  <2>4. QED
    BY <1>1, <2>2, <2>3 DEF SessionReady
<1>2. CASE SendMessage
  <2>1. /\ live /\ UNCHANGED live
        /\ nextMessageSeq \in Message /\ nextMessageSeq' = nextMessageSeq + 1
    BY <1>2 DEF SendMessage
  <2>2. CASE /\ queue = {}
             /\ DeliverAsTurn(nextMessageSeq, turnsInFlight, prompts)
             /\ UNCHANGED queue
    <3>1. Sent(wire') = Sent(wire) \union {nextMessageSeq}
      BY <1>0, <2>1, <2>2, TurnSends DEF DeliverAsTurn, FirstPromptContext
    <3>2. QED
      BY <2>1, <2>2, <3>1, AcceptedSent
  <2>3. CASE queue = {} /\ SteerLive(nextMessageSeq)
    <3> DEFINE e == [msg |-> nextMessageSeq, as |-> "steer", context |-> FALSE]
    <3>1. wire' = Append(wire, e) /\ queue' = queue
      BY <2>3 DEF SteerLive
    <3>2. e \in Prompt /\ e.msg = nextMessageSeq
      BY <2>1 DEF Prompt
    <3> HIDE DEF e
    <3>3. Sent(wire') = Sent(wire) \union {nextMessageSeq}
      BY <1>0, <3>1, <3>2, SentByAppend
    <3>4. QED
      BY <2>1, <2>3, <3>1, <3>3, AcceptedSent
  <2>4. CASE /\ queue # {} \/ status = "starting"
             /\ PumpQueue(status, queue \union {nextMessageSeq}, turnsInFlight)
    <3>1. status # "ready"
      BY <1>0, <2>1, <2>4 DEF NoIdleBacklog
    <3>2. queue' = queue \union {nextMessageSeq} /\ UNCHANGED wire
      BY <2>4, <3>1 DEF PumpQueue, CanFlush
    <3>3. QED
      BY <2>1, <3>2, AcceptedHeld
  <2>5. QED
    BY <1>2, <2>2, <2>3, <2>4 DEF SendMessage
<1>3. CASE TurnSettles
  <2>1. prompts - 1 \in Nat
    BY <1>0, <1>3 DEF TurnSettles
  <2>2. QED
    BY <1>3, <2>1, FinishMails DEF TurnSettles
<1>4. ASSUME NEW m \in Message, SteerAnswered(m)
      PROVE  MailStep
  <2>1. UNCHANGED <<live, nextMessageSeq>>
    BY <1>4 DEF SteerAnswered
  <2>2. CASE FinishTurn(prompts)
    BY <1>0, <2>1, <2>2, FinishMails
  <2>3. CASE PumpQueue(status, queue, turnsInFlight)
    BY <2>1, <2>3, PumpMails
  <2>4. QED
    BY <1>4, <2>2, <2>3 DEF SteerAnswered
<1>5. ASSUME NEW m \in Message, SteerRefused(m)
      PROVE  MailStep
  <2>1. m \in steers /\ UNCHANGED <<live, nextMessageSeq>>
    BY <1>5 DEF SteerRefused
  <2>2. PICK left : PumpQueue(status, IF live THEN queue \union {m} ELSE queue, left)
    BY <1>5 DEF SteerRefused
  <2>3. CASE ~live
    BY <2>1, <2>2, <2>3, PumpMails
  <2>4. CASE live /\ status # "ready"
    <3>1. queue' = queue \union {m} /\ UNCHANGED wire
      BY <2>2, <2>4 DEF PumpQueue, CanFlush
    <3>2. QED
      BY <2>1, <2>4, <3>1, RefusedReturns
  <2>5. CASE live /\ status = "ready"
    <3>1. queue = {}
      BY <1>0, <2>5 DEF NoIdleBacklog
    <3>2. PumpQueue(status, {m}, left)
      BY <2>2, <2>5, <3>1
    <3>3. CanFlush(status, {m}) /\ Oldest({m}) = m
      <4>1. Oldest({m}) \in {m}
        BY OldestIsQueued
      <4>2. QED
        BY <2>5, <4>1 DEF CanFlush
    <3>4. /\ queue' = {}
          /\ DispatchTurn(m, FirstPromptContext, left, prompts)
      BY <3>2, <3>3 DEF PumpQueue, DeliverAsTurn, Shift
    <3>5. Sent(wire') = Sent(wire) \union {m}
      BY <1>0, <3>4, TurnSends DEF FirstPromptContext
    <3>6. m \in Sent(wire)
      BY <2>1 DEF MailInv, SteersWereSent
    <3>7. QED
      BY <2>1, <3>1, <3>4, <3>5, <3>6, MailStays
  <2>6. QED
    BY <2>3, <2>4, <2>5
<1>6. CASE Close
  <2>1. /\ live /\ live' = FALSE
        /\ UNCHANGED <<nextMessageSeq, queue, wire>>
    BY <1>6 DEF Close
  <2>2. Delivery!Close
    BY <2>1 DEF Delivery!Close
  <2>3. QED
    BY <2>2 DEF MailStep, Delivery!Next
<1>7. CASE FallsSilentOrGoesOn \/ UNCHANGED vars
  BY <1>7, MailStays DEF FallsSilentOrGoesOn, vars
<1>8. QED
  BY <1>1, <1>2, <1>3, <1>4, <1>5, <1>6, <1>7 DEF Next

\* The turn engine keeps the mailbox promise: whatever turns, steers, answers
\* and refusals do, an accepted message is waiting or with the agent, the
\* oldest waiting one goes first, and a closed session hands nothing over.
THEOREM ImplementsDelivery == Spec => DeliverySpec
<1>1. Init => SteersWereSent
  BY DEF Init, SteersWereSent
<1>2. Init => Delivery!Init
  BY DEF Init, Delivery!Init, Orientation
<1>3. CountInv /\ WireInv /\ SteersWereSent /\ [Next]_vars => SteersWereSent'
  BY SentStep DEF MailInv
<1>4. CountInv /\ WireInv /\ SteersWereSent /\ [Next]_vars
        => [Delivery!Next]_(Delivery!vars)
  BY SentStep, EveryStepMails DEF MailInv, MailStep
<1>5. QED
  BY <1>1, <1>2, <1>3, <1>4, WireInvariant, PTL
     DEF Spec, DeliverySpec, Delivery!Spec
-----------------------------------------------------------------------------
(***************************************************************************)
(* The chat of a skill as its panels show it (ChatPanel): the sessions,    *)
(* their buffers and streams, and what each browser makes of them.         *)
(***************************************************************************)
Begins == Aside([type |-> "reset"])
SaidIn(s, e) == \E i \in 1..Len(log[s]) : log[s][i] = e
MessageAt(s, i) == log[s][i].type \in {"user", "queued"}
Ended(s) == Len(log[s]) > 0 /\ log[s][Len(log[s])].type = "state"

\* A session's buffer begins with its own state; another state is its last
\* word.
StatesOf(s) ==
    /\ phase[s] = "new" => log[s] = <<>> /\ backlog[s] = <<>> /\ steered[s] = {}
    /\ phase[s] # "new" => Len(log[s]) > 0 /\ log[s][1] = StateOf(s)
    /\ \A i \in 1..Len(log[s]) : log[s][i].type = "state" /\ log[s][i] # StateOf(s) =>
          i = Len(log[s]) /\ phase[s] = "over"

\* Requests are numbered, settled after they were made, and pending until then.
AsksOf(s) ==
    /\ Asked(s) <= asks
    /\ \A i \in 1..Len(log[s]) : log[s][i].type = "ask" => log[s][i].id <= Asked(s)
    /\ \A i, j \in 1..Len(log[s]) : log[s][i].type = "ask" /\ log[s][j] = log[s][i] => i = j
    /\ \A i \in 1..Len(log[s]) : log[s][i].type = "settled" =>
          \E j \in 1..(i - 1) : log[s][j] = Said("ask", log[s][i].id)
    /\ phase[s] \notin {"closing", "over"} =>
          pending[s] = {id \in AskIds : SaidIn(s, Said("ask", id))
                                        /\ ~SaidIn(s, Said("settled", id))}

\* Messages are numbered, delivered after they were sent, and those that were
\* sent as queued are in the queue until then.
MessagesOf(s) ==
    /\ Cardinality(Messages(s)) <= typed
    /\ \A i \in 1..Len(log[s]) : MessageAt(s, i) => log[s][i].id <= Cardinality(Messages(s))
    /\ \A i, j \in 1..Len(log[s]) : MessageAt(s, i) /\ MessageAt(s, j)
                                    /\ log[s][j].id = log[s][i].id => i = j
    /\ \A i \in 1..Len(log[s]) : log[s][i].type = "delivered" =>
          \E j \in 1..(i - 1) : MessageAt(s, j) /\ log[s][j].id = log[s][i].id
    /\ \A id \in Backlogged(s) : \E i \in 1..Len(log[s]) : MessageAt(s, i) /\ log[s][i].id = id
    /\ \A i, j \in 1..Len(backlog[s]) : backlog[s][i] = backlog[s][j] => i = j
    /\ \A id \in steered[s] : SaidIn(s, Said("user", id)) /\ id \notin Backlogged(s)
    /\ \A id \in SaidQueued(s) : id \in Backlogged(s) <=> ~SaidIn(s, Said("delivered", id))

\* A session that waits for the old one to close is alone.
StartInv == start.waits # 0 => \A s \in Sessions : phase[s] \notin Open

SessionsInv == \A s \in Sessions : StatesOf(s) /\ AsksOf(s) /\ MessagesOf(s)

\* The frames a connection may still begin with.
Preludes(s) == {<<Aside(StateOf(s)), Begins>>, <<Begins>>, <<Aside(StateOf(s))>>, <<>>}
Tells(pre, s) == \E i \in 1..Len(pre) : pre[i] = Aside(StateOf(s))
Resets(pre) == \E i \in 1..Len(pre) : pre[i] = Begins
\* The frames on their way: those of the connection itself, and what follows
\* place n in the buffer.
Streams(p, s, pre, n) ==
    /\ n \in 0..Len(log[s])
    /\ pre \in Preludes(s)
    /\ Resets(pre) => n = 0
    /\ Len(inbound[p]) = Len(pre) + Len(log[s]) - n
    /\ \A i \in 1..Len(pre) : inbound[p][i] = pre[i]
    /\ \A i \in 1..(Len(log[s]) - n) : inbound[p][Len(pre) + i] = InBuffer(s, n + i)

\* A panel shows what a session has said up to place n.
UpTo(items, s, n) ==
    /\ \A i \in 1..Len(items) : /\ items[i].of = s /\ items[i].at \in 1..n
                                /\ items[i].event = log[s][items[i].at]
    /\ \A i, j \in 1..Len(items) : i < j => items[i].at < items[j].at
    /\ \A m \in 1..n : log[s][m].type # "state" => \E i \in 1..Len(items) : items[i].at = m

Forgets(r) == r.lastId # 0 => phase[r.lastOf] \notin Open

\* What panel p makes of a stream.
Follows(p, s, pre, n) ==
    /\ phase[s] # "new"
    /\ ~Tells(pre, s) => panel[p].active = IF n = Len(log[s]) /\ Ended(s)
                                           THEN log[s][n].active ELSE s
    /\ Tells(pre, s) /\ n = Len(log[s]) /\ Ended(s) => log[s][n] = StateOf(s)
    /\ p \notin crossed =>
          IF Resets(pre) THEN Forgets(panel[p])
          ELSE /\ UpTo(panel[p].items, s, n)
               /\ n > 0 => panel[p].lastId = n /\ panel[p].lastOf = s
    /\ p \notin crossed \union behind =>
          /\ panel[p].restored = s => pre = <<>> /\ n = Len(log[s]) /\ Ended(s)
                                      /\ log[s][n] = StateOf(0)
          /\ pre = <<>> /\ n = Len(log[s]) /\ log[s][n] = StateOf(0)
             /\ panel[p].restored \in {0, s} =>
                \A id \in SaidQueued(s) \intersect Backlogged(s) :
                    [of |-> s, id |-> id] \in panel[p].drafts

\* What a panel shows is of sessions that are gone, and what waits in it is
\* still undelivered.
Gone(items) ==
    /\ \A i \in 1..Len(items) : phase[items[i].of] \in {"closing", "over"}
    /\ \A i \in Bubbles(items) : items[i].event.id \in Backlogged(items[i].of)

FeedInv(p) ==
    /\ feed[p] = None => inbound[p] = <<>>
    /\ feed[p] = 0 =>
          /\ inbound[p] \in {<<Aside(StateOf(0)), Begins>>, <<Begins>>, <<>>}
          /\ p \notin crossed => Forgets(panel[p])
          /\ p \notin crossed \union behind /\ inbound[p] # <<>> => Gone(panel[p].items)
    /\ \A s \in Sessions : feed[p] = s =>
          \E n \in 0..Len(log[s]), pre \in Preludes(s) :
             Streams(p, s, pre, n) /\ Follows(p, s, pre, n)

MemoryInv(p) ==
    LET r == panel[p]
    IN  /\ r.lastId # 0 => r.lastOf \in Sessions /\ phase[r.lastOf] # "new"
        /\ p \notin crossed /\ r.lastId # 0 /\ phase[r.lastOf] \in Open =>
              r.lastId <= Len(log[r.lastOf]) /\ UpTo(r.items, r.lastOf, r.lastId)
        /\ p \notin crossed \union behind =>
              /\ r.restored # 0 => phase[r.restored] \in {"closing", "over"}
              /\ \A d \in r.drafts : /\ phase[d.of] \in {"closing", "over"}
                                     /\ d.id \in Backlogged(d.of)

PanInv == PanelTypeOK /\ SessionsInv /\ StartInv /\ \A p \in Panels : FeedInv(p) /\ MemoryInv(p)
-----------------------------------------------------------------------------
LEMMA Kinds ==
    ASSUME NEW e \in Event
    PROVE  /\ e.type \in {"state", "user", "queued", "delivered", "ask", "settled"}
           /\ e.type = "state" => e \in State /\ e.active \in Session /\ e = StateOf(e.active)
           /\ e.type \in {"user", "queued", "delivered"} =>
                 e \in MessageEvent /\ e.id \in MessageIds /\ e = Said(e.type, e.id)
           /\ e.type \in {"ask", "settled"} =>
                 e \in Permission /\ e.id \in AskIds /\ e = Said(e.type, e.id)
BY DEF Event, State, MessageEvent, Permission, StateOf, Said

LEMMA Numbers ==
    /\ MaxSessions \in Nat /\ MaxTyped \in Nat /\ MaxAsks \in Nat /\ MaxDrops \in Nat
    /\ Sessions \subseteq Nat \ {0} /\ Session \subseteq Nat /\ Session = Sessions \union {0}
    /\ None \notin Session /\ None \notin Clients
    /\ MessageIds \subseteq Nat \ {0} /\ AskIds \subseteq Nat \ {0}
BY PanelConstants DEF Sessions, Session, Clients, MessageIds, AskIds

\* The types, a variable at a time.
LEMMA Types ==
    ASSUME PanelTypeOK
    PROVE  /\ \A s \in Sessions : /\ phase[s] \in Open \union {"new", "closing", "over"}
                                  /\ log[s] \in Seq(Event) /\ Len(log[s]) \in Nat
                                  /\ \A i \in 1..Len(log[s]) : log[s][i] \in Event
                                  /\ backlog[s] \in Seq(MessageIds) /\ Len(backlog[s]) \in Nat
                                  /\ \A i \in 1..Len(backlog[s]) : backlog[s][i] \in MessageIds
                                  /\ steered[s] \subseteq MessageIds
                                     /\ pending[s] \subseteq AskIds
                                  /\ Backlogged(s) \subseteq MessageIds
           /\ typed \in Nat /\ asks \in Nat /\ typed <= MaxTyped /\ asks <= MaxAsks
           /\ start.waits \in Session
BY Numbers DEF PanelTypeOK, Backlogged

LEMMA TypesNext ==
    ASSUME PanelTypeOK'
    PROVE  /\ \A s \in Sessions : /\ phase'[s] \in Open \union {"new", "closing", "over"}
                                  /\ log'[s] \in Seq(Event) /\ Len(log'[s]) \in Nat
                                  /\ \A i \in 1..Len(log'[s]) : log'[s][i] \in Event
           /\ \A p \in Panels : inbound'[p] \in Seq(Frame) /\ Len(inbound'[p]) \in Nat
BY Numbers DEF PanelTypeOK

LEMMA PanelTypes ==
    ASSUME PanelTypeOK, NEW p \in Panels
    PROVE  /\ panel[p] \in Panel /\ panel[p].active \in Session /\ panel[p].lastId \in Nat
           /\ panel[p].lastOf \in Session /\ panel[p].restored \in Session
           /\ panel[p].drafts \subseteq Text
           /\ panel[p].items \in Seq(Item) /\ Len(panel[p].items) \in Nat
           /\ \A i \in 1..Len(panel[p].items) :
                 /\ panel[p].items[i] \in Item /\ panel[p].items[i].of \in Sessions
                 /\ panel[p].items[i].event \in MessageEvent \union Permission
                 /\ panel[p].items[i].at \in Nat \ {0}
           /\ inbound[p] \in Seq(Frame) /\ Len(inbound[p]) \in Nat
           /\ feed[p] \in Session \union {None}
<1>1. panel[p] \in Panel
  BY DEF PanelTypeOK
<1>2. panel[p].items \in Seq(Item)
  BY <1>1 DEF Panel
<1>3. \A i \in 1..Len(panel[p].items) : panel[p].items[i] \in Item
  BY <1>2
<1>4. QED
  BY <1>1, <1>2, <1>3 DEF PanelTypeOK, Panel, Item

\* At most one session is live.
LEMMA LiveIs ==
    ASSUME PanelTypeOK
    PROVE  /\ Live \in Session
           /\ Live = 0 => \A s \in Sessions : phase[s] \notin Open
           /\ Live # 0 => /\ Live \in Sessions /\ phase[Live] \in Open
                          /\ \A s \in Sessions : phase[s] \in Open => s = Live
<1>1. CASE \E s \in Sessions : phase[s] \in Open
  <2>1. Live \in Sessions /\ phase[Live] \in Open
    BY <1>1 DEF Live
  <2>2. QED
    BY <2>1, Numbers DEF PanelTypeOK
<1>2. CASE ~\E s \in Sessions : phase[s] \in Open
  BY <1>2, Numbers DEF Live
<1>3. QED
  BY <1>1, <1>2

LEMMA PreludeIs ==
    ASSUME NEW s \in Session, NEW pre \in Preludes(s)
    PROVE  /\ Len(pre) \in 0..2
           /\ pre = <<>> <=> ~Tells(pre, s) /\ ~Resets(pre)
           /\ pre = <<Aside(StateOf(s)), Begins>> <=> Tells(pre, s) /\ Resets(pre)
           /\ pre = <<Aside(StateOf(s))>> <=> Tells(pre, s) /\ ~Resets(pre)
           /\ pre = <<Begins>> <=> ~Tells(pre, s) /\ Resets(pre)
<1> DEFINE a == Aside(StateOf(s))
<1>1. a # Begins
  <2>1. a.event.type = "state" /\ Begins.event.type = "reset"
    BY DEF Aside, StateOf, Begins
  <2>2. QED
    BY <2>1
<1> HIDE DEF a
<1>2. pre \in {<<a, Begins>>, <<Begins>>, <<a>>, <<>>}
  BY DEF Preludes, a
<1>3. CASE pre = <<a, Begins>>
  BY <1>1, <1>3 DEF Tells, Resets, a
<1>4. CASE pre = <<Begins>>
  BY <1>1, <1>4 DEF Tells, Resets, a
<1>5. CASE pre = <<a>>
  BY <1>1, <1>5 DEF Tells, Resets, a
<1>6. CASE pre = <<>>
  BY <1>1, <1>6 DEF Tells, Resets, a
<1>7. QED
  BY <1>2, <1>3, <1>4, <1>5, <1>6

\* The last word of a session that is not over is its own state, or no state.
LEMMA OwnState ==
    ASSUME PanelTypeOK, SessionsInv, NEW s \in Sessions, Ended(s), phase[s] # "over"
    PROVE  log[s][Len(log[s])] = StateOf(s)
<1>1. StatesOf(s) /\ Len(log[s]) \in 1..Len(log[s])
  BY Types DEF SessionsInv, Ended
<1>2. QED
  BY <1>1 DEF StatesOf, Ended
-----------------------------------------------------------------------------
(* What the server does leaves what panels know of it true. *)

Moves ==
    /\ UNCHANGED <<feed, panel, crossed, behind>>
    /\ \A s \in Sessions :
          /\ Len(log'[s]) >= Len(log[s])
          /\ \A i \in 1..Len(log[s]) : log'[s][i] = log[s][i]
          /\ log'[s] # log[s] => phase[s] # "over"
          /\ phase[s] # "new" => phase'[s] # "new"
          /\ phase[s] \in {"closing", "over"} =>
                phase'[s] \in {"closing", "over"} /\ backlog'[s] = backlog[s]
    /\ \A p \in Panels :
          IF feed[p] \notin Sessions THEN inbound'[p] = inbound[p]
          ELSE LET s == feed[p]
               IN  /\ Len(inbound'[p]) = Len(inbound[p]) + (Len(log'[s]) - Len(log[s]))
                   /\ \A i \in 1..Len(inbound[p]) : inbound'[p][i] = inbound[p][i]
                   /\ \A i \in 1..(Len(log'[s]) - Len(log[s])) :
                        inbound'[p][Len(inbound[p]) + i] =
                          [event |-> log'[s][Len(log[s]) + i], of |-> s, at |-> Len(log[s]) + i]

LEMMA StreamsStand ==
    ASSUME PanelTypeOK, PanelTypeOK', Moves, NEW p \in Panels, NEW s \in Sessions, feed[p] = s,
           NEW pre \in Preludes(s), NEW n \in 0..Len(log[s]), Streams(p, s, pre, n)
    PROVE  Streams(p, s, pre, n)'
<1> DEFINE k == Len(log[s])   k1 == Len(log'[s])   b == Len(pre)   w == Len(inbound[p])
<1>1. b \in Nat /\ k \in Nat /\ k1 \in Nat /\ k <= k1 /\ w = b + k - n
  <2>1. b \in Nat
    BY PreludeIs, Numbers
  <2>2. k \in Nat /\ k1 \in Nat /\ k <= k1
    BY Types, TypesNext DEF Moves
  <2>3. w = b + k - n
    BY DEF Streams
  <2>4. QED
    BY <2>1, <2>2, <2>3
<1>0. n \in Nat /\ n <= k
  BY <1>1
<1>2. Len(inbound'[p]) = w + (k1 - k)
  BY DEF Moves
<1>3. \A i \in 1..w : inbound'[p][i] = inbound[p][i]
  BY DEF Moves
<1>4. \A i \in 1..(k1 - k) : inbound'[p][w + i] = [event |-> log'[s][k + i], of |-> s,
      at |-> k + i]
  BY DEF Moves
<1>5. \A i \in 1..k : log'[s][i] = log[s][i]
  BY DEF Moves
<1>6. \A i \in 1..b : inbound'[p][i] = pre[i]
  BY <1>1, <1>3 DEF Streams
<1>7. \A i \in 1..(k1 - n) : inbound'[p][b + i] = [event |-> log'[s][n + i], of |-> s,
      at |-> n + i]
  <2> SUFFICES ASSUME NEW i \in 1..(k1 - n)
               PROVE  inbound'[p][b + i] = [event |-> log'[s][n + i], of |-> s, at |-> n + i]
    OBVIOUS
  <2>1. CASE i <= k - n
    <3>1. b + i \in 1..w /\ n + i \in 1..k /\ i \in 1..(k - n)
      BY <1>1, <2>1
    <3>2. inbound[p][b + i] = [event |-> log[s][n + i], of |-> s, at |-> n + i]
      BY <3>1 DEF Streams, InBuffer
    <3>3. QED
      BY <3>1, <3>2, <1>3, <1>5
  <2>2. CASE i > k - n
    <3>1. i - (k - n) \in 1..(k1 - k) /\ w + (i - (k - n)) = b + i /\ k + (i - (k - n)) = n + i
      <4> HIDE DEF k, k1, b, w
      <4>1. i \in Nat /\ i <= k1 - n
        BY <1>0, <1>1
      <4>2. QED
        BY <4>1, <1>0, <1>1, <2>2
    <3>2. QED
      BY <3>1, <1>4
  <2>3. QED
    BY <1>1, <2>1, <2>2
<1>8. n \in 0..k1
  BY <1>1
<1>9. Len(inbound'[p]) = b + k1 - n
  <2> HIDE DEF k, k1, b, w
  <2>1. w \in Int
    BY <1>0, <1>1
  <2>2. QED
    BY <1>0, <1>1, <1>2, <2>1
<1>10. Resets(pre) => n = 0
  BY DEF Streams
<1>11. QED
  BY <1>6, <1>7, <1>8, <1>9, <1>10 DEF Streams, InBuffer

LEMMA StatusStands ==
    ASSUME PanelTypeOK, PanelTypeOK', Moves, NEW s \in Sessions
    PROVE  /\ phase[s] # "new" /\ phase[s] \notin Open => phase'[s] \notin Open
           /\ phase[s] # "new" /\ phase'[s] \in Open => phase[s] \in Open
           /\ phase[s] \in {"closing", "over"} => phase'[s] \in {"closing", "over"}
                                                  /\ Backlogged(s)' = Backlogged(s)
<1>1. /\ phase[s] \in Open \union {"new", "closing", "over"}
      /\ phase'[s] \in Open \union {"new", "closing", "over"}
  BY Types, TypesNext
<1>2. QED
  BY <1>1 DEF Moves, Open, Backlogged

LEMMA FollowsStand ==
    ASSUME PanelTypeOK, PanelTypeOK', SessionsInv, SessionsInv', Moves, NEW p \in Panels,
           NEW s \in Sessions, feed[p] = s, NEW pre \in Preludes(s), NEW n \in 0..Len(log[s]),
           Streams(p, s, pre, n), Follows(p, s, pre, n), MemoryInv(p)
    PROVE  Follows(p, s, pre, n)'
<1> DEFINE k == Len(log[s])   k1 == Len(log'[s])
<1>1. k \in Nat /\ k1 \in Nat /\ k <= k1 /\ \A i \in 1..k : log'[s][i] = log[s][i]
  BY Types, TypesNext DEF Moves
<1>2. log[s] \in Seq(Event) /\ log'[s] \in Seq(Event)
  BY Types, TypesNext
<1>3. k1 = k => log'[s] = log[s]
  BY <1>1, <1>2
<1>4. phase[s] # "new" /\ phase'[s] # "new"
  BY DEF Moves, Follows
<1>5. panel'[p] = panel[p] /\ crossed' = crossed /\ behind' = behind
  BY DEF Moves
<1>6. ~Tells(pre, s) => panel'[p].active = IF n = k1 /\ Ended(s)' THEN log'[s][n].active ELSE s
  <2>1. CASE log'[s] = log[s]
    BY <2>1, <1>5 DEF Follows, Ended
  <2>2. CASE log'[s] # log[s]
    <3>1. phase[s] # "over" /\ n # k1
      BY <2>2, <1>1, <1>3 DEF Moves
    <3>2. n = k /\ Ended(s) => log[s][n].active = s
      <4>1. Ended(s) => log[s][k] = StateOf(s)
        BY <3>1, OwnState
      <4>2. QED
        BY <4>1 DEF StateOf
    <3>3. QED
      BY <3>1, <3>2, <1>5 DEF Follows
  <2>3. QED
    BY <2>1, <2>2
<1>7. p \notin crossed /\ Resets(pre) => Forgets(panel[p])'
  <2>1. SUFFICES ASSUME p \notin crossed, Resets(pre), panel[p].lastId # 0
                 PROVE  phase'[panel[p].lastOf] \notin Open
    BY <1>5 DEF Forgets
  <2>2. phase[panel[p].lastOf] \notin Open /\ panel[p].lastOf \in Sessions
        /\ phase[panel[p].lastOf] # "new"
    BY <2>1 DEF Follows, Forgets, MemoryInv
  <2>3. QED
    BY <2>2, StatusStands
<1>8. p \notin crossed /\ ~Resets(pre) => UpTo(panel[p].items, s, n)'
  <2>1. SUFFICES ASSUME p \notin crossed, ~Resets(pre) PROVE UpTo(panel[p].items, s, n)'
    OBVIOUS
  <2>2. UpTo(panel[p].items, s, n)
    BY <2>1 DEF Follows
  <2>3. \A m \in 1..n : log'[s][m] = log[s][m]
    BY <1>1
  <2>4. \A i \in 1..Len(panel[p].items) :
           /\ panel[p].items[i].of = s /\ panel[p].items[i].at \in 1..n
           /\ panel[p].items[i].event = log'[s][panel[p].items[i].at]
    BY <2>2, <2>3 DEF UpTo
  <2>5. \A i, j \in 1..Len(panel[p].items) : i < j => panel[p].items[i].at < panel[p].items[j].at
    BY <2>2 DEF UpTo
  <2>6. \A m \in 1..n : log'[s][m].type # "state" =>
             \E i \in 1..Len(panel[p].items) : panel[p].items[i].at = m
    BY <2>2, <2>3 DEF UpTo
  <2>7. QED
    BY <2>4, <2>5, <2>6, <1>5 DEF UpTo
<1>9. ASSUME p \notin crossed \union behind
      PROVE  /\ panel[p].restored = s => pre = <<>> /\ n = k1 /\ Ended(s)'
                /\ log'[s][n] = StateOf(0)
             /\ pre = <<>> /\ n = k1 /\ log'[s][n] = StateOf(0)
                /\ panel[p].restored \in {0, s} =>
                  \A id \in SaidQueued(s)' \intersect Backlogged(s)' :
                      [of |-> s, id |-> id] \in panel[p].drafts
  <2>1. panel[p].restored = s => phase[s] = "over"
    <3>1. SUFFICES ASSUME panel[p].restored = s PROVE phase[s] = "over"
      OBVIOUS
    <3>2. n = k /\ Ended(s) /\ log[s][n] = StateOf(0)
      BY <1>9, <3>1 DEF Follows
    <3>3. StatesOf(s) /\ StateOf(0) # StateOf(s) /\ k \in 1..k
      BY <3>2, <1>1, Numbers DEF SessionsInv, StateOf, Ended
    <3>4. QED
      BY <3>2, <3>3 DEF StatesOf, Ended
  <2>2. phase[s] = "over" => log'[s] = log[s] /\ Backlogged(s)' = Backlogged(s)
    BY StatusStands DEF Moves
  <2>3. panel[p].restored = s => pre = <<>> /\ n = k1 /\ Ended(s)' /\ log'[s][n] = StateOf(0)
    <3>1. SUFFICES ASSUME panel[p].restored = s
                   PROVE  pre = <<>> /\ n = k1 /\ Ended(s)' /\ log'[s][n] = StateOf(0)
      OBVIOUS
    <3>2. log'[s] = log[s]
      BY <2>1, <2>2, <3>1
    <3>3. QED
      BY <3>1, <3>2, <1>9 DEF Follows, Ended
  <2>4. ASSUME pre = <<>>, n = k1, log'[s][n] = StateOf(0), panel[p].restored \in {0, s},
               NEW id \in SaidQueued(s)' \intersect Backlogged(s)'
        PROVE  [of |-> s, id |-> id] \in panel[p].drafts
    <3>1. n = k /\ log'[s] = log[s]
      BY <2>4, <1>1, <1>3
    <3>2. k > 0
      BY <1>4, <3>1 DEF SessionsInv, StatesOf
    <3>3. phase[s] = "over"
      <4>1. StatesOf(s) /\ StateOf(0) # StateOf(s) /\ k \in 1..k /\ log[s][k].type = "state"
        BY <3>1, <3>2, <2>4, <1>1, Numbers DEF SessionsInv, StateOf
      <4>2. QED
        BY <4>1, <3>1, <2>4 DEF StatesOf
    <3>4. SaidQueued(s)' = SaidQueued(s) /\ Backlogged(s)' = Backlogged(s)
      BY <3>1, <3>3, <2>2 DEF SaidQueued
    <3>5. QED
      BY <2>4, <3>1, <3>4, <1>9 DEF Follows
  <2>5. QED
    BY <2>3, <2>4
<1>10. p \notin crossed /\ ~Resets(pre) /\ n > 0 => panel[p].lastId = n /\ panel[p].lastOf = s
  BY DEF Follows
<1>11. Tells(pre, s) /\ n = k1 /\ Ended(s)' => log'[s][n] = StateOf(s)
  <2>1. n = k1 => log'[s] = log[s] /\ n = k
    BY <1>1, <1>3
  <2>2. QED
    BY <2>1 DEF Follows, Ended
<1>12. QED
  BY <1>4, <1>5, <1>6, <1>7, <1>8, <1>9, <1>10, <1>11 DEF Follows, Tells, Resets

LEMMA MemoryStands ==
    ASSUME PanelTypeOK, PanelTypeOK', Moves, NEW p \in Panels, MemoryInv(p)
    PROVE  MemoryInv(p)'
<1> DEFINE r == panel[p]
<1>1. panel'[p] = r /\ crossed' = crossed /\ behind' = behind
  BY DEF Moves
<1>2. r.lastId # 0 => r.lastOf \in Sessions /\ phase[r.lastOf] # "new" /\ phase'[r.lastOf] # "new"
  BY DEF MemoryInv, Moves
<1>3. ASSUME p \notin crossed, r.lastId # 0, phase'[r.lastOf] \in Open
      PROVE  r.lastId <= Len(log'[r.lastOf]) /\ UpTo(r.items, r.lastOf, r.lastId)'
  <2>1. r.lastOf \in Sessions /\ phase[r.lastOf] \in Open
    BY <1>2, <1>3, StatusStands
  <2>2. r.lastId <= Len(log[r.lastOf]) /\ UpTo(r.items, r.lastOf, r.lastId)
    BY <1>3, <2>1 DEF MemoryInv
  <2>3. /\ Len(log[r.lastOf]) <= Len(log'[r.lastOf]) /\ Len(log[r.lastOf]) \in Nat
        /\ Len(log'[r.lastOf]) \in Nat /\ r.lastId \in Nat
        /\ \A i \in 1..Len(log[r.lastOf]) : log'[r.lastOf][i] = log[r.lastOf][i]
    BY <2>1, Types, TypesNext, PanelTypes DEF Moves
  <2>4. r.lastId <= Len(log'[r.lastOf])
    BY <2>2, <2>3
  <2>5. \A m \in 1..r.lastId : log'[r.lastOf][m] = log[r.lastOf][m]
    BY <2>2, <2>3
  <2>6. UpTo(r.items, r.lastOf, r.lastId)'
    <3>1. \A i \in 1..Len(r.items) : /\ r.items[i].of = r.lastOf /\ r.items[i].at \in 1..r.lastId
                                     /\ r.items[i].event = log'[r.lastOf][r.items[i].at]
      BY <2>2, <2>5 DEF UpTo
    <3>2. \A i, j \in 1..Len(r.items) : i < j => r.items[i].at < r.items[j].at
      BY <2>2 DEF UpTo
    <3>3. \A m \in 1..r.lastId : log'[r.lastOf][m].type # "state" =>
             \E i \in 1..Len(r.items) : r.items[i].at = m
      BY <2>2, <2>5 DEF UpTo
    <3>4. QED
      BY <1>1, <3>1, <3>2, <3>3 DEF UpTo
  <2>7. QED
    BY <2>4, <2>6
<1>4. ASSUME p \notin crossed \union behind
      PROVE  /\ r.restored # 0 => phase'[r.restored] \in {"closing", "over"}
             /\ \A d \in r.drafts : phase'[d.of] \in {"closing", "over"}
                /\ d.id \in Backlogged(d.of)'
  <2>1. \A d \in r.drafts : d.of \in Sessions
    BY PanelTypes DEF Text
  <2>2. r.restored # 0 => r.restored \in Sessions
    BY PanelTypes, Numbers
  <2>3. QED
    BY <1>4, <2>1, <2>2, StatusStands DEF MemoryInv
<1>5. QED
  BY <1>1, <1>2, <1>3, <1>4 DEF MemoryInv, UpTo

LEMMA GoneStands ==
    ASSUME PanelTypeOK, PanelTypeOK', Moves, NEW p \in Panels, Gone(panel[p].items)
    PROVE  Gone(panel[p].items)'
<1> DEFINE items == panel[p].items
<1>1. panel'[p].items = items
  BY DEF Moves
<1>2. \A i \in 1..Len(items) : items[i].of \in Sessions
  BY PanelTypes
<1>3. Bubbles(items) \subseteq 1..Len(items)
  BY DEF Bubbles
<1>4. \A t \in Sessions : phase[t] \in {"closing", "over"} =>
         phase'[t] \in {"closing", "over"} /\ Backlogged(t)' = Backlogged(t)
  BY StatusStands
<1>5. Bubbles(panel[p].items)' = Bubbles(items)
  BY <1>1 DEF Bubbles, Resolved, Opening
<1>6. \A i \in 1..Len(items) : phase'[items[i].of] \in {"closing", "over"}
  BY <1>2, <1>4 DEF Gone
<1>7. \A i \in Bubbles(items) : \A t \in Sessions :
         items[i].of = t => items[i].event.id \in Backlogged(t)'
  BY <1>3, <1>4 DEF Gone
<1>8. \A i \in Bubbles(items) : items'[i].event.id \in Backlogged(items[i].of)'
  BY <1>1, <1>2, <1>3, <1>7 DEF Backlogged
<1>9. QED
  BY <1>1, <1>5, <1>6, <1>8 DEF Gone

LEMMA PanelsStand ==
    ASSUME PanelTypeOK, PanelTypeOK', SessionsInv, SessionsInv', Moves,
           \A p \in Panels : FeedInv(p) /\ MemoryInv(p)
    PROVE  \A p \in Panels : FeedInv(p)' /\ MemoryInv(p)'
<1> SUFFICES ASSUME NEW p \in Panels PROVE FeedInv(p)' /\ MemoryInv(p)'
  OBVIOUS
<1>1. FeedInv(p) /\ MemoryInv(p)
  OBVIOUS
<1>2. MemoryInv(p)'
  BY <1>1, MemoryStands
<1>3. panel'[p] = panel[p] /\ crossed' = crossed /\ behind' = behind /\ feed' = feed
  BY DEF Moves
<1>4. feed[p] \notin Sessions => inbound'[p] = inbound[p]
  BY DEF Moves
<1>5. feed[p] = None => inbound'[p] = <<>>
  BY <1>1, <1>4, Numbers DEF FeedInv
<1>6. ASSUME feed[p] = 0
      PROVE  /\ inbound'[p] \in {<<Aside(StateOf(0)), Begins>>, <<Begins>>, <<>>}
             /\ p \notin crossed => Forgets(panel[p])'
             /\ p \notin crossed \union behind /\ inbound'[p] # <<>> => Gone(panel[p].items)'
  <2>1. inbound'[p] = inbound[p]
    BY <1>4, <1>6, Numbers
  <2>2. p \notin crossed => Forgets(panel[p])'
    <3>1. SUFFICES ASSUME p \notin crossed, panel[p].lastId # 0
                   PROVE  phase'[panel[p].lastOf] \notin Open
      BY <1>3 DEF Forgets
    <3>2. /\ panel[p].lastOf \in Sessions /\ phase[panel[p].lastOf] # "new"
          /\ phase[panel[p].lastOf] \notin Open
      BY <3>1, <1>1, <1>6 DEF FeedInv, MemoryInv, Forgets
    <3>3. QED
      BY <3>2, StatusStands
  <2>3. p \notin crossed \union behind /\ inbound'[p] # <<>> => Gone(panel[p].items)'
    BY <2>1, <1>1, <1>6, GoneStands DEF FeedInv
  <2>4. QED
    BY <2>1, <2>2, <2>3, <1>1, <1>6 DEF FeedInv
<1>7. ASSUME NEW s \in Sessions, feed[p] = s
      PROVE  \E n \in 0..Len(log'[s]), pre \in Preludes(s) :
                Streams(p, s, pre, n)' /\ Follows(p, s, pre, n)'
  <2>2. PICK n \in 0..Len(log[s]), pre \in Preludes(s) :
           Streams(p, s, pre, n) /\ Follows(p, s, pre, n)
    BY <1>1, <1>7 DEF FeedInv
  <2>3. Streams(p, s, pre, n)'
    BY <1>7, <2>2, StreamsStand
  <2>4. Follows(p, s, pre, n)'
    BY <1>7, <2>2, <1>1, FollowsStand
  <2>5. n \in 0..Len(log'[s])
    <3>1. Len(log[s]) \in Nat /\ Len(log'[s]) \in Nat /\ Len(log[s]) <= Len(log'[s])
      BY Types, TypesNext DEF Moves
    <3>2. QED
      BY <3>1
  <2>6. QED
    BY <2>3, <2>4, <2>5
<1>8. \A s \in Sessions : feed'[p] = s =>
         \E n \in 0..Len(log'[s]), pre \in Preludes(s) :
            Streams(p, s, pre, n)' /\ Follows(p, s, pre, n)'
  BY <1>3, <1>7
<1>9. FeedInv(p)'
  BY <1>3, <1>5, <1>6, <1>8 DEF FeedInv
<1>10. QED
  BY <1>2, <1>9
-----------------------------------------------------------------------------
(* What a broadcast does to a session's buffer, and what it leaves true. *)

LEMMA Joined ==
    ASSUME NEW S, NEW q \in Seq(S), NEW r \in Seq(S)
    PROVE  /\ q \o r \in Seq(S) /\ Len(q \o r) = Len(q) + Len(r)
           /\ \A i \in 1..Len(q) : (q \o r)[i] = q[i]
           /\ \A i \in 1..Len(r) : (q \o r)[Len(q) + i] = r[i]
OBVIOUS

LEMMA Spreads ==
    ASSUME PanelTypeOK, NEW s \in Sessions, NEW events \in Seq(Event), Broadcast(s, events)
    PROVE  /\ log' \in [Sessions -> Seq(Event)] /\ inbound' \in [Panels -> Seq(Frame)]
           /\ \A t \in Sessions \ {s} : log'[t] = log[t]
           /\ Len(log'[s]) = Len(log[s]) + Len(events)
           /\ \A i \in 1..Len(log[s]) : log'[s][i] = log[s][i]
           /\ \A i \in 1..Len(events) : log'[s][Len(log[s]) + i] = events[i]
           /\ \A p \in Panels : feed[p] # s => inbound'[p] = inbound[p]
           /\ \A p \in Panels : feed[p] = s =>
                /\ Len(inbound'[p]) = Len(inbound[p]) + Len(events)
                /\ \A i \in 1..Len(inbound[p]) : inbound'[p][i] = inbound[p][i]
                /\ \A i \in 1..Len(events) : inbound'[p][Len(inbound[p]) + i] =
                      [event |-> events[i], of |-> s, at |-> Len(log[s]) + i]
<1>1. log[s] \in Seq(Event) /\ Len(log[s]) \in Nat /\ Len(events) \in Nat
  BY Types
<1>2. log \in [Sessions -> Seq(Event)] /\ log' = [log EXCEPT ![s] = log[s] \o events]
  BY DEF PanelTypeOK, Broadcast
<1>3. log' \in [Sessions -> Seq(Event)] /\ log'[s] = log[s] \o events
      /\ \A t \in Sessions \ {s} : log'[t] = log[t]
  BY <1>1, <1>2
<1>4. /\ Len(log'[s]) = Len(log[s]) + Len(events)
      /\ \A i \in 1..Len(log[s]) : log'[s][i] = log[s][i]
      /\ \A i \in 1..Len(events) : log'[s][Len(log[s]) + i] = events[i]
  BY <1>1, <1>3
<1> DEFINE more == [i \in 1..Len(events) |->
                      [event |-> events[i], of |-> s, at |-> Len(log[s]) + i]]
<1>5. more \in Seq(Frame) /\ Len(more) = Len(events)
      /\ \A i \in 1..Len(events) : more[i] = [event |-> events[i], of |-> s,
         at |-> Len(log[s]) + i]
  <2>1. \A i \in 1..Len(events) : events[i] \in Event /\ Len(log[s]) + i \in Nat
    BY <1>1
  <2>2. \A i \in 1..Len(events) :
           [event |-> events[i], of |-> s, at |-> Len(log[s]) + i] \in Frame
    BY <2>1, Numbers DEF Frame
  <2>3. more \in Seq(Frame)
    BY <2>2, <1>1
  <2>4. QED
    BY <2>3, <1>1
<1>6. inbound' = [p \in Panels |-> IF feed[p] # s THEN inbound[p] ELSE inbound[p] \o more]
  BY DEF Broadcast
<1> HIDE DEF more
<1>7. \A p \in Panels : inbound[p] \in Seq(Frame) /\ Len(inbound[p]) \in Nat
  BY DEF PanelTypeOK
<1>8. \A p \in Panels : inbound[p] \o more \in Seq(Frame)
  BY <1>5, <1>7
<1>9. \A p \in Panels : feed[p] = s =>
         /\ inbound'[p] = inbound[p] \o more
         /\ Len(inbound'[p]) = Len(inbound[p]) + Len(events)
         /\ \A i \in 1..Len(inbound[p]) : inbound'[p][i] = inbound[p][i]
         /\ \A i \in 1..Len(events) : inbound'[p][Len(inbound[p]) + i] = more[i]
  <2> SUFFICES ASSUME NEW p \in Panels, feed[p] = s
               PROVE  /\ inbound'[p] = inbound[p] \o more
                      /\ Len(inbound'[p]) = Len(inbound[p]) + Len(events)
                      /\ \A i \in 1..Len(inbound[p]) : inbound'[p][i] = inbound[p][i]
                      /\ \A i \in 1..Len(events) : inbound'[p][Len(inbound[p]) + i] = more[i]
    OBVIOUS
  <2>1. inbound'[p] = inbound[p] \o more
    BY <1>6
  <2>2. inbound[p] \in Seq(Frame) /\ more \in Seq(Frame) /\ Len(more) = Len(events)
    BY <1>5, <1>7
  <2>3. /\ Len(inbound[p] \o more) = Len(inbound[p]) + Len(more)
        /\ \A i \in 1..Len(inbound[p]) : (inbound[p] \o more)[i] = inbound[p][i]
        /\ \A i \in 1..Len(more) : (inbound[p] \o more)[Len(inbound[p]) + i] = more[i]
    <3>1. \A q, r \in Seq(Frame) : /\ Len(q \o r) = Len(q) + Len(r)
                                   /\ \A i \in 1..Len(q) : (q \o r)[i] = q[i]
                                   /\ \A i \in 1..Len(r) : (q \o r)[Len(q) + i] = r[i]
      BY Joined
    <3>2. QED
      BY <2>2, <3>1, Zenon
  <2>4. QED
    BY <2>1, <2>2, <2>3
<1>10. inbound' \in [Panels -> Seq(Frame)]
  BY <1>6, <1>7, <1>8
<1>11. QED
  BY <1>3, <1>4, <1>5, <1>6, <1>9, <1>10

\* Where an event of the buffer comes from.
LEMMA Old ==
    ASSUME PanelTypeOK, NEW s \in Sessions, NEW events \in Seq(Event), Broadcast(s, events),
           NEW i \in 1..Len(log'[s])
    PROVE  \/ i \in 1..Len(log[s]) /\ log'[s][i] = log[s][i]
           \/ /\ i > Len(log[s]) /\ i - Len(log[s]) \in 1..Len(events)
              /\ log'[s][i] = events[i - Len(log[s])]
<1>1. Len(log[s]) \in Nat /\ Len(events) \in Nat
  BY Types
<1>2. /\ Len(log'[s]) = Len(log[s]) + Len(events)
      /\ \A k \in 1..Len(log[s]) : log'[s][k] = log[s][k]
      /\ \A k \in 1..Len(events) : log'[s][Len(log[s]) + k] = events[k]
  BY Spreads
<1>3. CASE i <= Len(log[s])
  BY <1>1, <1>2, <1>3
<1>4. CASE i > Len(log[s])
  <2>1. i - Len(log[s]) \in 1..Len(events) /\ Len(log[s]) + (i - Len(log[s])) = i
    BY <1>1, <1>2, <1>4
  <2>2. QED
    BY <2>1, <1>2, <1>4
<1>5. QED
  BY <1>1, <1>3, <1>4

LEMMA BroadcastMoves ==
    ASSUME PanelTypeOK, NEW s \in Sessions, NEW events \in Seq(Event), Broadcast(s, events),
           phase[s] # "over", UNCHANGED <<feed, panel, crossed, behind>>,
           \A t \in Sessions :
              /\ phase[t] # "new" => phase'[t] # "new"
              /\ phase[t] \in {"closing", "over"} =>
                    phase'[t] \in {"closing", "over"} /\ backlog'[t] = backlog[t]
    PROVE  Moves
<1>1. \A t \in Sessions : /\ Len(log[t]) \in Nat /\ Len(log'[t]) >= Len(log[t])
                          /\ \A i \in 1..Len(log[t]) : log'[t][i] = log[t][i]
                          /\ log'[t] # log[t] => t = s
  <2>1. \A t \in Sessions : Len(log[t]) \in Nat
    BY Types
  <2>2. Len(events) \in Nat
    OBVIOUS
  <2>3. QED
    BY <2>1, <2>2, Spreads
<1>2. ASSUME NEW p \in Panels, NEW t \in Sessions, feed[p] = t
      PROVE  /\ Len(inbound'[p]) = Len(inbound[p]) + (Len(log'[t]) - Len(log[t]))
             /\ \A i \in 1..Len(inbound[p]) : inbound'[p][i] = inbound[p][i]
             /\ \A i \in 1..(Len(log'[t]) - Len(log[t])) :
                  inbound'[p][Len(inbound[p]) + i] =
                    [event |-> log'[t][Len(log[t]) + i], of |-> t, at |-> Len(log[t]) + i]
  <2>1. CASE t = s
    <3>1. Len(log[s]) \in Nat /\ Len(events) \in Nat /\ Len(log'[s]) - Len(log[s]) = Len(events)
      BY <1>1, Spreads
    <3>2. \A i \in 1..Len(events) : log'[s][Len(log[s]) + i] = events[i]
      BY Spreads
    <3>3. /\ Len(inbound'[p]) = Len(inbound[p]) + Len(events)
          /\ \A i \in 1..Len(inbound[p]) : inbound'[p][i] = inbound[p][i]
          /\ \A i \in 1..Len(events) : inbound'[p][Len(inbound[p]) + i] =
                [event |-> events[i], of |-> s, at |-> Len(log[s]) + i]
      BY <1>2, <2>1, Spreads
    <3>4. \A i \in 1..(Len(log'[s]) - Len(log[s])) :
             inbound'[p][Len(inbound[p]) + i] =
               [event |-> log'[s][Len(log[s]) + i], of |-> s, at |-> Len(log[s]) + i]
      <4> SUFFICES ASSUME NEW i \in 1..(Len(log'[s]) - Len(log[s]))
                   PROVE  inbound'[p][Len(inbound[p]) + i] =
                            [event |-> log'[s][Len(log[s]) + i], of |-> s, at |-> Len(log[s]) + i]
        OBVIOUS
      <4>1. i \in 1..Len(events)
        BY <3>1
      <4>2. QED
        BY <4>1, <3>2, <3>3
    <3>5. Len(inbound'[p]) = Len(inbound[p]) + (Len(log'[s]) - Len(log[s]))
      BY <3>1, <3>3
    <3>6. QED
      BY <2>1, <3>3, <3>4, <3>5
  <2>2. CASE t # s
    <3>1. inbound'[p] = inbound[p] /\ log'[t] = log[t] /\ Len(inbound[p]) \in Nat
          /\ Len(log[t]) \in Nat
      BY <1>1, <1>2, <2>2, Spreads, PanelTypes
    <3>2. QED
      BY <3>1
  <2>3. QED
    BY <2>1, <2>2
<1>3. \A p \in Panels : feed[p] \notin Sessions => inbound'[p] = inbound[p]
  BY Spreads
<1>4. QED
  BY <1>1, <1>2, <1>3 DEF Moves

LEMMA QuietMoves ==
    ASSUME PanelTypeOK, UNCHANGED <<log, inbound, feed, panel, crossed, behind>>,
           \A t \in Sessions :
              /\ phase[t] # "new" => phase'[t] # "new"
              /\ phase[t] \in {"closing", "over"} =>
                    phase'[t] \in {"closing", "over"} /\ backlog'[t] = backlog[t]
    PROVE  Moves
<1>1. \A t \in Sessions : Len(log[t]) \in Nat /\ Len(log'[t]) - Len(log[t]) = 0
                          /\ Len(log'[t]) >= Len(log[t])
  BY Types
<1>2. \A p \in Panels : Len(inbound[p]) \in Nat /\ Len(inbound'[p]) = Len(inbound[p]) + 0
  BY PanelTypes
<1>3. QED
  BY <1>1, <1>2 DEF Moves

LEMMA Untouched ==
    ASSUME PanelTypeOK, NEW s \in Sessions, StatesOf(s), AsksOf(s), MessagesOf(s),
           phase'[s] = phase[s], log'[s] = log[s], backlog'[s] = backlog[s],
           steered'[s] = steered[s], pending'[s] = pending[s],
           typed' \in Nat, typed' >= typed, asks' \in Nat, asks' >= asks
    PROVE  StatesOf(s)' /\ AsksOf(s)' /\ MessagesOf(s)'
<1>1. StatesOf(s)'
  BY DEF StatesOf
<1>2. Asked(s)' = Asked(s) /\ Messages(s)' = Messages(s) /\ Backlogged(s)' = Backlogged(s)
      /\ SaidQueued(s)' = SaidQueued(s)
  BY DEF Asked, Messages, Backlogged, SaidQueued
<1>3. IsFiniteSet(1..Len(log[s]))
  <2>1. Len(log[s]) \in Int /\ 1 \in Int
    BY Types
  <2>2. QED
    BY <2>1, FS_Interval
<1>4. Asked(s) \in Nat /\ Cardinality(Messages(s)) \in Nat
  <2>1. {i \in 1..Len(log[s]) : log[s][i].type = "ask"} \subseteq 1..Len(log[s])
        /\ Messages(s) \subseteq 1..Len(log[s])
    BY DEF Messages
  <2>2. QED
    BY <2>1, <1>3, FS_Subset, FS_CardinalityType DEF Asked
<1>5. AsksOf(s)'
  <2>1. Asked(s) <= asks'
    BY <1>4, Types DEF AsksOf
  <2>2. QED
    BY <2>1, <1>2 DEF AsksOf, SaidIn
<1>6. MessagesOf(s)'
  <2>1. Cardinality(Messages(s)) <= typed'
    BY <1>4, Types DEF MessagesOf
  <2>2. (\A e : SaidIn(s, e)' <=> SaidIn(s, e)) /\ (\A i : MessageAt(s, i)' <=> MessageAt(s, i))
    BY DEF SaidIn, MessageAt
  <2>3. /\ Cardinality(Messages(s))' <= typed'
        /\ \A i \in 1..Len(log'[s]) :
              MessageAt(s, i)' => log'[s][i].id <= Cardinality(Messages(s))'
        /\ \A i, j \in 1..Len(log'[s]) : MessageAt(s, i)' /\ MessageAt(s, j)'
                                         /\ log'[s][j].id = log'[s][i].id => i = j
        /\ \A i \in 1..Len(log'[s]) : log'[s][i].type = "delivered" =>
              \E j \in 1..(i - 1) : MessageAt(s, j)' /\ log'[s][j].id = log'[s][i].id
    BY <1>2, <2>1, <2>2 DEF MessagesOf
  <2>4. /\ \A id \in Backlogged(s)' :
              \E i \in 1..Len(log'[s]) : MessageAt(s, i)' /\ log'[s][i].id = id
        /\ \A i, j \in 1..Len(backlog'[s]) : backlog'[s][i] = backlog'[s][j] => i = j
    BY <1>2, <2>2 DEF MessagesOf
  <2>5. /\ \A id \in steered'[s] : SaidIn(s, Said("user", id))' /\ id \notin Backlogged(s)'
        /\ \A id \in SaidQueued(s)' :
              id \in Backlogged(s)' <=> ~SaidIn(s, Said("delivered", id))'
    BY <1>2, <2>2 DEF MessagesOf
  <2>6. QED
    BY <2>3, <2>4, <2>5 DEF MessagesOf, Said
<1>7. QED
  BY <1>1, <1>5, <1>6

\* Positions of a kind in a buffer are a finite set.
LEMMA Counted ==
    ASSUME PanelTypeOK, NEW s \in Sessions
    PROVE  /\ IsFiniteSet(Messages(s)) /\ Cardinality(Messages(s)) \in Nat
           /\ IsFiniteSet({i \in 1..Len(log[s]) : log[s][i].type = "ask"}) /\ Asked(s) \in Nat
<1>1. IsFiniteSet(1..Len(log[s]))
  <2>1. Len(log[s]) \in Int /\ 1 \in Int
    BY Types
  <2>2. QED
    BY <2>1, FS_Interval
<1>2. {i \in 1..Len(log[s]) : log[s][i].type = "ask"} \subseteq 1..Len(log[s])
      /\ Messages(s) \subseteq 1..Len(log[s])
  BY DEF Messages
<1>3. QED
  BY <1>1, <1>2, FS_Subset, FS_CardinalityType DEF Asked

LEMMA StatesKept ==
    ASSUME PanelTypeOK, NEW s \in Sessions, NEW events \in Seq(Event), Broadcast(s, events),
           StatesOf(s), phase[s] \notin {"new", "over"}, phase'[s] # "new",
           \A i \in 1..Len(events) : events[i].type = "state" /\ events[i] # StateOf(s) =>
              i = Len(events) /\ phase'[s] = "over"
    PROVE  StatesOf(s)'
<1>1. /\ Len(log[s]) \in Nat /\ Len(events) \in Nat /\ Len(log[s]) > 0
      /\ Len(log'[s]) = Len(log[s]) + Len(events) /\ log'[s][1] = StateOf(s)
  <2>1. 1 \in 1..Len(log[s]) /\ log[s][1] = StateOf(s) /\ Len(log[s]) \in Nat
    BY Types DEF StatesOf
  <2>2. QED
    BY <2>1, Spreads
<1>2. ASSUME NEW i \in 1..Len(log'[s]), log'[s][i].type = "state", log'[s][i] # StateOf(s)
      PROVE  i = Len(log'[s]) /\ phase'[s] = "over"
  <2>1. CASE i \in 1..Len(log[s]) /\ log'[s][i] = log[s][i]
    BY <1>2, <2>1 DEF StatesOf
  <2>2. CASE i > Len(log[s]) /\ i - Len(log[s]) \in 1..Len(events)
             /\ log'[s][i] = events[i - Len(log[s])]
    <3>1. i - Len(log[s]) = Len(events) /\ phase'[s] = "over"
      BY <1>2, <2>2
    <3>2. QED
      BY <1>1, <3>1
  <2>3. QED
    BY <2>1, <2>2, Old
<1>3. QED
  BY <1>1, <1>2 DEF StatesOf

LEMMA StateChanges ==
    ASSUME NEW s \in Sessions, StatesOf(s), log'[s] = log[s],
           phase[s] = "new" => phase'[s] = "new" /\ backlog'[s] = backlog[s] /\ steered'[s] = {},
           phase[s] # "new" => phase'[s] # "new",
           phase[s] = "over" => phase'[s] = "over"
    PROVE  StatesOf(s)'
BY DEF StatesOf

LEMMA AsksKept ==
    ASSUME PanelTypeOK, NEW s \in Sessions, NEW events \in Seq(Event), Broadcast(s, events),
           AsksOf(s), pending'[s] = pending[s], asks' = asks,
           phase'[s] \notin {"closing", "over"} => phase[s] \notin {"closing", "over"},
           \A i \in 1..Len(events) : events[i].type \notin {"ask", "settled"}
    PROVE  AsksOf(s)'
<1>1. Len(log[s]) \in Nat /\ Len(log'[s]) \in Nat /\ Len(log[s]) <= Len(log'[s])
      /\ \A i \in 1..Len(log[s]) : log'[s][i] = log[s][i]
  BY Types, Spreads
<1>2. \A i \in 1..Len(log'[s]) : log'[s][i].type \in {"ask", "settled"} =>
         i \in 1..Len(log[s]) /\ log'[s][i] = log[s][i]
  BY Old
<1>3. {i \in 1..Len(log'[s]) : log'[s][i].type = "ask"}
      = {i \in 1..Len(log[s]) : log[s][i].type = "ask"}
  BY <1>1, <1>2
<1>4. Asked(s)' = Asked(s)
  BY <1>3 DEF Asked
<1>5. \A id, type : type \in {"ask", "settled"}
      => (SaidIn(s, Said(type, id))' <=> SaidIn(s, Said(type, id)))
  <2> SUFFICES ASSUME NEW id, NEW type, type \in {"ask", "settled"}
               PROVE  SaidIn(s, Said(type, id))' <=> SaidIn(s, Said(type, id))
    OBVIOUS
  <2>1. Said(type, id).type = type
    BY DEF Said
  <2>2. \A i \in 1..Len(log[s]) : i \in 1..Len(log'[s])
    BY <1>1
  <2>3. QED
    BY <2>1, <2>2, <1>1, <1>2 DEF SaidIn
<1>6. \A i \in 1..Len(log'[s]) : log'[s][i].type = "ask" => log'[s][i].id <= Asked(s)
  BY <1>2 DEF AsksOf
<1>7. \A i, j \in 1..Len(log'[s]) : log'[s][i].type = "ask" /\ log'[s][j] = log'[s][i] => i = j
  BY <1>2 DEF AsksOf
<1>8. ASSUME NEW i \in 1..Len(log'[s]), log'[s][i].type = "settled"
      PROVE  \E j \in 1..(i - 1) : log'[s][j] = Said("ask", log'[s][i].id)
  <2>1. i \in 1..Len(log[s]) /\ log'[s][i] = log[s][i]
    BY <1>2, <1>8
  <2>2. PICK j \in 1..(i - 1) : log[s][j] = Said("ask", log[s][i].id)
    BY <1>8, <2>1 DEF AsksOf
  <2>3. j \in 1..Len(log[s])
    BY <1>1, <2>1
  <2>4. QED
    BY <2>1, <2>2, <2>3, <1>1
<1>9. phase'[s] \notin {"closing", "over"} =>
         pending'[s] = {id \in AskIds : SaidIn(s, Said("ask", id))'
                                        /\ ~SaidIn(s, Said("settled", id))'}
  BY <1>5 DEF AsksOf
<1>10. QED
  BY <1>4, <1>6, <1>7, <1>8, <1>9 DEF AsksOf

LEMMA MessagesKept ==
    ASSUME PanelTypeOK, NEW s \in Sessions, NEW events \in Seq(Event), Broadcast(s, events),
           MessagesOf(s), backlog'[s] = backlog[s], steered'[s] \subseteq steered[s],
           typed' = typed,
           \A i \in 1..Len(events) : events[i].type \notin {"user", "queued", "delivered"}
    PROVE  MessagesOf(s)'
<1>1. Len(log[s]) \in Nat /\ Len(log'[s]) \in Nat /\ Len(log[s]) <= Len(log'[s])
      /\ \A i \in 1..Len(log[s]) : log'[s][i] = log[s][i]
  BY Types, Spreads
<1>2. \A i \in 1..Len(log'[s]) : log'[s][i].type \in {"user", "queued", "delivered"} =>
         i \in 1..Len(log[s]) /\ log'[s][i] = log[s][i]
  BY Old
<1>3. Messages(s)' = Messages(s)
  BY <1>1, <1>2 DEF Messages
<1>4. \A id, type : type \in {"user", "queued", "delivered"} =>
         (SaidIn(s, Said(type, id))' <=> SaidIn(s, Said(type, id)))
  <2> SUFFICES ASSUME NEW id, NEW type, type \in {"user", "queued", "delivered"}
               PROVE  SaidIn(s, Said(type, id))' <=> SaidIn(s, Said(type, id))
    OBVIOUS
  <2>1. Said(type, id).type = type
    BY DEF Said
  <2>2. \A i \in 1..Len(log[s]) : i \in 1..Len(log'[s])
    BY <1>1
  <2>3. QED
    BY <2>1, <2>2, <1>1, <1>2 DEF SaidIn
<1>5. Backlogged(s)' = Backlogged(s) /\ SaidQueued(s)' = SaidQueued(s)
  BY <1>4 DEF Backlogged, SaidQueued, SaidIn
<1>6. \A i \in 1..Len(log'[s]) : MessageAt(s, i)' => i \in 1..Len(log[s]) /\ MessageAt(s, i)
                                                     /\ log'[s][i] = log[s][i]
  BY <1>2 DEF MessageAt
<1>7. \A i \in 1..Len(log[s]) : i \in 1..Len(log'[s]) /\ (MessageAt(s, i)' <=> MessageAt(s, i))
  BY <1>1 DEF MessageAt
<1>8. ASSUME NEW i \in 1..Len(log'[s]), log'[s][i].type = "delivered"
      PROVE  \E j \in 1..(i - 1) : MessageAt(s, j)' /\ log'[s][j].id = log'[s][i].id
  <2>1. i \in 1..Len(log[s]) /\ log'[s][i] = log[s][i]
    BY <1>2, <1>8
  <2>2. PICK j \in 1..(i - 1) : MessageAt(s, j) /\ log[s][j].id = log[s][i].id
    BY <1>8, <2>1 DEF MessagesOf
  <2>3. j \in 1..Len(log[s])
    BY <1>1, <2>1
  <2>4. QED
    BY <2>1, <2>2, <2>3, <1>1, <1>7
<1>9. \A id \in Backlogged(s) : \E i \in 1..Len(log'[s]) : MessageAt(s, i)' /\ log'[s][i].id = id
  BY <1>1, <1>7 DEF MessagesOf
<1>10. \A id \in steered'[s] : SaidIn(s, Said("user", id))' /\ id \notin Backlogged(s)
  BY <1>4 DEF MessagesOf
<1>11. \A id \in SaidQueued(s) : id \in Backlogged(s) <=> ~SaidIn(s, Said("delivered", id))'
  BY <1>4 DEF MessagesOf
<1>12. /\ \A i \in 1..Len(log'[s]) : MessageAt(s, i)' => log'[s][i].id <= Cardinality(Messages(s))
       /\ \A i, j \in 1..Len(log'[s]) : MessageAt(s, i)' /\ MessageAt(s, j)'
                                        /\ log'[s][j].id = log'[s][i].id => i = j
  BY <1>6 DEF MessagesOf
<1>13. QED
  BY <1>3, <1>5, <1>8, <1>9, <1>10, <1>11, <1>12 DEF MessagesOf
-----------------------------------------------------------------------------
(* The server's steps. *)

Kept == PanelTypeOK' /\ SessionsInv' /\ StartInv' /\ Moves

\* The buffers and streams a broadcast leaves are of their types.
LEMMA OneEvent ==
    ASSUME PanelTypeOK, NEW s \in Sessions, NEW e \in Event, Broadcast(s, <<e>>)
    PROVE  /\ <<e>> \in Seq(Event) /\ Len(<<e>>) = 1 /\ <<e>>[1] = e
           /\ \A i \in 1..Len(<<e>>) : i = 1 /\ <<e>>[i] = e
           /\ log' \in [Sessions -> Seq(Event)] /\ inbound' \in [Panels -> Seq(Frame)]
           /\ Len(log[s]) \in Nat /\ Len(log'[s]) = Len(log[s]) + 1
           /\ log'[s][Len(log[s]) + 1] = e
           /\ \A i \in 1..Len(log[s]) : log'[s][i] = log[s][i]
           /\ \A t \in Sessions \ {s} : log'[t] = log[t]
<1>1. <<e>> \in Seq(Event) /\ Len(<<e>>) = 1 /\ <<e>>[1] = e
      /\ \A i \in 1..Len(<<e>>) : i = 1 /\ <<e>>[i] = e
  OBVIOUS
<1> DEFINE events == <<e>>
<1> HIDE DEF events
<1>2. events \in Seq(Event) /\ Broadcast(s, events) /\ Len(events) = 1 /\ events[1] = e
      /\ 1 \in 1..Len(events)
  BY <1>1 DEF events
<1>3. /\ log' \in [Sessions -> Seq(Event)] /\ inbound' \in [Panels -> Seq(Frame)]
      /\ Len(log'[s]) = Len(log[s]) + Len(events)
      /\ \A i \in 1..Len(events) : log'[s][Len(log[s]) + i] = events[i]
      /\ \A i \in 1..Len(log[s]) : log'[s][i] = log[s][i]
      /\ \A t \in Sessions \ {s} : log'[t] = log[t]
  BY <1>2, Spreads
<1>4. QED
  BY <1>1, <1>2, <1>3, Types

\* The same, of a single event.
LEMMA OneMoves ==
    ASSUME PanelTypeOK, NEW s \in Sessions, NEW e \in Event, Broadcast(s, <<e>>),
           phase[s] # "over", UNCHANGED <<feed, panel, crossed, behind>>,
           \A t \in Sessions :
              /\ phase[t] # "new" => phase'[t] # "new"
              /\ phase[t] \in {"closing", "over"} =>
                    phase'[t] \in {"closing", "over"} /\ backlog'[t] = backlog[t]
    PROVE  Moves
<1>1. \E events \in Seq(Event) : Broadcast(s, events)
  BY OneEvent
<1>2. QED
  BY <1>1, BroadcastMoves

LEMMA OneStatesKept ==
    ASSUME PanelTypeOK, NEW s \in Sessions, NEW e \in Event, Broadcast(s, <<e>>),
           StatesOf(s), phase[s] \notin {"new", "over"}, phase'[s] # "new",
           e.type = "state" /\ e # StateOf(s) => phase'[s] = "over"
    PROVE  StatesOf(s)'
<1>1. \E events \in Seq(Event) : Broadcast(s, events) /\ Len(events) = 1
         /\ \A i \in 1..Len(events) : i = 1 /\ events[i] = e
  BY OneEvent
<1>2. QED
  BY <1>1, StatesKept

LEMMA OneAsksKept ==
    ASSUME PanelTypeOK, NEW s \in Sessions, NEW e \in Event, Broadcast(s, <<e>>),
           AsksOf(s), pending'[s] = pending[s], asks' = asks,
           phase'[s] \notin {"closing", "over"} => phase[s] \notin {"closing", "over"},
           e.type \notin {"ask", "settled"}
    PROVE  AsksOf(s)'
<1>1. \E events \in Seq(Event) : Broadcast(s, events)
         /\ \A i \in 1..Len(events) : events[i].type \notin {"ask", "settled"}
  <2>1. \A i \in 1..Len(<<e>>) : <<e>>[i] = e
    BY OneEvent
  <2>2. \A i \in 1..Len(<<e>>) : <<e>>[i].type \notin {"ask", "settled"}
    BY <2>1
  <2>3. <<e>> \in Seq(Event)
    BY OneEvent
  <2>4. QED
    BY <2>2, <2>3
<1>2. QED
  BY <1>1, AsksKept

LEMMA OneMessagesKept ==
    ASSUME PanelTypeOK, NEW s \in Sessions, NEW e \in Event, Broadcast(s, <<e>>),
           MessagesOf(s), backlog'[s] = backlog[s], steered'[s] \subseteq steered[s],
           typed' = typed,
           e.type \notin {"user", "queued", "delivered"}
    PROVE  MessagesOf(s)'
<1>1. \E events \in Seq(Event) : Broadcast(s, events)
         /\ \A i \in 1..Len(events) : events[i].type \notin {"user", "queued", "delivered"}
  <2>1. \A i \in 1..Len(<<e>>) : <<e>>[i] = e
    BY OneEvent
  <2>2. \A i \in 1..Len(<<e>>) : <<e>>[i].type \notin {"user", "queued", "delivered"}
    BY <2>1
  <2>3. <<e>> \in Seq(Event)
    BY OneEvent
  <2>4. QED
    BY <2>2, <2>3
<1>2. QED
  BY <1>1, MessagesKept

LEMMA EventsAre ==
    /\ \A x \in Session : StateOf(x) \in Event /\ StateOf(x).type = "state"
       /\ StateOf(x).active = x
    /\ \A id \in MessageIds, type \in {"user", "queued", "delivered"} :
          Said(type, id) \in Event /\ Said(type, id).type = type /\ Said(type, id).id = id
    /\ \A id \in AskIds, type \in {"ask", "settled"} :
          Said(type, id) \in Event /\ Said(type, id).type = type /\ Said(type, id).id = id
BY DEF StateOf, Said, Event, State, MessageEvent, Permission

\* Where one session changes, the others are as they were.
LEMMA OthersStand ==
    ASSUME PanelTypeOK, SessionsInv, NEW s \in Sessions,
           \A t \in Sessions \ {s} :
              /\ phase'[t] = phase[t] /\ log'[t] = log[t] /\ backlog'[t] = backlog[t]
              /\ steered'[t] = steered[t] /\ pending'[t] = pending[t],
           typed' \in Nat, typed' >= typed, asks' \in Nat, asks' >= asks,
           StatesOf(s)', AsksOf(s)', MessagesOf(s)'
    PROVE  SessionsInv'
<1> SUFFICES ASSUME NEW t \in Sessions PROVE StatesOf(t)' /\ AsksOf(t)' /\ MessagesOf(t)'
  BY DEF SessionsInv
<1>1. CASE t # s
  <2>1. StatesOf(t) /\ AsksOf(t) /\ MessagesOf(t)
    BY DEF SessionsInv
  <2>2. /\ phase'[t] = phase[t] /\ log'[t] = log[t] /\ backlog'[t] = backlog[t]
        /\ steered'[t] = steered[t] /\ pending'[t] = pending[t]
    BY <1>1
  <2>3. QED
    BY <2>1, <2>2, Untouched
<1>2. QED
  BY <1>1

LEMMA NewChatKeeps ==
    ASSUME PanelTypeOK, SessionsInv, NewChat, \A s \in Sessions : phase[s] \notin Open,
           start' \in [by : Clients \union {None}, waits : Session], start'.waits = 0,
           UNCHANGED <<reply, feed, panel, history, counts>>
    PROVE  Kept
<1>1. PICK s \in Sessions : /\ phase[s] = "new" /\ phase' = [phase EXCEPT ![s] = "starting"]
                            /\ Broadcast(s, <<StateOf(s)>>)
  BY DEF NewChat, Unused
<1>2. UNCHANGED <<backlog, steered, pending, typed, asks, drops, crossed, behind>>
  BY DEF NewChat, counts, history
<1>3. StateOf(s) \in Event /\ StateOf(s).type = "state"
  BY EventsAre, Numbers
<1>4. phase' \in [Sessions -> Open \union {"new", "closing", "over"}] /\ phase'[s] = "starting"
      /\ \A t \in Sessions \ {s} : phase'[t] = phase[t]
  BY <1>1 DEF PanelTypeOK, Open
<1>5. PanelTypeOK'
  <2>1. \A t, u \in Sessions : phase'[t] \in Open /\ phase'[u] \in Open => t = u
    BY <1>4
  <2>2. \A t \in Sessions : phase'[t] = "ready" => backlog'[t] = <<>>
    BY <1>2, <1>4 DEF PanelTypeOK
  <2>3. log' \in [Sessions -> Seq(Event)] /\ inbound' \in [Panels -> Seq(Frame)]
    BY <1>1, <1>3, OneEvent
  <2>4. QED
    BY <1>2, <1>4, <2>1, <2>2, <2>3 DEF PanelTypeOK
<1>6. Moves
  BY <1>1, <1>2, <1>3, <1>4, OneMoves DEF Open
<1>7. StatesOf(s)'
  <2>1. log[s] = <<>> /\ Len(log[s]) = 0
    BY <1>1 DEF SessionsInv, StatesOf
  <2>2. Len(log'[s]) = 1 /\ log'[s][1] = StateOf(s)
    BY <1>1, <1>3, <2>1, OneEvent
  <2>3. QED
    BY <2>2, <1>4 DEF StatesOf
<1>8. AsksOf(s)'
  BY <1>1, <1>2, <1>3, OneAsksKept DEF SessionsInv
<1>9. MessagesOf(s)'
  BY <1>1, <1>2, <1>3, OneMessagesKept DEF SessionsInv
<1>10. SessionsInv'
  <2>1. \A t \in Sessions \ {s} : log'[t] = log[t]
    BY <1>1, <1>3, OneEvent
  <2>2. QED
    BY <1>2, <1>4, <1>7, <1>8, <1>9, <2>1, OthersStand, Types
<1>11. QED
  BY <1>5, <1>6, <1>10 DEF Kept, StartInv
-----------------------------------------------------------------------------
(* Requests and messages, one by one. *)

\* A message leaves the queue, or a refused one is sent as a turn.
LEMMA DeliveredKeeps ==
    ASSUME PanelTypeOK, NEW s \in Sessions, NEW id \in MessageIds,
           Broadcast(s, <<Said("delivered", id)>>), MessagesOf(s),
           \E i \in 1..Len(log[s]) : MessageAt(s, i) /\ log[s][i].id = id,
           Backlogged(s)' = Backlogged(s) \ {id},
           \A i, j \in 1..Len(backlog'[s]) : backlog'[s][i] = backlog'[s][j] => i = j,
           steered'[s] \subseteq steered[s], typed' = typed
    PROVE  MessagesOf(s)'
<1>a. PICK n \in Nat : n = Len(log[s])
  BY Types
<1>1. /\ n \in Nat /\ Len(log'[s]) = n + 1 /\ log'[s][n + 1] = Said("delivered", id)
      /\ \A i \in 1..n : log'[s][i] = log[s][i]
  BY EventsAre, OneEvent, <1>a
<1>2. Said("delivered", id).type = "delivered" /\ Said("delivered", id).id = id
  BY EventsAre
<1>3. \A i \in 1..Len(log'[s]) : i = n + 1 \/ i \in 1..n
  BY <1>1
<1>4. \A i \in 1..n : i \in 1..Len(log'[s]) /\ (MessageAt(s, i)' <=> MessageAt(s, i))
  BY <1>1 DEF MessageAt
<1>5. ~MessageAt(s, n + 1)'
  BY <1>1, <1>2 DEF MessageAt
<1>6. Messages(s)' = Messages(s)
  BY <1>1, <1>2, <1>3, <1>4, <1>a DEF Messages
<1>7. \A e : e.type # "delivered" => (SaidIn(s, e)' <=> SaidIn(s, e))
  BY <1>1, <1>2, <1>3, <1>4, <1>a DEF SaidIn
<1>8. \A m : SaidIn(s, Said("delivered", m))' <=> m = id \/ SaidIn(s, Said("delivered", m))
  <2>1. \A m : Said("delivered", m).id = m
    BY DEF Said
  <2>2. n + 1 \in 1..Len(log'[s])
    BY <1>1
  <2>3. QED
    BY <1>1, <1>3, <1>4, <2>1, <2>2, <1>a DEF SaidIn
<1>9. SaidQueued(s)' = SaidQueued(s)
  <2>1. \A m : Said("queued", m).type # "delivered"
    BY DEF Said
  <2>2. QED
    BY <2>1, <1>7 DEF SaidQueued, SaidIn
<1>10. ASSUME NEW i \in 1..Len(log'[s]), log'[s][i].type = "delivered"
       PROVE  \E j \in 1..(i - 1) : MessageAt(s, j)' /\ log'[s][j].id = log'[s][i].id
  <2>1. CASE i \in 1..n
    <3>1. PICK j \in 1..(i - 1) : MessageAt(s, j) /\ log[s][j].id = log[s][i].id
      BY <1>1, <1>10, <2>1, <1>a DEF MessagesOf
    <3>2. j \in 1..n
      BY <1>1, <2>1
    <3>3. QED
      BY <1>1, <1>4, <2>1, <3>1, <3>2
  <2>2. CASE i = n + 1
    <3>1. PICK j \in 1..n : MessageAt(s, j) /\ log[s][j].id = id
      BY <1>a
    <3>2. j \in 1..(i - 1)
      BY <1>1, <2>2
    <3>3. QED
      BY <1>1, <1>2, <1>4, <2>2, <3>1, <3>2
  <2>3. QED
    BY <1>3, <2>1, <2>2
<1>11. \A m \in Backlogged(s)' : \E i \in 1..Len(log'[s]) : MessageAt(s, i)' /\ log'[s][i].id = m
  BY <1>1, <1>4, <1>a DEF MessagesOf
<1>12. \A m \in steered'[s] : SaidIn(s, Said("user", m))' /\ m \notin Backlogged(s)'
  <2>1. \A m : Said("user", m).type # "delivered"
    BY DEF Said
  <2>2. QED
    BY <2>1, <1>7 DEF MessagesOf
<1>13. \A m \in SaidQueued(s) : m \in Backlogged(s)' <=> ~SaidIn(s, Said("delivered", m))'
  BY <1>8 DEF MessagesOf
<1>14. /\ \A i \in 1..Len(log'[s]) : MessageAt(s, i)' => log'[s][i].id <= Cardinality(Messages(s))
       /\ \A i, j \in 1..Len(log'[s]) : MessageAt(s, i)' /\ MessageAt(s, j)'
                                        /\ log'[s][j].id = log'[s][i].id => i = j
  BY <1>1, <1>3, <1>4, <1>5, <1>a DEF MessagesOf
<1>15. QED
  BY <1>6, <1>9, <1>10, <1>11, <1>12, <1>13, <1>14 DEF MessagesOf

\* A message is numbered, shown, and queued or sent.
LEMMA SentKeeps ==
    ASSUME PanelTypeOK, NEW s \in Sessions, NEW id \in MessageIds,
           NEW type \in {"user", "queued"},
           id = Cardinality(Messages(s)) + 1,
           Broadcast(s, <<Said(type, id)>>), MessagesOf(s),
           type = "user" => backlog'[s] = backlog[s]
           /\ steered'[s] \subseteq steered[s] \union {id},
           type = "queued" => backlog'[s] = Append(backlog[s], id) /\ steered'[s] = steered[s],
           typed' = typed + 1
    PROVE  MessagesOf(s)'
<1>a. PICK n \in Nat : n = Len(log[s])
  BY Types
<1>b. PICK c \in Nat : c = Cardinality(Messages(s))
  BY Counted
<1>1. /\ n \in Nat /\ Len(log'[s]) = n + 1 /\ log'[s][n + 1] = Said(type, id)
      /\ \A i \in 1..n : log'[s][i] = log[s][i]
  BY EventsAre, OneEvent, <1>a
<1>0. c \in Nat /\ c + 1 <= typed' /\ id \notin 1..c /\ id = c + 1
  <2>1. c <= typed /\ typed \in Nat
    BY <1>b, Types DEF MessagesOf
  <2>2. QED
    BY <2>1, <1>b
<1>2. Said(type, id).type = type /\ Said(type, id).id = id
  BY EventsAre
<1>3. \A i \in 1..Len(log'[s]) : i = n + 1 \/ i \in 1..n
  BY <1>1
<1>4. \A i \in 1..n : i \in 1..Len(log'[s]) /\ (MessageAt(s, i)' <=> MessageAt(s, i))
  BY <1>1 DEF MessageAt
<1>5. MessageAt(s, n + 1)' /\ n + 1 \in 1..Len(log'[s])
  BY <1>1, <1>2 DEF MessageAt
<1>6. Cardinality(Messages(s))' = id
  <2>1. Messages(s)' = Messages(s) \union {n + 1}
    BY <1>1, <1>2, <1>3, <1>4, <1>a DEF Messages
  <2>2. n + 1 \notin Messages(s)
    BY <1>1, <1>a DEF Messages
  <2>3. QED
    BY <2>1, <2>2, <1>0, Counted, FS_AddElement, <1>b
<1>7. \A m, kind : kind # type => (SaidIn(s, Said(kind, m))' <=> SaidIn(s, Said(kind, m)))
  <2>1. \A m, kind : Said(kind, m).type = kind
    BY DEF Said
  <2>2. QED
    BY <2>1, <1>1, <1>2, <1>3, <1>4, <1>a DEF SaidIn
<1>8. \A m, kind : SaidIn(s, Said(kind, m)) => SaidIn(s, Said(kind, m))'
  BY <1>1, <1>4, <1>a DEF SaidIn
<1>9. \A m \in MessageIds : MessageAt(s, m) /\ m \in 1..n => log[s][m].id # id
  BY <1>0, <1>a, <1>b DEF MessagesOf
<1>10. \A i \in 1..n : MessageAt(s, i) => log[s][i].id <= c /\ log[s][i].id # id
  BY <1>0, <1>a, <1>b DEF MessagesOf
<1>11. \A i \in 1..n : log[s][i].type = "delivered" => log[s][i].id # id
  <2> SUFFICES ASSUME NEW i \in 1..n, log[s][i].type = "delivered" PROVE log[s][i].id # id
    OBVIOUS
  <2>1. PICK j \in 1..(i - 1) : MessageAt(s, j) /\ log[s][j].id = log[s][i].id
    BY <1>a DEF MessagesOf
  <2>2. j \in 1..n
    BY <1>1
  <2>3. QED
    BY <1>10, <2>1, <2>2
<1>12. id \notin Backlogged(s)
  BY <1>10, <1>a DEF MessagesOf
<1>13. ~SaidIn(s, Said("delivered", id))
  <2>1. Said("delivered", id).type = "delivered" /\ Said("delivered", id).id = id
    BY EventsAre
  <2>2. QED
    BY <2>1, <1>11, <1>a DEF SaidIn
<1>14. ASSUME NEW i \in 1..Len(log'[s]), log'[s][i].type = "delivered"
       PROVE  \E j \in 1..(i - 1) : MessageAt(s, j)' /\ log'[s][j].id = log'[s][i].id
  <2>1. i \in 1..n
    BY <1>1, <1>2, <1>3, <1>14
  <2>2. PICK j \in 1..(i - 1) : MessageAt(s, j) /\ log[s][j].id = log[s][i].id
    BY <1>1, <1>14, <2>1, <1>a DEF MessagesOf
  <2>3. j \in 1..n
    BY <1>1, <2>1
  <2>4. QED
    BY <1>1, <1>4, <2>1, <2>2, <2>3
<1>15. /\ type = "queued" => Backlogged(s)' = Backlogged(s) \union {id}
       /\ type = "user" => Backlogged(s)' = Backlogged(s)
       /\ \A i, j \in 1..Len(backlog'[s]) : backlog'[s][i] = backlog'[s][j] => i = j
  <2>1. backlog[s] \in Seq(MessageIds) /\ Len(backlog[s]) \in Nat
    BY Types
  <2>2. CASE type = "user"
    <3>1. backlog'[s] = backlog[s]
      BY <2>2
    <3>2. Backlogged(s)' = Backlogged(s)
      BY <3>1 DEF Backlogged
    <3>3. \A i, j \in 1..Len(backlog[s]) : backlog[s][i] = backlog[s][j] => i = j
      BY DEF MessagesOf
    <3>4. QED
      BY <2>2, <3>1, <3>2, <3>3
  <2>3. CASE type = "queued"
    <3>1. /\ Len(backlog'[s]) = Len(backlog[s]) + 1 /\ backlog'[s][Len(backlog[s]) + 1] = id
          /\ \A i \in 1..Len(backlog[s]) : backlog'[s][i] = backlog[s][i]
      BY <2>1, <2>3
    <3>2. \A i \in 1..Len(backlog'[s]) : i = Len(backlog[s]) + 1 \/ i \in 1..Len(backlog[s])
      BY <2>1, <3>1
    <3>3. \A i \in 1..Len(backlog[s]) : i \in 1..Len(backlog'[s]) /\ backlog[s][i] # id
      BY <2>1, <3>1, <1>12 DEF Backlogged
    <3>4. Len(backlog[s]) + 1 \in 1..Len(backlog'[s])
      BY <2>1, <3>1
    <3>5. Backlogged(s)' = Backlogged(s) \union {id}
      BY <3>1, <3>2, <3>3, <3>4 DEF Backlogged
    <3>6. \A i, j \in 1..Len(backlog'[s]) : backlog'[s][i] = backlog'[s][j] => i = j
      BY <3>1, <3>2, <3>3 DEF MessagesOf
    <3>7. QED
      BY <2>3, <3>5, <3>6
  <2>4. QED
    BY <2>2, <2>3
<1>16. SaidIn(s, Said(type, id))'
  BY <1>1, <1>5 DEF SaidIn
<1>17. \A m \in Backlogged(s)' : \E i \in 1..Len(log'[s]) : MessageAt(s, i)' /\ log'[s][i].id = m
  <2>1. \A m \in Backlogged(s) : \E i \in 1..n : MessageAt(s, i) /\ log[s][i].id = m
    BY <1>a DEF MessagesOf
  <2>2. \A m \in Backlogged(s) : \E i \in 1..Len(log'[s]) : MessageAt(s, i)' /\ log'[s][i].id = m
    BY <2>1, <1>1, <1>4
  <2>3. \E i \in 1..Len(log'[s]) : MessageAt(s, i)' /\ log'[s][i].id = id
    BY <1>1, <1>2, <1>5
  <2>4. \A m \in Backlogged(s)' : m \in Backlogged(s) \/ m = id
    BY <1>15
  <2>5. QED
    BY <2>2, <2>3, <2>4
<1>18. \A m \in steered'[s] : SaidIn(s, Said("user", m))' /\ m \notin Backlogged(s)'
  <2>1. \A m \in steered[s] : SaidIn(s, Said("user", m))' /\ m \notin Backlogged(s)
    BY <1>8 DEF MessagesOf
  <2>2. \A m \in steered[s] : m # id
    <3>1. \A m : Said("user", m).type = "user" /\ Said("user", m).id = m
      BY DEF Said
    <3>2. QED
      BY <3>1, <1>10, <1>a DEF MessagesOf, SaidIn, MessageAt
  <2>3. \A m \in steered[s] : SaidIn(s, Said("user", m))' /\ m \notin Backlogged(s)'
    BY <2>1, <2>2, <1>15
  <2>4. \A m \in steered'[s] : m \in steered[s] \/ (type = "user" /\ m = id)
    OBVIOUS
  <2>5. type = "user" => SaidIn(s, Said("user", id))' /\ id \notin Backlogged(s)'
    BY <1>12, <1>15, <1>16
  <2>6. QED
    BY <2>3, <2>4, <2>5
<1>19. \A m \in SaidQueued(s)' : m \in Backlogged(s)' <=> ~SaidIn(s, Said("delivered", m))'
  <2>1. SUFFICES ASSUME NEW m \in SaidQueued(s)'
                 PROVE  m \in Backlogged(s)' <=> ~SaidIn(s, Said("delivered", m))'
    OBVIOUS
  <2>2. SaidIn(s, Said("queued", m))' /\ m \in MessageIds
    BY DEF SaidQueued, SaidIn
  <2>3. SaidIn(s, Said("delivered", m))' <=> SaidIn(s, Said("delivered", m))
    BY <1>7
  <2>4. CASE m \in SaidQueued(s)
    <3>1. m # id
      <4>1. \A k : Said("queued", k).type = "queued" /\ Said("queued", k).id = k
        BY DEF Said
      <4>2. QED
        BY <4>1, <2>4, <1>10, <1>a DEF SaidQueued, MessageAt
    <3>2. m \in Backlogged(s) <=> ~SaidIn(s, Said("delivered", m))
      BY <2>4 DEF MessagesOf
    <3>3. m \in Backlogged(s)' <=> m \in Backlogged(s)
      BY <3>1, <1>15
    <3>4. QED
      BY <2>3, <3>2, <3>3
  <2>5. CASE m \notin SaidQueued(s)
    <3>1. type = "queued" /\ m = id
      <4>1. ~SaidIn(s, Said("queued", m))
        BY <2>2, <2>5 DEF SaidQueued, SaidIn
      <4>2. \A k, kind : Said(kind, k).id = k
        BY DEF Said
      <4>3. QED
        BY <4>1, <4>2, <2>2, <1>1, <1>2, <1>3, <1>7, <1>a DEF SaidIn
    <3>2. QED
      BY <2>3, <3>1, <1>13, <1>15
  <2>6. QED
    BY <2>4, <2>5
<1>20. /\ \A i \in 1..Len(log'[s]) : MessageAt(s, i)' => log'[s][i].id <= id
       /\ \A i, j \in 1..Len(log'[s]) : MessageAt(s, i)' /\ MessageAt(s, j)'
                                        /\ log'[s][j].id = log'[s][i].id => i = j
  <2>1. \A i \in 1..n : MessageAt(s, i) => log[s][i].id <= id
    <3>1. \A i \in 1..n : log[s][i] \in Event
      BY Types, <1>a
    <3>2. \A i \in 1..n : MessageAt(s, i) => log[s][i].id \in Nat
      BY <3>1, Kinds, Numbers DEF MessageAt
    <3>3. QED
      BY <3>2, <1>0, <1>10
  <2>2. \A i, j \in 1..n : MessageAt(s, i) /\ MessageAt(s, j)
        /\ log[s][j].id = log[s][i].id => i = j
    BY <1>a DEF MessagesOf
  <2>3. id <= id
    BY <1>0
  <2>4. QED
    BY <2>1, <2>2, <2>3, <1>1, <1>2, <1>3, <1>4, <1>10
<1>21. typed' = typed + 1 /\ Cardinality(Messages(s))' <= typed'
  BY <1>0, <1>6
<1>22. QED
  BY <1>21, <1>6, <1>14, <1>15, <1>17, <1>18, <1>19, <1>20 DEF MessagesOf

\* A request is numbered and pending.
LEMMA AskedKeeps ==
    ASSUME PanelTypeOK, NEW s \in Sessions, NEW id \in AskIds, id = Asked(s) + 1,
           Broadcast(s, <<Said("ask", id)>>), AsksOf(s), phase'[s] = phase[s],
           pending'[s] = pending[s] \union {id}, asks' = asks + 1
    PROVE  AsksOf(s)'
<1>a. PICK n \in Nat : n = Len(log[s])
  BY Types
<1>b. PICK c \in Nat : c = Asked(s)
  BY Counted
<1>1. /\ n \in Nat /\ Len(log'[s]) = n + 1 /\ log'[s][n + 1] = Said("ask", id)
      /\ \A i \in 1..n : log'[s][i] = log[s][i]
  BY EventsAre, OneEvent, <1>a
<1>0. c \in Nat /\ c + 1 <= asks' /\ id = c + 1
  <2>1. c <= asks /\ asks \in Nat
    BY <1>b, Types DEF AsksOf
  <2>2. QED
    BY <2>1, <1>b
<1>2. Said("ask", id).type = "ask" /\ Said("ask", id).id = id
  BY EventsAre
<1>3. \A i \in 1..Len(log'[s]) : i = n + 1 \/ i \in 1..n
  BY <1>1
<1>4. n + 1 \in 1..Len(log'[s]) /\ \A i \in 1..n : i \in 1..Len(log'[s])
  BY <1>1
<1>5. Asked(s)' = id
  <2> DEFINE A == {i \in 1..Len(log[s]) : log[s][i].type = "ask"}
             B == {i \in 1..Len(log'[s]) : log'[s][i].type = "ask"}
  <2>1. B = A \union {n + 1}
    BY <1>1, <1>2, <1>3, <1>4, <1>a
  <2>2. n + 1 \notin A
    BY <1>1, <1>a
  <2>3. IsFiniteSet(A) /\ Cardinality(A) = c
    BY Counted, <1>b DEF Asked
  <2> HIDE DEF A, B
  <2>4. Cardinality(B) = id
    BY <2>1, <2>2, <2>3, <1>0, FS_AddElement
  <2>5. QED
    BY <2>4 DEF B, Asked
<1>6. \A i \in 1..n : log[s][i].type = "ask" => log[s][i].id <= c /\ log[s][i].id # id
  BY <1>0, <1>a, <1>b DEF AsksOf
<1>7. \A i \in 1..n : log[s][i] # Said("ask", id)
  BY <1>2, <1>6
<1>8. ASSUME NEW i \in 1..Len(log'[s]), log'[s][i].type = "settled"
      PROVE  \E j \in 1..(i - 1) : log'[s][j] = Said("ask", log'[s][i].id)
  <2>1. i \in 1..n
    BY <1>1, <1>2, <1>3, <1>8
  <2>2. PICK j \in 1..(i - 1) : log[s][j] = Said("ask", log[s][i].id)
    BY <1>1, <1>8, <2>1, <1>a DEF AsksOf
  <2>3. j \in 1..n
    BY <1>1, <2>1
  <2>4. QED
    BY <1>1, <2>1, <2>2, <2>3
<1>9. \A i \in 1..n : log[s][i] # Said("settled", id)
  <2> SUFFICES ASSUME NEW i \in 1..n, log[s][i] = Said("settled", id) PROVE FALSE
    OBVIOUS
  <2>1. log[s][i].type = "settled" /\ log[s][i].id = id
    BY EventsAre
  <2>2. PICK j \in 1..(i - 1) : log[s][j] = Said("ask", id)
    BY <1>a, <2>1 DEF AsksOf
  <2>3. j \in 1..n
    BY <1>1
  <2>4. QED
    BY <1>7, <2>2, <2>3
<1>10. \A m : /\ SaidIn(s, Said("ask", m))' <=> m = id \/ SaidIn(s, Said("ask", m))
              /\ SaidIn(s, Said("settled", m))' <=> SaidIn(s, Said("settled", m))
  <2>1. \A m : Said("ask", m).id = m /\ Said("settled", m).type = "settled"
    BY DEF Said
  <2>2. QED
    BY <2>1, <1>1, <1>2, <1>3, <1>4, <1>a DEF SaidIn
<1>11. ~SaidIn(s, Said("settled", id))
  BY <1>9, <1>a DEF SaidIn
<1>12. phase'[s] \notin {"closing", "over"} =>
         pending'[s] = {m \in AskIds : SaidIn(s, Said("ask", m))'
                                       /\ ~SaidIn(s, Said("settled", m))'}
  BY <1>10, <1>11 DEF AsksOf
<1>13. \A i \in 1..Len(log'[s]) : log'[s][i].type = "ask" => log'[s][i].id <= id
  <2>1. \A i \in 1..n : log[s][i].type = "ask" => log[s][i].id <= id
    <3>1. \A i \in 1..n : log[s][i] \in Event
      BY Types, <1>a
    <3>2. \A i \in 1..n : log[s][i].type = "ask" => log[s][i].id \in Nat
      BY <3>1, Kinds, Numbers
    <3>3. QED
      BY <3>2, <1>0, <1>6
  <2>2. id <= id
    BY <1>0
  <2>3. QED
    BY <2>1, <2>2, <1>1, <1>2, <1>3
<1>14. \A i, j \in 1..Len(log'[s]) : log'[s][i].type = "ask" /\ log'[s][j] = log'[s][i] => i = j
  <2>1. \A i, j \in 1..n : log[s][i].type = "ask" /\ log[s][j] = log[s][i] => i = j
    BY <1>a DEF AsksOf
  <2>2. QED
    BY <2>1, <1>1, <1>2, <1>3, <1>7
<1>15. Asked(s)' <= asks'
  BY <1>0, <1>5
<1>16. QED
  BY <1>5, <1>8, <1>12, <1>13, <1>14, <1>15 DEF AsksOf

\* Requests that were made are settled.
LEMMA SettledKeeps ==
    ASSUME PanelTypeOK, NEW s \in Sessions, NEW events \in Seq(Event), Broadcast(s, events),
           AsksOf(s), asks' = asks,
           \A i \in 1..Len(events) : \E id \in AskIds : /\ events[i] = Said("settled", id)
                                                        /\ SaidIn(s, Said("ask", id)),
           phase'[s] \notin {"closing", "over"} =>
              /\ phase[s] \notin {"closing", "over"}
              /\ pending'[s] = {id \in pending[s] : \A i \in 1..Len(events) :
                                                       events[i] # Said("settled", id)}
    PROVE  AsksOf(s)'
<1>1. /\ Len(log[s]) \in Nat /\ Len(log'[s]) \in Nat /\ Len(log[s]) <= Len(log'[s])
      /\ Len(events) \in Nat /\ Len(log'[s]) = Len(log[s]) + Len(events)
      /\ \A i \in 1..Len(log[s]) : log'[s][i] = log[s][i]
      /\ \A i \in 1..Len(events) : log'[s][Len(log[s]) + i] = events[i]
  BY Types, Spreads
<1>2. \A id : Said("settled", id).type = "settled" /\ Said("settled", id).id = id
              /\ Said("ask", id).type = "ask"
  BY DEF Said
<1>3. \A i \in 1..Len(events) : events[i].type = "settled"
  BY <1>2
<1>4. \A i \in 1..Len(log'[s]) : log'[s][i].type = "ask" => i \in 1..Len(log[s])
      /\ log'[s][i] = log[s][i]
  BY <1>3, Old
<1>5. \A i \in 1..Len(log[s]) : i \in 1..Len(log'[s])
  BY <1>1
<1>6. Asked(s)' = Asked(s)
  <2>1. {i \in 1..Len(log'[s]) : log'[s][i].type = "ask"}
        = {i \in 1..Len(log[s]) : log[s][i].type = "ask"}
    BY <1>1, <1>4, <1>5
  <2>2. QED
    BY <2>1 DEF Asked
<1>7. \A id : SaidIn(s, Said("ask", id))' <=> SaidIn(s, Said("ask", id))
  BY <1>1, <1>2, <1>4, <1>5 DEF SaidIn
<1>8. \A i \in 1..Len(events) : Len(log[s]) + i \in 1..Len(log'[s])
  BY <1>1
<1>9. \A id : SaidIn(s, Said("settled", id))' <=>
                \/ SaidIn(s, Said("settled", id))
                \/ \E i \in 1..Len(events) : events[i] = Said("settled", id)
  <2> SUFFICES ASSUME NEW id
               PROVE  SaidIn(s, Said("settled", id))' <=>
                        \/ SaidIn(s, Said("settled", id))
                        \/ \E i \in 1..Len(events) : events[i] = Said("settled", id)
    OBVIOUS
  <2>1. SaidIn(s, Said("settled", id)) => SaidIn(s, Said("settled", id))'
    BY <1>1, <1>5 DEF SaidIn
  <2>2. (\E i \in 1..Len(events) : events[i] = Said("settled", id))
        => SaidIn(s, Said("settled", id))'
    BY <1>1, <1>8 DEF SaidIn
  <2>3. ASSUME NEW i \in 1..Len(log'[s]), log'[s][i] = Said("settled", id)
        PROVE  \/ SaidIn(s, Said("settled", id))
               \/ \E j \in 1..Len(events) : events[j] = Said("settled", id)
    <3>1. CASE i \in 1..Len(log[s]) /\ log'[s][i] = log[s][i]
      BY <2>3, <3>1 DEF SaidIn
    <3>2. CASE i - Len(log[s]) \in 1..Len(events) /\ log'[s][i] = events[i - Len(log[s])]
      BY <2>3, <3>2
    <3>3. QED
      BY <3>1, <3>2, Old
  <2>4. QED
    BY <2>1, <2>2, <2>3 DEF SaidIn
<1>10. phase'[s] \notin {"closing", "over"} =>
         pending'[s] = {m \in AskIds : SaidIn(s, Said("ask", m))'
                                       /\ ~SaidIn(s, Said("settled", m))'}
  BY <1>7, <1>9 DEF AsksOf
<1>11. ASSUME NEW i \in 1..Len(log'[s]), log'[s][i].type = "settled"
       PROVE  \E j \in 1..(i - 1) : log'[s][j] = Said("ask", log'[s][i].id)
  <2>1. CASE i \in 1..Len(log[s]) /\ log'[s][i] = log[s][i]
    <3>1. PICK j \in 1..(i - 1) : log[s][j] = Said("ask", log[s][i].id)
      BY <1>11, <2>1 DEF AsksOf
    <3>2. j \in 1..Len(log[s])
      BY <1>1, <2>1
    <3>3. QED
      BY <1>1, <2>1, <3>1, <3>2
  <2>2. CASE i > Len(log[s]) /\ i - Len(log[s]) \in 1..Len(events)
             /\ log'[s][i] = events[i - Len(log[s])]
    <3>1. SaidIn(s, Said("ask", log'[s][i].id))
      BY <1>2, <2>2
    <3>2. PICK j \in 1..Len(log[s]) : log[s][j] = Said("ask", log'[s][i].id)
      BY <3>1 DEF SaidIn
    <3>3. j \in 1..(i - 1)
      BY <1>1, <2>2
    <3>4. QED
      BY <1>1, <3>2, <3>3
  <2>3. QED
    BY <2>1, <2>2, Old
<1>12. \A i \in 1..Len(log'[s]) : log'[s][i].type = "ask" => log'[s][i].id <= Asked(s)
  BY <1>4 DEF AsksOf
<1>13. \A i, j \in 1..Len(log'[s]) : log'[s][i].type = "ask" /\ log'[s][j] = log'[s][i] => i = j
  BY <1>4 DEF AsksOf
<1>14. QED
  BY <1>6, <1>10, <1>11, <1>12, <1>13 DEF AsksOf

\* A refused steer has its place in the queue.
Distinct(q) == \A i, j \in 1..Len(q) : q[i] = q[j] => i = j
IsIn(q, x) == \E i \in 1..Len(q) : q[i] = x

LEMMA Inserted ==
    ASSUME NEW q \in Seq(MessageIds), NEW id \in MessageIds, NEW r \in PutBack(q, id),
           Distinct(q), ~IsIn(q, id)
    PROVE  /\ r \in Seq(MessageIds) /\ Distinct(r)
           /\ \A x : IsIn(r, x) <=> (x = id \/ IsIn(q, x))
<1>z. (\A i, j \in 1..Len(q) : q[i] = q[j] => i = j) /\ (\A i \in 1..Len(q) : q[i] # id)
  BY DEF Distinct, IsIn
<1>1. PICK k \in 0..Len(q) : r = SubSeq(q, 1, k) \o <<id>> \o SubSeq(q, k + 1, Len(q))
  BY DEF PutBack
<1>a. PICK n \in Nat : n = Len(q)
  OBVIOUS
<1>0. k \in Nat /\ k <= n
  BY <1>a
<1> DEFINE a == SubSeq(q, 1, k)   z == SubSeq(q, k + 1, n)
<1>2. a \in Seq(MessageIds) /\ Len(a) = k /\ \A i \in 1..k : a[i] = q[i]
  BY <1>0, <1>a
<1>3. z \in Seq(MessageIds) /\ Len(z) = n - k /\ \A i \in 1..(n - k) : z[i] = q[k + i]
  BY <1>0, <1>a
<1> HIDE DEF a, z
<1>4. a \o <<id>> \in Seq(MessageIds) /\ Len(a \o <<id>>) = k + 1
      /\ (a \o <<id>>)[k + 1] = id /\ \A i \in 1..k : (a \o <<id>>)[i] = q[i]
  BY <1>0, <1>2
<1> DEFINE b == a \o <<id>>
<1> HIDE DEF b
<1>5. /\ b \o z \in Seq(MessageIds) /\ Len(b \o z) = n + 1
      /\ \A i \in 1..(k + 1) : (b \o z)[i] = b[i]
      /\ \A i \in 1..(n - k) : (b \o z)[k + 1 + i] = z[i]
  <2>1. b \in Seq(MessageIds) /\ Len(b) = k + 1 /\ z \in Seq(MessageIds) /\ Len(z) = n - k
    BY <1>3, <1>4 DEF b
  <2>2. b \o z \in Seq(MessageIds) /\ Len(b \o z) = Len(b) + Len(z)
    BY <2>1
  <2>3. \A i \in 1..Len(b) : (b \o z)[i] = b[i]
    BY <2>1
  <2>4. \A i \in 1..Len(z) : (b \o z)[Len(b) + i] = z[i]
    BY <2>1
  <2>5. (k + 1) + (n - k) = n + 1
    BY <1>0
  <2>6. QED
    BY <2>1, <2>2, <2>3, <2>4, <2>5
<1>6. r = b \o z
  BY <1>1, <1>a DEF a, b, z
<1>7. r \in Seq(MessageIds) /\ Len(r) = n + 1 /\ r[k + 1] = id /\ k + 1 \in 1..(n + 1)
      /\ \A i \in 1..k : r[i] = q[i]
  BY <1>0, <1>4, <1>5, <1>6 DEF b
<1>8. \A i \in (k + 1)..n : r[i + 1] = q[i]
  <2> SUFFICES ASSUME NEW i \in (k + 1)..n PROVE r[i + 1] = q[i]
    OBVIOUS
  <2>1. i - k \in 1..(n - k) /\ k + 1 + (i - k) = i + 1 /\ k + (i - k) = i
    BY <1>0
  <2>2. QED
    <3>1. r[k + 1 + (i - k)] = z[i - k]
      BY <2>1, <1>5, <1>6
    <3>2. z[i - k] = q[k + (i - k)]
      BY <2>1, <1>3
    <3>3. QED
      BY <3>1, <3>2, <2>1
<1>9. \A i \in 1..(n + 1) : \/ i \in 1..k /\ i \in 1..n /\ r[i] = q[i]
                            \/ i = k + 1 /\ r[i] = id
                            \/ i > k + 1 /\ i - 1 \in 1..n /\ r[i] = q[i - 1]
  <2> SUFFICES ASSUME NEW i \in 1..(n + 1), i \notin 1..k, i # k + 1
               PROVE  i > k + 1 /\ i - 1 \in 1..n /\ r[i] = q[i - 1]
    BY <1>0, <1>7
  <2>1. i > k + 1 /\ i - 1 \in (k + 1)..n /\ (i - 1) + 1 = i /\ i - 1 \in 1..n
    BY <1>0
  <2>2. QED
    BY <2>1, <1>8
<1>10. \A i, j \in 1..Len(r) : r[i] = r[j] => i = j
  <2> SUFFICES ASSUME NEW i \in 1..(n + 1), NEW j \in 1..(n + 1), r[i] = r[j] PROVE i = j
    BY <1>7
  <2>1. \A x, y \in 1..n : q[x] = q[y] => x = y
    BY <1>a, <1>z
  <2>2. \A x \in 1..n : q[x] # id
    BY <1>a, <1>z
  <2>3. CASE i \in 1..k /\ i \in 1..n /\ r[i] = q[i]
    <3>1. CASE j \in 1..k /\ j \in 1..n /\ r[j] = q[j]
      BY <2>1, <2>3, <3>1
    <3>2. CASE j = k + 1 /\ r[j] = id
      BY <2>2, <2>3, <3>2
    <3>3. CASE j > k + 1 /\ j - 1 \in 1..n /\ r[j] = q[j - 1]
      <4>1. i = j - 1
        BY <2>1, <2>3, <3>3
      <4>2. QED
        BY <4>1, <2>3, <3>3, <1>0
    <3>4. QED
      BY <3>1, <3>2, <3>3, <1>9
  <2>4. CASE i = k + 1 /\ r[i] = id
    <3>1. CASE j \in 1..k /\ j \in 1..n /\ r[j] = q[j]
      BY <2>2, <2>4, <3>1
    <3>2. CASE j = k + 1
      BY <2>4, <3>2
    <3>3. CASE j > k + 1 /\ j - 1 \in 1..n /\ r[j] = q[j - 1]
      BY <2>2, <2>4, <3>3
    <3>4. QED
      BY <3>1, <3>2, <3>3, <1>9
  <2>5. CASE i > k + 1 /\ i - 1 \in 1..n /\ r[i] = q[i - 1]
    <3>1. CASE j \in 1..k /\ j \in 1..n /\ r[j] = q[j]
      <4>1. j = i - 1
        BY <2>1, <2>5, <3>1
      <4>2. QED
        BY <4>1, <2>5, <3>1, <1>0
    <3>2. CASE j = k + 1 /\ r[j] = id
      BY <2>2, <2>5, <3>2
    <3>3. CASE j > k + 1 /\ j - 1 \in 1..n /\ r[j] = q[j - 1]
      <4>1. i - 1 = j - 1
        BY <2>1, <2>5, <3>3
      <4>2. QED
        BY <4>1
    <3>4. QED
      BY <3>1, <3>2, <3>3, <1>9
  <2>6. QED
    BY <2>3, <2>4, <2>5, <1>9
<1>11. \A x : (\E i \in 1..Len(r) : r[i] = x) <=> (x = id \/ \E i \in 1..Len(q) : q[i] = x)
  <2>1. \A i \in 1..(n + 1) : r[i] \in {q[x] : x \in 1..n} \union {id}
    BY <1>9
  <2>2. \A i \in 1..n : q[i] \in {r[x] : x \in 1..(n + 1)}
    <3> SUFFICES ASSUME NEW i \in 1..n PROVE \E x \in 1..(n + 1) : r[x] = q[i]
      OBVIOUS
    <3>1. CASE i <= k
      <4>1. i \in 1..k /\ i \in 1..(n + 1)
        BY <3>1, <1>0
      <4>2. QED
        BY <4>1, <1>7
    <3>2. CASE i > k
      <4>1. i \in (k + 1)..n /\ i + 1 \in 1..(n + 1)
        BY <3>2, <1>0
      <4>2. QED
        BY <4>1, <1>8
    <3>3. QED
      BY <3>1, <3>2, <1>0
  <2>3. id \in {r[x] : x \in 1..(n + 1)}
    BY <1>7
  <2>4. QED
    BY <2>1, <2>2, <2>3, <1>7, <1>a
<1>12. QED
  BY <1>7, <1>10, <1>11 DEF Distinct, IsIn

LEMMA PutBackKeeps ==
    ASSUME PanelTypeOK, NEW s \in Sessions, NEW id \in steered[s], MessagesOf(s),
           backlog'[s] \in PutBack(backlog[s], id), steered'[s] = steered[s] \ {id},
           log'[s] = log[s], typed' = typed
    PROVE  MessagesOf(s)' /\ backlog'[s] \in Seq(MessageIds)
<1>1. backlog[s] \in Seq(MessageIds) /\ id \in MessageIds
  BY Types
<1>2. id \notin Backlogged(s) /\ SaidIn(s, Said("user", id))
  BY DEF MessagesOf
<1>3. /\ backlog'[s] \in Seq(MessageIds) /\ Distinct(backlog'[s])
      /\ \A x : IsIn(backlog'[s], x) <=> (x = id \/ IsIn(backlog[s], x))
  <2>1. Distinct(backlog[s])
    BY DEF Distinct, MessagesOf
  <2>2. ~IsIn(backlog[s], id)
    BY <1>2 DEF Backlogged, IsIn
  <2>3. backlog'[s] \in PutBack(backlog[s], id)
    OBVIOUS
  <2>4. QED
    BY <1>1, <2>1, <2>2, <2>3, Inserted
<1>4. Backlogged(s)' = Backlogged(s) \union {id}
  <2>1. /\ \A x : x \in Backlogged(s)' <=> IsIn(backlog'[s], x)
        /\ \A x : x \in Backlogged(s) <=> IsIn(backlog[s], x)
    BY DEF Backlogged, IsIn
  <2>2. QED
    BY <2>1, <1>3
<1>5. \E i \in 1..Len(log[s]) : MessageAt(s, i) /\ log[s][i].id = id /\ log[s][i].type = "user"
  <2>1. Said("user", id).type = "user" /\ Said("user", id).id = id
    BY DEF Said
  <2>2. QED
    BY <2>1, <1>2 DEF SaidIn, MessageAt
<1>6. id \notin SaidQueued(s)
  <2>1. Said("queued", id).type = "queued" /\ Said("queued", id).id = id
    BY DEF Said
  <2>2. SUFFICES ASSUME NEW i \in 1..Len(log[s]), log[s][i] = Said("queued", id) PROVE FALSE
    BY DEF SaidQueued
  <2>3. MessageAt(s, i)
    BY <2>1, <2>2 DEF MessageAt
  <2>4. QED
    BY <2>1, <2>2, <2>3, <1>5 DEF MessagesOf
<1>7. /\ Messages(s)' = Messages(s) /\ SaidQueued(s)' = SaidQueued(s)
      /\ \A i : MessageAt(s, i)' <=> MessageAt(s, i)
      /\ \A e : SaidIn(s, e)' <=> SaidIn(s, e)
  BY DEF Messages, SaidQueued, MessageAt, SaidIn
<1>8. \A m \in Backlogged(s)' : \E i \in 1..Len(log[s]) : MessageAt(s, i) /\ log[s][i].id = m
  BY <1>4, <1>5 DEF MessagesOf
<1>9. \A m \in steered'[s] : SaidIn(s, Said("user", m)) /\ m \notin Backlogged(s)'
  BY <1>4 DEF MessagesOf
<1>10. \A m \in SaidQueued(s) : m \in Backlogged(s)' <=> ~SaidIn(s, Said("delivered", m))
  BY <1>4, <1>6 DEF MessagesOf
<1>11. QED
  BY <1>3, <1>7, <1>8, <1>9, <1>10 DEF MessagesOf, Distinct
-----------------------------------------------------------------------------
LEMMA TypesKept ==
    ASSUME PanelTypeOK, NEW s \in Sessions, NEW x \in Open \union {"new", "closing", "over"},
           phase' = [phase EXCEPT ![s] = x],
           x \in Open => phase[s] \in Open, x = "ready" => backlog'[s] = <<>>,
           log' \in [Sessions -> Seq(Event)], inbound' \in [Panels -> Seq(Frame)],
           backlog' \in [Sessions -> Seq(MessageIds)],
           \A t \in Sessions \ {s} : backlog'[t] = backlog[t],
           steered' \in [Sessions -> SUBSET MessageIds],
           pending' \in [Sessions -> SUBSET AskIds],
           start' \in [by : Clients \union {None}, waits : Session],
           reply' \in [Panels -> Session], UNCHANGED <<feed, panel, crossed, behind, drops>>,
           typed' \in 0..MaxTyped, asks' \in 0..MaxAsks
    PROVE  /\ PanelTypeOK' /\ phase'[s] = x /\ \A t \in Sessions \ {s} : phase'[t] = phase[t]
           /\ \A t \in Sessions : phase'[t] \in Open => phase[t] \in Open
<1>1. /\ phase' \in [Sessions -> Open \union {"new", "closing", "over"}]
      /\ phase'[s] = x /\ \A t \in Sessions \ {s} : phase'[t] = phase[t]
  BY DEF PanelTypeOK
<1>2. \A t \in Sessions : phase'[t] \in Open => phase[t] \in Open
  BY <1>1
<1>3. \A t, u \in Sessions : phase'[t] \in Open /\ phase'[u] \in Open => t = u
  BY <1>2 DEF PanelTypeOK
<1>4. \A t \in Sessions : phase'[t] = "ready" => backlog'[t] = <<>>
  BY <1>1 DEF PanelTypeOK
<1>5. feed' \in [Panels -> Session \union {None}] /\ panel' \in [Panels -> Panel]
      /\ crossed' \subseteq Panels /\ behind' \subseteq Panels /\ drops' \in 0..MaxDrops
  BY DEF PanelTypeOK
<1>6. PanelTypeOK'
  BY <1>1, <1>3, <1>4, <1>5 DEF PanelTypeOK
<1>7. QED
  BY <1>1, <1>2, <1>6

\* What a step that changes one session has to show of it.
LEMMA KeptBy ==
    ASSUME PanelTypeOK, SessionsInv, StartInv, PanelTypeOK', Moves, NEW s \in Sessions,
           \A t \in Sessions \ {s} :
              /\ phase'[t] = phase[t] /\ log'[t] = log[t] /\ backlog'[t] = backlog[t]
              /\ steered'[t] = steered[t] /\ pending'[t] = pending[t],
           \A t \in Sessions : phase'[t] \in Open => phase[t] \in Open,
           start'.waits # 0 => \/ start' = start
                               \/ \A t \in Sessions : phase'[t] \notin Open,
           typed' \in {typed, typed + 1}, asks' \in {asks, asks + 1},
           StatesOf(s)', AsksOf(s)', MessagesOf(s)'
    PROVE  Kept
<1>1. typed' \in Nat /\ typed' >= typed /\ asks' \in Nat /\ asks' >= asks
  BY Types
<1>2. SessionsInv'
  BY <1>1, OthersStand
<1>3. StartInv'
  BY DEF StartInv
<1>4. QED
  BY <1>2, <1>3 DEF Kept

\* A session whose buffer and queue stay as they are.
LEMMA QuietKeeps ==
    ASSUME PanelTypeOK, NEW s \in Sessions, StatesOf(s), AsksOf(s), MessagesOf(s),
           phase[s] \in Open, phase'[s] \in Open,
           log'[s] = log[s], backlog'[s] = backlog[s], steered'[s] = steered[s],
           pending'[s] = pending[s], typed' = typed, asks' = asks
    PROVE  StatesOf(s)' /\ AsksOf(s)' /\ MessagesOf(s)'
<1>1. StatesOf(s)'
  BY DEF StatesOf, Open
<1>2. Asked(s)' = Asked(s) /\ Messages(s)' = Messages(s) /\ Backlogged(s)' = Backlogged(s)
      /\ SaidQueued(s)' = SaidQueued(s)
  BY DEF Asked, Messages, Backlogged, SaidQueued
<1>3. phase[s] \notin {"closing", "over"}
  BY DEF Open
<1>4. AsksOf(s)'
  BY <1>2, <1>3 DEF AsksOf, SaidIn
<1>5. MessagesOf(s)'
  BY <1>2 DEF MessagesOf, SaidIn, MessageAt
<1>6. QED
  BY <1>1, <1>4, <1>5

LEMMA CloseKeeps ==
    ASSUME PanelTypeOK, SessionsInv, StartInv, NEW s \in Sessions, phase[s] \in Open,
           CloseChat(s),
           start' \in [by : Clients \union {None}, waits : Session],
           UNCHANGED <<reply, feed, panel, history, counts>>
    PROVE  Kept
<1> DEFINE c == Cardinality(pending[s])
<1>1. /\ UNCHANGED <<backlog, typed, asks, drops, crossed, behind, reply>>
      /\ phase' = [phase EXCEPT ![s] = "closing"]
      /\ pending' = [pending EXCEPT ![s] = {}] /\ steered' = [steered EXCEPT ![s] = {}]
  BY DEF CloseChat, counts, history
<1>2. c \in Nat
  <2>1. IsFiniteSet(AskIds)
    <3>1. 1 \in Int /\ MaxAsks \in Int
      BY Numbers
    <3>2. QED
      BY <3>1, FS_Interval DEF AskIds
  <2>2. IsFiniteSet(pending[s])
    BY <2>1, FS_Subset, Types
  <2>3. QED
    BY <2>2, FS_CardinalityType
<1>3. PICK q \in InOrder(pending[s]) : Broadcast(s, [i \in 1..c |-> Said("settled", q[i])])
  BY DEF CloseChat
<1> DEFINE events == [i \in 1..c |-> Said("settled", q[i])]
<1>4. \A i \in 1..c : q[i] \in pending[s]
  BY DEF InOrder
<1> HIDE DEF c
<1>5. events \in Seq(Event) /\ Len(events) = c
      /\ \A i \in 1..c : events[i] = Said("settled", q[i])
  <2>1. \A i \in 1..c : Said("settled", q[i]) \in Event
    BY <1>4, Types, EventsAre
  <2>2. QED
    BY <1>2, <2>1
<1>6. Broadcast(s, events)
  BY <1>3
<1> HIDE DEF events
<1>7. /\ log' \in [Sessions -> Seq(Event)] /\ inbound' \in [Panels -> Seq(Frame)]
      /\ \A t \in Sessions \ {s} : log'[t] = log[t]
  BY <1>5, <1>6, Spreads
<1>8. /\ pending' \in [Sessions -> SUBSET AskIds] /\ steered' \in [Sessions -> SUBSET MessageIds]
      /\ steered'[s] = {}
      /\ \A t \in Sessions \ {s} : pending'[t] = pending[t] /\ steered'[t] = steered[t]
  BY <1>1 DEF PanelTypeOK
<1>9. /\ PanelTypeOK' /\ phase'[s] = "closing" /\ \A t \in Sessions \ {s} : phase'[t] = phase[t]
      /\ \A t \in Sessions : phase'[t] \in Open => phase[t] \in Open
  <2>1. "closing" \notin Open
    BY DEF Open
  <2>2. /\ backlog' \in [Sessions -> Seq(MessageIds)] /\ reply' \in [Panels -> Session]
        /\ typed' \in 0..MaxTyped /\ asks' \in 0..MaxAsks /\ UNCHANGED <<feed, panel>>
    BY <1>1 DEF PanelTypeOK
  <2>3. QED
    BY <1>1, <1>7, <1>8, <2>1, <2>2, TypesKept
<1>10. Moves
  <2>1. phase[s] \notin {"new", "closing", "over"}
    BY DEF Open
  <2>2. QED
    BY <1>1, <1>5, <1>6, <1>9, <2>1, BroadcastMoves
<1>11. \A id : Said("settled", id).type = "settled"
  BY DEF Said
<1>12. \A i \in 1..Len(events) : events[i].type = "settled"
  BY <1>5, <1>11
<1>13. StatesOf(s)'
  <2>1. phase[s] \notin {"new", "over"} /\ StatesOf(s)
    BY DEF Open, SessionsInv
  <2>2. QED
    BY <1>5, <1>6, <1>9, <1>12, <2>1, StatesKept
<1>14. AsksOf(s)'
  <2>1. AsksOf(s) /\ phase[s] \notin {"closing", "over"}
    BY DEF Open, SessionsInv
  <2>2. \A i \in 1..Len(events) : \E id \in AskIds : /\ events[i] = Said("settled", id)
                                                     /\ SaidIn(s, Said("ask", id))
    BY <1>4, <1>5, <2>1 DEF AsksOf
  <2>3. QED
    BY <1>1, <1>5, <1>6, <1>9, <2>1, <2>2, SettledKeeps
<1>15. MessagesOf(s)'
  <2>1. MessagesOf(s)
    BY DEF SessionsInv
  <2>2. QED
    BY <1>1, <1>5, <1>6, <1>8, <1>12, <2>1, MessagesKept
<1>16. \A t \in Sessions : phase'[t] \notin Open
  <2>1. \A t \in Sessions : phase[t] \in Open => t = s
    BY DEF PanelTypeOK
  <2>2. "closing" \notin Open
    BY DEF Open
  <2>3. QED
    BY <1>9, <2>1, <2>2
<1>17. QED
  BY <1>1, <1>7, <1>8, <1>9, <1>10, <1>13, <1>14, <1>15, <1>16, KeptBy

LEMMA StartKeeps ==
    ASSUME PanelTypeOK, SessionsInv, StartInv, NEW c \in Clients, Start(c)
    PROVE  Kept
<1>1. /\ start' = [by |-> c, waits |-> Live]
      /\ UNCHANGED <<reply, feed, panel, history, counts>>
  BY DEF Start
<1>2. start' \in [by : Clients \union {None}, waits : Session]
  BY <1>1, LiveIs
<1>3. CASE Live = 0 /\ NewChat
  BY <1>1, <1>2, <1>3, LiveIs, NewChatKeeps
<1>4. CASE Live # 0 /\ CloseChat(Live)
  BY <1>1, <1>2, <1>4, LiveIs, CloseKeeps
<1>5. QED
  BY <1>3, <1>4 DEF Start

LEMMA InstallKeeps ==
    ASSUME PanelTypeOK, SessionsInv, StartInv, Install
    PROVE  Kept
<1>1. /\ start' = [start EXCEPT !.waits = 0] /\ NewChat /\ start.waits # 0
      /\ UNCHANGED <<reply, feed, panel, history, counts>>
  BY DEF Install
<1>2. start' \in [by : Clients \union {None}, waits : Session] /\ start'.waits = 0
  BY <1>1, Numbers DEF PanelTypeOK
<1>3. QED
  BY <1>1, <1>2, NewChatKeeps DEF StartInv

LEMMA EndKeeps ==
    ASSUME PanelTypeOK, SessionsInv, StartInv, End
    PROVE  Kept
<1>1. /\ Live # 0 /\ CloseChat(Live) /\ UNCHANGED <<start, reply, feed, panel, history, counts>>
  BY DEF End
<1>2. start' \in [by : Clients \union {None}, waits : Session]
  BY <1>1 DEF PanelTypeOK
<1>3. QED
  BY <1>1, <1>2, LiveIs, CloseKeeps

\* What the head of a queue is, and what it leaves.
LEMMA HeadLeaves ==
    ASSUME NEW q \in Seq(MessageIds), q # <<>>, Distinct(q)
    PROVE  /\ Head(q) \in MessageIds /\ Tail(q) \in Seq(MessageIds) /\ IsIn(q, Head(q))
           /\ Distinct(Tail(q))
           /\ \A x : IsIn(Tail(q), x) <=> (IsIn(q, x) /\ x # Head(q))
<1>a. PICK n \in Nat : n = Len(q)
  OBVIOUS
<1>1. n > 0 /\ Head(q) = q[1] /\ q[1] \in MessageIds /\ 1 \in 1..n
  BY <1>a
<1>2. Tail(q) \in Seq(MessageIds) /\ Len(Tail(q)) = n - 1
      /\ \A i \in 1..(n - 1) : Tail(q)[i] = q[i + 1]
  BY <1>a, <1>1
<1> DEFINE r == Tail(q)
<1> HIDE DEF r
<1>3. Len(r) = n - 1 /\ \A i \in 1..(n - 1) : r[i] = q[i + 1] /\ i + 1 \in 1..n /\ i + 1 # 1
  BY <1>2 DEF r
<1>4. \A i, j \in 1..n : q[i] = q[j] => i = j
  BY <1>a DEF Distinct
<1>5. Distinct(r)
  <2> SUFFICES ASSUME NEW i \in 1..(n - 1), NEW j \in 1..(n - 1), r[i] = r[j] PROVE i = j
    BY <1>3 DEF Distinct
  <2>1. i + 1 = j + 1
    BY <1>3, <1>4
  <2>2. QED
    BY <2>1, <1>a
<1>6. ASSUME NEW x, IsIn(r, x) PROVE IsIn(q, x) /\ x # q[1]
  <2>1. PICK i \in 1..(n - 1) : r[i] = x
    BY <1>3, <1>6 DEF IsIn
  <2>2. q[i + 1] = x /\ i + 1 \in 1..n /\ i + 1 # 1
    BY <1>3, <2>1
  <2>3. QED
    BY <1>1, <1>4, <2>2, <1>a DEF IsIn
<1>7. ASSUME NEW x, IsIn(q, x), x # q[1] PROVE IsIn(r, x)
  <2>1. PICK i \in 1..n : q[i] = x
    BY <1>7, <1>a DEF IsIn
  <2>2. i - 1 \in 1..(n - 1) /\ (i - 1) + 1 = i
    BY <1>7, <1>a, <2>1
  <2>3. r[i - 1] = x
    BY <1>3, <2>1, <2>2
  <2>4. QED
    BY <1>3, <2>2, <2>3 DEF IsIn
<1>8. IsIn(q, q[1])
  BY <1>1, <1>a DEF IsIn
<1>9. QED
  BY <1>1, <1>2, <1>5, <1>6, <1>7, <1>8 DEF r

LEMMA FlushKeeps ==
    ASSUME PanelTypeOK, SessionsInv, StartInv, NEW s \in Sessions, phase[s] \in Open, Flush(s),
           start' \in [by : Clients \union {None}, waits : Session], start'.waits = 0,
           reply' \in [Panels -> Session],
           UNCHANGED <<steered, pending, feed, panel, history, counts>>
    PROVE  Kept
<1>1. UNCHANGED <<steered, pending, feed, panel, crossed, behind, typed, asks, drops>>
  BY DEF history, counts
<1>2. /\ steered' \in [Sessions -> SUBSET MessageIds] /\ pending' \in [Sessions -> SUBSET AskIds]
      /\ typed' \in 0..MaxTyped /\ asks' \in 0..MaxAsks
  BY <1>1 DEF PanelTypeOK
<1>3. /\ StatesOf(s) /\ AsksOf(s) /\ MessagesOf(s)
      /\ phase[s] \notin {"new", "closing", "over"}
  BY DEF SessionsInv, Open
<1>4. {"ready", "running"} \subseteq Open /\ Open \cap {"new", "closing", "over"} = {}
  BY DEF Open
<1>5. CASE backlog[s] = <<>>
  <2>1. phase' = [phase EXCEPT ![s] = "ready"] /\ UNCHANGED <<log, backlog, inbound>>
    BY <1>5 DEF Flush, ToFlush
  <2>2. /\ log' \in [Sessions -> Seq(Event)] /\ inbound' \in [Panels -> Seq(Frame)]
        /\ backlog' \in [Sessions -> Seq(MessageIds)] /\ backlog'[s] = <<>>
    BY <1>5, <2>1 DEF PanelTypeOK
  <2>3. /\ PanelTypeOK' /\ phase'[s] = "ready" /\ \A t \in Sessions \ {s} : phase'[t] = phase[t]
        /\ \A t \in Sessions : phase'[t] \in Open => phase[t] \in Open
    BY <1>1, <1>2, <1>4, <2>1, <2>2, TypesKept
  <2>4. Moves
    BY <1>1, <1>3, <2>1, <2>3, QuietMoves
  <2>5. StatesOf(s)' /\ AsksOf(s)' /\ MessagesOf(s)'
    BY <1>1, <1>3, <1>4, <2>1, <2>3, QuietKeeps
  <2>6. QED
    BY <1>1, <2>1, <2>3, <2>4, <2>5, KeptBy
<1>6. CASE backlog[s] # <<>>
  <2> DEFINE id == Head(backlog[s])
  <2>1. /\ phase' = [phase EXCEPT ![s] = "running"] /\ Broadcast(s, <<Said("delivered", id)>>)
        /\ backlog' = [backlog EXCEPT ![s] = Tail(backlog[s])]
    BY <1>6 DEF Flush, ToFlush, Delivered
  <2>2. /\ id \in MessageIds /\ Tail(backlog[s]) \in Seq(MessageIds) /\ IsIn(backlog[s], id)
        /\ Distinct(Tail(backlog[s]))
        /\ \A x : IsIn(Tail(backlog[s]), x) <=> (IsIn(backlog[s], x) /\ x # id)
    <3>1. Distinct(backlog[s]) /\ backlog[s] \in Seq(MessageIds)
      BY <1>3, Types DEF MessagesOf, Distinct
    <3>2. QED
      BY <1>6, <3>1, HeadLeaves
  <2> HIDE DEF id
  <2>3. /\ backlog' \in [Sessions -> Seq(MessageIds)] /\ backlog'[s] = Tail(backlog[s])
        /\ \A t \in Sessions \ {s} : backlog'[t] = backlog[t]
    BY <2>1, <2>2 DEF PanelTypeOK
  <2>4. Said("delivered", id) \in Event /\ Said("delivered", id).type = "delivered"
    BY <2>2, EventsAre
  <2>5. /\ log' \in [Sessions -> Seq(Event)] /\ inbound' \in [Panels -> Seq(Frame)]
        /\ \A t \in Sessions \ {s} : log'[t] = log[t]
    BY <2>1, <2>4, OneEvent
  <2>6. /\ PanelTypeOK' /\ phase'[s] = "running" /\ \A t \in Sessions \ {s} : phase'[t] = phase[t]
        /\ \A t \in Sessions : phase'[t] \in Open => phase[t] \in Open
    BY <1>1, <1>2, <1>4, <2>1, <2>3, <2>5, TypesKept
  <2>7. Moves
    BY <1>1, <1>3, <2>1, <2>3, <2>4, <2>6, OneMoves
  <2>8. StatesOf(s)'
    BY <1>3, <2>1, <2>4, <2>6, OneStatesKept
  <2>9. AsksOf(s)'
    BY <1>1, <1>3, <2>1, <2>4, OneAsksKept
  <2>10. MessagesOf(s)'
    <3>1. Backlogged(s)' = Backlogged(s) \ {id}
      <4>1. /\ \A x : x \in Backlogged(s)' <=> IsIn(backlog'[s], x)
            /\ \A x : x \in Backlogged(s) <=> IsIn(backlog[s], x)
        BY DEF Backlogged, IsIn
      <4>2. QED
        BY <4>1, <2>2, <2>3
    <3>2. \A i, j \in 1..Len(backlog'[s]) : backlog'[s][i] = backlog'[s][j] => i = j
      BY <2>2, <2>3 DEF Distinct
    <3>3. \E i \in 1..Len(log[s]) : MessageAt(s, i) /\ log[s][i].id = id
      <4>1. id \in Backlogged(s)
        BY <2>2 DEF Backlogged, IsIn
      <4>2. QED
        BY <4>1, <1>3 DEF MessagesOf
    <3>4. QED
      BY <1>1, <1>3, <2>1, <2>2, <3>1, <3>2, <3>3, DeliveredKeeps
  <2>11. QED
    BY <1>1, <2>3, <2>5, <2>6, <2>7, <2>8, <2>9, <2>10, KeptBy
<1>7. QED
  BY <1>5, <1>6

LEMMA EstablishedKeeps ==
    ASSUME PanelTypeOK, SessionsInv, StartInv, Established
    PROVE  Kept
<1>0. PICK s \in Sessions : s = Live /\ phase[s] \in Open
  BY LiveIs DEF Established
<1>1. /\ start' = [by |-> None, waits |-> 0]
      /\ reply' = [p \in Panels |-> IF p = start.by THEN s ELSE reply[p]]
      /\ UNCHANGED <<steered, pending, feed, panel, history, counts>>
  BY <1>0 DEF Established
<1>2. /\ start' \in [by : Clients \union {None}, waits : Session] /\ start'.waits = 0
      /\ reply' \in [Panels -> Session]
  BY <1>0, <1>1, Numbers DEF PanelTypeOK
<1>3. CASE Flush(s)
  BY <1>0, <1>1, <1>2, <1>3, FlushKeeps
<1>4. CASE phase' = [phase EXCEPT ![s] = "running"] /\ UNCHANGED <<log, backlog, inbound>>
  <2>1. UNCHANGED <<steered, pending, feed, panel, crossed, behind, typed, asks, drops>>
    BY <1>1 DEF history, counts
  <2>2. /\ log' \in [Sessions -> Seq(Event)] /\ inbound' \in [Panels -> Seq(Frame)]
        /\ backlog' \in [Sessions -> Seq(MessageIds)]
        /\ steered' \in [Sessions -> SUBSET MessageIds]
           /\ pending' \in [Sessions -> SUBSET AskIds]
        /\ typed' \in 0..MaxTyped /\ asks' \in 0..MaxAsks
    BY <1>4, <2>1 DEF PanelTypeOK
  <2>3. "running" \in Open
    BY DEF Open
  <2>4. /\ PanelTypeOK' /\ phase'[s] = "running"
        /\ \A t \in Sessions \ {s} : phase'[t] = phase[t]
        /\ \A t \in Sessions : phase'[t] \in Open => phase[t] \in Open
    BY <1>0, <1>2, <1>4, <2>1, <2>2, <2>3, TypesKept
  <2>5. Moves
    <3>1. phase[s] \notin {"new", "closing", "over"}
      BY <1>0 DEF Open
    <3>2. QED
      BY <1>4, <2>1, <2>4, <3>1, QuietMoves
  <2>6. StatesOf(s) /\ AsksOf(s) /\ MessagesOf(s)
    BY DEF SessionsInv
  <2>7. StatesOf(s)' /\ AsksOf(s)' /\ MessagesOf(s)'
    BY <1>0, <1>4, <2>1, <2>3, <2>4, <2>6, QuietKeeps
  <2>8. QED
    BY <1>2, <1>4, <2>1, <2>4, <2>5, <2>7, KeptBy
<1>5. QED
  BY <1>0, <1>3, <1>4 DEF Established

\* A session's last word.
LEMMA OverKeeps ==
    ASSUME PanelTypeOK, SessionsInv, StartInv, NEW s \in Sessions, NEW x \in Session,
           phase[s] \notin {"new", "over"}, phase' = [phase EXCEPT ![s] = "over"],
           Broadcast(s, <<StateOf(x)>>),
           start' \in [by : Clients \union {None}, waits : Session],
           start'.waits # 0 => start' = start,
           UNCHANGED <<backlog, steered, pending, reply, feed, panel, history, counts>>
    PROVE  Kept
<1>1. UNCHANGED <<backlog, steered, pending, reply, feed, panel, crossed, behind, typed,
      asks, drops>>
  BY DEF history, counts
<1>2. StateOf(x) \in Event /\ StateOf(x).type = "state" /\ "over" \notin Open
  BY EventsAre DEF Open
<1>3. /\ log' \in [Sessions -> Seq(Event)] /\ inbound' \in [Panels -> Seq(Frame)]
      /\ \A t \in Sessions \ {s} : log'[t] = log[t]
  BY <1>2, OneEvent
<1>4. /\ backlog' \in [Sessions -> Seq(MessageIds)] /\ reply' \in [Panels -> Session]
      /\ steered' \in [Sessions -> SUBSET MessageIds] /\ pending' \in [Sessions -> SUBSET AskIds]
      /\ typed' \in 0..MaxTyped /\ asks' \in 0..MaxAsks
  BY <1>1 DEF PanelTypeOK
<1>5. /\ PanelTypeOK' /\ phase'[s] = "over" /\ \A t \in Sessions \ {s} : phase'[t] = phase[t]
      /\ \A t \in Sessions : phase'[t] \in Open => phase[t] \in Open
  BY <1>1, <1>2, <1>3, <1>4, TypesKept
<1>6. Moves
  BY <1>1, <1>2, <1>5, OneMoves
<1>7. StatesOf(s) /\ AsksOf(s) /\ MessagesOf(s)
  BY DEF SessionsInv
<1>8. StatesOf(s)'
  BY <1>2, <1>5, <1>7, OneStatesKept
<1>9. AsksOf(s)'
  BY <1>1, <1>2, <1>5, <1>7, OneAsksKept
<1>10. MessagesOf(s)'
  BY <1>1, <1>2, <1>7, OneMessagesKept
<1>11. QED
  BY <1>1, <1>3, <1>5, <1>6, <1>8, <1>9, <1>10, KeptBy

LEMMA StartFailsKeeps ==
    ASSUME PanelTypeOK, SessionsInv, StartInv, StartFails
    PROVE  Kept
<1>0. PICK s \in Sessions : s = Live /\ phase[s] \in Open
  BY LiveIs DEF StartFails
<1>1. /\ phase' = [phase EXCEPT ![s] = "over"] /\ Broadcast(s, <<StateOf(0)>>)
      /\ start' = [by |-> None, waits |-> 0]
      /\ UNCHANGED <<backlog, steered, pending, reply, feed, panel, history, counts>>
  BY <1>0 DEF StartFails
<1>2. /\ start' \in [by : Clients \union {None}, waits : Session] /\ start'.waits = 0
      /\ 0 \in Session /\ phase[s] \notin {"new", "over"}
  BY <1>0, <1>1, Numbers DEF Open
<1>3. QED
  BY <1>1, <1>2, OverKeeps

LEMMA ClosedKeeps ==
    ASSUME PanelTypeOK, SessionsInv, StartInv, NEW s \in Sessions, Closed(s)
    PROVE  Kept
<1>0. PICK x \in Session : x = Live
  BY LiveIs
<1>1. /\ phase[s] = "closing" /\ phase' = [phase EXCEPT ![s] = "over"]
      /\ Broadcast(s, <<StateOf(x)>>) /\ start' = start
      /\ UNCHANGED <<backlog, steered, pending, reply, feed, panel, history, counts>>
  BY <1>0 DEF Closed
<1>2. start' \in [by : Clients \union {None}, waits : Session]
  BY <1>1 DEF PanelTypeOK
<1>3. QED
  BY <1>1, <1>2, OverKeeps

LEMMA TurnEndsKeeps ==
    ASSUME PanelTypeOK, SessionsInv, StartInv, TurnEnds
    PROVE  Kept
<1>0. PICK s \in Sessions : s = Live /\ phase[s] \in Open
  BY LiveIs DEF TurnEnds
<1>1. Flush(s) /\ UNCHANGED <<steered, pending, start, reply, feed, panel, history, counts>>
  BY <1>0 DEF TurnEnds
<1>2. /\ start' \in [by : Clients \union {None}, waits : Session] /\ start'.waits = 0
      /\ reply' \in [Panels -> Session]
  BY <1>0, <1>1 DEF PanelTypeOK, StartInv
<1>3. QED
  BY <1>0, <1>1, <1>2, FlushKeeps

\* A message: shown as sent or as queued.
LEMMA SaysKeeps ==
    ASSUME PanelTypeOK, SessionsInv, StartInv, NEW s \in Sessions, phase[s] \in Open,
           NEW type \in {"user", "queued"}, NEW id \in MessageIds,
           id = Cardinality(Messages(s)) + 1, Broadcast(s, <<Said(type, id)>>),
           typed < MaxTyped, typed' = typed + 1,
           NEW x \in Open, phase' = [phase EXCEPT ![s] = x],
           x = "ready" => backlog'[s] = <<>>,
           type = "user" => /\ backlog' = backlog
                            /\ \/ steered' = steered
                               \/ steered' = [steered EXCEPT ![s] = @ \union {id}],
           type = "queued" => backlog' = [backlog EXCEPT ![s] = Append(@, id)]
           /\ steered' = steered,
           UNCHANGED <<pending, start, reply, feed, panel, history, asks, drops>>
    PROVE  Kept
<1>1. UNCHANGED <<pending, start, reply, feed, panel, crossed, behind, asks, drops>>
  BY DEF history
<1>2. Said(type, id) \in Event /\ Said(type, id).type = type
  BY EventsAre
<1>3. /\ log' \in [Sessions -> Seq(Event)] /\ inbound' \in [Panels -> Seq(Frame)]
      /\ \A t \in Sessions \ {s} : log'[t] = log[t]
  BY <1>2, OneEvent
<1>4. /\ backlog' \in [Sessions -> Seq(MessageIds)]
         /\ \A t \in Sessions \ {s} : backlog'[t] = backlog[t]
      /\ type = "user" => backlog'[s] = backlog[s]
      /\ type = "queued" => backlog'[s] = Append(backlog[s], id)
  <2>1. backlog[s] \in Seq(MessageIds) /\ Append(backlog[s], id) \in Seq(MessageIds)
    BY Types
  <2>2. CASE type = "user"
    BY <2>2 DEF PanelTypeOK
  <2>3. CASE type = "queued"
    <3>1. backlog' = [backlog EXCEPT ![s] = Append(@, id)]
      BY <2>3
    <3>2. QED
      BY <2>1, <2>3, <3>1 DEF PanelTypeOK
  <2>4. QED
    BY <2>2, <2>3
<1>5. /\ steered' \in [Sessions -> SUBSET MessageIds]
      /\ \A t \in Sessions \ {s} : steered'[t] = steered[t]
      /\ type = "user" => steered'[s] \subseteq steered[s] \union {id}
      /\ type = "queued" => steered'[s] = steered[s]
  <2>1. steered \in [Sessions -> SUBSET MessageIds]
    BY DEF PanelTypeOK
  <2>2. CASE steered' = steered
    BY <2>1, <2>2
  <2>3. CASE type = "user" /\ steered' = [steered EXCEPT ![s] = @ \union {id}]
    BY <2>1, <2>3
  <2>4. QED
    BY <2>2, <2>3
<1>6. /\ pending' \in [Sessions -> SUBSET AskIds] /\ reply' \in [Panels -> Session]
      /\ start' \in [by : Clients \union {None}, waits : Session]
      /\ typed' \in 0..MaxTyped /\ asks' \in 0..MaxAsks /\ typed' \in {typed, typed + 1}
  <2>1. typed \in Nat /\ MaxTyped \in Nat
    BY Types, Numbers
  <2>2. typed' \in 0..MaxTyped
    BY <2>1
  <2>3. QED
    BY <1>1, <2>2 DEF PanelTypeOK
<1>7. /\ PanelTypeOK' /\ phase'[s] = x /\ \A t \in Sessions \ {s} : phase'[t] = phase[t]
      /\ \A t \in Sessions : phase'[t] \in Open => phase[t] \in Open
  BY <1>1, <1>3, <1>4, <1>5, <1>6, TypesKept
<1>8. /\ phase[s] \notin {"new", "closing", "over"} /\ x \notin {"new", "closing", "over"}
      /\ StatesOf(s) /\ AsksOf(s) /\ MessagesOf(s)
  BY DEF SessionsInv, Open
<1>9. Moves
  BY <1>1, <1>2, <1>4, <1>7, <1>8, OneMoves
<1>10. StatesOf(s)'
  BY <1>2, <1>7, <1>8, OneStatesKept
<1>11. AsksOf(s)'
  BY <1>1, <1>2, <1>8, OneAsksKept
<1>12. MessagesOf(s)'
  BY <1>4, <1>5, <1>8, SentKeeps
<1>13. QED
  BY <1>1, <1>3, <1>4, <1>5, <1>6, <1>7, <1>9, <1>10, <1>11, <1>12, KeptBy

LEMMA SendKeeps ==
    ASSUME PanelTypeOK, SessionsInv, StartInv, NEW c \in Clients, Send(c)
    PROVE  Kept
<1>0. PICK s \in Sessions : s = Live /\ phase[s] \in Open
  BY LiveIs DEF Send
<1> DEFINE n == Cardinality(Messages(s)) + 1
<1>1. /\ typed < MaxTyped /\ typed' = typed + 1
      /\ UNCHANGED <<pending, start, reply, feed, panel, history, asks, drops>>
      /\ \/ /\ Broadcast(s, <<Said("queued", n)>>)
            /\ backlog' = [backlog EXCEPT ![s] = Append(@, n)]
            /\ phase[s] = "starting" \/ backlog[s] # <<>>
            /\ UNCHANGED <<phase, steered>>
         \/ /\ Broadcast(s, <<Said("user", n)>>)
            /\ phase' = [phase EXCEPT ![s] = "running"] /\ UNCHANGED <<backlog, steered>>
         \/ /\ Broadcast(s, <<Said("user", n)>>) /\ phase[s] = "running"
            /\ steered' = [steered EXCEPT ![s] = @ \union {n}] /\ UNCHANGED <<phase, backlog>>
  BY <1>0 DEF Send
<1>2. n \in MessageIds
  <2>1. Cardinality(Messages(s)) \in Nat /\ Cardinality(Messages(s)) <= typed
        /\ typed \in Nat /\ MaxTyped \in Nat
    BY Counted, Types, Numbers DEF SessionsInv, MessagesOf
  <2>2. QED
    BY <1>1, <2>1 DEF MessageIds
<1>3. PICK id \in MessageIds : id = n
  BY <1>2
<1>4. phase' = phase => phase' = [phase EXCEPT ![s] = phase[s]]
  BY DEF PanelTypeOK
<1>5. "running" \in Open /\ "starting" \in Open
  BY DEF Open
<1>6. CASE /\ Broadcast(s, <<Said("queued", id)>>)
           /\ backlog' = [backlog EXCEPT ![s] = Append(@, id)]
           /\ phase[s] = "starting" \/ backlog[s] # <<>>
           /\ UNCHANGED <<phase, steered>>
  <2>1. phase[s] # "ready"
    BY <1>6 DEF PanelTypeOK
  <2>2. QED
    BY <1>0, <1>1, <1>3, <1>4, <1>6, <2>1, SaysKeeps
<1>7. CASE /\ Broadcast(s, <<Said("user", id)>>)
           /\ phase' = [phase EXCEPT ![s] = "running"] /\ UNCHANGED <<backlog, steered>>
  BY <1>0, <1>1, <1>3, <1>5, <1>7, SaysKeeps
<1>8. CASE /\ Broadcast(s, <<Said("user", id)>>) /\ phase[s] = "running"
           /\ steered' = [steered EXCEPT ![s] = @ \union {id}] /\ UNCHANGED <<phase, backlog>>
  BY <1>0, <1>1, <1>3, <1>4, <1>8, SaysKeeps
<1> HIDE DEF n
<1>9. QED
  BY <1>1, <1>3, <1>6, <1>7, <1>8

LEMMA SteerRefusedKeeps ==
    ASSUME PanelTypeOK, SessionsInv, StartInv, SteerReturns
    PROVE  Kept
<1>0. PICK s \in Sessions : s = Live /\ phase[s] \in Open
  BY LiveIs DEF SteerReturns
<1>1. UNCHANGED <<pending, start, reply, feed, panel, crossed, behind, typed, asks, drops>>
  BY DEF SteerReturns, history, counts
<1>2. PICK id \in steered[s] :
         /\ steered' = [steered EXCEPT ![s] = @ \ {id}]
         /\ \/ /\ phase[s] = "running" /\ \E q \in PutBack(backlog[s], id) :
                                             backlog' = [backlog EXCEPT ![s] = q]
               /\ UNCHANGED <<phase, log, inbound>>
            \/ /\ phase[s] = "ready" /\ phase' = [phase EXCEPT ![s] = "running"]
               /\ Broadcast(s, <<Said("delivered", id)>>) /\ UNCHANGED backlog
  BY <1>0 DEF SteerReturns, Delivered
<1>3. /\ steered' \in [Sessions -> SUBSET MessageIds] /\ steered'[s] = steered[s] \ {id}
      /\ \A t \in Sessions \ {s} : steered'[t] = steered[t]
  BY <1>2 DEF PanelTypeOK
<1>4. /\ pending' \in [Sessions -> SUBSET AskIds] /\ reply' \in [Panels -> Session]
      /\ start' \in [by : Clients \union {None}, waits : Session]
      /\ typed' \in 0..MaxTyped /\ asks' \in 0..MaxAsks
  BY <1>1 DEF PanelTypeOK
<1>5. /\ phase[s] \notin {"new", "closing", "over"} /\ "running" \in Open
      /\ StatesOf(s) /\ AsksOf(s) /\ MessagesOf(s) /\ id \in MessageIds
  BY <1>0, Types DEF SessionsInv, Open
<1>6. CASE /\ phase[s] = "running" /\ \E q \in PutBack(backlog[s], id) :
                                         backlog' = [backlog EXCEPT ![s] = q]
           /\ UNCHANGED <<phase, log, inbound>>
  <2>1. PICK q \in PutBack(backlog[s], id) : backlog' = [backlog EXCEPT ![s] = q]
    BY <1>6
  <2>2. backlog'[s] = q /\ \A t \in Sessions \ {s} : backlog'[t] = backlog[t]
    BY <2>1 DEF PanelTypeOK
  <2>3. MessagesOf(s)' /\ q \in Seq(MessageIds)
    BY <1>1, <1>3, <1>5, <1>6, <2>2, PutBackKeeps
  <2>4. backlog' \in [Sessions -> Seq(MessageIds)] /\ phase' = [phase EXCEPT ![s] = "running"]
        /\ log' \in [Sessions -> Seq(Event)] /\ inbound' \in [Panels -> Seq(Frame)]
    BY <1>6, <2>1, <2>3 DEF PanelTypeOK
  <2>5. /\ PanelTypeOK' /\ phase'[s] = "running" /\ \A t \in Sessions \ {s} : phase'[t] = phase[t]
        /\ \A t \in Sessions : phase'[t] \in Open => phase[t] \in Open
    BY <1>0, <1>1, <1>3, <1>4, <1>5, <2>2, <2>4, TypesKept
  <2>6. Moves
    BY <1>1, <1>5, <1>6, <2>2, <2>5, QuietMoves
  <2>7. StatesOf(s)'
    BY <1>5, <1>6, <2>5, StateChanges
  <2>8. AsksOf(s)'
    <3>1. Asked(s)' = Asked(s) /\ \A e : SaidIn(s, e)' <=> SaidIn(s, e)
      BY <1>6 DEF Asked, SaidIn
    <3>2. QED
      BY <3>1, <1>1, <1>5, <1>6 DEF AsksOf
  <2>9. QED
    BY <1>1, <1>3, <1>6, <2>2, <2>3, <2>5, <2>6, <2>7, <2>8, KeptBy
<1>7. CASE /\ phase[s] = "ready" /\ phase' = [phase EXCEPT ![s] = "running"]
           /\ Broadcast(s, <<Said("delivered", id)>>) /\ UNCHANGED backlog
  <2>1. Said("delivered", id) \in Event /\ Said("delivered", id).type = "delivered"
    BY <1>5, EventsAre
  <2>2. /\ log' \in [Sessions -> Seq(Event)] /\ inbound' \in [Panels -> Seq(Frame)]
        /\ backlog' \in [Sessions -> Seq(MessageIds)]
        /\ \A t \in Sessions \ {s} : log'[t] = log[t]
    BY <1>7, <2>1, OneEvent DEF PanelTypeOK
  <2>3. /\ PanelTypeOK' /\ phase'[s] = "running" /\ \A t \in Sessions \ {s} : phase'[t] = phase[t]
        /\ \A t \in Sessions : phase'[t] \in Open => phase[t] \in Open
    BY <1>0, <1>1, <1>3, <1>4, <1>5, <1>7, <2>2, TypesKept
  <2>4. Moves
    BY <1>1, <1>5, <1>7, <2>1, <2>3, OneMoves
  <2>5. StatesOf(s)'
    BY <1>5, <1>7, <2>1, <2>3, OneStatesKept
  <2>6. AsksOf(s)'
    BY <1>1, <1>5, <1>7, <2>1, OneAsksKept
  <2>7. MessagesOf(s)'
    <3>1. SaidIn(s, Said("user", id)) /\ id \notin Backlogged(s)
      BY <1>5 DEF MessagesOf
    <3>2. \E i \in 1..Len(log[s]) : MessageAt(s, i) /\ log[s][i].id = id
      <4>1. Said("user", id).type = "user" /\ Said("user", id).id = id
        BY DEF Said
      <4>2. QED
        BY <4>1, <3>1 DEF SaidIn, MessageAt
    <3>3. Backlogged(s)' = Backlogged(s) \ {id}
      <4>1. Backlogged(s)' = Backlogged(s)
        BY <1>7 DEF Backlogged
      <4>2. QED
        BY <3>1, <4>1
    <3>4. \A i, j \in 1..Len(backlog'[s]) : backlog'[s][i] = backlog'[s][j] => i = j
      BY <1>5, <1>7 DEF MessagesOf
    <3>5. steered'[s] \subseteq steered[s]
      BY <1>3
    <3>6. QED
      BY <1>1, <1>5, <1>7, <3>2, <3>3, <3>4, <3>5, DeliveredKeeps
  <2>8. QED
    BY <1>1, <1>3, <1>7, <2>2, <2>3, <2>4, <2>5, <2>6, <2>7, KeptBy
<1>8. QED
  BY <1>2, <1>6, <1>7

LEMMA AskKeeps ==
    ASSUME PanelTypeOK, SessionsInv, StartInv, NEW s \in Sessions, Ask(s)
    PROVE  Kept
<1> DEFINE n == Asked(s) + 1
<1>1. /\ asks < MaxAsks /\ asks' = asks + 1 /\ phase[s] \in {"running", "closing"}
      /\ Broadcast(s, <<Said("ask", n)>>) /\ pending' = [pending EXCEPT ![s] = @ \union {n}]
      /\ UNCHANGED <<phase, backlog, steered, start, reply, feed, panel, crossed, behind,
         typed, drops>>
  BY DEF Ask, history
<1>2. n \in AskIds /\ asks' \in 0..MaxAsks
  <2>1. Asked(s) \in Nat /\ Asked(s) <= asks /\ asks \in Nat /\ MaxAsks \in Nat
    BY Counted, Types, Numbers DEF SessionsInv, AsksOf
  <2>2. QED
    BY <1>1, <2>1 DEF AskIds
<1>3. PICK id \in AskIds : id = n
  BY <1>2
<1>4. Broadcast(s, <<Said("ask", id)>>) /\ pending' = [pending EXCEPT ![s] = @ \union {id}]
  BY <1>1, <1>3
<1> HIDE DEF n
<1>5. Said("ask", id) \in Event /\ Said("ask", id).type = "ask"
  BY EventsAre
<1>6. /\ log' \in [Sessions -> Seq(Event)] /\ inbound' \in [Panels -> Seq(Frame)]
      /\ \A t \in Sessions \ {s} : log'[t] = log[t]
  BY <1>4, <1>5, OneEvent
<1>7. /\ pending' \in [Sessions -> SUBSET AskIds] /\ pending'[s] = pending[s] \union {id}
      /\ \A t \in Sessions \ {s} : pending'[t] = pending[t]
  BY <1>4 DEF PanelTypeOK
<1>8. PanelTypeOK'
  BY <1>1, <1>2, <1>6, <1>7 DEF PanelTypeOK
<1>9. StatesOf(s) /\ AsksOf(s) /\ MessagesOf(s) /\ phase[s] \notin {"new", "over"}
  BY <1>1 DEF SessionsInv
<1>10. Moves
  BY <1>1, <1>4, <1>5, <1>9, OneMoves
<1>11. StatesOf(s)'
  BY <1>1, <1>4, <1>5, <1>9, OneStatesKept
<1>12. AsksOf(s)'
  <2>1. id = Asked(s) + 1
    BY <1>3 DEF n
  <2>2. QED
    BY <1>1, <1>4, <1>7, <1>9, <2>1, AskedKeeps
<1>13. MessagesOf(s)'
  BY <1>1, <1>4, <1>5, <1>9, OneMessagesKept
<1>14. QED
  BY <1>1, <1>6, <1>7, <1>8, <1>10, <1>11, <1>12, <1>13, KeptBy

LEMMA AnswerKeeps ==
    ASSUME PanelTypeOK, SessionsInv, StartInv, NEW c \in Clients, Answer(c)
    PROVE  Kept
<1>0. PICK s \in Sessions : s = Live /\ phase[s] \in Open
  BY LiveIs DEF Answer
<1>1. PICK id \in pending[s] : /\ Broadcast(s, <<Said("settled", id)>>)
                               /\ pending' = [pending EXCEPT ![s] = @ \ {id}]
  BY <1>0 DEF Answer
<1>2. UNCHANGED <<phase, backlog, steered, start, reply, feed, panel, crossed, behind,
      typed, asks, drops>>
  BY DEF Answer, history, counts
<1>3. id \in AskIds
  BY Types
<1>4. Said("settled", id) \in Event /\ Said("settled", id).type = "settled"
  BY <1>3, EventsAre
<1>5. /\ log' \in [Sessions -> Seq(Event)] /\ inbound' \in [Panels -> Seq(Frame)]
      /\ \A t \in Sessions \ {s} : log'[t] = log[t]
  BY <1>1, <1>4, OneEvent
<1>6. /\ pending' \in [Sessions -> SUBSET AskIds] /\ pending'[s] = pending[s] \ {id}
      /\ \A t \in Sessions \ {s} : pending'[t] = pending[t]
  BY <1>1 DEF PanelTypeOK
<1>7. PanelTypeOK'
  BY <1>2, <1>5, <1>6 DEF PanelTypeOK
<1>8. StatesOf(s) /\ AsksOf(s) /\ MessagesOf(s) /\ phase[s] \notin {"new", "closing", "over"}
  BY <1>0 DEF SessionsInv, Open
<1>9. Moves
  BY <1>1, <1>2, <1>4, <1>8, OneMoves
<1>10. StatesOf(s)'
  BY <1>1, <1>2, <1>4, <1>8, OneStatesKept
<1>11. AsksOf(s)'
  <2>1. SaidIn(s, Said("ask", id))
    BY <1>3, <1>8 DEF AsksOf
  <2>2. \E events \in Seq(Event) : /\ Broadcast(s, events) /\ Len(events) = 1
                                   /\ \A i \in 1..Len(events) : i = 1
                                      /\ events[i] = Said("settled", id)
    <3> DEFINE e == Said("settled", id)
    <3>1. e \in Event /\ Broadcast(s, <<e>>)
      BY <1>1, <1>4
    <3> HIDE DEF e
    <3>2. /\ <<e>> \in Seq(Event) /\ Len(<<e>>) = 1
          /\ \A i \in 1..Len(<<e>>) : i = 1 /\ <<e>>[i] = e
      BY <3>1, OneEvent
    <3>3. \E events \in Seq(Event) : /\ Broadcast(s, events) /\ Len(events) = 1
                                     /\ \A i \in 1..Len(events) : i = 1 /\ events[i] = e
      BY <3>1, <3>2
    <3>4. QED
      BY <3>3 DEF e
  <2>3. PICK events \in Seq(Event) : /\ Broadcast(s, events) /\ Len(events) = 1
                                     /\ \A i \in 1..Len(events) : i = 1
                                        /\ events[i] = Said("settled", id)
    BY <2>2
  <2>4. 1 \in 1..Len(events) /\ events[1] = Said("settled", id)
    BY <2>3
  <2>5. \A m : Said("settled", m).id = m
    BY DEF Said
  <2>6. \A m \in pending[s] : m # id <=> \A i \in 1..Len(events) : events[i] # Said("settled", m)
    BY <2>3, <2>4, <2>5
  <2>7. pending'[s] = {m \in pending[s] :
                         \A i \in 1..Len(events) : events[i] # Said("settled", m)}
    BY <1>6, <2>6
  <2>8. \A i \in 1..Len(events) : \E m \in AskIds : /\ events[i] = Said("settled", m)
                                                    /\ SaidIn(s, Said("ask", m))
    BY <1>3, <2>1, <2>3
  <2>9. QED
    BY <1>2, <1>8, <2>3, <2>7, <2>8, SettledKeeps
<1>12. MessagesOf(s)'
  BY <1>1, <1>2, <1>4, <1>8, OneMessagesKept
<1>13. QED
  BY <1>2, <1>5, <1>6, <1>7, <1>9, <1>10, <1>11, <1>12, KeptBy

\* The steps of the server, and of its clients, that leave the panels alone.
ServerStep ==
    \/ Install \/ Established \/ StartFails \/ End \/ TurnEnds \/ SteerReturns
    \/ \E s \in Sessions : Closed(s) \/ Ask(s)
    \/ \E c \in Clients : Start(c) \/ Send(c) \/ Answer(c)

LEMMA ServerStepKeeps ==
    ASSUME PanInv, ServerStep
    PROVE  PanInv'
<1>1. PanelTypeOK /\ SessionsInv /\ StartInv
  BY DEF PanInv
<1>2. Kept
  BY <1>1, InstallKeeps, EstablishedKeeps, StartFailsKeeps, EndKeeps, TurnEndsKeeps,
     SteerRefusedKeeps, ClosedKeeps, AskKeeps, StartKeeps, SendKeeps, AnswerKeeps DEF ServerStep
<1>3. \A p \in Panels : FeedInv(p)' /\ MemoryInv(p)'
  BY <1>1, <1>2, PanelsStand DEF Kept, PanInv
<1>4. QED
  BY <1>2, <1>3 DEF Kept, PanInv
-----------------------------------------------------------------------------
(* What a panel makes of what it has of a session. *)

\* An event that opens something is resolved in the panel when what resolves
\* it is among what the panel shows.
LEMMA ResolvedIs ==
    ASSUME NEW s \in Sessions, NEW items \in Seq(Item), NEW n \in Nat, UpTo(items, s, n),
           NEW how \in {"settled", "delivered"},
           \A i \in 1..n : log[s][i] \in Event,
           \A i, j \in 1..n : log[s][i].type \in Opening[how] /\ log[s][j].type \in Opening[how]
                              /\ log[s][i].id = log[s][j].id => i = j,
           \A i \in 1..n : log[s][i].type = how =>
              \E j \in 1..(i - 1) : log[s][j].type \in Opening[how]
              /\ log[s][j].id = log[s][i].id,
           NEW x \in 1..Len(items), items[x].event.type \in Opening[how]
    PROVE  Resolved(items, x, how) <=> \E i \in 1..n : log[s][i] = Said(how, items[x].event.id)
<1> DEFINE id == items[x].event.id
<1>a. Len(items) \in Nat
  OBVIOUS
<1>1. /\ \A i \in 1..Len(items) : items[i].at \in 1..n /\ items[i].event = log[s][items[i].at]
      /\ \A i, j \in 1..Len(items) : i < j => items[i].at < items[j].at
      /\ \A m \in 1..n : log[s][m].type # "state" => \E i \in 1..Len(items) : items[i].at = m
  BY DEF UpTo
<1>2. Said(how, id).type = how /\ Said(how, id).id = id /\ how # "state"
  BY DEF Said
<1>3. ASSUME Resolved(items, x, how)
      PROVE  \E i \in 1..n : log[s][i] = Said(how, id)
  <2>1. PICK j \in (x + 1)..Len(items) : items[j].event = Said(how, id)
    BY <1>3 DEF Resolved
  <2>2. j \in 1..Len(items)
    BY <1>a
  <2>3. QED
    BY <1>1, <2>1, <2>2
<1>4. ASSUME NEW i \in 1..n, log[s][i] = Said(how, id)
      PROVE  Resolved(items, x, how)
  <2>1. log[s][i].type = how /\ log[s][i].id = id /\ log[s][i].type # "state"
    BY <1>2, <1>4
  <2>2. PICK j \in 1..(i - 1) : log[s][j].type \in Opening[how] /\ log[s][j].id = id
    BY <2>1
  <2>3. j \in 1..n /\ j < i
    <3>1. i \in Int /\ j \in Int
      OBVIOUS
    <3>2. QED
      BY <3>1
  <2>4. log[s][items[x].at].type \in Opening[how] /\ log[s][items[x].at].id = id
        /\ items[x].at \in 1..n
    BY <1>1
  <2>5. items[x].at = j
    BY <2>2, <2>3, <2>4
  <2>6. PICK y \in 1..Len(items) : items[y].at = i
    BY <1>1, <2>1
  <2>7. y > x
    <3>1. CASE y = x
      BY <3>1, <2>3, <2>5, <2>6
    <3>2. CASE y < x
      <4>1. items[y].at < items[x].at
        BY <1>1, <3>2
      <4>2. QED
        BY <4>1, <2>3, <2>5, <2>6
    <3>3. QED
      BY <3>1, <3>2, <1>a
  <2>8. y \in (x + 1)..Len(items) /\ items[y].event = Said(how, id)
    BY <1>1, <1>4, <1>a, <2>6, <2>7
  <2>9. ASSUME NEW k \in (x + 1)..(y - 1), items[k].event.type \in Opening[how],
               items[k].event.id = id
        PROVE  FALSE
    <3>1. k \in 1..Len(items) /\ x < k
      BY <1>a, <2>8
    <3>2. items[k].at = items[x].at
      <4>1. log[s][items[k].at].type \in Opening[how] /\ log[s][items[k].at].id = id
            /\ items[k].at \in 1..n
        BY <1>1, <2>9, <3>1
      <4>2. QED
        BY <2>4, <4>1
    <3>3. items[x].at < items[k].at
      BY <1>1, <3>1
    <3>4. items[x].at \in Int
      BY <2>4
    <3>5. QED
      BY <3>2, <3>3, <3>4
  <2>10. QED
    BY <2>8, <2>9 DEF Resolved
<1>5. QED
  BY <1>3, <1>4

\* What a session's messages and requests have in common.
LEMMA MessagesOpen ==
    ASSUME PanelTypeOK, SessionsInv, NEW s \in Sessions, NEW n \in 0..Len(log[s])
    PROVE  /\ n \in Nat /\ \A i \in 1..n : log[s][i] \in Event /\ i \in 1..Len(log[s])
           /\ \A i, j \in 1..n : log[s][i].type \in Opening["delivered"]
                                 /\ log[s][j].type \in Opening["delivered"]
                                 /\ log[s][i].id = log[s][j].id => i = j
           /\ \A i \in 1..n : log[s][i].type = "delivered" =>
                 \E j \in 1..(i - 1) : log[s][j].type \in Opening["delivered"]
                                       /\ log[s][j].id = log[s][i].id
<1>1. Opening["delivered"] = {"user", "queued"}
  BY DEF Opening
<1>2. n \in Nat /\ Len(log[s]) \in Nat /\ \A i \in 1..n : i \in 1..Len(log[s])
  BY Types
<1>3. MessagesOf(s)
  BY DEF SessionsInv
<1>4. QED
  BY <1>1, <1>2, <1>3, Types DEF MessagesOf, MessageAt

LEMMA AsksOpen ==
    ASSUME PanelTypeOK, SessionsInv, NEW s \in Sessions, NEW n \in 0..Len(log[s])
    PROVE  /\ n \in Nat /\ \A i \in 1..n : log[s][i] \in Event /\ i \in 1..Len(log[s])
           /\ \A i, j \in 1..n : log[s][i].type \in Opening["settled"]
                                 /\ log[s][j].type \in Opening["settled"]
                                 /\ log[s][i].id = log[s][j].id => i = j
           /\ \A i \in 1..n : log[s][i].type = "settled" =>
                 \E j \in 1..(i - 1) : log[s][j].type \in Opening["settled"]
                                       /\ log[s][j].id = log[s][i].id
<1>1. Opening["settled"] = {"ask"}
  BY DEF Opening
<1>2. n \in Nat /\ Len(log[s]) \in Nat /\ \A i \in 1..n : i \in 1..Len(log[s])
      /\ log[s][i] \in Event
  BY Types
<1>3. AsksOf(s)
  BY DEF SessionsInv
<1>4. \A i, j \in 1..n : log[s][i].type = "ask" /\ log[s][j].type = "ask"
                         /\ log[s][i].id = log[s][j].id => i = j
  <2> SUFFICES ASSUME NEW i \in 1..n, NEW j \in 1..n, log[s][i].type = "ask",
                      log[s][j].type = "ask", log[s][i].id = log[s][j].id
               PROVE  i = j
    OBVIOUS
  <2>1. log[s][i] = Said("ask", log[s][i].id) /\ log[s][j] = Said("ask", log[s][j].id)
    BY <1>2, Kinds
  <2>2. log[s][j] = log[s][i]
    BY <2>1
  <2>3. QED
    BY <1>2, <1>3, <2>2 DEF AsksOf
<1>5. \A m : Said("ask", m).type = "ask" /\ Said("ask", m).id = m
  BY DEF Said
<1>6. ASSUME NEW i \in 1..n, log[s][i].type = "settled"
      PROVE  \E j \in 1..(i - 1) : log[s][j].type = "ask" /\ log[s][j].id = log[s][i].id
  <2>1. PICK j \in 1..(i - 1) : log[s][j] = Said("ask", log[s][i].id)
    BY <1>2, <1>3, <1>6 DEF AsksOf
  <2>2. QED
    BY <1>5, <2>1
<1>7. QED
  BY <1>1, <1>2, <1>4, <1>6

\* The bubbles that are pending in a panel that has all of a session are the
\* queued messages that are still held.
LEMMA BubblesAre ==
    ASSUME PanelTypeOK, SessionsInv, NEW s \in Sessions, NEW items \in Seq(Item),
           UpTo(items, s, Len(log[s]))
    PROVE  /\ Ids(items, Bubbles(items)) = SaidQueued(s) \intersect Backlogged(s)
           /\ \A i \in Bubbles(items) : items[i].of = s /\ items[i].event.id \in Backlogged(s)
<1>a. PICK n \in 0..Len(log[s]) : n = Len(log[s]) /\ n \in Nat
  BY Types
<1>1. UpTo(items, s, n)
  BY <1>a
<1>2. /\ \A i \in 1..Len(items) : /\ items[i].of = s /\ items[i].at \in 1..n
                                  /\ items[i].event = log[s][items[i].at]
      /\ \A m \in 1..n : log[s][m].type # "state" => \E i \in 1..Len(items) : items[i].at = m
  BY <1>1 DEF UpTo
<1>3. \A i \in 1..Len(items) : items[i].event.type = "queued" =>
         (Resolved(items, i, "delivered") <=>
            \E m \in 1..n : log[s][m] = Said("delivered", items[i].event.id))
  <2> SUFFICES ASSUME NEW i \in 1..Len(items), items[i].event.type = "queued"
               PROVE  Resolved(items, i, "delivered") <=>
                        \E m \in 1..n : log[s][m] = Said("delivered", items[i].event.id)
    OBVIOUS
  <2>1. items[i].event.type \in Opening["delivered"]
    BY DEF Opening
  <2>2. QED
    BY <1>1, <2>1, MessagesOpen, ResolvedIs
<1>4. ASSUME NEW i \in 1..Len(items), items[i].event.type = "queued"
      PROVE  items[i].event.id \in SaidQueued(s)
             /\ items[i].event = Said("queued", items[i].event.id)
  <2>1. items[i].event \in Event /\ items[i].at \in 1..Len(log[s])
    BY <1>2, <1>a, Types
  <2>2. items[i].event = Said("queued", items[i].event.id) /\ items[i].event.id \in MessageIds
    BY <1>4, <2>1, Kinds
  <2>3. log[s][items[i].at] = Said("queued", items[i].event.id)
    BY <1>2, <2>2
  <2>4. \E m \in 1..Len(log[s]) : log[s][m] = Said("queued", items[i].event.id)
    BY <2>1, <2>3
  <2>5. QED
    BY <2>2, <2>4 DEF SaidQueued
<1>5. \A id \in SaidQueued(s) :
        id \in Backlogged(s) <=> ~\E m \in 1..n : log[s][m] = Said("delivered", id)
  BY <1>a DEF SessionsInv, MessagesOf, SaidIn
<1>6. \A i \in Bubbles(items) :
        /\ items[i].of = s
        /\ items[i].event.id \in SaidQueued(s) \intersect Backlogged(s)
  <2> SUFFICES ASSUME NEW i \in Bubbles(items)
               PROVE  items[i].of = s
                      /\ items[i].event.id \in SaidQueued(s) \intersect Backlogged(s)
    OBVIOUS
  <2>1. i \in 1..Len(items) /\ items[i].event.type = "queued" /\ ~Resolved(items, i, "delivered")
    BY DEF Bubbles
  <2>2. QED
    BY <1>2, <1>3, <1>4, <1>5, <2>1
<1>7. ASSUME NEW id \in SaidQueued(s) \intersect Backlogged(s)
      PROVE  \E i \in Bubbles(items) : items[i].event.id = id
  <2>1. PICK m \in 1..n : log[s][m] = Said("queued", id)
    BY <1>a DEF SaidQueued
  <2>2. log[s][m].type = "queued" /\ log[s][m].id = id
    BY <2>1 DEF Said
  <2>3. PICK i \in 1..Len(items) : items[i].at = m
    BY <1>2, <2>2
  <2>4. items[i].event.type = "queued" /\ items[i].event.id = id
    BY <1>2, <2>2, <2>3
  <2>5. ~Resolved(items, i, "delivered")
    BY <1>3, <1>5, <2>4
  <2>6. i \in Bubbles(items)
    BY <2>4, <2>5 DEF Bubbles
  <2>7. QED
    BY <2>4, <2>6
<1>8. Ids(items, Bubbles(items)) = SaidQueued(s) \intersect Backlogged(s)
  BY <1>6, <1>7 DEF Ids
<1>9. QED
  BY <1>6, <1>8

\* The cards are the requests that were made and not settled.
LEMMA CardsAre ==
    ASSUME PanelTypeOK, SessionsInv, NEW s \in Sessions, NEW items \in Seq(Item),
           UpTo(items, s, Len(log[s]))
    PROVE  Ids(items, Cards(items)) = {id \in AskIds : SaidIn(s, Said("ask", id))
                                                       /\ ~SaidIn(s, Said("settled", id))}
<1>a. PICK n \in 0..Len(log[s]) : n = Len(log[s]) /\ n \in Nat
  BY Types
<1>1. UpTo(items, s, n)
  BY <1>a
<1>2. /\ \A i \in 1..Len(items) : /\ items[i].of = s /\ items[i].at \in 1..n
                                  /\ items[i].event = log[s][items[i].at]
      /\ \A m \in 1..n : log[s][m].type # "state" => \E i \in 1..Len(items) : items[i].at = m
  BY <1>1 DEF UpTo
<1>3. \A i \in 1..Len(items) : items[i].event.type = "ask" =>
         (Resolved(items, i, "settled") <=>
            \E m \in 1..n : log[s][m] = Said("settled", items[i].event.id))
  <2> SUFFICES ASSUME NEW i \in 1..Len(items), items[i].event.type = "ask"
               PROVE  Resolved(items, i, "settled") <=>
                        \E m \in 1..n : log[s][m] = Said("settled", items[i].event.id)
    OBVIOUS
  <2>1. items[i].event.type \in Opening["settled"]
    BY DEF Opening
  <2>2. QED
    BY <1>1, <2>1, AsksOpen, ResolvedIs
<1>4. ASSUME NEW i \in Cards(items)
      PROVE  /\ items[i].event.id \in AskIds /\ SaidIn(s, Said("ask", items[i].event.id))
             /\ ~SaidIn(s, Said("settled", items[i].event.id))
  <2>1. i \in 1..Len(items) /\ items[i].event.type = "ask" /\ ~Resolved(items, i, "settled")
    BY <1>4 DEF Cards
  <2>2. items[i].event \in Event /\ items[i].at \in 1..Len(log[s])
    BY <1>2, <1>a, <2>1, Types
  <2>3. items[i].event = Said("ask", items[i].event.id) /\ items[i].event.id \in AskIds
    BY <2>1, <2>2, Kinds
  <2>4. SaidIn(s, Said("ask", items[i].event.id))
    BY <1>2, <2>1, <2>2, <2>3 DEF SaidIn
  <2>5. ~\E m \in 1..n : log[s][m] = Said("settled", items[i].event.id)
    BY <1>3, <2>1
  <2>6. QED
    BY <1>a, <2>3, <2>4, <2>5 DEF SaidIn
<1>5. ASSUME NEW id \in AskIds, SaidIn(s, Said("ask", id)), ~SaidIn(s, Said("settled", id))
      PROVE  \E i \in Cards(items) : items[i].event.id = id
  <2>1. PICK m \in 1..n : log[s][m] = Said("ask", id)
    BY <1>5, <1>a DEF SaidIn
  <2>2. log[s][m].type = "ask" /\ log[s][m].id = id
    BY <2>1 DEF Said
  <2>3. PICK i \in 1..Len(items) : items[i].at = m
    BY <1>2, <2>2
  <2>4. items[i].event.type = "ask" /\ items[i].event.id = id
    BY <1>2, <2>2, <2>3
  <2>5. ~\E k \in 1..n : log[s][k] = Said("settled", id)
    BY <1>5, <1>a DEF SaidIn
  <2>6. ~Resolved(items, i, "settled")
    BY <1>3, <2>4, <2>5
  <2>7. i \in Cards(items)
    BY <2>4, <2>6 DEF Cards
  <2>8. QED
    BY <2>4, <2>7
<1>6. QED
  BY <1>4, <1>5 DEF Ids

\* Where every item has a place, to be whole is to be up to the end.
LEMMA WholeIs ==
    ASSUME PanelTypeOK, NEW p \in Panels, NEW s \in Sessions, Whole(panel[p].items, s)
    PROVE  UpTo(panel[p].items, s, Len(log[s]))
<1> DEFINE items == panel[p].items
<1>1. \A i \in 1..Len(items) : items[i].at \in Nat \ {0}
  BY PanelTypes
<1>2. \A i \in 1..Len(items) : items[i].at # 0
  BY <1>1
<1>3. {i \in 1..Len(items) : items[i].at # 0} = 1..Len(items)
  BY <1>2
<1>4. /\ \A i \in 1..Len(items) : /\ items[i].of = s /\ items[i].at <= Len(log[s])
                                  /\ items[i].event = log[s][items[i].at]
      /\ \A i, j \in 1..Len(items) : i < j => items[i].at < items[j].at
      /\ \A n \in 1..Len(log[s]) : log[s][n].type # "state"
         => \E i \in 1..Len(items) : items[i].at = n
  BY <1>3 DEF Whole
<1>5. \A i \in 1..Len(items) : items[i].at \in 1..Len(log[s])
  BY <1>1, <1>4, Types
<1>6. QED
  BY <1>4, <1>5 DEF UpTo
-----------------------------------------------------------------------------
(* The panels' steps. *)

\* The server does nothing, and one panel something.
Alone(p) ==
    /\ UNCHANGED <<phase, log, backlog, steered, pending, start, typed, asks>>
    /\ \A q \in Panels \ {p} :
          /\ panel'[q] = panel[q] /\ inbound'[q] = inbound[q] /\ feed'[q] = feed[q]
          /\ q \in crossed' <=> q \in crossed
          /\ q \in behind' <=> q \in behind

LEMMA SessionsStand ==
    ASSUME SessionsInv, StartInv,
           UNCHANGED <<phase, log, backlog, steered, pending, start, typed, asks>>
    PROVE  SessionsInv' /\ StartInv'
<1>1. StartInv'
  BY DEF StartInv
<1>2. ASSUME NEW s \in Sessions PROVE StatesOf(s)' /\ AsksOf(s)' /\ MessagesOf(s)'
  <2>1. StatesOf(s) /\ AsksOf(s) /\ MessagesOf(s)
    BY DEF SessionsInv
  <2>2. Asked(s)' = Asked(s) /\ Messages(s)' = Messages(s) /\ Backlogged(s)' = Backlogged(s)
        /\ SaidQueued(s)' = SaidQueued(s)
    BY DEF Asked, Messages, Backlogged, SaidQueued
  <2>3. StatesOf(s)'
    BY <2>1 DEF StatesOf
  <2>4. AsksOf(s)'
    BY <2>1, <2>2 DEF AsksOf, SaidIn
  <2>5. MessagesOf(s)'
    BY <2>1, <2>2 DEF MessagesOf, SaidIn, MessageAt
  <2>6. QED
    BY <2>3, <2>4, <2>5
<1>3. QED
  BY <1>1, <1>2 DEF SessionsInv

LEMMA OthersAlone ==
    ASSUME NEW p \in Panels, Alone(p), NEW q \in Panels \ {p}, FeedInv(q), MemoryInv(q)
    PROVE  FeedInv(q)' /\ MemoryInv(q)'
<1>1. /\ panel'[q] = panel[q] /\ inbound'[q] = inbound[q] /\ feed'[q] = feed[q]
      /\ q \in crossed' <=> q \in crossed
      /\ q \in crossed' \union behind' <=> q \in crossed \union behind
      /\ phase' = phase /\ log' = log /\ backlog' = backlog
  BY DEF Alone
<1>2. \A s : Backlogged(s)' = Backlogged(s) /\ SaidQueued(s)' = SaidQueued(s)
      /\ (Ended(s)' <=> Ended(s))
  BY <1>1 DEF Backlogged, SaidQueued, Ended
<1>3. \A s, n : UpTo(panel[q].items, s, n)' <=> UpTo(panel[q].items, s, n)
  BY <1>1 DEF UpTo
<1>4. Forgets(panel[q])' <=> Forgets(panel[q])
  BY <1>1 DEF Forgets
<1>5. Gone(panel[q].items)' <=> Gone(panel[q].items)
  <2>1. Bubbles(panel[q].items)' = Bubbles(panel[q].items)
    BY <1>1 DEF Bubbles, Resolved, Opening
  <2>2. QED
    BY <1>1, <2>1 DEF Gone, Backlogged
<1>6. \A s, pre, n : Streams(q, s, pre, n)' <=> Streams(q, s, pre, n)
  BY <1>1 DEF Streams, InBuffer, Resets
<1>7. \A s, pre, n : Follows(q, s, pre, n)' <=> Follows(q, s, pre, n)
  BY <1>1, <1>2, <1>3, <1>4 DEF Follows, Tells, Resets
<1>8. FeedInv(q)'
  BY <1>1, <1>4, <1>5, <1>6, <1>7 DEF FeedInv
<1>9. MemoryInv(q)'
  BY <1>1, <1>2, <1>3 DEF MemoryInv
<1>10. QED
  BY <1>8, <1>9

LEMMA AloneKeeps ==
    ASSUME PanInv, PanelTypeOK', NEW p \in Panels, Alone(p), FeedInv(p)', MemoryInv(p)'
    PROVE  PanInv'
<1>1. SessionsInv' /\ StartInv'
  BY SessionsStand DEF PanInv, Alone
<1>2. \A q \in Panels : FeedInv(q)' /\ MemoryInv(q)'
  BY OthersAlone DEF PanInv
<1>3. QED
  BY <1>1, <1>2 DEF PanInv

\* Without a stream there is nothing to say of it.
LEMMA NoStream ==
    ASSUME NEW p \in Panels, feed'[p] = None, inbound'[p] = <<>>
    PROVE  FeedInv(p)'
BY Numbers DEF FeedInv

LEMMA DropKeeps ==
    ASSUME PanInv, NEW p \in Panels, Drop(p)
    PROVE  PanInv'
<1>1. /\ UNCHANGED <<phase, log, backlog, steered, pending, start, reply, panel, crossed,
         behind, typed, asks>>
      /\ feed' = [feed EXCEPT ![p] = None] /\ inbound' = [inbound EXCEPT ![p] = <<>>]
      /\ drops < MaxDrops /\ drops' = drops + 1
  BY DEF Drop, server, history
<1>2. PanelTypeOK /\ MemoryInv(p)
  BY DEF PanInv
<1>3. PanelTypeOK'
  <2>1. drops' \in 0..MaxDrops
    BY <1>1, <1>2, Numbers DEF PanelTypeOK
  <2>2. feed' \in [Panels -> Session \union {None}] /\ inbound' \in [Panels -> Seq(Frame)]
    BY <1>1, <1>2 DEF PanelTypeOK
  <2>3. QED
    BY <1>1, <1>2, <2>1, <2>2 DEF PanelTypeOK
<1>4. Alone(p)
  BY <1>1, <1>2 DEF Alone, PanelTypeOK
<1>5. FeedInv(p)'
  BY <1>1, <1>2, NoStream DEF PanelTypeOK
<1>6. MemoryInv(p)'
  BY <1>1, <1>2 DEF MemoryInv, UpTo, Backlogged
<1>7. QED
  BY <1>3, <1>4, <1>5, <1>6, AloneKeeps

LEMMA ReopenKeeps ==
    ASSUME PanInv, NEW p \in Panels, Reopen(p)
    PROVE  PanInv'
<1>1. /\ UNCHANGED <<phase, log, backlog, steered, pending, start, crossed, behind, typed,
         asks, drops>>
      /\ feed' = [feed EXCEPT ![p] = None] /\ inbound' = [inbound EXCEPT ![p] = <<>>]
      /\ reply' = [reply EXCEPT ![p] = 0]
      /\ panel' = [panel EXCEPT ![p] = [panel[p] EXCEPT !.lastId = 0, !.lastOf = 0]]
  BY DEF Reopen, server, history, counts
<1>2. PanelTypeOK /\ MemoryInv(p)
  BY DEF PanInv
<1>3. /\ [panel[p] EXCEPT !.lastId = 0, !.lastOf = 0] \in Panel
      /\ panel'[p] = [panel[p] EXCEPT !.lastId = 0, !.lastOf = 0]
      /\ \A q \in Panels \ {p} : panel'[q] = panel[q]
  <2>1. panel[p] \in Panel /\ 0 \in Session /\ panel \in [Panels -> Panel]
    BY <1>2, Numbers DEF PanelTypeOK
  <2>2. [panel[p] EXCEPT !.lastId = 0, !.lastOf = 0] \in Panel
    BY <2>1 DEF Panel
  <2>3. QED
    BY <1>1, <2>1, <2>2
<1>4. PanelTypeOK'
  <2>1. panel' \in [Panels -> Panel]
    BY <1>1, <1>2, <1>3 DEF PanelTypeOK
  <2>2. reply' \in [Panels -> Session]
    BY <1>1, <1>2, Numbers DEF PanelTypeOK
  <2>3. feed' \in [Panels -> Session \union {None}] /\ inbound' \in [Panels -> Seq(Frame)]
    BY <1>1, <1>2 DEF PanelTypeOK
  <2>4. QED
    BY <1>1, <1>2, <2>1, <2>2, <2>3 DEF PanelTypeOK
<1>5. Alone(p)
  BY <1>1, <1>2, <1>3 DEF Alone, PanelTypeOK
<1>6. FeedInv(p)'
  BY <1>1, <1>2, NoStream DEF PanelTypeOK
<1>7. MemoryInv(p)'
  <2>1. panel'[p].lastId = 0 /\ panel'[p].restored = panel[p].restored
        /\ panel'[p].drafts = panel[p].drafts
    BY <1>2, <1>3, PanelTypes DEF Panel
  <2>2. QED
    BY <1>1, <1>2, <2>1 DEF MemoryInv, Backlogged
<1>8. QED
  BY <1>4, <1>5, <1>6, <1>7, AloneKeeps

LEMMA RestartKeeps ==
    ASSUME PanInv, Restart
    PROVE  PanInv'
<1>1. /\ UNCHANGED <<log, backlog, panel, crossed, behind, typed, asks>>
      /\ phase' = [s \in Sessions |-> IF phase[s] = "new" THEN "new" ELSE "over"]
      /\ steered' = [s \in Sessions |-> {}] /\ pending' = [s \in Sessions |-> {}]
      /\ start' = [by |-> None, waits |-> 0] /\ reply' = [p \in Panels |-> 0]
      /\ feed' = [p \in Panels |-> None] /\ inbound' = [p \in Panels |-> <<>>]
      /\ drops < MaxDrops /\ drops' = drops + 1
  BY DEF Restart, history
<1>2. PanelTypeOK /\ SessionsInv
  BY DEF PanInv
<1>3. \A s \in Sessions : phase'[s] \notin Open /\ phase'[s] \in {"new", "over"}
  BY <1>1 DEF Open
<1>4. PanelTypeOK'
  <2>1. drops' \in 0..MaxDrops
    BY <1>1, <1>2, Numbers DEF PanelTypeOK
  <2>2. start' \in [by : Clients \union {None}, waits : Session] /\ reply' \in [Panels -> Session]
    BY <1>1, Numbers
  <2>3. phase' \in [Sessions -> Open \union {"new", "closing", "over"}]
    BY <1>1
  <2>4. \A s \in Sessions : phase'[s] # "ready"
    BY <1>3
  <2>5. /\ steered' \in [Sessions -> SUBSET MessageIds]
           /\ pending' \in [Sessions -> SUBSET AskIds]
        /\ feed' \in [Panels -> Session \union {None}] /\ inbound' \in [Panels -> Seq(Frame)]
    BY <1>1
  <2>6. QED
    BY <1>1, <1>2, <1>3, <2>1, <2>2, <2>3, <2>4, <2>5 DEF PanelTypeOK
<1>5. ASSUME NEW s \in Sessions PROVE StatesOf(s)' /\ AsksOf(s)' /\ MessagesOf(s)'
  <2>1. StatesOf(s) /\ AsksOf(s) /\ MessagesOf(s)
    BY <1>2 DEF SessionsInv
  <2>2. /\ phase'[s] = IF phase[s] = "new" THEN "new" ELSE "over"
        /\ steered'[s] = {} /\ pending'[s] = {}
    BY <1>1
  <2>3. Asked(s)' = Asked(s) /\ Messages(s)' = Messages(s) /\ Backlogged(s)' = Backlogged(s)
        /\ SaidQueued(s)' = SaidQueued(s)
    BY <1>1 DEF Asked, Messages, Backlogged, SaidQueued
  <2>4. StatesOf(s)'
    BY <1>1, <2>1, <2>2 DEF StatesOf
  <2>5. AsksOf(s)'
    <3>1. phase'[s] \notin {"closing", "over"} => log[s] = <<>>
      BY <2>1, <2>2 DEF StatesOf
    <3>2. log[s] = <<>> => \A e : ~SaidIn(s, e)
      BY DEF SaidIn
    <3>3. \A e : SaidIn(s, e)' <=> SaidIn(s, e)
      BY <1>1 DEF SaidIn
    <3>4. phase'[s] \notin {"closing", "over"} =>
             pending'[s] = {id \in AskIds : SaidIn(s, Said("ask", id))'
                                            /\ ~SaidIn(s, Said("settled", id))'}
      BY <2>2, <3>1, <3>2, <3>3
    <3>5. QED
      BY <1>1, <2>1, <2>3, <3>4 DEF AsksOf
  <2>6. MessagesOf(s)'
    <3>1. \A e : SaidIn(s, e)' <=> SaidIn(s, e)
      BY <1>1 DEF SaidIn
    <3>2. \A i : MessageAt(s, i)' <=> MessageAt(s, i)
      BY <1>1 DEF MessageAt
    <3>3. log'[s] = log[s] /\ backlog'[s] = backlog[s] /\ typed' = typed
      BY <1>1
    <3>4. \A id \in SaidQueued(s) : id \in Backlogged(s) <=> ~SaidIn(s, Said("delivered", id))'
      BY <2>1, <3>1 DEF MessagesOf
    <3>5. QED
      BY <2>1, <2>2, <2>3, <3>2, <3>3, <3>4 DEF MessagesOf
  <2>7. QED
    BY <2>4, <2>5, <2>6
<1>6. StartInv'
  BY <1>3 DEF StartInv
<1>7. ASSUME NEW p \in Panels PROVE FeedInv(p)' /\ MemoryInv(p)'
  <2>1. FeedInv(p)'
    BY <1>1, NoStream
  <2>2. MemoryInv(p) /\ panel'[p] = panel[p] /\ crossed' = crossed /\ behind' = behind
    BY <1>1 DEF PanInv
  <2>3. panel[p].lastId # 0 => panel[p].lastOf \in Sessions /\ phase'[panel[p].lastOf] # "new"
                               /\ phase'[panel[p].lastOf] \notin Open
    BY <1>1, <1>3, <2>2 DEF MemoryInv
  <2>4. ASSUME p \notin crossed \union behind
        PROVE  /\ panel[p].restored # 0 => phase'[panel[p].restored] \in {"closing", "over"}
               /\ \A d \in panel[p].drafts : phase'[d.of] \in {"closing", "over"}
                  /\ d.id \in Backlogged(d.of)
    <3>1. \A d \in panel[p].drafts : d.of \in Sessions
      BY <1>2, PanelTypes DEF Text
    <3>2. panel[p].restored # 0 => panel[p].restored \in Sessions
      BY <1>2, PanelTypes, Numbers
    <3>3. QED
      BY <1>1, <2>2, <2>4, <3>1, <3>2 DEF MemoryInv
  <2>5. QED
    BY <1>1, <2>1, <2>2, <2>3, <2>4 DEF MemoryInv, Backlogged
<1>8. QED
  BY <1>4, <1>5, <1>6, <1>7 DEF PanInv, SessionsInv

LEMMA Pair ==
    ASSUME NEW a, NEW b
    PROVE  <<a>> \o <<b>> = <<a, b>> /\ <<a, b>> \o <<>> = <<a, b>>
<1>1. <<a>> \in Seq({a, b}) /\ <<b>> \in Seq({a, b}) /\ <<a, b>> \in Seq({a, b})
  OBVIOUS
<1>2. <<a>> \o <<b>> = [i \in 1..2 |-> IF i = 1 THEN a ELSE b]
  <2> DEFINE q == <<a>> \o <<b>>
  <2>1. q \in Seq({a, b}) /\ Len(q) = 2 /\ q[1] = a /\ q[2] = b
    BY <1>1
  <2> HIDE DEF q
  <2>2. DOMAIN q = 1..2 /\ q = [i \in 1..2 |-> q[i]]
    BY <2>1
  <2>3. \A i \in 1..2 : i = 1 \/ i = 2
    OBVIOUS
  <2>4. QED
    BY <2>1, <2>2, <2>3 DEF q
<1>3. <<a, b>> = [i \in 1..2 |-> IF i = 1 THEN a ELSE b]
  <2> DEFINE q == <<a, b>>
  <2>1. q \in Seq({a, b}) /\ Len(q) = 2 /\ q[1] = a /\ q[2] = b
    BY <1>1
  <2> HIDE DEF q
  <2>2. DOMAIN q = 1..2 /\ q = [i \in 1..2 |-> q[i]]
    BY <2>1
  <2>3. \A i \in 1..2 : i = 1 \/ i = 2
    OBVIOUS
  <2>4. QED
    BY <2>1, <2>2, <2>3 DEF q
<1>4. <<a, b>> \o <<>> = <<a, b>>
  BY <1>1
<1>5. QED
  BY <1>2, <1>3, <1>4

\* The frames a connection begins with.
LEMMA FramesAre ==
    ASSUME PanelTypeOK, NEW s \in Sessions, Live = s, NEW id \in Nat
    PROVE  \E pre \in Preludes(s), n \in 0..Len(log[s]) :
              /\ Frames(id) \in Seq(Frame) /\ Len(Frames(id)) = Len(pre) + Len(log[s]) - n
              /\ \A i \in 1..Len(pre) : Frames(id)[i] = pre[i]
              /\ \A i \in 1..(Len(log[s]) - n) : Frames(id)[Len(pre) + i] = InBuffer(s, n + i)
              /\ CanResume(id) => pre = <<Aside(StateOf(s))>> /\ n = id
              /\ ~CanResume(id) => pre = <<Aside(StateOf(s)), Begins>> /\ n = 0
<1>a. PICK k \in Nat : k = Len(log[s])
  BY Types
<1> DEFINE pre == IF CanResume(id) THEN <<Aside(StateOf(s))>> ELSE <<Aside(StateOf(s)), Begins>>
           n == IF CanResume(id) THEN id ELSE 0
           rest == [i \in 1..(k - n) |-> InBuffer(s, n + i)]
<1>1. Live # 0 /\ s # None
  BY Numbers
<1>2. n \in 0..k
  BY <1>a, <1>1 DEF CanResume
<1>3. Aside(StateOf(s)) \in Frame /\ Begins \in Frame
  BY Numbers DEF Aside, Begins, Frame, Event, State, StateOf
<1>4. pre \in Seq(Frame) /\ pre \in Preludes(s) /\ Len(pre) \in Nat
  BY <1>3 DEF Preludes
<1>5. rest \in Seq(Frame) /\ Len(rest) = k - n
      /\ \A i \in 1..(k - n) : rest[i] = InBuffer(s, n + i)
  <2>1. k - n \in Nat
    BY <1>2
  <2>2. \A i \in 1..(k - n) : n + i \in 1..Len(log[s])
    BY <1>a, <1>2
  <2>3. ASSUME NEW i \in 1..(k - n) PROVE InBuffer(s, n + i) \in Frame
    <3>1. log[s][n + i] \in Event
      BY <2>2, Types
    <3>2. s \in Session /\ n + i \in Nat
      BY <2>2, Numbers
    <3>3. QED
      BY <3>1, <3>2 DEF InBuffer, Frame
  <2>4. QED
    BY <2>1, <2>3
<1>6. Frames(id) = pre \o rest
  <2>1. CASE CanResume(id)
    <3>1. k - (id + 1) + 1 = k - id /\ \A i \in 1..(k - id) : (id + 1) + i - 1 = id + i
      OBVIOUS
    <3>2. Frames(id) = <<Aside(StateOf(s))>> \o <<>>
                       \o [i \in 1..(k - (id + 1) + 1) |-> InBuffer(s, (id + 1) + i - 1)]
      BY <2>1, <1>1, <1>a DEF Frames, ResumeAt
    <3>3. [i \in 1..(k - (id + 1) + 1) |-> InBuffer(s, (id + 1) + i - 1)]
          = [i \in 1..(k - id) |-> InBuffer(s, id + i)]
      BY <3>1
    <3>4. <<Aside(StateOf(s))>> \o <<>> = <<Aside(StateOf(s))>>
      OBVIOUS
    <3>5. QED
      BY <2>1, <3>2, <3>3, <3>4
  <2>2. CASE ~CanResume(id)
    <3>1. k - 1 + 1 = k - 0 /\ \A i \in 1..k : 1 + i - 1 = 0 + i
      OBVIOUS
    <3>2. Frames(id) = <<Aside(StateOf(s))>> \o <<Aside([type |-> "reset"])>>
                       \o [i \in 1..(k - 1 + 1) |-> InBuffer(s, 1 + i - 1)]
      BY <2>2, <1>1, <1>a DEF Frames
    <3>3. [i \in 1..(k - 1 + 1) |-> InBuffer(s,
          1 + i - 1)] = [i \in 1..(k - 0) |-> InBuffer(s, 0 + i)]
      BY <3>1
    <3>4. <<Aside(StateOf(s))>> \o <<Begins>> = <<Aside(StateOf(s)), Begins>>
      BY Pair
    <3>5. QED
      BY <2>2, <3>2, <3>3, <3>4 DEF Begins
  <2>3. QED
    BY <2>1, <2>2
<1> HIDE DEF rest
<1>7. \E x \in Preludes(s), m \in 0..k :
         /\ x = pre /\ m = n
  BY <1>2, <1>4
<1>8. PICK x \in Preludes(s), m \in 0..k : x = pre /\ m = n
  BY <1>7
<1>9. /\ CanResume(id) => x = <<Aside(StateOf(s))>> /\ m = id
      /\ ~CanResume(id) => x = <<Aside(StateOf(s)), Begins>> /\ m = 0
  BY <1>8
<1> HIDE DEF pre, n
<1>10. /\ Frames(id) = x \o rest /\ x \in Seq(Frame) /\ rest \in Seq(Frame) /\ Len(rest) = k - m
       /\ \A i \in 1..(k - m) : rest[i] = InBuffer(s, m + i)
  BY <1>4, <1>5, <1>6, <1>8
<1>11. /\ x \o rest \in Seq(Frame) /\ Len(x \o rest) = Len(x) + Len(rest)
       /\ \A i \in 1..Len(x) : (x \o rest)[i] = x[i]
       /\ \A i \in 1..Len(rest) : (x \o rest)[Len(x) + i] = rest[i]
  <2>1. \A q, r \in Seq(Frame) : /\ q \o r \in Seq(Frame) /\ Len(q \o r) = Len(q) + Len(r)
                                 /\ \A i \in 1..Len(q) : (q \o r)[i] = q[i]
                                 /\ \A i \in 1..Len(r) : (q \o r)[Len(q) + i] = r[i]
    BY Joined
  <2>2. QED
    BY <2>1, <1>10, Zenon
<1>12. Len(x) + (k - m) = Len(x) + k - m
  <2>1. Len(x) \in Nat
    BY <1>10
  <2>2. m \in Nat
    OBVIOUS
  <2>3. QED
    BY <2>1, <2>2
<1>13. QED
  <2>1. /\ Frames(id) \in Seq(Frame) /\ Len(Frames(id)) = Len(x) + k - m
        /\ \A i \in 1..Len(x) : Frames(id)[i] = x[i]
        /\ \A i \in 1..(k - m) : Frames(id)[Len(x) + i] = InBuffer(s, m + i)
    BY <1>10, <1>11, <1>12
  <2>2. QED
    BY <2>1, <1>9, <1>a

\* A panel that shows all of a session that is gone.
LEMMA GoneIs ==
    ASSUME PanelTypeOK, SessionsInv, NEW p \in Panels, NEW s \in Sessions, phase[s] \notin Open,
           Whole(panel[p].items, s), panel[p].items # <<>>
    PROVE  Gone(panel[p].items)
<1> DEFINE items == panel[p].items
<1>1. items \in Seq(Item) /\ UpTo(items, s, Len(log[s]))
  BY WholeIs, PanelTypes
<1>2. \A i \in 1..Len(items) : items[i].of = s /\ items[i].at \in 1..Len(log[s])
  BY <1>1 DEF UpTo
<1>3. 1 \in 1..Len(items)
  BY <1>1
<1>4. log[s] # <<>>
  BY <1>2, <1>3
<1>5. phase[s] \in {"closing", "over"}
  BY <1>4, Types DEF SessionsInv, StatesOf
<1>6. \A i \in Bubbles(items) : items[i].of = s /\ items[i].event.id \in Backlogged(s)
  BY <1>1, BubblesAre
<1>7. QED
  BY <1>2, <1>5, <1>6 DEF Gone

LEMMA ConnectKeeps ==
    ASSUME PanInv, NEW p \in Panels, Connect(p)
    PROVE  PanInv'
<1> DEFINE r == panel[p]
<1>0. PanelTypeOK /\ SessionsInv /\ MemoryInv(p)
  BY DEF PanInv
<1>1. /\ UNCHANGED <<phase, log, backlog, steered, pending, start, reply, panel, typed,
         asks, drops>>
      /\ feed' = [feed EXCEPT ![p] = Live] /\ inbound' = [inbound EXCEPT ![p] = Frames(r.lastId)]
      /\ crossed' = IF CanResume(r.lastId) /\ r.lastOf # Live THEN crossed \union {p} ELSE crossed
      /\ behind' = IF Missed(p) THEN behind \union {p} ELSE behind
  BY DEF Connect, server, counts
<1>2. /\ r.lastId \in Nat /\ r.lastOf \in Session /\ r.items \in Seq(Item)
         /\ r.restored \in Session
  BY <1>0, PanelTypes
<1>3. /\ feed'[p] = Live /\ inbound'[p] = Frames(r.lastId)
      /\ \A q \in Panels \ {p} : feed'[q] = feed[q] /\ inbound'[q] = inbound[q]
  BY <1>0, <1>1 DEF PanelTypeOK
<1>4. Alone(p)
  BY <1>1, <1>3 DEF Alone
<1>5. p \notin crossed' => p \notin crossed
  BY <1>1
<1>6. p \notin crossed' \union behind' => p \notin crossed \union behind /\ ~Missed(p)
  BY <1>1
<1>7. MemoryInv(p)'
  BY <1>0, <1>1, <1>5, <1>6 DEF MemoryInv, UpTo, Backlogged
<1>8. CASE Live = 0
  <2>1. Frames(r.lastId) = <<Aside(StateOf(0)), Begins>>
    <3>1. ~CanResume(r.lastId)
      BY <1>8 DEF CanResume
    <3>2. Frames(r.lastId) = <<Aside(StateOf(0))>> \o <<Aside([type |-> "reset"])>>
                             \o [i \in 1..(0 - 1 + 1) |-> InBuffer(0, 1 + i - 1)]
      BY <1>8, <3>1 DEF Frames
    <3>3. [i \in 1..(0 - 1 + 1) |-> InBuffer(0, 1 + i - 1)] = <<>>
      OBVIOUS
    <3>4. <<Aside(StateOf(0))>> \o <<Begins>> = <<Aside(StateOf(0)), Begins>>
      BY Pair
    <3>5. <<Aside(StateOf(0)), Begins>> \o <<>> = <<Aside(StateOf(0)), Begins>>
      BY Pair
    <3>6. QED
      BY <3>2, <3>3, <3>4, <3>5 DEF Begins
  <2>2. <<Aside(StateOf(0)), Begins>> \in Seq(Frame)
    <3>1. Aside(StateOf(0)) \in Frame /\ Begins \in Frame
      BY Numbers DEF Aside, Begins, Frame, Event, State, StateOf
    <3>2. QED
      BY <3>1
  <2>3. PanelTypeOK'
    <3>1. inbound' \in [Panels -> Seq(Frame)] /\ feed' \in [Panels -> Session \union {None}]
      BY <1>0, <1>1, <1>8, <2>1, <2>2, Numbers DEF PanelTypeOK
    <3>2. crossed' \subseteq Panels /\ behind' \subseteq Panels
      BY <1>0, <1>1 DEF PanelTypeOK
    <3>3. QED
      BY <1>0, <1>1, <3>1, <3>2 DEF PanelTypeOK
  <2>4. \A s \in Sessions : phase[s] \notin Open
    BY <1>0, <1>8, LiveIs
  <2>5. Forgets(r)
    BY <1>0, <2>4 DEF Forgets, MemoryInv
  <2>6. p \notin crossed' \union behind' => Gone(r.items)
    <3>1. SUFFICES ASSUME ~Missed(p) PROVE Gone(r.items)
      BY <1>6
    <3>2. CASE r.items = <<>>
      BY <3>2 DEF Gone, Bubbles
    <3>3. CASE r.items # <<>>
      <4>1. PICK s \in Sessions : s = r.items[1].of
        BY <1>0, <1>2, <3>3, PanelTypes
      <4>2. s # Live
        BY <1>8, Numbers
      <4>3. Whole(r.items, s)
        BY <3>1, <3>3, <4>1, <4>2 DEF Missed
      <4>4. QED
        BY <1>0, <2>4, <3>3, <4>3, GoneIs
    <3>4. QED
      BY <3>2, <3>3
  <2>7. FeedInv(p)'
    <3>1. feed'[p] = 0 /\ 0 # None /\ 0 \notin Sessions
      BY <1>3, <1>8, Numbers
    <3>2. Forgets(panel[p])' /\ (p \notin crossed' \union behind' => Gone(panel[p].items)')
      <4>1. Bubbles(panel[p].items)' = Bubbles(panel[p].items)
        BY <1>1 DEF Bubbles, Resolved, Opening
      <4>2. QED
        BY <1>1, <2>5, <2>6, <4>1 DEF Forgets, Gone, Backlogged
    <3>3. QED
      BY <1>3, <2>1, <3>1, <3>2 DEF FeedInv
  <2>8. QED
    BY <1>4, <1>7, <2>3, <2>7, AloneKeeps
<1>9. CASE Live # 0
  <2>1. PICK s \in Sessions : s = Live /\ phase[s] \in Open
                              /\ \A t \in Sessions : phase[t] \in Open => t = s
    BY <1>0, <1>9, LiveIs
  <2>a. PICK id \in Nat : id = r.lastId
    BY <1>2
  <2>b. Live = s /\ inbound'[p] = Frames(id) /\ (CanResume(r.lastId) <=> CanResume(id))
    BY <1>3, <2>1, <2>a DEF CanResume
  <2>c. PICK pre \in Preludes(s), n \in 0..Len(log[s]) :
              /\ Frames(id) \in Seq(Frame) /\ Len(Frames(id)) = Len(pre) + Len(log[s]) - n
              /\ \A i \in 1..Len(pre) : Frames(id)[i] = pre[i]
              /\ \A i \in 1..(Len(log[s]) - n) : Frames(id)[Len(pre) + i] = InBuffer(s, n + i)
              /\ CanResume(id) => pre = <<Aside(StateOf(s))>> /\ n = id
              /\ ~CanResume(id) => pre = <<Aside(StateOf(s)), Begins>> /\ n = 0
    BY <1>0, <2>b, FramesAre
  <2>2. /\ inbound'[p] \in Seq(Frame) /\ Len(inbound'[p]) = Len(pre) + Len(log[s]) - n
        /\ \A i \in 1..Len(pre) : inbound'[p][i] = pre[i]
        /\ \A i \in 1..(Len(log[s]) - n) : inbound'[p][Len(pre) + i] = InBuffer(s, n + i)
        /\ CanResume(r.lastId) => pre = <<Aside(StateOf(s))>> /\ n = r.lastId
        /\ ~CanResume(r.lastId) => pre = <<Aside(StateOf(s)), Begins>> /\ n = 0
    BY <2>a, <2>b, <2>c
  <2>3. PanelTypeOK'
    <3>1. inbound' \in [Panels -> Seq(Frame)] /\ feed' \in [Panels -> Session \union {None}]
      BY <1>0, <1>1, <1>3, <2>1, <2>2, Numbers DEF PanelTypeOK
    <3>2. crossed' \subseteq Panels /\ behind' \subseteq Panels
      BY <1>0, <1>1 DEF PanelTypeOK
    <3>3. QED
      BY <1>0, <1>1, <3>1, <3>2 DEF PanelTypeOK
  <2>4. /\ Tells(pre, s) /\ (Resets(pre) <=> ~CanResume(r.lastId)) /\ pre # <<>>
    BY <2>2, PreludeIs, Numbers
  <2>5. Streams(p, s, pre, n)'
    BY <1>1, <2>2, <2>4 DEF Streams, InBuffer, Resets
  <2>6. phase[s] # "new" /\ phase[s] \notin {"closing", "over"}
    BY <2>1 DEF Open
  <2>7. ASSUME p \notin crossed, r.lastId # 0, phase[r.lastOf] \in Open
        PROVE  r.lastOf = s /\ r.lastId <= Len(log[s]) /\ UpTo(r.items, s, r.lastId)
    BY <1>0, <2>1, <2>7 DEF MemoryInv
  <2>8. ASSUME p \notin crossed', ~Resets(pre)
        PROVE  UpTo(r.items, s, n) /\ (n > 0 => r.lastId = n /\ r.lastOf = s)
    <3>1. CanResume(r.lastId) /\ r.lastOf = s /\ r.lastId = n /\ r.lastId # 0 /\ p \notin crossed
      BY <1>1, <1>5, <2>1, <2>2, <2>4, <2>8 DEF CanResume
    <3>2. QED
      BY <2>1, <2>7, <3>1
  <2>9. ASSUME p \notin crossed', Resets(pre)
        PROVE  Forgets(r)
    <3>1. SUFFICES ASSUME r.lastId # 0, phase[r.lastOf] \in Open PROVE FALSE
      BY DEF Forgets
    <3>2. r.lastId <= Len(log[s])
      BY <1>5, <2>7, <2>9, <3>1
    <3>3. CanResume(r.lastId)
      BY <1>9, <2>1, <3>1, <3>2 DEF CanResume
    <3>4. QED
      BY <2>4, <2>9, <3>3
  <2>10. n = Len(log[s]) /\ Ended(s) => log[s][n] = StateOf(s)
    BY <1>0, <2>6, OwnState
  <2>11. p \notin crossed' \union behind' => r.restored # s
    BY <1>0, <1>6, <2>1, <2>6, Numbers DEF MemoryInv
  <2>12. Follows(p, s, pre, n)'
    <3>1. panel'[p] = r /\ phase' = phase /\ log' = log
      BY <1>1
    <3>2. p \notin crossed' /\ ~Resets(pre) => UpTo(panel[p].items, s, n)'
      BY <2>8, <3>1 DEF UpTo
    <3>3. p \notin crossed' /\ Resets(pre) => Forgets(panel[p])'
      BY <2>9, <3>1 DEF Forgets
    <3>4. p \notin crossed' /\ ~Resets(pre) /\ n > 0 => panel'[p].lastId = n
          /\ panel'[p].lastOf = s
      BY <2>8, <3>1
    <3>5. Ended(s)' <=> Ended(s)
      BY <3>1 DEF Ended
    <3>6. QED
      BY <2>4, <2>6, <2>10, <2>11, <3>1, <3>2, <3>3, <3>4, <3>5 DEF Follows, Tells, Resets
  <2>13. FeedInv(p)'
    <3>1. feed'[p] = s /\ s # 0 /\ s # None
      BY <1>3, <2>1, Numbers
    <3>2. \E m \in 0..Len(log'[s]), x \in Preludes(s) : Streams(p, s, x, m)'
          /\ Follows(p, s, x, m)'
      BY <1>1, <2>5, <2>12
    <3>3. QED
      BY <3>1, <3>2 DEF FeedInv
  <2>14. QED
    BY <1>4, <1>7, <2>3, <2>13, AloneKeeps
<1>10. QED
  BY <1>8, <1>9

\* What a panel restores.
Texts(items) == {[of |-> items[i].of, id |-> items[i].event.id] : i \in Bubbles(items)}

\* What a frame does to a panel.
LEMMA TakenState ==
    ASSUME NEW r \in Panel, NEW f, f.event.type = "state", f.event.active \in Session,
           f.at \in Nat, f.of \in Session
    PROVE  /\ Taken(r, f) \in Panel
           /\ Taken(r, f).active = f.event.active /\ Taken(r, f).items = r.items
           /\ Taken(r, f).restored = r.restored /\ Taken(r, f).drafts = r.drafts
           /\ f.at = 0 => Taken(r, f).lastId = r.lastId /\ Taken(r, f).lastOf = r.lastOf
           /\ f.at # 0 => Taken(r, f).lastId = f.at /\ Taken(r, f).lastOf = f.of
<1>1. CASE f.at = 0
  <2>1. Taken(r, f) = [r EXCEPT !.active = f.event.active]
    BY <1>1 DEF Taken
  <2>2. QED
    BY <1>1, <2>1 DEF Panel
<1>2. CASE f.at # 0
  <2>1. Taken(r,
        f) = [[r EXCEPT !.lastId = f.at, !.lastOf = f.of] EXCEPT !.active = f.event.active]
    BY <1>2 DEF Taken
  <2>2. QED
    BY <1>2, <2>1 DEF Panel
<1>3. QED
  BY <1>1, <1>2

LEMMA TakenReset ==
    ASSUME NEW r \in Panel
    PROVE  /\ Taken(r, Begins) \in Panel
           /\ Taken(r, Begins).active = r.active /\ Taken(r, Begins).items = <<>>
           /\ Taken(r, Begins).restored = r.restored /\ Taken(r, Begins).drafts = r.drafts
           /\ Taken(r, Begins).lastId = r.lastId /\ Taken(r, Begins).lastOf = r.lastOf
<1>1. Begins.at = 0 /\ Begins.event.type = "reset"
  BY DEF Begins, Aside
<1>2. Taken(r, Begins) = [r EXCEPT !.items = <<>>]
  BY <1>1 DEF Taken
<1>3. <<>> \in Seq(Item)
  OBVIOUS
<1>4. QED
  BY <1>2, <1>3 DEF Panel

LEMMA TakenItem ==
    ASSUME NEW r \in Panel, NEW f \in Item
    PROVE  /\ Taken(r, f) \in Panel
           /\ Taken(r, f).active = r.active /\ Taken(r, f).items = Append(r.items, f)
           /\ Taken(r, f).restored = r.restored /\ Taken(r, f).drafts = r.drafts
           /\ Taken(r, f).lastId = f.at /\ Taken(r, f).lastOf = f.of
<1>1. f.at # 0 /\ f.event.type \notin {"state", "reset"} /\ f.at \in Nat /\ f.of \in Session
  BY Numbers DEF Item, MessageEvent, Permission
<1>2. Taken(r,
      f) = [[r EXCEPT !.lastId = f.at, !.lastOf = f.of] EXCEPT !.items = Append(r.items, f)]
  BY <1>1 DEF Taken, Panel
<1>3. Append(r.items, f) \in Seq(Item)
  BY DEF Panel
<1>4. QED
  BY <1>1, <1>2, <1>3 DEF Panel

\* What a render does to it.
LEMMA Renders ==
    ASSUME NEW t \in Panel
    PROVE  /\ Rendered(t) \in Panel
           /\ Rendered(t).items = t.items /\ Rendered(t).active = t.active
           /\ Rendered(t).lastId = t.lastId /\ Rendered(t).lastOf = t.lastOf
           /\ \/ /\ t.active # 0 /\ Rendered(t).restored = 0 /\ Rendered(t).drafts = t.drafts
              \/ /\ t.active = 0 /\ (t.restored # 0 \/ Bubbles(t.items) = {})
                 /\ Rendered(t).restored = t.restored /\ Rendered(t).drafts = t.drafts
              \/ /\ t.active = 0 /\ t.restored = 0 /\ Bubbles(t.items) # {} /\ t.items # <<>>
                 /\ Rendered(t).restored = t.items[1].of
                 /\ Rendered(t).drafts = t.drafts \union Texts(t.items)
<1>1. 0 \in Session /\ ToRestore(t.items) = Bubbles(t.items)
  BY Numbers DEF ToRestore
<1>2. CASE t.active # 0
  <2>1. Rendered(t) = [t EXCEPT !.restored = 0]
    BY <1>2 DEF Rendered
  <2>2. QED
    BY <1>1, <1>2, <2>1 DEF Panel
<1>3. CASE t.active = 0 /\ (t.restored # 0 \/ Bubbles(t.items) = {})
  <2>1. Rendered(t) = t
    BY <1>1, <1>3 DEF Rendered
  <2>2. QED
    BY <1>3, <2>1
<1>4. CASE t.active = 0 /\ ~(t.restored # 0 \/ Bubbles(t.items) = {})
  <2> DEFINE new == Texts(t.items)
  <2>1. Rendered(t) = [t EXCEPT !.restored = t.items[1].of, !.drafts = @ \union new]
    BY <1>1, <1>4 DEF Rendered, Texts
  <2>2. t.items \in Seq(Item) /\ t.drafts \subseteq Text
    BY DEF Panel
  <2>3. \A i \in Bubbles(t.items) : /\ i \in 1..Len(t.items) /\ t.items[i].of \in Sessions
                                    /\ t.items[i].event.id \in MessageIds
    <3> SUFFICES ASSUME NEW i \in Bubbles(t.items)
                 PROVE  /\ i \in 1..Len(t.items) /\ t.items[i].of \in Sessions
                        /\ t.items[i].event.id \in MessageIds
      OBVIOUS
    <3>1. i \in 1..Len(t.items) /\ t.items[i].event.type = "queued"
      BY DEF Bubbles
    <3>2. t.items[i] \in Item
      BY <2>2, <3>1
    <3>3. t.items[i].of \in Sessions /\ t.items[i].event \in MessageEvent \union Permission
      BY <3>2 DEF Item
    <3>4. t.items[i].event \in Event
      BY <3>3 DEF Event
    <3>5. QED
      BY <3>1, <3>3, <3>4, Kinds
  <2>4. new \subseteq Text
    BY <2>3 DEF Text, Texts
  <2>5. t.items # <<>> /\ 1 \in 1..Len(t.items)
    BY <1>4, <2>2, <2>3
  <2>6. t.items[1].of \in Session
    <3>1. t.items[1] \in Item
      BY <2>2, <2>5
    <3>2. QED
      BY <3>1, Numbers DEF Item
  <2> HIDE DEF new
  <2>7. Rendered(t) =
          [[t EXCEPT !.restored = t.items[1].of] EXCEPT !.drafts = t.drafts \union new]
    BY <2>1
  <2>8. /\ Rendered(t) \in Panel /\ Rendered(t).items = t.items /\ Rendered(t).active = t.active
        /\ Rendered(t).lastId = t.lastId /\ Rendered(t).lastOf = t.lastOf
        /\ Rendered(t).restored = t.items[1].of /\ Rendered(t).drafts = t.drafts \union new
    BY <2>2, <2>4, <2>6, <2>7 DEF Panel
  <2>9. QED
    BY <1>4, <2>5, <2>8 DEF new
<1>5. QED
  BY <1>2, <1>3, <1>4

\* A panel takes in its next frame, and has become t; it is rendered, unless
\* there is more to take in.
Becomes(p, t) ==
    /\ UNCHANGED <<phase, log, backlog, steered, pending, start, reply, feed, crossed, behind,
                   typed, asks, drops>>
    /\ inbound[p] # <<>> /\ inbound' = [inbound EXCEPT ![p] = Tail(inbound[p])]
    /\ panel' = [panel EXCEPT ![p] = panel'[p]]
    /\ panel'[p] = Rendered(t) \/ (panel'[p] = t /\ Len(inbound[p]) > 1)

LEMMA BecomesIs ==
    ASSUME PanelTypeOK, NEW p \in Panels, NEW t \in Panel, Becomes(p, t)
    PROVE  /\ PanelTypeOK' /\ Alone(p) /\ inbound'[p] = Tail(inbound[p]) /\ panel'[p] \in Panel
           /\ panel'[p].items = t.items /\ panel'[p].active = t.active
           /\ panel'[p].lastId = t.lastId /\ panel'[p].lastOf = t.lastOf
           /\ \/ /\ Len(inbound[p]) > 1
                 /\ panel'[p].restored = t.restored /\ panel'[p].drafts = t.drafts
              \/ /\ t.active # 0 /\ panel'[p].restored = 0 /\ panel'[p].drafts = t.drafts
              \/ /\ t.active = 0 /\ (t.restored # 0 \/ Bubbles(t.items) = {})
                 /\ panel'[p].restored = t.restored /\ panel'[p].drafts = t.drafts
              \/ /\ t.active = 0 /\ t.restored = 0 /\ Bubbles(t.items) # {} /\ t.items # <<>>
                 /\ panel'[p].restored = t.items[1].of
                 /\ panel'[p].drafts = t.drafts \union Texts(t.items)
<1>1. PICK x \in Panel : x = panel'[p] /\ (x = Rendered(t) \/ (x = t /\ Len(inbound[p]) > 1))
  BY Renders DEF Becomes
<1>2. /\ panel' = [panel EXCEPT ![p] = x] /\ inbound' = [inbound EXCEPT ![p] = Tail(inbound[p])]
      /\ UNCHANGED <<phase, log, backlog, steered, pending, start, reply, feed, crossed, behind,
                     typed, asks, drops>>
  BY <1>1 DEF Becomes
<1>3. Tail(inbound[p]) \in Seq(Frame)
  BY PanelTypes DEF Becomes
<1>4. panel' \in [Panels -> Panel] /\ inbound' \in [Panels -> Seq(Frame)]
  BY <1>2, <1>3 DEF PanelTypeOK
<1>5. PanelTypeOK'
  BY <1>2, <1>4 DEF PanelTypeOK
<1>6. Alone(p) /\ inbound'[p] = Tail(inbound[p])
  BY <1>2 DEF Alone, PanelTypeOK
<1>7. CASE x = Rendered(t)
  BY <1>1, <1>5, <1>6, <1>7, Renders
<1>8. CASE x = t /\ Len(inbound[p]) > 1
  BY <1>1, <1>5, <1>6, <1>8
<1>9. QED
  BY <1>1, <1>7, <1>8

\* A stream without a session: the panel has none.
LEMMA TakesNothing ==
    ASSUME PanInv, NEW p \in Panels, feed[p] = 0, inbound[p] = <<Aside(StateOf(0)), Begins>>,
           Becomes(p, Taken(panel[p], Aside(StateOf(0))))
    PROVE  PanInv'
<1> DEFINE r == panel[p]   f == Aside(StateOf(0))
<1>0. PanelTypeOK /\ FeedInv(p) /\ MemoryInv(p) /\ r \in Panel /\ 0 # None /\ 0 \notin Sessions
  BY PanelTypes, Numbers DEF PanInv
<1>1. f.event.type = "state" /\ f.event.active = 0 /\ f.at = 0 /\ f.of = 0 /\ 0 \in Session
  BY Numbers DEF Aside, StateOf
<1>2. PICK t \in Panel : /\ t = Taken(r, f) /\ t.active = 0 /\ t.items = r.items
                         /\ t.restored = r.restored /\ t.drafts = r.drafts
                         /\ t.lastId = r.lastId /\ t.lastOf = r.lastOf
  BY <1>0, <1>1, TakenState
<1>3. Becomes(p, t)
  BY <1>2
<1>4. /\ PanelTypeOK' /\ Alone(p) /\ inbound'[p] = <<Begins>>
      /\ panel'[p].items = r.items /\ panel'[p].lastId = r.lastId /\ panel'[p].lastOf = r.lastOf
  <2>1. Tail(inbound[p]) = <<Begins>>
    OBVIOUS
  <2>2. /\ PanelTypeOK' /\ Alone(p) /\ inbound'[p] = Tail(inbound[p])
        /\ panel'[p].items = t.items /\ panel'[p].lastId = t.lastId /\ panel'[p].lastOf = t.lastOf
    BY <1>0, <1>3, BecomesIs
  <2>3. QED
    BY <1>2, <2>1, <2>2
<1>5. UNCHANGED <<phase, log, backlog, feed, crossed, behind>>
  BY <1>3 DEF Becomes
<1>6. p \notin crossed \union behind => Gone(r.items)
  BY <1>0 DEF FeedInv
<1>7. FeedInv(p)'
  <2>1. p \notin crossed => Forgets(panel[p])'
    BY <1>0, <1>4, <1>5 DEF FeedInv, Forgets
  <2>2. Bubbles(panel[p].items)' = Bubbles(r.items)
    BY <1>4 DEF Bubbles, Resolved, Opening
  <2>3. p \notin crossed \union behind => Gone(panel[p].items)'
    BY <1>4, <1>5, <1>6, <2>2 DEF Gone, Backlogged
  <2>4. QED
    BY <1>0, <1>4, <1>5, <2>1, <2>3 DEF FeedInv
<1>8. ASSUME p \notin crossed \union behind
      PROVE  /\ panel'[p].restored # 0 => phase[panel'[p].restored] \in {"closing", "over"}
             /\ \A d \in panel'[p].drafts : phase[d.of] \in {"closing", "over"}
                /\ d.id \in Backlogged(d.of)
  <2>1. /\ r.restored # 0 => phase[r.restored] \in {"closing", "over"}
        /\ \A d \in r.drafts : phase[d.of] \in {"closing", "over"} /\ d.id \in Backlogged(d.of)
    BY <1>0, <1>8 DEF MemoryInv
  <2>2. CASE panel'[p].restored = r.restored /\ panel'[p].drafts = r.drafts
    BY <2>1, <2>2
  <2>3. CASE /\ r.items # <<>> /\ panel'[p].restored = r.items[1].of
             /\ panel'[p].drafts = r.drafts \union Texts(r.items)
    <3>1. 1 \in 1..Len(r.items)
      BY <1>0, <2>3, PanelTypes
    <3>2. phase[r.items[1].of] \in {"closing", "over"}
      BY <1>6, <1>8, <3>1 DEF Gone
    <3>3. \A i \in Bubbles(r.items) : /\ phase[r.items[i].of] \in {"closing", "over"}
                                      /\ r.items[i].event.id \in Backlogged(r.items[i].of)
      BY <1>6, <1>8 DEF Gone, Bubbles
    <3>4. ASSUME NEW d \in panel'[p].drafts
          PROVE  phase[d.of] \in {"closing", "over"} /\ d.id \in Backlogged(d.of)
      <4>1. CASE d \in r.drafts
        BY <2>1, <4>1
      <4>2. ASSUME NEW i \in Bubbles(r.items),
                   d = [of |-> r.items[i].of, id |-> r.items[i].event.id]
            PROVE  phase[d.of] \in {"closing", "over"} /\ d.id \in Backlogged(d.of)
        <5>1. d.of = r.items[i].of /\ d.id = r.items[i].event.id
          BY <4>2
        <5>2. QED
          BY <3>3, <5>1 DEF Backlogged
      <4>3. QED
        BY <2>3, <4>1, <4>2 DEF Texts
    <3>5. QED
      BY <2>3, <3>2, <3>4
  <2>4. \/ /\ panel'[p].restored = t.restored /\ panel'[p].drafts = t.drafts
        \/ /\ t.items # <<>> /\ panel'[p].restored = t.items[1].of
           /\ panel'[p].drafts = t.drafts \union Texts(t.items)
    BY <1>0, <1>2, <1>3, BecomesIs
  <2>5. QED
    BY <1>2, <2>2, <2>3, <2>4
<1>9. MemoryInv(p)'
  BY <1>0, <1>4, <1>5, <1>8 DEF MemoryInv, UpTo, Backlogged
<1>10. QED
  BY <1>4, <1>7, <1>9, AloneKeeps
LEMMA TakesReset ==
    ASSUME PanInv, NEW p \in Panels, feed[p] = 0, inbound[p] = <<Begins>>,
           Becomes(p, Taken(panel[p], Begins))
    PROVE  PanInv'
<1> DEFINE r == panel[p]
<1>0. PanelTypeOK /\ FeedInv(p) /\ MemoryInv(p) /\ r \in Panel /\ 0 # None /\ 0 \notin Sessions
  BY PanelTypes, Numbers DEF PanInv
<1>1. PICK t \in Panel : /\ t = Taken(r, Begins) /\ t.active = r.active /\ t.items = <<>>
                         /\ t.restored = r.restored /\ t.drafts = r.drafts
                         /\ t.lastId = r.lastId /\ t.lastOf = r.lastOf
  BY <1>0, TakenReset
<1>2. Becomes(p, t)
  BY <1>1
<1>3. Bubbles(t.items) = {}
  BY <1>1 DEF Bubbles
<1>4. /\ PanelTypeOK' /\ Alone(p) /\ inbound'[p] = Tail(inbound[p])
      /\ panel'[p].items = t.items /\ panel'[p].lastId = t.lastId /\ panel'[p].lastOf = t.lastOf
      /\ panel'[p].restored \in {t.restored, 0} /\ panel'[p].drafts = t.drafts
  BY <1>0, <1>2, <1>3, BecomesIs
<1>5. Tail(inbound[p]) = <<>>
  OBVIOUS
<1>6. UNCHANGED <<phase, log, backlog, feed, crossed, behind>>
  BY <1>2 DEF Becomes
<1>7. p \notin crossed => Forgets(r)
  BY <1>0 DEF FeedInv
<1>8. FeedInv(p)'
  <2>1. p \notin crossed => Forgets(panel[p])'
    BY <1>1, <1>4, <1>6, <1>7 DEF Forgets
  <2>2. QED
    BY <1>0, <1>4, <1>5, <1>6, <2>1 DEF FeedInv
<1>9. MemoryInv(p)'
  BY <1>0, <1>1, <1>4, <1>6, <1>7 DEF MemoryInv, Forgets, Backlogged
<1>10. QED
  BY <1>4, <1>8, <1>9, AloneKeeps

\* The next frame of a stream: of the connection itself,
LEMMA StreamBegins ==
    ASSUME PanelTypeOK, NEW p \in Panels, NEW s \in Sessions, NEW pre \in Preludes(s),
           NEW n \in 0..Len(log[s]), Streams(p, s, pre, n),
           NEW post \in Preludes(s), Len(pre) = Len(post) + 1,
           \A i \in 1..Len(post) : post[i] = pre[i + 1],
           inbound'[p] = Tail(inbound[p]), log' = log
    PROVE  Head(inbound[p]) = pre[1] /\ Streams(p, s, post, n)'
<1>1. PICK k \in Nat, b \in Nat : k = Len(log[s]) /\ b = Len(post)
  BY Types, PreludeIs, Numbers
<1>2. /\ n \in 0..k /\ inbound[p] \in Seq(Frame) /\ Len(inbound[p]) = (b + 1) + k - n
      /\ \A i \in 1..(b + 1) : inbound[p][i] = pre[i]
      /\ \A i \in 1..(k - n) : inbound[p][(b + 1) + i] = InBuffer(s, n + i)
  BY <1>1, PanelTypes DEF Streams
<1>3. Len(inbound[p]) > 0
  BY <1>2
<1>4. /\ Len(inbound'[p]) = Len(inbound[p]) - 1 /\ Head(inbound[p]) = inbound[p][1]
      /\ \A i \in 1..(Len(inbound[p]) - 1) : inbound'[p][i] = inbound[p][i + 1]
  BY <1>2, <1>3
<1>5. Len(inbound'[p]) = b + k - n
  BY <1>2, <1>4
<1>6. \A i \in 1..b : inbound'[p][i] = post[i]
  <2>1. \A i \in 1..b : i \in 1..(Len(inbound[p]) - 1) /\ i + 1 \in 1..(b + 1)
    BY <1>2
  <2>2. QED
    BY <1>1, <1>2, <1>4, <2>1
<1>7. \A i \in 1..(k - n) : inbound'[p][b + i] = InBuffer(s, n + i)
  <2>1. \A i \in 1..(k - n) : b + i \in 1..(Len(inbound[p]) - 1) /\ (b + i) + 1 = (b + 1) + i
    BY <1>2
  <2>2. QED
    BY <1>2, <1>4, <2>1
<1>8. Resets(post) => n = 0
  <2>1. ASSUME Resets(post) PROVE Resets(pre)
    <3>1. PICK i \in 1..Len(post) : post[i] = Begins
      BY <2>1 DEF Resets
    <3>2. i + 1 \in 1..Len(pre) /\ pre[i + 1] = Begins
      BY <1>1, <3>1
    <3>3. QED
      BY <3>2 DEF Resets
  <2>2. QED
    BY <2>1 DEF Streams
<1>9. QED
  <2>0. 1 \in 1..(b + 1)
    OBVIOUS
  <2>1. Head(inbound[p]) = pre[1]
    BY <1>2, <1>4, <2>0
  <2>2. \A i : InBuffer(s, i)' = InBuffer(s, i)
    BY DEF InBuffer
  <2>3. QED
    BY <1>1, <1>2, <1>5, <1>6, <1>7, <1>8, <2>1, <2>2 DEF Streams, Resets

\* or of the buffer.
LEMMA StreamGoesOn ==
    ASSUME PanelTypeOK, NEW p \in Panels, NEW s \in Sessions, NEW n \in 0..Len(log[s]),
           Streams(p, s, <<>>, n), inbound[p] # <<>>, inbound'[p] = Tail(inbound[p]), log' = log
    PROVE  /\ n + 1 \in 1..Len(log[s]) /\ n < Len(log[s])
           /\ Head(inbound[p]) = InBuffer(s, n + 1) /\ Streams(p, s, <<>>, n + 1)'
           /\ Len(inbound[p]) = Len(log[s]) - n
<1>1. PICK k \in Nat : k = Len(log[s])
  BY Types
<1>2. /\ n \in 0..k /\ inbound[p] \in Seq(Frame) /\ Len(inbound[p]) = k - n
      /\ \A i \in 1..(k - n) : inbound[p][i] = InBuffer(s, n + i)
  BY <1>1, PanelTypes DEF Streams
<1>3. Len(inbound[p]) > 0 /\ n < k
  BY <1>2
<1>4. /\ Len(inbound'[p]) = Len(inbound[p]) - 1 /\ Head(inbound[p]) = inbound[p][1]
      /\ \A i \in 1..(Len(inbound[p]) - 1) : inbound'[p][i] = inbound[p][i + 1]
  BY <1>2, <1>3
<1>5. Len(inbound'[p]) = 0 + k - (n + 1)
  BY <1>2, <1>4
<1>6. \A i \in 1..(k - (n + 1)) : inbound'[p][0 + i] = InBuffer(s, (n + 1) + i)
  <2>1. \A i \in 1..(k - (n + 1)) : /\ i \in 1..(Len(inbound[p]) - 1) /\ i + 1 \in 1..(k - n)
                                    /\ n + (i + 1) = (n + 1) + i /\ 0 + i = i
    BY <1>2
  <2>2. QED
    BY <1>2, <1>4, <2>1
<1>7. QED
  <2>0. 1 \in 1..(k - n)
    BY <1>2, <1>3
  <2>1. Head(inbound[p]) = InBuffer(s, n + 1)
    BY <1>2, <1>4, <2>0
  <2>2. \A i : InBuffer(s, i)' = InBuffer(s, i)
    BY DEF InBuffer
  <2>3. Len(<<>>) = 0 /\ ~Resets(<<>>) /\ <<>> \in Preludes(s) /\ n + 1 \in 0..k
    BY <1>2, <1>3 DEF Resets, Preludes
  <2>4. Streams(p, s, <<>>, n + 1)'
    BY <1>1, <1>5, <1>6, <2>2, <2>3 DEF Streams, Resets
  <2>5. QED
    BY <1>1, <1>2, <1>3, <2>1, <2>4

\* A panel that has taken in a frame of its session's stream.
LEMMA StreamTaken ==
    ASSUME PanInv, PanelTypeOK', NEW p \in Panels, NEW s \in Sessions, feed[p] = s, Alone(p),
           UNCHANGED <<feed, crossed, behind>>,
           NEW post \in Preludes(s), NEW n \in 0..Len(log[s]),
           Streams(p, s, post, n)', Follows(p, s, post, n)', MemoryInv(p)'
    PROVE  PanInv'
<1>1. feed'[p] = s /\ s # 0 /\ s # None /\ log' = log
  BY Numbers DEF Alone
<1>2. \E m \in 0..Len(log'[s]), x \in Preludes(s) : Streams(p, s, x, m)' /\ Follows(p, s, x, m)'
  BY <1>1
<1>3. FeedInv(p)'
  BY <1>1, <1>2 DEF FeedInv
<1>4. QED
  BY <1>3, AloneKeeps

\* The state that a stream begins with is that of its session.
LEMMA TakesOwnState ==
    ASSUME PanInv, NEW p \in Panels, NEW s \in Sessions, feed[p] = s,
           NEW pre \in Preludes(s), NEW n \in 0..Len(log[s]),
           Streams(p, s, pre, n), Follows(p, s, pre, n), Tells(pre, s),
           Becomes(p, Taken(panel[p], Head(inbound[p])))
    PROVE  PanInv'
<1> DEFINE r == panel[p]   f == Aside(StateOf(s))
<1>0. /\ PanelTypeOK /\ SessionsInv /\ FeedInv(p) /\ MemoryInv(p) /\ r \in Panel /\ s # 0
      /\ phase[s] # "new" /\ 0 \in Session
  BY PanelTypes, Numbers DEF PanInv, Follows
<1>1. PICK post \in Preludes(s) : /\ pre[1] = f /\ Len(pre) = Len(post) + 1
                                  /\ \A i \in 1..Len(post) : post[i] = pre[i + 1]
                                  /\ ~Tells(post, s) /\ (Resets(post) <=> Resets(pre))
                                  /\ Resets(pre) \/ post = <<>>
  <2>1. <<>> \in Preludes(s) /\ <<Begins>> \in Preludes(s) /\ s \in Session
    BY Numbers DEF Preludes
  <2>2. /\ ~Tells(<<>>, s) /\ ~Resets(<<>>)
        /\ ~Tells(<<Begins>>, s) /\ Resets(<<Begins>>)
    <3>1. <<>> # <<Begins>>
      OBVIOUS
    <3>2. QED
      BY <2>1, <3>1, PreludeIs
  <2>3. CASE pre = <<f, Begins>>
    <3>1. /\ pre[1] = f /\ Len(pre) = Len(<<Begins>>) + 1
          /\ \A i \in 1..Len(<<Begins>>) : <<Begins>>[i] = pre[i + 1]
      BY <2>3
    <3>2. Resets(pre)
      BY <2>1, <2>3, PreludeIs
    <3>3. QED
      BY <2>1, <2>2, <3>1, <3>2
  <2>4. CASE pre = <<f>>
    <3>1. pre[1] = f /\ Len(pre) = Len(<<>>) + 1 /\ \A i \in 1..Len(<<>>) : <<>>[i] = pre[i + 1]
      BY <2>4
    <3>2. ~Resets(pre)
      BY <2>1, <2>4, PreludeIs
    <3>3. QED
      BY <2>1, <2>2, <3>1, <3>2
  <2>5. QED
    BY <2>1, <2>3, <2>4, PreludeIs
<1>2. f.event.type = "state" /\ f.event.active = s /\ f.at = 0 /\ f.of = 0
  BY DEF Aside, StateOf
<1>3. inbound'[p] = Tail(inbound[p]) /\ UNCHANGED <<phase, log, backlog, feed, crossed, behind>>
  BY <1>0 DEF Becomes, PanelTypeOK
<1>4. Head(inbound[p]) = f /\ Streams(p, s, post, n)'
  BY <1>0, <1>1, <1>3, StreamBegins
<1>5. PICK t \in Panel : /\ t = Taken(r, f) /\ t.active = s /\ t.items = r.items
                         /\ t.restored = r.restored /\ t.drafts = r.drafts
                         /\ t.lastId = r.lastId /\ t.lastOf = r.lastOf
  <2>1. s \in Session /\ f.at \in Nat
    BY <1>2, Numbers
  <2>2. QED
    BY <1>0, <1>2, <2>1, TakenState
<1>6. Becomes(p, t)
  BY <1>4, <1>5
<1>7. /\ PanelTypeOK' /\ Alone(p) /\ panel'[p].active = s
      /\ panel'[p].items = r.items /\ panel'[p].lastId = r.lastId /\ panel'[p].lastOf = r.lastOf
      /\ panel'[p].restored \in {r.restored, 0} /\ panel'[p].drafts = r.drafts
  BY <1>0, <1>5, <1>6, BecomesIs
<1>8. n = Len(log[s]) /\ Ended(s) => log[s][n] = StateOf(s)
  BY DEF Follows
<1>9. Follows(p, s, post, n)'
  <2>1. ~Tells(post, s)'
    BY <1>1 DEF Tells
  <2>2. (Resets(post)' <=> Resets(pre)) /\ (Ended(s)' <=> Ended(s))
    BY <1>1, <1>3 DEF Resets, Ended
  <2>3. n = Len(log[s]) /\ Ended(s) => log[s][n].active = s
    BY <1>8 DEF StateOf
  <2>4. p \notin crossed /\ Resets(pre) => Forgets(panel[p])'
    BY <1>3, <1>7 DEF Follows, Forgets
  <2>5. p \notin crossed /\ ~Resets(pre) => UpTo(panel[p].items, s, n)'
    BY <1>3, <1>7 DEF Follows, UpTo
  <2>6. p \notin crossed /\ ~Resets(pre) /\ n > 0 => panel'[p].lastId = n /\ panel'[p].lastOf = s
    BY <1>7 DEF Follows
  <2>7. p \notin crossed \union behind => panel'[p].restored # s
    <3>1. pre # <<>>
      BY PreludeIs, Numbers
    <3>2. QED
      BY <1>0, <1>7, <3>1 DEF Follows
  <2>8. ~(n = Len(log[s]) /\ log[s][n] = StateOf(0))
    <3>1. SUFFICES ASSUME n = Len(log[s]), log[s][n] = StateOf(0) PROVE FALSE
      OBVIOUS
    <3>2. Len(log[s]) > 0
      BY <1>0 DEF SessionsInv, StatesOf
    <3>3. Ended(s)
      BY <3>1, <3>2 DEF Ended, StateOf
    <3>4. StateOf(0).active = 0 /\ StateOf(s).active = s
      BY DEF StateOf
    <3>5. QED
      BY <1>0, <1>8, <3>1, <3>3, <3>4
  <2>9. QED
    BY <1>0, <1>3, <1>7, <2>1, <2>2, <2>3, <2>4, <2>5, <2>6, <2>7, <2>8 DEF Follows
<1>10. MemoryInv(p)'
  BY <1>0, <1>3, <1>7 DEF MemoryInv, UpTo, Backlogged
<1>11. QED
  BY <1>3, <1>4, <1>7, <1>9, <1>10, StreamTaken

\* After a reset, the buffer comes from its beginning.
LEMMA TakesBeginning ==
    ASSUME PanInv, NEW p \in Panels, NEW s \in Sessions, feed[p] = s,
           NEW n \in 0..Len(log[s]), Streams(p, s, <<Begins>>, n), Follows(p, s, <<Begins>>, n),
           Becomes(p, Taken(panel[p], Head(inbound[p])))
    PROVE  PanInv'
<1> DEFINE r == panel[p]
<1>0. /\ PanelTypeOK /\ SessionsInv /\ FeedInv(p) /\ MemoryInv(p) /\ r \in Panel /\ s # 0
      /\ phase[s] # "new" /\ s \in Session
  BY PanelTypes, Numbers DEF PanInv, Follows
<1>1. <<>> \in Preludes(s) /\ <<Begins>> \in Preludes(s)
  BY DEF Preludes
<1>2. /\ ~Tells(<<>>, s) /\ ~Resets(<<>>) /\ Resets(<<Begins>>) /\ ~Tells(<<Begins>>, s)
      /\ <<Begins>> # <<>>
  <2>1. <<>> # <<Begins>>
    OBVIOUS
  <2>2. QED
    BY <1>0, <1>1, <2>1, PreludeIs
<1>3. inbound'[p] = Tail(inbound[p]) /\ UNCHANGED <<phase, log, backlog, feed, crossed, behind>>
  BY <1>0 DEF Becomes, PanelTypeOK
<1>4. Head(inbound[p]) = Begins /\ Streams(p, s, <<>>, n)'
  <2>1. /\ Len(<<Begins>>) = Len(<<>>) + 1 /\ <<Begins>>[1] = Begins
        /\ \A i \in 1..Len(<<>>) : <<>>[i] = <<Begins>>[i + 1]
    OBVIOUS
  <2>2. QED
    BY <1>0, <1>1, <1>3, <2>1, StreamBegins
<1>5. n = 0 /\ Len(log[s]) > 0 /\ n # Len(log[s])
  <2>1. n = 0
    BY <1>2 DEF Streams
  <2>2. Len(log[s]) > 0
    BY <1>0 DEF SessionsInv, StatesOf
  <2>3. QED
    BY <2>1, <2>2
<1>6. r.active = s /\ (p \notin crossed => Forgets(r))
      /\ (p \notin crossed \union behind => r.restored # s)
  BY <1>2, <1>5 DEF Follows
<1>7. PICK t \in Panel : /\ t = Taken(r, Begins) /\ t.active = r.active /\ t.items = <<>>
                         /\ t.restored = r.restored /\ t.drafts = r.drafts
                         /\ t.lastId = r.lastId /\ t.lastOf = r.lastOf
  BY <1>0, TakenReset
<1>8. Becomes(p, t)
  BY <1>4, <1>7
<1>9. /\ PanelTypeOK' /\ Alone(p) /\ panel'[p].active = s
      /\ panel'[p].items = <<>> /\ panel'[p].lastId = r.lastId /\ panel'[p].lastOf = r.lastOf
      /\ panel'[p].restored \in {r.restored, 0} /\ panel'[p].drafts = r.drafts
  BY <1>0, <1>6, <1>7, <1>8, BecomesIs
<1>10. Follows(p, s, <<>>, n)'
  <2>1. ~Tells(<<>>, s)' /\ ~Resets(<<>>)'
    BY <1>2 DEF Tells, Resets
  <2>2. UpTo(panel[p].items, s, n)'
    BY <1>5, <1>9 DEF UpTo
  <2>3. p \notin crossed \union behind => panel'[p].restored # s
    BY <1>0, <1>6, <1>9
  <2>4. QED
    BY <1>0, <1>3, <1>5, <1>9, <2>1, <2>2, <2>3 DEF Follows
<1>11. MemoryInv(p)'
  BY <1>0, <1>3, <1>6, <1>9 DEF MemoryInv, Forgets, Backlogged
<1>12. QED
  BY <1>1, <1>3, <1>4, <1>9, <1>10, <1>11, StreamTaken

\* Another frame of the buffer in what a panel shows.
LEMMA UpToNext ==
    ASSUME NEW s \in Sessions, NEW n \in Nat, NEW items \in Seq(Item), UpTo(items, s, n),
           NEW f \in Item, f.of = s, f.at = n + 1, f.event = log[s][n + 1]
    PROVE  UpTo(Append(items, f), s, n + 1)
<1>1. PICK k \in Nat : k = Len(items)
  OBVIOUS
<1>2. PICK next \in Seq(Item) : /\ next = Append(items, f) /\ Len(next) = k + 1
                                /\ next[k + 1] = f /\ \A i \in 1..k : next[i] = items[i]
  <2>1. /\ Append(items, f) \in Seq(Item) /\ Len(Append(items, f)) = k + 1
        /\ Append(items, f)[k + 1] = f
        /\ \A i \in 1..k : Append(items, f)[i] = items[i]
    BY <1>1
  <2>2. QED
    BY <2>1
<1>3. \A i \in 1..k : /\ items[i].of = s /\ items[i].at \in 1..n
                      /\ items[i].event = log[s][items[i].at]
  BY <1>1 DEF UpTo
<1>4. \A i \in 1..(k + 1) : i \in 1..k \/ i = k + 1
  OBVIOUS
<1>5. \A i \in 1..(k + 1) : /\ next[i].of = s /\ next[i].at \in 1..(n + 1)
                            /\ next[i].event = log[s][next[i].at]
  <2> SUFFICES ASSUME NEW i \in 1..(k + 1)
               PROVE  /\ next[i].of = s /\ next[i].at \in 1..(n + 1)
                      /\ next[i].event = log[s][next[i].at]
    OBVIOUS
  <2>1. CASE i \in 1..k
    BY <1>2, <1>3, <2>1
  <2>2. CASE i = k + 1
    BY <1>2, <2>2
  <2>3. QED
    BY <1>4, <2>1, <2>2
<1>6. \A i, j \in 1..(k + 1) : i < j => next[i].at < next[j].at
  <2> SUFFICES ASSUME NEW i \in 1..(k + 1), NEW j \in 1..(k + 1), i < j
               PROVE  next[i].at < next[j].at
    OBVIOUS
  <2>1. i \in 1..k /\ next[i] = items[i] /\ next[i].at \in 1..n
    BY <1>2, <1>3
  <2>2. CASE j \in 1..k
    BY <1>1, <1>2, <2>1, <2>2 DEF UpTo
  <2>3. CASE j = k + 1
    BY <1>2, <2>1, <2>3
  <2>4. QED
    BY <1>4, <2>2, <2>3
<1>7. ASSUME NEW m \in 1..(n + 1), log[s][m].type # "state"
      PROVE  \E i \in 1..(k + 1) : next[i].at = m
  <2>1. CASE m = n + 1
    BY <1>2, <2>1
  <2>2. CASE m \in 1..n
    <3>1. PICK i \in 1..k : items[i].at = m
      BY <1>1, <1>7, <2>2 DEF UpTo
    <3>2. i \in 1..(k + 1) /\ next[i].at = m
      BY <1>2, <3>1
    <3>3. QED
      BY <3>2
  <2>3. m = n + 1 \/ m \in 1..n
    OBVIOUS
  <2>4. QED
    BY <2>1, <2>2, <2>3
<1>8. QED
  BY <1>2, <1>5, <1>6, <1>7 DEF UpTo

\* A frame of the buffer that is shown.
LEMMA TakesEvent ==
    ASSUME PanInv, NEW p \in Panels, NEW s \in Sessions, feed[p] = s,
           NEW n \in 0..Len(log[s]), Streams(p, s, <<>>, n), Follows(p, s, <<>>, n),
           n < Len(log[s]), log[s][n + 1].type # "state",
           Becomes(p, Taken(panel[p], Head(inbound[p])))
    PROVE  PanInv'
<1> DEFINE r == panel[p]   f == InBuffer(s, n + 1)
<1>0. /\ PanelTypeOK /\ SessionsInv /\ FeedInv(p) /\ MemoryInv(p) /\ r \in Panel /\ s # 0
      /\ phase[s] # "new" /\ s \in Session /\ r.items \in Seq(Item)
  BY PanelTypes, Numbers DEF PanInv, Follows
<1>1. <<>> \in Preludes(s) /\ ~Tells(<<>>, s) /\ ~Resets(<<>>) /\ n \in Nat
  BY DEF Preludes, Tells, Resets
<1>2. inbound[p] # <<>> /\ inbound'[p] = Tail(inbound[p])
      /\ UNCHANGED <<phase, log, backlog, feed, crossed, behind>>
  BY <1>0 DEF Becomes, PanelTypeOK
<1>3. /\ n + 1 \in 1..Len(log[s]) /\ Head(inbound[p]) = f /\ Streams(p, s, <<>>, n + 1)'
      /\ n + 1 \in 0..Len(log[s])
  BY <1>0, <1>2, StreamGoesOn
<1>4. log[s][n + 1] \in MessageEvent \union Permission
  <2>1. log[s][n + 1] \in Event
    BY <1>0, <1>3, Types
  <2>2. QED
    BY <2>1, Kinds
<1>5. f \in Item /\ f.of = s /\ f.at = n + 1 /\ f.event = log[s][n + 1]
  BY <1>3, <1>4 DEF InBuffer, Item
<1>6. PICK t \in Panel : /\ t = Taken(r, f) /\ t.active = r.active /\ t.items = Append(r.items, f)
                         /\ t.restored = r.restored /\ t.drafts = r.drafts
                         /\ t.lastId = n + 1 /\ t.lastOf = s
  <2>1. /\ Taken(r, f) \in Panel /\ Taken(r, f).active = r.active
        /\ Taken(r, f).items = Append(r.items, f)
        /\ Taken(r, f).restored = r.restored /\ Taken(r, f).drafts = r.drafts
        /\ Taken(r, f).lastId = f.at /\ Taken(r, f).lastOf = f.of
    BY <1>0, <1>5, TakenItem
  <2>2. QED
    BY <1>5, <2>1
<1>7. Becomes(p, t)
  BY <1>3, <1>6
<1>8. r.active = s
  BY <1>0, <1>1 DEF Follows
<1>9. /\ PanelTypeOK' /\ Alone(p) /\ panel'[p].active = s
      /\ panel'[p].items = Append(r.items, f) /\ panel'[p].lastId = n + 1 /\ panel'[p].lastOf = s
      /\ panel'[p].restored \in {r.restored, 0} /\ panel'[p].drafts = r.drafts
  BY <1>0, <1>6, <1>7, <1>8, BecomesIs
<1>10. p \notin crossed => UpTo(Append(r.items, f), s, n + 1)
  <2>1. p \notin crossed => UpTo(r.items, s, n)
    BY <1>1 DEF Follows
  <2>2. QED
    BY <1>0, <1>1, <1>5, <2>1, UpToNext
<1>11. p \notin crossed => UpTo(panel[p].items, s, n + 1)'
  BY <1>2, <1>9, <1>10 DEF UpTo
<1>12. p \notin crossed \union behind => r.restored # s
  BY DEF Follows
<1>13. Follows(p, s, <<>>, n + 1)'
  <2>1. ~Tells(<<>>, s)' /\ ~Resets(<<>>)'
    BY <1>1 DEF Tells, Resets
  <2>2. ~(n + 1 = Len(log[s]) /\ Ended(s)) /\ log[s][n + 1] # StateOf(0)
    BY DEF Ended, StateOf
  <2>3. Ended(s)' <=> Ended(s)
    BY <1>2 DEF Ended
  <2>4. p \notin crossed \union behind => panel'[p].restored # s
    BY <1>0, <1>9, <1>12
  <2>5. QED
    BY <1>0, <1>2, <1>9, <1>11, <2>1, <2>2, <2>3, <2>4 DEF Follows
<1>14. MemoryInv(p)'
  <2>1. n + 1 <= Len(log[s])
    BY <1>3
  <2>2. p \notin crossed \union behind =>
           /\ panel'[p].restored # 0 => phase[panel'[p].restored] \in {"closing", "over"}
           /\ \A d \in panel'[p].drafts : phase[d.of] \in {"closing", "over"}
              /\ d.id \in Backlogged(d.of)
    BY <1>0, <1>9 DEF MemoryInv
  <2>3. QED
    BY <1>0, <1>2, <1>9, <1>11, <2>1, <2>2 DEF MemoryInv, Backlogged
<1>15. QED
  BY <1>1, <1>2, <1>3, <1>9, <1>13, <1>14, StreamTaken

\* A state in the buffer: the session's own, or the last word of one that is
\* over, whose pending texts are restored.
LEMMA TakesState ==
    ASSUME PanInv, NEW p \in Panels, NEW s \in Sessions, feed[p] = s,
           NEW n \in 0..Len(log[s]), Streams(p, s, <<>>, n), Follows(p, s, <<>>, n),
           n < Len(log[s]), log[s][n + 1].type = "state",
           Becomes(p, Taken(panel[p], Head(inbound[p])))
    PROVE  PanInv'
<1> DEFINE r == panel[p]   f == InBuffer(s, n + 1)
<1>0. /\ PanelTypeOK /\ SessionsInv /\ FeedInv(p) /\ MemoryInv(p) /\ r \in Panel /\ s # 0
      /\ phase[s] # "new" /\ s \in Session /\ r.items \in Seq(Item) /\ Len(log[s]) \in Nat
  BY PanelTypes, Types, Numbers DEF PanInv, Follows
<1>1. <<>> \in Preludes(s) /\ ~Tells(<<>>, s) /\ ~Resets(<<>>) /\ n \in Nat
  BY DEF Preludes, Tells, Resets
<1>2. inbound[p] # <<>> /\ inbound'[p] = Tail(inbound[p])
      /\ UNCHANGED <<phase, log, backlog, feed, crossed, behind>>
  BY <1>0 DEF Becomes, PanelTypeOK
<1>3. /\ n + 1 \in 1..Len(log[s]) /\ Head(inbound[p]) = f /\ Streams(p, s, <<>>, n + 1)'
      /\ n + 1 \in 0..Len(log[s]) /\ Len(inbound[p]) = Len(log[s]) - n
  BY <1>0, <1>2, StreamGoesOn
<1>4. PICK x \in Session : log[s][n + 1] = StateOf(x) /\ log[s][n + 1].active = x
  <2>1. log[s][n + 1] \in Event
    BY <1>0, <1>3, Types
  <2>2. QED
    BY <2>1, Kinds
<1>5. \A y, z : StateOf(y) = StateOf(z) => y = z
  <2>1. \A y : StateOf(y).active = y
    BY DEF StateOf
  <2>2. QED
    BY <2>1
<1>6. x # s => n + 1 = Len(log[s]) /\ phase[s] = "over"
  BY <1>0, <1>3, <1>4, <1>5 DEF SessionsInv, StatesOf
<1>7. /\ f.event.type = "state" /\ f.event.active = x /\ f.at = n + 1 /\ f.of = s
      /\ f.at \in Nat /\ f.at # 0
  BY <1>1, <1>4 DEF InBuffer
<1>8. PICK t \in Panel : /\ t = Taken(r, f) /\ t.active = x /\ t.items = r.items
                         /\ t.restored = r.restored /\ t.drafts = r.drafts
                         /\ t.lastId = n + 1 /\ t.lastOf = s
  BY <1>0, <1>7, TakenState
<1>9. Becomes(p, t)
  BY <1>3, <1>8
<1>10. /\ PanelTypeOK' /\ Alone(p) /\ panel'[p].active = x
       /\ panel'[p].items = r.items /\ panel'[p].lastId = n + 1 /\ panel'[p].lastOf = s
  BY <1>0, <1>8, <1>9, BecomesIs
<1>11. \/ Len(inbound[p]) > 1 /\ panel'[p].restored = r.restored /\ panel'[p].drafts = r.drafts
       \/ x # 0 /\ panel'[p].restored = 0 /\ panel'[p].drafts = r.drafts
       \/ /\ x = 0 /\ (r.restored # 0 \/ Bubbles(r.items) = {})
          /\ panel'[p].restored = r.restored /\ panel'[p].drafts = r.drafts
       \/ /\ x = 0 /\ r.items # <<>> /\ panel'[p].restored = r.items[1].of
          /\ panel'[p].drafts = r.drafts \union Texts(r.items)
  <2>1. \/ /\ Len(inbound[p]) > 1
           /\ panel'[p].restored = t.restored /\ panel'[p].drafts = t.drafts
        \/ /\ t.active # 0 /\ panel'[p].restored = 0 /\ panel'[p].drafts = t.drafts
        \/ /\ t.active = 0 /\ (t.restored # 0 \/ Bubbles(t.items) = {})
           /\ panel'[p].restored = t.restored /\ panel'[p].drafts = t.drafts
        \/ /\ t.active = 0 /\ t.restored = 0 /\ Bubbles(t.items) # {} /\ t.items # <<>>
           /\ panel'[p].restored = t.items[1].of
           /\ panel'[p].drafts = t.drafts \union Texts(t.items)
    BY <1>0, <1>9, BecomesIs
  <2>2. QED
    BY <1>8, <2>1
<1>12. p \notin crossed => UpTo(r.items, s, n + 1)
  <2>1. SUFFICES ASSUME UpTo(r.items, s, n) PROVE UpTo(r.items, s, n + 1)
    BY <1>1 DEF Follows
  <2>2. \A m \in 1..n : m \in 1..(n + 1)
    BY <1>1
  <2>3. \A m \in 1..(n + 1) : m \in 1..n \/ m = n + 1
    BY <1>1
  <2>4. QED
    BY <2>1, <2>2, <2>3 DEF UpTo
<1>13. p \notin crossed => UpTo(panel[p].items, s, n + 1)'
  BY <1>2, <1>10, <1>12 DEF UpTo
<1>14. p \notin crossed \union behind => r.restored # s
  BY DEF Follows
<1>15. x = 0 => n + 1 = Len(log[s]) /\ phase[s] = "over"
  BY <1>0, <1>6
<1>16. ASSUME p \notin crossed, x = 0
       PROVE  /\ Ids(r.items, Bubbles(r.items)) = SaidQueued(s) \intersect Backlogged(s)
              /\ \A i \in Bubbles(r.items) : r.items[i].of = s
                 /\ r.items[i].event.id \in Backlogged(s)
  <2>1. UpTo(r.items, s, Len(log[s]))
    BY <1>12, <1>15, <1>16
  <2>2. QED
    BY <1>0, <2>1, BubblesAre
<1>17. p \notin crossed /\ r.items # <<>> => r.items[1].of = s
  <2>1. r.items # <<>> => 1 \in 1..Len(r.items)
    BY <1>0
  <2>2. QED
    BY <1>12, <2>1 DEF UpTo
<1>18. ASSUME p \notin crossed \union behind
       PROVE  /\ panel'[p].restored = s =>
                    n + 1 = Len(log[s]) /\ x = 0
              /\ n + 1 = Len(log[s]) /\ x = 0 /\ panel'[p].restored \in {0, s} =>
                    \A id \in SaidQueued(s) \intersect Backlogged(s) :
                       [of |-> s, id |-> id] \in panel'[p].drafts
              /\ panel'[p].restored # 0 => phase[panel'[p].restored] \in {"closing", "over"}
              /\ \A d \in panel'[p].drafts : /\ phase[d.of] \in {"closing", "over"}
                                             /\ d.id \in Backlogged(d.of)
  <2>0. /\ p \notin crossed /\ r.restored # s
        /\ r.restored # 0 => phase[r.restored] \in {"closing", "over"}
        /\ \A d \in r.drafts : phase[d.of] \in {"closing", "over"} /\ d.id \in Backlogged(d.of)
    BY <1>0, <1>14, <1>18 DEF MemoryInv
  <2>1. CASE Len(inbound[p]) > 1 /\ panel'[p].restored = r.restored /\ panel'[p].drafts = r.drafts
    <3>1. n + 1 # Len(log[s])
      BY <1>0, <1>1, <1>3, <2>1
    <3>2. QED
      BY <2>0, <2>1, <3>1
  <2>2. CASE x # 0 /\ panel'[p].restored = 0 /\ panel'[p].drafts = r.drafts
    BY <1>0, <2>0, <2>2
  <2>3. CASE /\ x = 0 /\ (r.restored # 0 \/ Bubbles(r.items) = {})
             /\ panel'[p].restored = r.restored /\ panel'[p].drafts = r.drafts
    <3>1. Bubbles(r.items) = {} => Ids(r.items, Bubbles(r.items)) = {}
      BY DEF Ids
    <3>2. panel'[p].restored \in {0, s} => SaidQueued(s) \intersect Backlogged(s) = {}
      BY <1>16, <2>0, <2>3, <3>1
    <3>3. QED
      BY <2>0, <2>3, <3>2
  <2>4. CASE /\ x = 0 /\ r.items # <<>> /\ panel'[p].restored = r.items[1].of
             /\ panel'[p].drafts = r.drafts \union Texts(r.items)
    <3>1. panel'[p].restored = s /\ n + 1 = Len(log[s]) /\ phase[s] = "over"
      BY <1>15, <1>17, <2>0, <2>4
    <3>2. ASSUME NEW id \in SaidQueued(s) \intersect Backlogged(s)
          PROVE  [of |-> s, id |-> id] \in panel'[p].drafts
      <4>1. PICK i \in Bubbles(r.items) : r.items[i].event.id = id /\ r.items[i].of = s
        BY <1>16, <2>0, <2>4 DEF Ids
      <4>2. [of |-> s, id |-> id] \in Texts(r.items)
        BY <4>1 DEF Texts
      <4>3. QED
        BY <2>4, <4>2
    <3>3. ASSUME NEW d \in panel'[p].drafts
          PROVE  phase[d.of] \in {"closing", "over"} /\ d.id \in Backlogged(d.of)
      <4>1. CASE d \in r.drafts
        BY <2>0, <4>1
      <4>2. CASE d \in Texts(r.items)
        <5>1. PICK i \in Bubbles(r.items) :
                 d = [of |-> r.items[i].of, id |-> r.items[i].event.id]
          BY <4>2 DEF Texts
        <5>2. d.of = s /\ d.id = r.items[i].event.id /\ r.items[i].event.id \in Backlogged(s)
          BY <1>16, <2>0, <2>4, <5>1
        <5>3. Backlogged(d.of) = Backlogged(s) /\ phase[d.of] = "over"
          BY <3>1, <5>2
        <5>4. QED
          BY <5>2, <5>3
      <4>3. QED
        BY <2>4, <4>1, <4>2
    <3>4. QED
      BY <2>4, <3>1, <3>2, <3>3
  <2>5. QED
    BY <1>11, <2>1, <2>2, <2>3, <2>4
<1>19. Follows(p, s, <<>>, n + 1)'
  <2>1. ~Tells(<<>>, s)' /\ ~Resets(<<>>)'
    BY <1>1 DEF Tells, Resets
  <2>2. Ended(s)' <=> Ended(s)
    BY <1>2 DEF Ended
  <2>3. n + 1 = Len(log[s]) => Ended(s)
    <3>1. n + 1 > 0
      BY <1>1
    <3>2. QED
      BY <3>1 DEF Ended
  <2>4. panel'[p].active = IF n + 1 = Len(log[s]) /\ Ended(s) THEN log[s][n + 1].active ELSE s
    BY <1>4, <1>6, <1>10, <2>3
  <2>5. log[s][n + 1] = StateOf(0) <=> x = 0
    BY <1>4, <1>5
  <2>6. SaidQueued(s)' = SaidQueued(s) /\ Backlogged(s)' = Backlogged(s)
    BY <1>2 DEF SaidQueued, Backlogged
  <2>7. ASSUME p \notin crossed \union behind
        PROVE  /\ panel'[p].restored = s => n + 1 = Len(log[s]) /\ Ended(s)
                                            /\ log[s][n + 1] = StateOf(0)
               /\ n + 1 = Len(log[s]) /\ log[s][n + 1] = StateOf(0)
                  /\ panel'[p].restored \in {0, s} =>
                     \A id \in SaidQueued(s) \intersect Backlogged(s) :
                        [of |-> s, id |-> id] \in panel'[p].drafts
    BY <1>18, <2>3, <2>5, <2>7
  <2>8. QED
    BY <1>0, <1>2, <1>10, <1>13, <2>1, <2>2, <2>4, <2>6, <2>7 DEF Follows
<1>20. MemoryInv(p)'
  <2>1. n + 1 <= Len(log[s])
    BY <1>3
  <2>2. QED
    BY <1>0, <1>2, <1>10, <1>13, <1>18, <2>1 DEF MemoryInv, Backlogged
<1>21. QED
  BY <1>1, <1>2, <1>3, <1>10, <1>19, <1>20, StreamTaken

LEMMA ReceiveKeeps ==
    ASSUME PanInv, NEW p \in Panels, Receive(p)
    PROVE  PanInv'
<1>0. /\ PanelTypeOK /\ FeedInv(p) /\ feed[p] \in Session \union {None}
      /\ Session = Sessions \union {0} /\ inbound[p] # <<>>
  BY PanelTypes, Numbers DEF PanInv, Receive
<1>1. Becomes(p, Taken(panel[p], Head(inbound[p])))
  BY <1>0 DEF Receive, Becomes, server, history, counts, PanelTypeOK
<1>2. CASE feed[p] = None
  BY <1>0, <1>2 DEF FeedInv
<1>3. CASE feed[p] = 0
  <2>1. CASE inbound[p] = <<Aside(StateOf(0)), Begins>>
    <3>1. Head(inbound[p]) = Aside(StateOf(0))
      BY <2>1
    <3>2. QED
      BY <1>1, <1>3, <2>1, <3>1, TakesNothing
  <2>2. CASE inbound[p] = <<Begins>>
    <3>1. Head(inbound[p]) = Begins
      BY <2>2
    <3>2. QED
      BY <1>1, <1>3, <2>2, <3>1, TakesReset
  <2>3. QED
    BY <1>0, <1>3, <2>1, <2>2 DEF FeedInv
<1>4. CASE feed[p] \in Sessions
  <2>1. PICK s \in Sessions : s = feed[p]
    BY <1>4
  <2>2. PICK n \in 0..Len(log[s]), pre \in Preludes(s) :
           Streams(p, s, pre, n) /\ Follows(p, s, pre, n)
    BY <1>0, <2>1 DEF FeedInv
  <2>3. CASE Tells(pre, s)
    BY <1>1, <2>1, <2>2, <2>3, TakesOwnState
  <2>4. CASE pre = <<Begins>>
    BY <1>1, <2>1, <2>2, <2>4, TakesBeginning
  <2>5. CASE pre = <<>>
    <3>1. Tail(inbound[p]) \in Seq(Frame)
      BY <1>0, PanelTypes
    <3>2. n < Len(log[s])
      <4>1. Len(inbound[p]) = 0 + Len(log[s]) - n
        BY <2>2, <2>5 DEF Streams
      <4>2. Len(inbound[p]) > 0 /\ Len(log[s]) \in Nat
        BY <1>0, PanelTypes, Types
      <4>3. QED
        BY <4>1, <4>2
    <3>3. QED
      BY <1>1, <2>1, <2>2, <2>5, <3>2, TakesEvent, TakesState
  <2>6. QED
    BY <2>3, <2>4, <2>5, PreludeIs, Numbers
<1>5. QED
  BY <1>0, <1>2, <1>3, <1>4

LEMMA PanelsStart ==
    ASSUME PanelInit
    PROVE  PanInv
<1>1. /\ phase = [s \in Sessions |-> "new"] /\ log = [s \in Sessions |-> <<>>]
      /\ backlog = [s \in Sessions |-> <<>>] /\ steered = [s \in Sessions |-> {}]
      /\ pending = [s \in Sessions |-> {}] /\ start = [by |-> None, waits |-> 0]
      /\ reply = [p \in Panels |-> 0] /\ feed = [p \in Panels |-> None]
      /\ inbound = [p \in Panels |-> <<>>] /\ panel = [p \in Panels |-> NewPanel]
      /\ crossed = {} /\ behind = {} /\ typed = 0 /\ asks = 0 /\ drops = 0
  BY DEF PanelInit
<1>2. NewPanel \in Panel
  <2>1. <<>> \in Seq(Item) /\ {} \in SUBSET Text /\ 0 \in Session /\ 0 \in Nat
    BY Numbers
  <2>2. QED
    BY <2>1 DEF NewPanel, Panel
<1>3. PanelTypeOK
  <2>1. /\ phase \in [Sessions -> Open \union {"new", "closing", "over"}]
        /\ \A s \in Sessions : phase[s] \notin Open /\ phase[s] # "ready"
    BY <1>1 DEF Open
  <2>2. /\ log \in [Sessions -> Seq(Event)] /\ backlog \in [Sessions -> Seq(MessageIds)]
        /\ inbound \in [Panels -> Seq(Frame)] /\ panel \in [Panels -> Panel]
    BY <1>1, <1>2
  <2>3. /\ start \in [by : Clients \union {None}, waits : Session]
        /\ reply \in [Panels -> Session] /\ feed \in [Panels -> Session \union {None}]
    BY <1>1, Numbers
  <2>4. typed \in 0..MaxTyped /\ asks \in 0..MaxAsks /\ drops \in 0..MaxDrops
    BY <1>1, Numbers
  <2>5. steered \in [Sessions -> SUBSET MessageIds] /\ pending \in [Sessions -> SUBSET AskIds]
    BY <1>1
  <2>6. QED
    BY <1>1, <2>1, <2>2, <2>3, <2>4, <2>5 DEF PanelTypeOK
<1>4. ASSUME NEW s \in Sessions PROVE StatesOf(s) /\ AsksOf(s) /\ MessagesOf(s)
  <2>1. /\ phase[s] = "new" /\ log[s] = <<>> /\ backlog[s] = <<>> /\ steered[s] = {}
        /\ pending[s] = {} /\ Len(log[s]) = 0 /\ Len(backlog[s]) = 0
    BY <1>1
  <2>2. StatesOf(s)
    BY <2>1 DEF StatesOf
  <2>3. /\ Messages(s) = {} /\ {i \in 1..Len(log[s]) : log[s][i].type = "ask"} = {}
        /\ Backlogged(s) = {} /\ SaidQueued(s) = {} /\ \A e : ~SaidIn(s, e)
    BY <2>1 DEF Messages, Backlogged, SaidQueued, SaidIn
  <2>4. Asked(s) = 0 /\ Cardinality(Messages(s)) = 0
    BY <2>3, FS_EmptySet DEF Asked
  <2>5. AsksOf(s)
    BY <1>1, <2>1, <2>3, <2>4 DEF AsksOf
  <2>6. MessagesOf(s)
    BY <1>1, <2>1, <2>3, <2>4 DEF MessagesOf
  <2>7. QED
    BY <2>2, <2>5, <2>6
<1>5. ASSUME NEW p \in Panels PROVE FeedInv(p) /\ MemoryInv(p)
  <2>1. feed[p] = None /\ inbound[p] = <<>>
    BY <1>1
  <2>2. panel[p].lastId = 0 /\ panel[p].restored = 0 /\ panel[p].drafts = {}
    BY <1>1 DEF NewPanel
  <2>3. FeedInv(p)
    BY <2>1, Numbers DEF FeedInv
  <2>4. MemoryInv(p)
    BY <2>2 DEF MemoryInv
  <2>5. QED
    BY <2>3, <2>4
<1>6. QED
  BY <1>1, <1>3, <1>4, <1>5 DEF PanInv, SessionsInv, StartInv

LEMMA PanelsStay ==
    ASSUME PanInv, [PanelNext]_panelVars
    PROVE  PanInv'
<1>1. CASE ServerStep
  BY <1>1, ServerStepKeeps
<1>2. CASE Restart
  BY <1>2, RestartKeeps
<1>3. ASSUME NEW p \in Panels, PanelStep(p) \/ Drop(p)
      PROVE  PanInv'
  BY <1>3, ReceiveKeeps, ConnectKeeps, ReopenKeeps, DropKeeps DEF PanelStep
<1>4. CASE UNCHANGED panelVars
  <2>1. /\ UNCHANGED <<phase, log, backlog, steered, pending, start, typed, asks>>
        /\ UNCHANGED <<reply, feed, inbound, panel, crossed, behind, drops>>
    BY <1>4 DEF panelVars, server, history, counts
  <2>2. PanelTypeOK'
    BY <2>1 DEF PanInv, PanelTypeOK
  <2>3. SessionsInv' /\ StartInv'
    BY <2>1, SessionsStand DEF PanInv
  <2>4. \A p \in Panels : FeedInv(p)' /\ MemoryInv(p)'
    <3>1. Moves
      BY <2>1, QuietMoves DEF PanInv
    <3>2. QED
      BY <2>2, <2>3, <3>1, PanelsStand DEF PanInv
  <2>5. QED
    BY <2>2, <2>3, <2>4 DEF PanInv
<1>5. QED
  BY <1>1, <1>2, <1>3, <1>4 DEF PanelNext, ServerStep

\* What is shown, with what is on its way: a items, b frames outside the
\* buffer, and the c that follow place n in it.
Tracks(track, items, s, n, a, b, c) ==
    /\ Len(items) = a /\ Len(track) = a + b + c
    /\ \A i \in 1..a : track[i] = items[i]
    /\ \A i \in 1..b : track[a + i].at = 0
    /\ \A i \in 1..c : track[a + b + i] = InBuffer(s, n + i)

LEMMA WholeOf ==
    ASSUME NEW s \in Sessions, NEW n \in Nat, NEW c \in Nat, n + c = Len(log[s]),
           NEW a \in Nat, NEW b \in Nat, NEW items, UpTo(items, s, n),
           NEW track, Tracks(track, items, s, n, a, b, c)
    PROVE  Whole(track, s)
<1> DEFINE own == {i \in 1..(a + b + c) : track[i].at # 0}
<1>t. /\ Len(items) = a /\ Len(track) = a + b + c
      /\ \A i \in 1..a : track[i] = items[i]
      /\ \A i \in 1..b : track[a + i].at = 0
      /\ \A i \in 1..c : track[a + b + i] = InBuffer(s, n + i)
  BY DEF Tracks
<1>0. /\ \A i \in 1..a : i \in 1..(a + b + c)
      /\ \A i \in 1..c : n + i # 0 /\ n + i <= n + c /\ a + b + i \in 1..(a + b + c)
  OBVIOUS
<1>1. ASSUME NEW i \in 1..a
      PROVE  /\ i \in own /\ track[i].of = s /\ track[i].at \in 1..n
             /\ track[i].event = log[s][track[i].at]
  <2>1. track[i] = items[i] /\ i \in 1..(a + b + c)
    BY <1>0, <1>t
  <2>2. items[i].of = s /\ items[i].at \in 1..n /\ items[i].event = log[s][items[i].at]
    BY <1>t DEF UpTo
  <2>3. items[i].at # 0
    BY <2>2
  <2>4. QED
    BY <2>1, <2>2, <2>3
<1>2. ASSUME NEW i \in 1..c
      PROVE  /\ a + b + i \in own /\ track[a + b + i].of = s /\ track[a + b + i].at = n + i
             /\ track[a + b + i].event = log[s][n + i]
  <2>1. /\ InBuffer(s, n + i).of = s /\ InBuffer(s, n + i).at = n + i
        /\ InBuffer(s, n + i).event = log[s][n + i]
    BY DEF InBuffer
  <2>2. QED
    BY <1>0, <1>t, <2>1
<1>3. ASSUME NEW i \in own PROVE i \in 1..a \/ \E m \in 1..c : i = a + b + m
  <2>1. i \in 1..(a + b + c)
    BY DEF own
  <2>2. i \in 1..a \/ (\E m \in 1..b : i = a + m) \/ \E m \in 1..c : i = a + b + m
    <3>1. \/ i \in 1..a
          \/ i - a \in 1..b /\ i = a + (i - a)
          \/ i - (a + b) \in 1..c /\ i = a + b + (i - (a + b))
      BY <2>1, SMT
    <3>2. QED
      BY <3>1
  <2>3. ~\E m \in 1..b : i = a + m
    BY <1>t DEF own
  <2>4. QED
    BY <2>2, <2>3
<1>4. own = {i \in 1..Len(track) : track[i].at # 0}
  BY <1>t
<1> HIDE DEF own
<1>5. \A i \in own : /\ track[i].of = s /\ track[i].at <= n + c
                     /\ track[i].event = log[s][track[i].at]
  <2> SUFFICES ASSUME NEW i \in own
               PROVE  /\ track[i].of = s /\ track[i].at <= n + c
                      /\ track[i].event = log[s][track[i].at]
    OBVIOUS
  <2>1. CASE i \in 1..a
    BY <1>1, <2>1
  <2>2. ASSUME NEW m \in 1..c, i = a + b + m
        PROVE  track[i].of = s /\ track[i].at <= n + c /\ track[i].event = log[s][track[i].at]
    <3>1. track[i].of = s /\ track[i].at = n + m /\ track[i].event = log[s][n + m]
      BY <1>2, <2>2
    <3>2. n + m <= n + c
      OBVIOUS
    <3>3. QED
      BY <3>1, <3>2
  <2>3. QED
    BY <1>3, <2>1, <2>2
<1>6. \A i, j \in own : i < j => track[i].at < track[j].at
  <2> SUFFICES ASSUME NEW i \in own, NEW j \in own, i < j
               PROVE  track[i].at < track[j].at
    OBVIOUS
  <2>1. CASE i \in 1..a /\ j \in 1..a
    <3>1. items[i].at < items[j].at
      BY <1>t, <2>1 DEF UpTo
    <3>2. QED
      BY <1>t, <2>1, <3>1
  <2>2. ASSUME i \in 1..a, NEW m \in 1..c, j = a + b + m
        PROVE  track[i].at < track[j].at
    <3>1. track[i].at \in 1..n /\ track[j].at = n + m
      BY <1>1, <1>2, <2>2
    <3>2. QED
      BY <3>1
  <2>3. ASSUME NEW l \in 1..c, i = a + b + l, NEW m \in 1..c, j = a + b + m
        PROVE  track[i].at < track[j].at
    <3>1. track[i].at = n + l /\ track[j].at = n + m
      BY <1>2, <2>3
    <3>2. l < m
      BY <2>3
    <3>3. QED
      BY <3>1, <3>2
  <2>4. ASSUME NEW l \in 1..c, i = a + b + l, j \in 1..a
        PROVE  track[i].at < track[j].at
    <3>1. ~(a + b + l < j)
      BY <2>4
    <3>2. QED
      BY <2>4, <3>1
  <2>5. QED
    BY <1>3, <2>1, <2>2, <2>3, <2>4
<1>7. ASSUME NEW m \in 1..(n + c), log[s][m].type # "state"
      PROVE  \E i \in own : track[i].at = m
  <2>1. CASE m \in 1..n
    <3>1. PICK i \in 1..a : items[i].at = m
      BY <1>t, <1>7, <2>1 DEF UpTo
    <3>2. i \in own /\ track[i].at = m
      BY <1>1, <1>t, <3>1
    <3>3. QED
      BY <3>2
  <2>2. CASE m \notin 1..n
    <3>1. PICK l \in 1..c : n + l = m
      <4>1. m - n \in 1..c /\ n + (m - n) = m
        BY <2>2
      <4>2. QED
        BY <4>1
    <3>2. a + b + l \in own /\ track[a + b + l].at = m
      BY <1>2, <3>1
    <3>3. QED
      BY <3>2
  <2>3. QED
    BY <2>1, <2>2
<1>8. QED
  BY <1>4, <1>5, <1>6, <1>7 DEF Whole

LEMMA StreamShown ==
    ASSUME PanInv, NEW p \in Panels, p \notin crossed, NEW s \in Sessions, feed[p] = s
    PROVE  Whole(Shown(p), s)
<1> DEFINE items == panel[p].items   w == inbound[p]
<1>1. PICK n \in 0..Len(log[s]), pre \in Preludes(s) : Streams(p, s, pre, n)
      /\ Follows(p, s, pre, n)
  BY DEF PanInv, FeedInv
<1>2. /\ PanelTypeOK /\ items \in Seq(Item) /\ w \in Seq(Frame) /\ s \in Session
  BY PanelTypes, Numbers DEF PanInv
<1>3. PICK c \in Nat, b \in Nat, a \in Nat :
         n + c = Len(log[s]) /\ b = Len(pre) /\ a = Len(items) /\ n \in Nat
  <2>1. Len(log[s]) \in Nat /\ Len(pre) \in Nat /\ Len(items) \in Nat
    BY <1>2, Types, PreludeIs
  <2>2. n \in Nat /\ Len(log[s]) - n \in Nat /\ n + (Len(log[s]) - n) = Len(log[s])
    BY <2>1
  <2>3. QED
    BY <2>1, <2>2
<1>4. /\ Len(w) = b + c /\ \A i \in 1..b : w[i] = pre[i]
      /\ \A i \in 1..c : w[b + i] = InBuffer(s, n + i)
      /\ Resets(pre) => n = 0
  <2>1. Len(log[s]) - n = c /\ b + Len(log[s]) - n = b + c
    BY <1>3
  <2>2. QED
    BY <1>1, <1>3, <2>1 DEF Streams
<1>5. /\ IsReset(Begins) /\ Begins.at = 0
      /\ ~IsReset(Aside(StateOf(s))) /\ Aside(StateOf(s)).at = 0
  BY DEF IsReset, Begins, Aside, StateOf
<1>6. \A i \in 1..c : ~IsReset(w[b + i])
  <2> SUFFICES ASSUME NEW i \in 1..c PROVE ~IsReset(w[b + i])
    OBVIOUS
  <2>0. InBuffer(s, n + i).event = log[s][n + i]
    BY DEF InBuffer
  <2>1. n + i \in 1..Len(log[s]) /\ w[b + i].event = log[s][n + i]
    BY <1>3, <1>4, <2>0
  <2>2. log[s][n + i].type # "reset"
    BY <1>2, <2>1, Types, Kinds
  <2>3. QED
    BY <2>1, <2>2 DEF IsReset
<1>7. \A j \in 1..Len(w) : j \in 1..b \/ \E i \in 1..c : j = b + i
  <2> SUFFICES ASSUME NEW j \in 1..Len(w), j \notin 1..b
               PROVE  \E i \in 1..c : j = b + i
    OBVIOUS
  <2>1. j - b \in 1..c /\ j = b + (j - b)
    BY <1>4
  <2>2. QED
    BY <2>1
<1>8. \A i \in 1..b : pre[i] \in {Begins, Aside(StateOf(s))}
  BY <1>3 DEF Preludes
<1>9. CASE Resets(pre)
  <2>1. b > 0 /\ pre[b] = Begins /\ n = 0
    <3>1. pre = <<Begins>> \/ pre = <<Aside(StateOf(s)), Begins>>
      BY <1>2, <1>9, PreludeIs
    <3>2. CASE pre = <<Begins>>
      <4>1. Len(<<Begins>>) = 1 /\ <<Begins>>[1] = Begins
        OBVIOUS
      <4>2. QED
        BY <1>3, <1>4, <1>9, <3>2, <4>1
    <3>3. CASE pre = <<Aside(StateOf(s)), Begins>>
      <4>1. Len(pre) = 2 /\ pre[2] = Begins
        BY <3>3
      <4>2. QED
        BY <1>3, <1>4, <1>9, <4>1
    <3>4. QED
      BY <3>1, <3>2, <3>3
  <2>2. b \in 1..Len(w) /\ IsReset(w[b])
    <3>1. b \in 1..b /\ b \in 1..Len(w)
      BY <1>4, <2>1
    <3>2. w[b] = Begins
      BY <1>4, <2>1, <3>1
    <3>3. QED
      BY <1>5, <3>1, <3>2
  <2>3. \A j \in (b + 1)..Len(w) : ~IsReset(w[j])
    <3>1. \A j \in (b + 1)..Len(w) : j \in 1..Len(w) /\ j \notin 1..b
      OBVIOUS
    <3>2. QED
      BY <1>6, <1>7, <3>1
  <2>4. PICK last : last = CHOOSE i \in 1..Len(w) : /\ IsReset(w[i])
                                                   /\ \A j \in (i + 1)..Len(w) : ~IsReset(w[j])
    OBVIOUS
  <2>5. /\ last \in 1..Len(w) /\ IsReset(w[last])
        /\ \A j \in (last + 1)..Len(w) : ~IsReset(w[j])
    BY <2>2, <2>3, <2>4
  <2>6. last = b
    <3>1. ~(last < b)
      <4>1. last < b => b \in (last + 1)..Len(w)
        BY <2>2, <2>5
      <4>2. QED
        BY <2>2, <2>5, <4>1
    <3>2. ~(last > b)
      <4>1. last > b => last \in (b + 1)..Len(w)
        BY <2>5
      <4>2. QED
        BY <2>3, <2>5, <4>1
    <3>3. QED
      BY <2>5, <3>1, <3>2
  <2>7. Shown(p) = SubSeq(w, b + 1, Len(w))
    BY <2>2, <2>4, <2>6 DEF Shown
  <2>8. /\ Len(Shown(p)) = c
        /\ \A i \in 1..c : Shown(p)[i] = w[b + i]
    <3>1. Len(w) = b + c /\ b + 1 \in 1..(Len(w) + 1) /\ Len(w) \in Nat
      BY <1>2, <1>4
    <3>2. /\ Len(SubSeq(w, b + 1, Len(w))) = c
          /\ \A i \in 1..c : SubSeq(w, b + 1, Len(w))[i] = w[(b + 1) + i - 1]
      BY <1>2, <3>1
    <3>3. \A i \in 1..c : (b + 1) + i - 1 = b + i
      OBVIOUS
    <3>4. QED
      BY <2>7, <3>2, <3>3
  <2>9. PICK z \in Nat : z = 0
    OBVIOUS
  <2>10. UpTo(<<>>, s, n)
    BY <2>1 DEF UpTo
  <2>11. Tracks(Shown(p), <<>>, s, n, z, z, c)
    <3>1. z + z + c = c /\ Len(<<>>) = z /\ \A i \in 1..c : z + z + i = i
      BY <2>9
    <3>2. \A i \in 1..z : FALSE
      BY <2>9
    <3>3. QED
      BY <1>4, <2>8, <3>1, <3>2 DEF Tracks
  <2>12. QED
    BY <1>3, <2>10, <2>11, WholeOf
<1>10. CASE ~Resets(pre)
  <2>1. UpTo(items, s, n)
    BY <1>1, <1>10 DEF Follows
  <2>2. \A i \in 1..b : pre[i] = Aside(StateOf(s))
    BY <1>3, <1>8, <1>10 DEF Resets
  <2>3. \A j \in 1..Len(w) : ~IsReset(w[j])
    BY <1>4, <1>5, <1>6, <1>7, <2>2
  <2>4. Shown(p) = items \o w
    BY <2>3 DEF Shown
  <2>5. /\ Len(items \o w) = Len(items) + Len(w)
        /\ \A i \in 1..Len(items) : (items \o w)[i] = items[i]
        /\ \A i \in 1..Len(w) : (items \o w)[Len(items) + i] = w[i]
    <3>1. \A q, r \in Seq(Item \union Frame) :
             /\ Len(q \o r) = Len(q) + Len(r)
             /\ \A i \in 1..Len(q) : (q \o r)[i] = q[i]
             /\ \A i \in 1..Len(r) : (q \o r)[Len(q) + i] = r[i]
      BY Joined
    <3>2. items \in Seq(Item \union Frame) /\ w \in Seq(Item \union Frame)
      BY <1>2
    <3>3. QED
      BY <3>1, <3>2
  <2>6. Tracks(Shown(p), items, s, n, a, b, c)
    <3>1. Len(Shown(p)) = a + b + c /\ \A i \in 1..a : Shown(p)[i] = items[i]
      <4>1. a + (b + c) = a + b + c
        OBVIOUS
      <4>2. Len(Shown(p)) = Len(items) + Len(w)
        BY <2>4, <2>5
      <4>3. \A i \in 1..Len(items) : Shown(p)[i] = items[i]
        BY <2>4, <2>5
      <4>4. QED
        BY <1>3, <1>4, <4>1, <4>2, <4>3
    <3>2. \A i \in 1..b : Shown(p)[a + i].at = 0
      <4>1. \A i \in 1..b : i \in 1..Len(w)
        BY <1>4
      <4>2. QED
        BY <1>3, <1>4, <1>5, <2>2, <2>4, <2>5, <4>1
    <3>3. \A i \in 1..c : Shown(p)[a + b + i] = InBuffer(s, n + i)
      <4>1. \A i \in 1..c : b + i \in 1..Len(w) /\ a + (b + i) = a + b + i
        BY <1>4
      <4>2. QED
        BY <1>3, <1>4, <2>4, <2>5, <4>1
    <3>4. QED
      BY <1>3, <3>1, <3>2, <3>3 DEF Tracks
  <2>7. QED
    BY <1>3, <2>1, <2>6, WholeOf
<1>11. QED
  BY <1>9, <1>10

LEMMA PanelsRight ==
    ASSUME PanInv
    PROVE  PanelIsRight
<1>0. PanelTypeOK /\ SessionsInv
  BY DEF PanInv
<1>1. StreamIsWhole
  BY StreamShown DEF StreamIsWhole
<1>2. ASSUME NEW p \in Panels, NEW s \in Sessions, feed[p] = s, inbound[p] = <<>>
      PROVE  Follows(p, s, <<>>, Len(log[s]))
  <2>1. PICK n \in 0..Len(log[s]), pre \in Preludes(s) :
           Streams(p, s, pre, n) /\ Follows(p, s, pre, n)
    BY <1>2 DEF PanInv, FeedInv
  <2>2. Len(inbound[p]) = 0 /\ Len(inbound[p]) = Len(pre) + Len(log[s]) - n
    BY <1>2, <2>1 DEF Streams
  <2>3. Len(pre) \in Nat /\ Len(log[s]) \in Nat
    BY <1>0, PreludeIs, Types, Numbers
  <2>4. Len(pre) = 0 /\ n = Len(log[s])
    BY <2>2, <2>3
  <2>5. pre = <<>>
    BY <2>4 DEF Preludes
  <2>6. QED
    BY <2>1, <2>4, <2>5
<1>3. ASSUME NEW p \in Panels, p \notin crossed, feed[p] = Live, Live # 0, inbound[p] = <<>>
      PROVE  LET items == panel[p].items
             IN  /\ panel[p].active = Live
                 /\ Ids(items, Cards(items)) = pending[Live]
                 /\ Ids(items, Bubbles(items)) = SaidQueued(Live) \intersect Backlogged(Live)
  <2>1. PICK s \in Sessions : s = Live /\ phase[s] \in Open
    BY <1>0, <1>3, LiveIs
  <2>2. Follows(p, s, <<>>, Len(log[s]))
    BY <1>2, <1>3, <2>1
  <2>3. ~Tells(<<>>, s) /\ ~Resets(<<>>)
    BY DEF Tells, Resets
  <2>4. UpTo(panel[p].items, s, Len(log[s])) /\ panel[p].items \in Seq(Item)
    BY <1>0, <1>3, <2>2, <2>3, PanelTypes DEF Follows
  <2>5. phase[s] \notin {"closing", "over"}
    BY <2>1 DEF Open
  <2>6. panel[p].active = s
    <3>1. Ended(s) => log[s][Len(log[s])].active = s
      <4>1. StateOf(s).active = s
        BY DEF StateOf
      <4>2. Ended(s) => log[s][Len(log[s])] = StateOf(s)
        BY <1>0, <2>5, OwnState
      <4>3. QED
        BY <4>1, <4>2
    <3>2. QED
      BY <2>2, <2>3, <3>1 DEF Follows
  <2>7. Ids(panel[p].items, Cards(panel[p].items)) = pending[s]
    BY <1>0, <2>4, <2>5, CardsAre DEF SessionsInv, AsksOf
  <2>8. Ids(panel[p].items, Bubbles(panel[p].items)) = SaidQueued(s) \intersect Backlogged(s)
    BY <1>0, <2>4, BubblesAre
  <2>9. SaidQueued(Live) = SaidQueued(s) /\ Backlogged(Live) = Backlogged(s)
    BY <2>1
  <2>10. QED
    BY <2>1, <2>6, <2>7, <2>8, <2>9
<1>4. CaughtUpPanelIsRight
  BY <1>3 DEF CaughtUpPanelIsRight
<1>5. DraftsAreTheUndelivered
  <2>1. ASSUME NEW p \in Panels, p \notin crossed \union behind
        PROVE  /\ \A d \in panel[p].drafts : /\ phase[d.of] \in {"closing", "over"}
                                             /\ d.id \in Backlogged(d.of)
               /\ \A s \in Sessions :
                     /\ feed[p] = s /\ inbound[p] = <<>> /\ phase[s] = "over"
                     /\ log[s][Len(log[s])] = StateOf(0) /\ panel[p].restored \in {0, s}
                     => \A id \in SaidQueued(s) \intersect Backlogged(s) :
                           [of |-> s, id |-> id] \in panel[p].drafts
    BY <1>2, <2>1 DEF PanInv, MemoryInv, Follows
  <2>2. QED
    BY <2>1 DEF DraftsAreTheUndelivered
<1>6. QED
  BY <1>1, <1>4, <1>5 DEF PanelIsRight

LEMMA PanelsInvariant == PanelSpec => []PanInv
BY PanelsStart, PanelsStay, PTL DEF PanelSpec

\* The types of the panels, of their streams and of the sessions they show.
THEOREM PanelTypeCorrect == PanelSpec => []PanelTypeOK
<1>1. PanInv => PanelTypeOK
  BY DEF PanInv
<1>2. QED
  BY <1>1, PanelsInvariant, PTL

\* What a panel shows, with what is on its way to it, is what its session has
\* said; once it has it all, its cards and pending bubbles are the requests and
\* the messages that wait; and what it puts back into the composer was not
\* handed over.
THEOREM PanelRight == PanelSpec => []PanelIsRight
BY PanelsInvariant, PanelsRight, PTL
=============================================================================
