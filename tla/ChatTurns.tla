----------------------------- MODULE ChatTurns -----------------------------
(***************************************************************************)
(* The turn engine of one live chat session: which typed message goes to   *)
(* the agent when (ChatSessionManager.sendMessage, steerLive, dispatchTurn,*)
(* finishTurn and pumpQueue in packages/cli/src/server/ChatSessions.ts),   *)
(* over the driver's prompt/steer doors (packages/core/src/ChatSession.ts).*)
(*                                                                         *)
(* JavaScript runs each handler to completion, so an action is a handler   *)
(* or a promise callback as a whole; what interleaves is requests from the *)
(* browser, answers from the adapter process and the session being closed. *)
(* Messages are their `seq` numbers, and 0 stands for the machine-written  *)
(* orientation prompt.                                                     *)
(***************************************************************************)
EXTENDS Integers, FiniteSets, Sequences

CONSTANTS
    MaxMessages,  \* bound: messages typed into the session
    Adapters      \* kinds of adapter a session may be started on

ASSUME ConstantsAssumption ==
    /\ MaxMessages \in Nat
    /\ Adapters \subseteq {"folds", "answers"}

VARIABLES
    live,            \* this.live.get(skill) === chat
    status,          \* LiveChat.status
    adapter,         \* the kind of adapter behind the handle
    queue,           \* LiveChat.queue: `seq`s held for the turn boundary
    turnsInFlight,   \* LiveChat.turnsInFlight
    promptsSent,     \* LiveChat.promptsSent
    nextMessageSeq,  \* LiveChat.nextMessageSeq
    prompts,         \* unsettled handle.prompt() calls
    steers,          \* messages whose handle.steer() has not settled
    hung,            \* the adapter is alive and answers nothing
    wire,            \* history: session/prompt requests in wire order
    failedAlone      \* history: counted steers that failed with no other turn

vars == <<live, status, adapter, queue, turnsInFlight, promptsSent,
          nextMessageSeq, prompts, steers, hung, wire, failedAlone>>

\* What the two shipped adapters do with a mid-turn prompt: codex-acp folds it
\* into the running turn and need never answer it; claude-agent-acp advertises
\* `promptQueueing` and answers it as a turn of its own. Either may refuse it
\* while a turn runs, and a turn of its own may fail after that turn ended.
promptQueueing == adapter = "answers"

Message == 1..MaxMessages
Orientation == 0
Prompt == [msg : Message \union {Orientation}, as : {"turn", "steer"},
           context : BOOLEAN]

TypeOK ==
    /\ live \in BOOLEAN
    /\ status \in {"starting", "ready", "running"}
    /\ adapter \in Adapters
    /\ queue \in SUBSET Message
    /\ turnsInFlight \in Nat
    /\ promptsSent \in Nat
    /\ nextMessageSeq \in 1..(MaxMessages + 1)
    /\ prompts \in Nat
    /\ steers \in SUBSET Message
    /\ hung \in BOOLEAN
    /\ wire \in Seq(Prompt)
    /\ failedAlone \in SUBSET Message

\* startSession has put the chat in `live` and awaits the adapter.
Init ==
    /\ live = TRUE
    /\ status = "starting"
    /\ adapter \in Adapters
    /\ queue = {}
    /\ turnsInFlight = 0
    /\ promptsSent = 0
    /\ nextMessageSeq = 1
    /\ prompts = 0
    /\ steers = {}
    /\ hung = FALSE
    /\ wire = <<>>
    /\ failedAlone = {}
-----------------------------------------------------------------------------
\* The queue is an array kept sorted by the unique `seq`, so its contents
\* determine it and shift() takes the smallest. (A definition named Fault...
\* is a slip the properties below are checked to catch; no action uses it.)
FaultNewest(q) == CHOOSE m \in q : \A n \in q : m >= n
Oldest(q) == CHOOSE m \in q : \A n \in q : m <= n

FaultPeek(q) == q
Shift(q) == q \ {Oldest(q)}

\* firstPromptContext: the preamble rides on the session's first wire prompt.
FaultCountBubbles == nextMessageSeq = 1
FirstPromptContext == promptsSent = 0

\* One counted turn settled; the count is clamped at zero.
FaultCountTwice == turnsInFlight - 2
OneLess == IF turnsInFlight > 0 THEN turnsInFlight - 1 ELSE 0

\* dispatchTurn for m, from the given counts. The driver's prompt() refuses
\* with ChatBusyError, before any wire write, while another is unsettled.
DispatchTurn(m, context, inFlight, unsettled) ==
    /\ status' = "running"
    /\ turnsInFlight' = inFlight + 1
    /\ promptsSent' = promptsSent + 1
    /\ prompts' = unsettled + 1
    /\ wire' = IF unsettled = 0
               THEN Append(wire, [msg |-> m, as |-> "turn", context |-> context])
               ELSE wire

DeliverAsTurn(m, inFlight, unsettled) ==
    DispatchTurn(m, FirstPromptContext, inFlight, unsettled)

\* pumpQueue over queue q in status st: the oldest message becomes a turn if
\* the session is idle, otherwise q just waits.
FaultStaleStatus(st, q) == live /\ status = "ready" /\ q # {}
CanFlush(st, q) == live /\ st = "ready" /\ q # {}

PumpQueue(st, q, inFlight) ==
    \/ /\ CanFlush(st, q)
       /\ queue' = Shift(q)
       /\ DeliverAsTurn(Oldest(q), inFlight, prompts)
    \/ /\ ~CanFlush(st, q)
       /\ queue' = q
       /\ status' = st
       /\ turnsInFlight' = inFlight
       /\ UNCHANGED <<promptsSent, prompts, wire>>

\* finishTurn, leaving `unsettled` driver prompts outstanding.
FaultAnyTurn == live /\ status = "running"
FaultBeforeDecrement == live /\ status = "running" /\ turnsInFlight = 0
AtBoundary == live /\ status = "running" /\ OneLess = 0

FinishTurn(unsettled) ==
    \/ /\ ~AtBoundary
       /\ turnsInFlight' = OneLess
       /\ prompts' = unsettled
       /\ UNCHANGED <<status, queue, promptsSent, wire>>
    \/ /\ AtBoundary /\ queue # {}
       /\ queue' = Shift(queue)
       /\ DeliverAsTurn(Oldest(queue), OneLess, unsettled)
    \/ /\ AtBoundary /\ queue = {}
       /\ status' = "ready"
       /\ turnsInFlight' = OneLess
       /\ prompts' = unsettled
       /\ UNCHANGED <<queue, promptsSent, wire>>

\* steerLive: the message goes onto the wire mid-turn; only an adapter that
\* answers steered prompts has them counted.
SteerLive(m) ==
    /\ promptsSent' = promptsSent + 1
    /\ turnsInFlight' = IF promptQueueing THEN turnsInFlight + 1
                                          ELSE turnsInFlight
    /\ steers' = steers \union {m}
    /\ wire' = Append(wire, [msg |-> m, as |-> "steer", context |-> FALSE])
    /\ UNCHANGED <<status, queue, prompts>>
-----------------------------------------------------------------------------
\* startChatSession resolved: the handle is set and the session is ready,
\* whether or not it is still in `live`. The opening orientation turn, when
\* asked for, is dispatched unconditionally; otherwise the queue is pumped.
SessionReady ==
    /\ status = "starting" /\ ~hung
    /\ \/ /\ DispatchTurn(Orientation, TRUE, turnsInFlight, prompts)
          /\ UNCHANGED queue
       \/ PumpQueue("ready", queue, turnsInFlight)
    /\ UNCHANGED <<live, adapter, nextMessageSeq, steers, hung, failedAlone>>

\* sendMessage: direct, live, or queued behind what already waits. Without a
\* live session the request is refused with 409 and nothing changes.
SendMessage ==
    /\ live
    /\ nextMessageSeq \in Message
    /\ nextMessageSeq' = nextMessageSeq + 1
    /\ \/ /\ queue = {} /\ status = "ready"
          /\ DeliverAsTurn(nextMessageSeq, turnsInFlight, prompts)
          /\ UNCHANGED <<queue, steers>>
       \/ /\ queue = {} /\ status = "running"
          /\ SteerLive(nextMessageSeq)
       \/ /\ queue # {} \/ status = "starting"
          /\ PumpQueue(status, queue \union {nextMessageSeq}, turnsInFlight)
          /\ UNCHANGED steers
    /\ UNCHANGED <<live, adapter, hung, failedAlone>>

\* A dispatched turn settled, with an answer or an error: both finish it.
TurnSettles ==
    /\ prompts > 0 /\ ~hung
    /\ FinishTurn(prompts - 1)
    /\ UNCHANGED <<live, adapter, nextMessageSeq, steers, hung, failedAlone>>

\* The adapter answered a steered prompt.
SteerAnswered(m) ==
    /\ m \in steers /\ ~hung
    /\ steers' = steers \ {m}
    /\ IF promptQueueing THEN FinishTurn(prompts)
                         ELSE PumpQueue(status, queue, turnsInFlight)
    /\ UNCHANGED <<live, adapter, nextMessageSeq, hung, failedAlone>>

\* A counted steer of a live session fails when no other turn is in flight.
FailsAlone == live /\ promptQueueing /\ OneLess = 0

\* A steered prompt failed, refused or broken off: its turn no longer counts,
\* and in a live session the message is queued again at its own seq. Only the
\* pump runs then, never finishTurn, so after the last counted turn nothing
\* takes the session out of "running" again.
SteerRefused(m) ==
    /\ m \in steers /\ ~hung
    /\ steers' = steers \ {m}
    /\ failedAlone' = IF FailsAlone THEN failedAlone \union {m} ELSE failedAlone
    /\ LET left == IF promptQueueing THEN OneLess ELSE turnsInFlight
       IN  PumpQueue(status, IF live THEN queue \union {m} ELSE queue, left)
    /\ UNCHANGED <<live, adapter, nextMessageSeq, hung>>

\* closeChat on behalf of the user, the idle reaper, an adapter exit, a
\* failed start or the server stopping. What was queued dies with the chat.
\* (After a failed start the adapter never gets ready; that SessionReady may
\* still happen then only adds behaviours of a closed chat.)
Close ==
    /\ live
    /\ live' = FALSE
    /\ UNCHANGED <<status, adapter, queue, turnsInFlight, promptsSent,
                   nextMessageSeq, prompts, steers, hung, wire, failedAlone>>

\* The adapter process stops answering, or goes on: it answers again, or exits
\* and so rejects what was asked of it. No request of a chat has a time limit,
\* the handshake included, so nobody else ends a silence.
FallsSilentOrGoesOn ==
    /\ hung' = ~hung
    /\ UNCHANGED <<live, status, adapter, queue, turnsInFlight, promptsSent,
                   nextMessageSeq, prompts, steers, wire, failedAlone>>

SteerSettles(m) == SteerAnswered(m) \/ SteerRefused(m)

Next ==
    \/ SessionReady
    \/ SendMessage
    \/ TurnSettles
    \/ \E m \in Message : SteerAnswered(m) \/ SteerRefused(m)
    \/ Close
    \/ FallsSilentOrGoesOn

Spec == Init /\ [][Next]_vars

\* An adapter that is not hung settles a start, a turn and, if it advertises
\* promptQueueing, each steered prompt, by an answer or by its exit. It may hang
\* for ever, and nobody has to type or close.
Fairness ==
    /\ WF_vars(SessionReady)
    /\ WF_vars(TurnSettles)
    /\ \A m \in Message : WF_vars(promptQueueing /\ SteerSettles(m))

FairSpec == Spec /\ Fairness
-----------------------------------------------------------------------------
\* The driver's busy guard never fires: whatever the order in which steered
\* and dispatched turns settle, no turn is dispatched while another is open,
\* so no message is swallowed by ChatBusyError.
OneTurnAtATime == prompts <= 1

\* A live session that reports `ready` is idle: no counted turn, no driver
\* prompt outstanding and nothing left waiting in the queue.
NoIdleBacklog ==
    live /\ status = "ready" =>
        turnsInFlight = 0 /\ prompts = 0 /\ queue = {}

\* The production context rides on the first prompt that reaches the wire
\* and on no other, whether that is the orientation, a direct send or a
\* message queued while the session was starting.
ContextOnFirstPromptOnly == \A i \in 1..Len(wire) : wire[i].context <=> i = 1

\* A message reaches the agent at most once as a steer and once as a turn,
\* and never waits in the queue while a steer of it may still be answered.
SentOnceEachWay ==
    /\ \A i, j \in 1..Len(wire) :
          wire[i].msg = wire[j].msg /\ wire[i].as = wire[j].as => i = j
    /\ queue \intersect steers = {}

\* The comment on LiveChat.turnsInFlight: "`status` is "running" iff > 0 (once
\* past starting)". A counted steer that fails alone breaks it, and nothing
\* else does: that session still runs with no turn left to end, and keeps the
\* message.
RunningIffTurnsInFlight ==
    /\ live /\ status # "starting" =>
          (status = "running" <=> turnsInFlight > 0 \/ failedAlone # {})
    /\ live /\ failedAlone # {} => turnsInFlight = 0 /\ queue # {}

\* The five together: however steered and dispatched turns overlap, the driver
\* is asked for one turn at a time, nothing is forgotten in the queue, the
\* wire carries each message once each way, the context first, and the session
\* says it is running just while a turn is, unless a steer failed alone.
TurnsAreSound ==
    /\ OneTurnAtATime
    /\ NoIdleBacklog
    /\ ContextOnFirstPromptOnly
    /\ SentOnceEachWay
    /\ RunningIffTurnsInFlight

\* The mailbox promise, read off the wire: the agent has the messages that
\* were put on the wire and are not queued.
Delivery == INSTANCE ChatDelivery WITH
    open <- live,
    accepted <- nextMessageSeq - 1,
    waiting <- queue,
    handed <- {wire[i].msg : i \in 1..Len(wire)} \ (queue \union {Orientation})

DeliverySpec == Delivery!Spec

\* Whatever waits in the queue of a session reaches the agent in the end ("the
\* message re-queues and flushes at the boundary -- never lost"), or the session
\* is closed, or its adapter is hung -- or a counted steer failed alone.
FlushedAtBoundary ==
    \A m \in Message :
        m \in queue ~> m \notin queue \/ ~live \/ hung \/ failedAlone # {}
=============================================================================
