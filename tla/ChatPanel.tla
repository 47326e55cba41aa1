------------------------------ MODULE ChatPanel ------------------------------
(***************************************************************************)
(* The chat of one skill as its panels show it: the event buffer of every  *)
(* session and its SSE stream, the permission requests and the queue       *)
(* behind the pending bubbles (packages/cli/src/server/ChatSessions.ts),   *)
(* and in each browser the stream's consumer, the items made from it and   *)
(* the drafts restored when a session is lost (packages/viewer/src/app/    *)
(* next/chatApi.ts, chatModel.ts and the ChatTab of RightPanel.tsx).       *)
(*                                                                         *)
(* Frames arrive in order, or not at all once the connection is lost; the  *)
(* browser then connects again with the id of the last frame that had one. *)
(* When a turn ends and whether a steer is refused is a free choice here:  *)
(* that is the matter of ChatTurns, and the adapter processes are that of  *)
(* ChatSessions. Starts do not overlap, and a session that is starting is  *)
(* not ended. The agent's own output is left out: a frame like others; and *)
(* the state a panel asks for when it opens comes in before its stream.    *)
(***************************************************************************)
EXTENDS Integers, Sequences, FiniteSets

CONSTANTS
    Panels,      \* browser tabs with the skill's chat open
    Other,       \* a client whose view is left out
    None,        \* nobody, nothing
    MaxSessions, \* bound: sessions started
    MaxTyped,    \* bound: messages typed
    MaxAsks,     \* bound: permission requests
    MaxDrops     \* bound: connections lost and restarts of the server

Clients == Panels \union {Other}
Sessions == 1..MaxSessions
Session == 0..MaxSessions    \* 0: none
MessageIds == 1..MaxTyped
AskIds == 1..MaxAsks

ASSUME PanelConstants ==
    /\ None \notin Clients \union Session
    /\ Other \notin Panels
    /\ {MaxSessions, MaxTyped, MaxAsks, MaxDrops} \subseteq Nat

\* Ids of messages and requests are counted anew in every session. A state
\* event says which session is active; those that say it of a session while
\* it lasts, after the first, are left out.
State == [type : {"state"}, active : Session]
MessageEvent == [type : {"user", "queued", "delivered"}, id : MessageIds]
Permission == [type : {"ask", "settled"}, id : AskIds]
Event == State \union MessageEvent \union Permission

\* A frame of a stream: an event with its session and its place in the
\* session's buffer, which is the SSE id; or one outside the buffer (0).
Frame == [event : Event \union {[type |-> "reset"]}, of : Session, at : Nat]

\* What a panel shows, with the session and the place it comes from (the place
\* is history: the browser keeps the id of the last frame only).
Item == [event : MessageEvent \union Permission, of : Sessions, at : Nat \ {0}]
Text == [of : Sessions, id : MessageIds]

\* restored is a flag of the panel (0: not set); whose texts it was set for is
\* history.
Panel == [active : Session, items : Seq(Item), lastId : Nat, lastOf : Session,
          restored : Session, drafts : SUBSET Text]

VARIABLES
    phase,    \* LiveChat.status of every session
    log,      \* LiveChat.events of every session
    backlog,  \* LiveChat.queue: held for the turn boundary, in send order
    steered,  \* messages sent mid-turn that may still be refused
    pending,  \* pendingPermissions
    start,    \* the start request being handled: whose, and which old session
              \* it waits for
    reply,    \* the session a panel has started, until it is told
    feed,     \* the session a panel's stream is subscribed to; None: no stream
    inbound,  \* frames on their way to each panel
    panel,
    crossed,  \* history: panels that resumed, in another session's buffer, at
              \*          the id of an event of the one before
    behind,   \* history: panels that had not seen their session to its end
              \*          when they connected again
    typed, asks, drops

server == <<phase, log, backlog, steered, pending, start>>
history == <<crossed, behind>>
counts == <<typed, asks, drops>>
panelVars == <<server, reply, feed, inbound, panel, history, counts>>

Open == {"starting", "ready", "running"}
Live == IF \E s \in Sessions : phase[s] \in Open
        THEN CHOOSE s \in Sessions : phase[s] \in Open ELSE 0

PanelTypeOK ==
    /\ phase \in [Sessions -> Open \union {"new", "closing", "over"}]
    /\ \A s, t \in Sessions : phase[s] \in Open /\ phase[t] \in Open => s = t
    /\ log \in [Sessions -> Seq(Event)]
    /\ backlog \in [Sessions -> Seq(MessageIds)]
    /\ \A s \in Sessions : phase[s] = "ready" => backlog[s] = <<>>
    /\ steered \in [Sessions -> SUBSET MessageIds]
    /\ pending \in [Sessions -> SUBSET AskIds]
    /\ start \in [by : Clients \union {None}, waits : Session]
    /\ reply \in [Panels -> Session]
    /\ feed \in [Panels -> Session \union {None}]
    /\ inbound \in [Panels -> Seq(Frame)]
    /\ panel \in [Panels -> Panel]
    /\ crossed \subseteq Panels /\ behind \subseteq Panels
    /\ typed \in 0..MaxTyped /\ asks \in 0..MaxAsks /\ drops \in 0..MaxDrops
-----------------------------------------------------------------------------
StateOf(s) == [type |-> "state", active |-> s]
Said(type, id) == [type |-> type, id |-> id]
InBuffer(s, i) == [event |-> log[s][i], of |-> s, at |-> i]
Aside(event) == [event |-> event, of |-> 0, at |-> 0]

\* What a panel shows or is sent is all that a session has said, each event
\* once and in order (0 is no place in a buffer).
Whole(track, s) ==
    LET own == {i \in 1..Len(track) : track[i].at # 0}
    IN  /\ \A i \in own : /\ track[i].of = s /\ track[i].at <= Len(log[s])
                          /\ track[i].event = log[s][track[i].at]
        /\ \A i, j \in own : i < j => track[i].at < track[j].at
        /\ \A n \in 1..Len(log[s]) :
              log[s][n].type # "state" => \E i \in own : track[i].at = n

Backlogged(s) == {backlog[s][i] : i \in 1..Len(backlog[s])}

\* broadcast: into the buffer, and to whoever is subscribed.
Broadcast(s, events) ==
    /\ log' = [log EXCEPT ![s] = @ \o events]
    /\ inbound' = [p \in Panels |->
          IF feed[p] # s THEN inbound[p]
          ELSE inbound[p] \o [i \in 1..Len(events) |->
                 [event |-> events[i], of |-> s, at |-> Len(log[s]) + i]]]

\* streamResponse: the state, then the buffer from the beginning after a
\* reset, or what follows an id that is in the buffer.
FaultResumeAt(id) == id
ResumeAt(id) == id + 1

CanResume(id) == id # 0 /\ Live # 0 /\ id <= Len(log[Live])
Frames(id) ==
    LET first == IF CanResume(id) THEN ResumeAt(id) ELSE 1
        size == IF Live = 0 THEN 0 ELSE Len(log[Live])
    IN  <<Aside(StateOf(Live))>>
        \o (IF CanResume(id) THEN <<>> ELSE <<Aside([type |-> "reset"])>>)
        \o [i \in 1..(size - first + 1) |-> InBuffer(Live, first + i - 1)]

NewPanel == [active |-> 0, items |-> <<>>, lastId |-> 0, lastOf |-> 0,
             restored |-> 0, drafts |-> {}]

\* Panels open on a skill without a session.
PanelInit ==
    /\ phase = [s \in Sessions |-> "new"]
    /\ log = [s \in Sessions |-> <<>>]
    /\ backlog = [s \in Sessions |-> <<>>]
    /\ steered = [s \in Sessions |-> {}]
    /\ pending = [s \in Sessions |-> {}]
    /\ start = [by |-> None, waits |-> 0]
    /\ reply = [p \in Panels |-> 0]
    /\ feed = [p \in Panels |-> None]
    /\ inbound = [p \in Panels |-> <<>>]
    /\ panel = [p \in Panels |-> NewPanel]
    /\ crossed = {} /\ behind = {}
    /\ typed = 0 /\ asks = 0 /\ drops = 0
-----------------------------------------------------------------------------
\* closeChat, up to its wait for the adapter: requests still pending are
\* cancelled, in the order they came.
InOrder(ids) == {q \in [1..Cardinality(ids) -> ids] :
                   \A i, j \in 1..Cardinality(ids) : i < j => q[i] < q[j]}

CloseChat(s) ==
    /\ phase' = [phase EXCEPT ![s] = "closing"]
    /\ \E q \in InOrder(pending[s]) :
          Broadcast(s, [i \in 1..Cardinality(pending[s]) |-> Said("settled", q[i])])
    /\ pending' = [pending EXCEPT ![s] = {}]
    /\ steered' = [steered EXCEPT ![s] = {}]
    /\ UNCHANGED backlog

\* startSession: when nothing is live at once, and when what is live is ready
\* once that is closed.
Unused(s) == phase[s] = "new" /\ \A t \in Sessions : phase[t] = "new" => s <= t

NewChat ==
    /\ \E s \in Sessions :
          /\ Unused(s)
          /\ phase' = [phase EXCEPT ![s] = "starting"]
          /\ Broadcast(s, <<StateOf(s)>>)
    /\ UNCHANGED <<backlog, steered, pending>>

Start(c) ==
    /\ start.by = None
    /\ \E s \in Sessions : Unused(s)
    /\ start' = [by |-> c, waits |-> Live]
    /\ \/ Live = 0 /\ NewChat
       \/ Live # 0 /\ phase[Live] = "ready" /\ CloseChat(Live)
    /\ UNCHANGED <<reply, feed, panel, history, counts>>

Install ==
    /\ start.waits # 0
    /\ phase[start.waits] = "over"
    /\ start' = [start EXCEPT !.waits = 0]
    /\ NewChat
    /\ UNCHANGED <<reply, feed, panel, history, counts>>

\* queue.shift, and the bubble's resolution.
FaultSayAgain(id) == Said("user", id)
Delivered(id) == Said("delivered", id)

\* What is held for the turn boundary, also for the one at the end of a start
\* (pumpQueue).
FaultOnlyAfterTurns(s) == IF phase[s] = "running" THEN backlog[s] ELSE <<>>
ToFlush(s) == backlog[s]

Flush(s) ==
    IF ToFlush(s) = <<>>
    THEN /\ phase' = [phase EXCEPT ![s] = "ready"]
         /\ UNCHANGED <<log, backlog, inbound>>
    ELSE /\ phase' = [phase EXCEPT ![s] = "running"]
         /\ Broadcast(s, <<Delivered(Head(backlog[s]))>>)
         /\ backlog' = [backlog EXCEPT ![s] = Tail(@)]

\* The orientation opening is a turn (its bubble, without an id, is left out).
Established ==
    /\ Live # 0 /\ phase[Live] = "starting"
    /\ \/ Flush(Live)
       \/ /\ phase' = [phase EXCEPT ![Live] = "running"]
          /\ UNCHANGED <<log, backlog, inbound>>
    /\ reply' = [p \in Panels |-> IF p = start.by THEN Live ELSE reply[p]]
    /\ start' = [by |-> None, waits |-> 0]
    /\ UNCHANGED <<steered, pending, feed, panel, history, counts>>

\* The adapter cannot be started; the answer leaves the panel as it is.
StartFails ==
    /\ Live # 0 /\ phase[Live] = "starting"
    /\ phase' = [phase EXCEPT ![Live] = "over"]
    /\ Broadcast(Live, <<StateOf(0)>>)
    /\ start' = [by |-> None, waits |-> 0]
    /\ UNCHANGED <<backlog, steered, pending, reply, feed, panel, history,
                   counts>>

\* Ended by a request, for being idle, or with its adapter.
End ==
    /\ Live # 0 /\ phase[Live] # "starting"
    /\ CloseChat(Live)
    /\ UNCHANGED <<start, reply, feed, panel, history, counts>>

\* The adapter is gone: what is told then is the state as it is by now.
Closed(s) ==
    /\ phase[s] = "closing"
    /\ phase' = [phase EXCEPT ![s] = "over"]
    /\ Broadcast(s, <<StateOf(Live)>>)
    /\ UNCHANGED <<backlog, steered, pending, start, reply, feed, panel,
                   history, counts>>

\* sendMessage: queued during a start and behind others, a turn of its own
\* when there is none, and else steered. The composer is enabled whenever the
\* panel shows a session.
Messages(s) == {i \in 1..Len(log[s]) : log[s][i].type \in {"user", "queued"}}

Send(c) ==
    /\ typed < MaxTyped
    /\ typed' = typed + 1
    /\ c \in Panels => panel[c].active # 0
    /\ Live # 0
    /\ LET s == Live
           id == Cardinality(Messages(s)) + 1
       IN  \/ /\ phase[s] = "starting" \/ backlog[s] # <<>>
              /\ Broadcast(s, <<Said("queued", id)>>)
              /\ backlog' = [backlog EXCEPT ![s] = Append(@, id)]
              /\ UNCHANGED <<phase, steered>>
           \/ /\ phase[s] = "ready"
              /\ Broadcast(s, <<Said("user", id)>>)
              /\ phase' = [phase EXCEPT ![s] = "running"]
              /\ UNCHANGED <<backlog, steered>>
           \/ /\ phase[s] = "running" /\ backlog[s] = <<>>
              /\ Broadcast(s, <<Said("user", id)>>)
              /\ steered' = [steered EXCEPT ![s] = @ \union {id}]
              /\ UNCHANGED <<phase, backlog>>
    /\ UNCHANGED <<pending, start, reply, feed, panel, history, asks, drops>>

TurnEnds ==
    /\ Live # 0 /\ phase[Live] = "running"
    /\ Flush(Live)
    /\ UNCHANGED <<steered, pending, start, reply, feed, panel, history,
                   counts>>

\* A refused steer goes to its place in the queue; its bubble was sent as one
\* that is delivered, and stays that.
PutBack(q, id) ==
    {SubSeq(q, 1, i) \o <<id>> \o SubSeq(q, i + 1, Len(q)) :
       i \in {n \in 0..Len(q) : /\ \A k \in 1..n : q[k] < id
                                /\ \A k \in (n + 1)..Len(q) : id < q[k]}}

SteerReturns ==
    /\ Live # 0
    /\ \E id \in steered[Live] :
          /\ steered' = [steered EXCEPT ![Live] = @ \ {id}]
          /\ \/ /\ phase[Live] = "running"
                /\ \E q \in PutBack(backlog[Live], id) :
                      backlog' = [backlog EXCEPT ![Live] = q]
                /\ UNCHANGED <<phase, log, inbound>>
             \/ /\ phase[Live] = "ready"
                /\ phase' = [phase EXCEPT ![Live] = "running"]
                /\ Broadcast(Live, <<Delivered(id)>>)
                /\ UNCHANGED backlog
    /\ UNCHANGED <<pending, start, reply, feed, panel, history, counts>>

\* askPermission: also while the session closes.
Asked(s) == Cardinality({i \in 1..Len(log[s]) : log[s][i].type = "ask"})

Ask(s) ==
    /\ asks < MaxAsks
    /\ asks' = asks + 1
    /\ phase[s] \in {"running", "closing"}
    /\ LET id == Asked(s) + 1
       IN  /\ Broadcast(s, <<Said("ask", id)>>)
           /\ pending' = [pending EXCEPT ![s] = @ \union {id}]
    /\ UNCHANGED <<phase, backlog, steered, start, reply, feed, panel,
                   history, typed, drops>>

\* chatItemsFromEvents: a resolution goes to the last item that came with its
\* id.
Opening == [settled |-> {"ask"}, delivered |-> {"user", "queued"}]
Resolved(items, i, how) ==
    \E j \in (i + 1)..Len(items) :
        /\ items[j].event = Said(how, items[i].event.id)
        /\ \A k \in (i + 1)..(j - 1) :
              items[k].event.type \in Opening[how] =>
                  items[k].event.id # items[i].event.id

Cards(items) == {i \in 1..Len(items) : /\ items[i].event.type = "ask"
                                       /\ ~Resolved(items, i, "settled")}
Bubbles(items) == {i \in 1..Len(items) : /\ items[i].event.type = "queued"
                                         /\ ~Resolved(items, i, "delivered")}

\* answerPermission: a click on a card, looked up by its id in what is live.
Ids(items, which) == {items[i].event.id : i \in which}
Answerable(c) == IF c \in Panels THEN Ids(panel[c].items, Cards(panel[c].items))
                 ELSE AskIds

Answer(c) ==
    /\ Live # 0
    /\ \E id \in pending[Live] \intersect Answerable(c) :
          /\ Broadcast(Live, <<Said("settled", id)>>)
          /\ pending' = [pending EXCEPT ![Live] = @ \ {id}]
    /\ UNCHANGED <<phase, backlog, steered, start, reply, feed, panel,
                   history, counts>>
-----------------------------------------------------------------------------
\* Once a session is lost, and until there is one again, the texts of the
\* pending bubbles go back to the composer, once.
FaultEveryBubble(items) == {i \in 1..Len(items) : items[i].event.type = "queued"}
ToRestore(items) == Bubbles(items)

Rendered(r) ==
    IF r.active # 0 THEN [r EXCEPT !.restored = 0]
    ELSE IF r.restored # 0 \/ ToRestore(r.items) = {} THEN r
    ELSE [r EXCEPT !.restored = r.items[1].of,
                   !.drafts = @ \union {[of |-> r.items[i].of, id |-> r.items[i].event.id] :
                                         i \in ToRestore(r.items)}]

\* onMessage and reconcileChatStreamEvent; the browser keeps the last id.
Taken(r, f) ==
    LET kept == IF f.at = 0 THEN r
                ELSE [r EXCEPT !.lastId = f.at, !.lastOf = f.of]
    IN  CASE f.event.type = "state" -> [kept EXCEPT !.active = f.event.active]
          [] f.event.type = "reset" -> [kept EXCEPT !.items = <<>>]
          [] OTHER -> [kept EXCEPT !.items = Append(@, f)]

\* Frames that come in together may be rendered together.
Receive(p) ==
    /\ inbound[p] # <<>>
    /\ LET taken == Taken(panel[p], Head(inbound[p]))
       IN  \/ panel' = [panel EXCEPT ![p] = Rendered(taken)]
           \/ Len(inbound[p]) > 1 /\ panel' = [panel EXCEPT ![p] = taken]
    /\ inbound' = [inbound EXCEPT ![p] = Tail(@)]
    /\ UNCHANGED <<server, reply, feed, history, counts>>

\* The stream opens with the panel, and again when its connection was lost.
Missed(p) ==
    /\ panel[p].items # <<>>
    /\ LET s == panel[p].items[1].of
       IN  s # Live /\ ~Whole(panel[p].items, s)

Connect(p) ==
    /\ feed[p] = None
    /\ feed' = [feed EXCEPT ![p] = Live]
    /\ inbound' = [inbound EXCEPT ![p] = Frames(panel[p].lastId)]
    /\ crossed' = IF CanResume(panel[p].lastId) /\ panel[p].lastOf # Live
                  THEN crossed \union {p} ELSE crossed
    /\ behind' = IF Missed(p) THEN behind \union {p} ELSE behind
    /\ UNCHANGED <<server, reply, panel, counts>>

\* A start has succeeded: its panel leaves its stream for a new one, which
\* knows of no id.
FaultWhenUnsubscribed(p) == reply[p] # 0 /\ feed[p] \notin Sessions
Told(p) == reply[p] # 0

Reopen(p) ==
    /\ Told(p)
    /\ reply' = [reply EXCEPT ![p] = 0]
    /\ panel' = [panel EXCEPT ![p].lastId = 0, ![p].lastOf = 0]
    /\ feed' = [feed EXCEPT ![p] = None]
    /\ inbound' = [inbound EXCEPT ![p] = <<>>]
    /\ UNCHANGED <<server, history, counts>>

\* A connection is lost, with what was on its way.
Drop(p) ==
    /\ drops < MaxDrops
    /\ drops' = drops + 1
    /\ feed[p] # None
    /\ feed' = [feed EXCEPT ![p] = None]
    /\ inbound' = [inbound EXCEPT ![p] = <<>>]
    /\ UNCHANGED <<server, reply, panel, history, typed, asks>>

\* The server restarts: sessions, buffers and queues were in its memory.
Restart ==
    /\ drops < MaxDrops
    /\ drops' = drops + 1
    /\ phase' = [s \in Sessions |-> IF phase[s] = "new" THEN "new" ELSE "over"]
    /\ steered' = [s \in Sessions |-> {}]
    /\ pending' = [s \in Sessions |-> {}]
    /\ start' = [by |-> None, waits |-> 0]
    /\ reply' = [p \in Panels |-> 0]
    /\ feed' = [p \in Panels |-> None]
    /\ inbound' = [p \in Panels |-> <<>>]
    /\ UNCHANGED <<log, backlog, panel, history, typed, asks>>

PanelStep(p) == Receive(p) \/ Connect(p) \/ Reopen(p)

PanelNext ==
    \/ Install \/ Established \/ StartFails \/ End \/ TurnEnds \/ SteerReturns
    \/ Restart
    \/ \E s \in Sessions : Closed(s) \/ Ask(s)
    \/ \E c \in Clients : Start(c) \/ Send(c) \/ Answer(c)
    \/ \E p \in Panels : PanelStep(p) \/ Drop(p)

\* The browser connects again, frames and answers arrive. Nothing makes a
\* user type or an agent answer.
PanelFairness == \A p \in Panels : WF_panelVars(PanelStep(p))

PanelSpec == PanelInit /\ [][PanelNext]_panelVars /\ PanelFairness
-----------------------------------------------------------------------------
\* What a panel shows, with what is on its way to it, is all that its session
\* has said, each event once and in order, however often the connection was
\* lost: "an ordinary reconnect" replays "only the disconnected suffix" --
\* unless the panel resumed in the buffer of another session.
IsReset(f) == f.event.type = "reset"
Shown(p) ==
    IF \E i \in 1..Len(inbound[p]) : IsReset(inbound[p][i])
    THEN LET last == CHOOSE i \in 1..Len(inbound[p]) :
                       /\ IsReset(inbound[p][i])
                       /\ \A j \in (i + 1)..Len(inbound[p]) : ~IsReset(inbound[p][j])
         IN  SubSeq(inbound[p], last + 1, Len(inbound[p]))
    ELSE panel[p].items \o inbound[p]

StreamIsWhole ==
    \A p \in Panels \ crossed : feed[p] \in Sessions => Whole(Shown(p), feed[p])

\* A panel that streams from the live session and has it all shows what the
\* server has: that session, a card for every pending request and for no
\* other, and a pending bubble for every message that waits for the turn
\* boundary -- but those that were shown as sent, refused by the agent, and
\* put back into the queue.
SaidQueued(s) == {id \in MessageIds : \E i \in 1..Len(log[s]) :
                                         log[s][i] = Said("queued", id)}

CaughtUpPanelIsRight ==
    \A p \in Panels \ crossed :
        feed[p] = Live /\ Live # 0 /\ inbound[p] = <<>> =>
            LET items == panel[p].items
            IN  /\ panel[p].active = Live
                /\ Ids(items, Cards(items)) = pending[Live]
                /\ Ids(items, Bubbles(items)) =
                      SaidQueued(Live) \intersect Backlogged(Live)

\* "If the session dies while messages are still queued, their text returns
\* to the composer": what is restored is text of a session that was lost and
\* had not been handed over; and a panel that followed the session to its end
\* has restored all of it that it showed as pending, unless the next session
\* was there by then, or it restored those of another one and has not rendered
\* with a session since.
DraftsAreTheUndelivered ==
    \A p \in Panels \ (crossed \union behind) :
        /\ \A d \in panel[p].drafts :
              /\ phase[d.of] \in {"closing", "over"}
              /\ d.id \in Backlogged(d.of)
        /\ \A s \in Sessions :
              /\ feed[p] = s /\ inbound[p] = <<>> /\ phase[s] = "over"
              /\ log[s][Len(log[s])] = StateOf(0) /\ panel[p].restored \in {0, s}
              => \A id \in SaidQueued(s) \intersect Backlogged(s) :
                    [of |-> s, id |-> id] \in panel[p].drafts

\* What a panel shows and restores is what happened: the transcript, the cards,
\* the pending bubbles and the drafts.
PanelIsRight == StreamIsWhole /\ CaughtUpPanelIsRight /\ DraftsAreTheUndelivered

\* The panel that starts a session comes to show it, whatever stream it had
\* before and however often that is lost, as long as the session lasts.
StarterSeesSession ==
    \A p \in Panels, s \in Sessions :
        reply[p] = s ~> \/ phase[s] \notin Open
                        \/ feed[p] = s /\ panel[p].active = s
=============================================================================
