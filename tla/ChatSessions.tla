---------------------------- MODULE ChatSessions ----------------------------
(***************************************************************************)
(* The sessions of one skill in ChatSessionManager                         *)
(* (packages/cli/src/server/ChatSessions.ts): how a chat is started,       *)
(* replaced, resumed, ended, reaped and lost with the server, and what     *)
(* that does to the adapter process it owns and to the two files kept      *)
(* under .skillmaker/ (chat-sessions.json and chat-live.json).             *)
(*                                                                         *)
(* The manager keeps skills apart by the key of `live`, so one skill is    *)
(* enough.  A call of startSession and the LiveChat it creates share an    *)
(* identity.  startSession waits twice -- for the old session to close and *)
(* for the new adapter to be established -- and other handlers run in      *)
(* between.  What a turn does inside is ChatTurns; here it is outstanding  *)
(* or not.  Of the models a user may choose from it matters only that the  *)
(* adapter may refuse one; a user who chooses none gets Default, whatever  *)
(* the adapter runs by itself.  The effort goes with the model.            *)
(***************************************************************************)
EXTENDS Integers

CONSTANTS
    MaxChats,   \* bound: startSession calls
    Providers,  \* configured providers
    Models      \* model ids a user may choose

ASSUME ConstantsAssumption ==
    /\ MaxChats \in Nat
    /\ Providers # {}
    /\ "default" \notin Models

Chat == 1..MaxChats
None == 0
Default == "default"
AnyProvider == CHOOSE p \in Providers : TRUE
Model == Models \union {Default}

\* What chat-sessions.json holds per provider.
Records == [session : Chat \union {None}, model : Model]
NoRecord == [session |-> None, model |-> Default]

VARIABLES
    live,      \* this.live.get(skill), or None
    call,      \* where each startSession call is
    mode,      \* what a call that waits was asked for
    provider,  \* LiveChat.provider
    waitsFor,  \* the old session a call waits to see closed, or None
    resumes,   \* resumeSessionId of each call, or None
    status,    \* LiveChat.status
    handle,    \* chats whose driver handle is set
    session,   \* handle.sessionId of each chat, named for the chat it began in
    model,     \* LiveChat.modelId: the model each chat says it runs on
    runsOn,    \* the model the adapter of each chat runs on
    changing,  \* the models asked of each adapter by setModel, unanswered
    turn,      \* chats with an outstanding turn
    closing,   \* chats whose handle.close() was called, until the process is gone
    proc,      \* the adapter process of each chat
    pids,      \* chat-live.json: the chats whose adapter pid it holds
    store,     \* chat-sessions.json: the record of each provider
    lost,      \* history: chats that left `live` with nobody closing a handle,
               \* until the process is gone
    stray      \* history: was the record of a provider last written for a chat
               \* that was lost or closing?

vars == <<live, call, mode, provider, waitsFor, resumes, status, handle,
          session, model, runsOn, changing, turn, closing, proc, pids, store,
          lost, stray>>
request == <<mode, provider, waitsFor>>
models == <<model, runsOn, changing>>

TypeOK ==
    /\ live \in Chat \union {None}
    /\ call \in [Chat -> {"idle", "closingOld", "establishing", "returned"}]
    /\ mode \in [Chat -> {"new", "resume"}]
    /\ provider \in [Chat -> Providers]
    /\ waitsFor \in [Chat -> Chat \union {None}]
    /\ resumes \in [Chat -> Chat \union {None}]
    /\ status \in [Chat -> {"starting", "ready", "running"}]
    /\ handle \in SUBSET Chat
    /\ session \in [Chat -> Chat \union {None}]
    /\ model \in [Chat -> Model]
    /\ runsOn \in [Chat -> Model]
    /\ changing \in [Chat -> SUBSET Models]
    /\ turn \in SUBSET Chat
    /\ closing \in SUBSET Chat
    /\ proc \in [Chat -> {"none", "up", "orphaned"}]
    /\ pids \in SUBSET Chat
    /\ store \in [Providers -> Records]
    /\ lost \in SUBSET Chat
    /\ stray \in [Providers -> BOOLEAN]

Init ==
    /\ live = None
    /\ call = [c \in Chat |-> "idle"]
    /\ mode = [c \in Chat |-> "new"]
    /\ provider = [c \in Chat |-> AnyProvider]
    /\ waitsFor = [c \in Chat |-> None]
    /\ resumes = [c \in Chat |-> None]
    /\ status = [c \in Chat |-> "starting"]
    /\ handle = {}
    /\ session = [c \in Chat |-> None]
    /\ model = [c \in Chat |-> Default]
    /\ runsOn = [c \in Chat |-> Default]
    /\ changing = [c \in Chat |-> {}]
    /\ turn = {}
    /\ closing = {}
    /\ proc = [c \in Chat |-> "none"]
    /\ pids = {}
    /\ store = [p \in Providers |-> NoRecord]
    /\ lost = {}
    /\ stray = [p \in Providers |-> FALSE]
-----------------------------------------------------------------------------
\* The 409 of startSession.
Conflict == live # None /\ status[live] \in {"starting", "running"}

\* persistLiveAdapters: the pids of the chats in `live` that have a handle.
FaultNobody(liveNow, handles) == {}
FaultAnyLive(liveNow, handles) == {liveNow}
LiveAdapters(liveNow, handles) == {liveNow} \intersect handles

\* closeChat up to its await: out of `live`, and the handle's close() called.
\* Without a handle there is nothing to wait for and the rest follows; the
\* adapter still being established is then lost to the manager.
FaultOnlyForget(c) ==
    /\ live' = None
    /\ pids' = LiveAdapters(None, handle)
    /\ UNCHANGED <<closing, lost>>
CloseChat(c) ==
    /\ live' = None
    /\ \/ /\ c \in handle
          /\ closing' = closing \union {c}
          /\ UNCHANGED <<pids, lost>>
       \/ /\ c \notin handle
          /\ pids' = LiveAdapters(None, handle)
          /\ lost' = lost \union {c}
          /\ UNCHANGED closing

\* An adapter's process ends: the requests pending at it are rejected, which
\* changes nothing in a chat that is not live any more, and nobody looks at the
\* chat again: what it was is forgotten. (Its model is the caller's to forget.)
Reject(c) ==
    /\ turn' = turn \ {c}
    /\ changing' = [changing EXCEPT ![c] = {}]
    /\ runsOn' = [runsOn EXCEPT ![c] = Default]
    /\ handle' = handle \ {c}
    /\ status' = [status EXCEPT ![c] = "starting"]
    /\ session' = [session EXCEPT ![c] = None]
    /\ provider' = [provider EXCEPT ![c] = AnyProvider]

\* startSession between its two awaits: a resume needs a recorded session
\* (400 otherwise); then the chat goes into `live` and its adapter is spawned,
\* to run on the model chosen with the call or, on a resume without a choice,
\* on the recorded one. A chat that another call installed meanwhile is
\* overwritten, with nobody closing it.
Install(c, procs, kept, m, p) ==
    LET recorded == store[p]
    IN  \/ /\ m = "resume" /\ recorded.session = None
           /\ call' = [call EXCEPT ![c] = "returned"]
           /\ proc' = procs
           /\ model' = kept
           /\ UNCHANGED <<live, resumes, lost>>
        \/ /\ m = "new" \/ recorded.session # None
           /\ call' = [call EXCEPT ![c] = "establishing"]
           /\ live' = c
           /\ lost' = lost \union ({live} \ {None})
           /\ proc' = [procs EXCEPT ![c] = "up"]
           /\ resumes' = IF m = "resume"
                         THEN [resumes EXCEPT ![c] = recorded.session]
                         ELSE resumes
           /\ \E choice \in Model :
                 model' = [kept EXCEPT ![c] =
                               IF m = "resume" /\ choice = Default
                               THEN recorded.model ELSE choice]

\* recordSession: what a later resume on the chat's provider will reopen.
RecordSession(c, s, m) ==
    /\ store' = [store EXCEPT ![provider[c]] = [session |-> s, model |-> m]]
    /\ stray' = [stray EXCEPT ![provider[c]] = c \in closing \union lost]

\* startSession up to its first await. Calls are numbered in arrival order.
StartSession(c) ==
    /\ call[c] = "idle"
    /\ \A d \in Chat : d < c => call[d] # "idle"
    /\ ~Conflict
    /\ \E m \in {"new", "resume"}, p \in Providers :
          /\ provider' = [provider EXCEPT ![c] = p]
          /\ \/ /\ live = None
                /\ Install(c, proc, model, m, p)
                /\ UNCHANGED <<mode, waitsFor, closing, pids>>
             \/ /\ live # None
                /\ CloseChat(live)
                /\ call' = [call EXCEPT ![c] = "closingOld"]
                /\ mode' = [mode EXCEPT ![c] = m]
                /\ waitsFor' = [waitsFor EXCEPT ![c] = live]
                /\ UNCHANGED <<resumes, proc, model>>
    /\ UNCHANGED <<status, handle, session, runsOn, changing, turn, store,
                   stray>>

\* handle.close() came back (the process left by itself or was killed after
\* three seconds): its pending requests are rejected, the pids are rewritten,
\* and a call waiting for it goes on.
CloseCompletes(c) ==
    /\ c \in closing
    /\ proc[c] = "up"
    /\ pids' = LiveAdapters(live, handle)
    /\ LET procs == [proc EXCEPT ![c] = "none"]
           kept == [model EXCEPT ![c] = Default]
           waiting == {d \in Chat : call[d] = "closingOld" /\ waitsFor[d] = c}
       IN  \/ /\ waiting = {}
              /\ proc' = procs
              /\ model' = kept
              /\ UNCHANGED <<live, call, mode, waitsFor, resumes, lost>>
           \/ \E d \in waiting :
                 /\ Install(d, procs, kept, mode[d], provider[d])
                 /\ mode' = [mode EXCEPT ![d] = "new"]
                 /\ waitsFor' = [waitsFor EXCEPT ![d] = None]
    /\ closing' = closing \ {c}
    /\ Reject(c)
    /\ UNCHANGED <<store, stray>>

\* The chosen model was applied when the session opened, or refused: the
\* session runs on the adapter's default, and says so.
FaultKeepChoice(c) ==
    {[says |-> model[c], runs |-> m] : m \in {model[c], Default}}
Opened(c) == {[says |-> m, runs |-> m] : m \in {model[c], Default}}

\* startChatSession resolved, with the resumed session or a fresh one. The
\* chat is not asked for in `live` again. An orientation turn or a message
\* queued meanwhile makes it running at once.
EstablishSucceeds(c) ==
    /\ call[c] = "establishing"
    /\ proc[c] = "up"
    /\ call' = [call EXCEPT ![c] = "returned"]
    /\ handle' = handle \union {c}
    /\ \E s \in {c, resumes[c]} \ {None}, opened \in Opened(c) :
          /\ session' = [session EXCEPT ![c] = s]
          /\ model' = [model EXCEPT ![c] = opened.says]
          /\ runsOn' = [runsOn EXCEPT ![c] = opened.runs]
          /\ RecordSession(c, s, opened.says)
    /\ resumes' = [resumes EXCEPT ![c] = None]
    /\ pids' = LiveAdapters(live, handle')
    /\ \/ /\ status' = [status EXCEPT ![c] = "ready"]
          /\ UNCHANGED turn
       \/ /\ status' = [status EXCEPT ![c] = "running"]
          /\ turn' = turn \union {c}
    /\ UNCHANGED <<live, request, changing, closing, proc, lost>>

\* startChatSession failed and has closed its client: this.live.delete(skill),
\* whichever chat is there by now.
EstablishFails(c) ==
    /\ call[c] = "establishing"
    /\ call' = [call EXCEPT ![c] = "returned"]
    /\ proc' = [proc EXCEPT ![c] = "none"]
    /\ live' = None
    /\ lost' = (lost \union {live}) \ {c, None}
    /\ resumes' = [resumes EXCEPT ![c] = None]
    /\ UNCHANGED <<request, status, handle, session, models, turn, closing, pids,
                   store, stray>>

\* The adapter of a chat nobody closed died, and the requests pending at it are
\* rejected: onAdapterExit closes the chat if it is the live one.
AdapterExits(c) ==
    /\ proc[c] = "up"
    /\ c \notin closing
    /\ proc' = [proc EXCEPT ![c] = "none"]
    /\ \/ /\ live = c
          /\ live' = None
          /\ pids' = LiveAdapters(None, handle)
       \/ /\ live # c
          /\ UNCHANGED <<live, pids>>
    /\ model' = [model EXCEPT ![c] = Default]
    /\ Reject(c)
    /\ lost' = lost \ {c}
    /\ UNCHANGED <<call, mode, waitsFor, resumes, closing, store, stray>>

\* dispatchTurn on the live chat, from idle.
TurnStarts(c) ==
    /\ live = c
    /\ status[c] = "ready"
    /\ status' = [status EXCEPT ![c] = "running"]
    /\ turn' = turn \union {c}
    /\ UNCHANGED <<live, call, request, resumes, handle, session, models,
                   closing, proc, pids, store, lost, stray>>

\* The turn settled. An answer re-records the session, also when its adapter
\* was told to exit or lost meanwhile; finishTurn then leaves a chat that is
\* no longer live as it is.
TurnEnds(c) ==
    /\ c \in turn
    /\ turn' = turn \ {c}
    /\ \/ /\ proc[c] = "up"
          /\ RecordSession(c, session[c], model[c])
       \/ UNCHANGED <<store, stray>>
    /\ status' = IF live = c THEN [status EXCEPT ![c] = "ready"] ELSE status
    /\ UNCHANGED <<live, call, request, resumes, handle, session, models,
                   closing, proc, pids, lost>>

\* setModel up to its await: between turns of an established session.
SetModel(m) ==
    /\ live \in handle
    /\ status[live] = "ready"
    /\ changing' = [changing EXCEPT ![live] = @ \union {m}]
    /\ UNCHANGED <<live, call, request, status, handle, resumes, session, model,
                   runsOn, turn, closing, proc, pids, store, lost, stray>>

\* The adapter switched, and chat and record are told, whatever became of the
\* chat meanwhile; or it refused (502).
FaultRecordOnly(c, m) ==
    /\ runsOn' = [runsOn EXCEPT ![c] = m]
    /\ RecordSession(c, session[c], m)
    /\ UNCHANGED model
Switch(c, m) ==
    /\ runsOn' = [runsOn EXCEPT ![c] = m]
    /\ model' = [model EXCEPT ![c] = m]
    /\ RecordSession(c, session[c], m)
SetModelAnswered(c, m) ==
    /\ m \in changing[c]
    /\ changing' = [changing EXCEPT ![c] = @ \ {m}]
    /\ \/ Switch(c, m)
       \/ UNCHANGED <<model, runsOn, store, stray>>
    /\ UNCHANGED <<live, call, request, status, handle, resumes, session, turn,
                   closing, proc, pids, lost>>

\* The panel's "end session", or the server's stop().
EndSession ==
    /\ live # None
    /\ CloseChat(live)
    /\ UNCHANGED <<call, request, resumes, status, handle, session, models, turn,
                   proc, store, stray>>

\* reapIdle: only a session between turns is idle.
ReapIdle ==
    /\ live # None
    /\ status[live] = "ready"
    /\ CloseChat(live)
    /\ UNCHANGED <<call, request, resumes, status, handle, session, models, turn,
                   proc, store, stray>>

\* The server dies, at any time and as often as it will, taking its memory and
\* its pending calls with it, and its successor terminates the adapters
\* chat-live.json names (cleanupOrphans).
Reclaimed == pids
CrashAndRestart ==
    /\ live' = None
    /\ call' = [c \in Chat |-> IF call[c] = "idle" THEN "idle" ELSE "returned"]
    /\ handle' = {}
    /\ turn' = {}
    /\ runsOn' = [c \in Chat |-> Default]
    /\ changing' = [c \in Chat |-> {}]
    /\ proc' = [c \in Chat |->
                    IF proc[c] # "up" THEN proc[c]
                    ELSE IF c \in Reclaimed THEN "none" ELSE "orphaned"]
    /\ session' = [c \in Chat |-> IF c \in Reclaimed THEN None ELSE session[c]]
    /\ closing' = closing \ Reclaimed
    /\ lost' = lost \ Reclaimed
    /\ pids' = {}
    /\ mode' = [c \in Chat |-> "new"]
    /\ provider' = [c \in Chat |-> AnyProvider]
    /\ waitsFor' = [c \in Chat |-> None]
    /\ resumes' = [c \in Chat |-> None]
    /\ status' = [c \in Chat |-> "starting"]
    /\ model' = [c \in Chat |-> Default]
    /\ UNCHANGED <<store, stray>>

Next ==
    \/ \E c \in Chat :
          \/ StartSession(c)
          \/ CloseCompletes(c)
          \/ EstablishSucceeds(c)
          \/ EstablishFails(c)
          \/ AdapterExits(c)
          \/ TurnStarts(c)
          \/ TurnEnds(c)
          \/ \E m \in Models : SetModelAnswered(c, m)
    \/ \E m \in Models : SetModel(m)
    \/ EndSession
    \/ ReapIdle
    \/ CrashAndRestart

Spec == Init /\ [][Next]_vars

\* close() gives the process three seconds and then kills it; nothing else is
\* certain to happen (establishing an adapter has no timeout).
Fairness == \A c \in Chat : WF_vars(CloseCompletes(c))

FairSpec == Spec /\ Fairness
-----------------------------------------------------------------------------
\* "One long-lived ACP session per skill": of the sessions this server has
\* established, at most one has an adapter running that nobody told to exit --
\* but for the lost ones: a session ended while it was starting, overwritten by
\* a start that had waited, or forgotten when another start failed.
OneSessionPerSkill ==
    \A c, d \in handle \ (closing \union lost) :
        proc[c] = "up" /\ proc[d] = "up" => c = d

\* A crash leaves behind only adapters that were still being established, had
\* been told to exit or were lost: chat-live.json names every other one, so
\* the next server reclaims it.
EstablishedAdaptersReclaimed ==
    \A c \in Chat : proc[c] = "orphaned" =>
        session[c] = None \/ c \in closing \union lost

\* No adapter runs that nobody needs or nobody knows of.
AdaptersAreAccounted == OneSessionPerSkill /\ EstablishedAdaptersReclaimed

\* A resume after the live session would reopen that very conversation, on the
\* model it names, unless an adapter that was lost or told to exit has answered
\* since and put its own session on the record; and a model the user chose that
\* the session names is the one its adapter runs on, through fallbacks, resumes
\* and changes between turns.
LiveIsResumable ==
    live \in handle =>
        /\ \/ store[provider[live]] = [session |-> session[live], model |-> model[live]]
           \/ stray[provider[live]]
        /\ model[live] \in {Default, runsOn[live]}

\* What the server knows of its sessions -- its handles and both files --
\* matches the processes that run, but for the named exceptions.
SessionsAreKept == AdaptersAreAccounted /\ LiveIsResumable

\* Sessions that have left `live` and whose adapter process is still there. A
\* lost one may stay for ever.
LeftOver == {c \in handle \ lost : live # c /\ proc[c] = "up"}

\* Once sessions have left `live`, their adapter processes go away, all of them.
EndedAdapterExits == LeftOver # {} ~> LeftOver = {}
=============================================================================
