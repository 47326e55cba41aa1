------------------------- MODULE ChatSessionsProofs -------------------------
(***************************************************************************)
(* Proofs about ChatSessions, for any number of starts and crashes, any    *)
(* providers and models, and however starts, ends and late answers overlap:*)
(* its type invariant, and that what the server knows of its sessions      *)
(* matches the processes that run, but for the sessions and records the    *)
(* histories `lost` and `stray` name.                                      *)
(***************************************************************************)
EXTENDS ChatSessions, TLAPS

\* A chat whose start has not returned has nothing yet but, while it is being
\* established, a process.
StartsInv ==
    /\ \A c \in Chat : call[c] # "returned" =>
          /\ status[c] = "starting" /\ session[c] = None
          /\ c \notin handle /\ c \notin closing
    /\ \A c \in Chat : call[c] \in {"idle", "closingOld"} =>
          proc[c] = "none" /\ c \notin lost

\* The live chat is being established, or it is established and both files may
\* be asked about it.
LiveInv ==
    live # None =>
        /\ proc[live] = "up" /\ live \notin closing \union lost
        /\ \/ call[live] = "establishing"
           \/ call[live] = "returned" /\ live \in handle /\ live \in pids

\* Every adapter this server has started is accounted for: it is the live one,
\* it was told to exit, or it was lost.
LeftInv ==
    \A c \in Chat : proc[c] = "up" => live = c \/ c \in closing \union lost

\* What is asked of an adapter is asked by an established chat.
HandleInv ==
    /\ turn \subseteq handle
    /\ \A c \in Chat : changing[c] # {} => c \in handle /\ proc[c] = "up"

\* An adapter that a crash has left behind is nobody's.
OrphanInv ==
    \A c \in Chat : proc[c] = "orphaned" =>
        /\ call[c] = "returned"
        /\ session[c] = None \/ c \in closing \union lost

\* What each step keeps of the sessions.
SessionsKept ==
    StartsInv /\ LiveInv /\ LeftInv /\ HandleInv /\ OrphanInv /\ LiveIsResumable

SessionsInv == TypeOK /\ SessionsKept

-----------------------------------------------------------------------------
\* No chat is called none.
LEMMA ChatIsNumber == Chat \subseteq Nat /\ None \notin Chat
BY ConstantsAssumption DEF Chat, None

\* Some provider is configured.
LEMMA AProvider == AnyProvider \in Providers
BY ConstantsAssumption DEF AnyProvider

\* The types, action by action: what a start installs, ...
LEMMA InstallType ==
    ASSUME TypeOK, NEW c \in Chat,
           NEW procs \in [Chat -> {"none", "up", "orphaned"}],
           NEW kept \in [Chat -> Model],
           NEW m \in {"new", "resume"}, NEW p \in Providers,
           Install(c, procs, kept, m, p)
    PROVE  /\ live' \in Chat \union {None}
           /\ call' \in [Chat -> {"idle", "closingOld", "establishing", "returned"}]
           /\ proc' \in [Chat -> {"none", "up", "orphaned"}]
           /\ resumes' \in [Chat -> Chat \union {None}]
           /\ model' \in [Chat -> Model]
           /\ lost' \in SUBSET Chat
<1>1. store[p] \in Records /\ store[p].session \in Chat \union {None} /\ store[p].model \in Model
  BY DEF TypeOK, Records
<1>2. CASE m = "resume" /\ store[p].session = None /\ UNCHANGED <<live, resumes, lost>>
           /\ call' = [call EXCEPT ![c] = "returned"] /\ proc' = procs /\ model' = kept
  BY <1>2 DEF TypeOK
<1>3. ASSUME NEW choice \in Model,
             call' = [call EXCEPT ![c] = "establishing"], live' = c,
             lost' = lost \union ({live} \ {None}),
             proc' = [procs EXCEPT ![c] = "up"],
             resumes' = IF m = "resume" THEN [resumes EXCEPT ![c] = store[p].session]
                        ELSE resumes,
             model' = [kept EXCEPT ![c] = IF m = "resume" /\ choice = Default
                                          THEN store[p].model ELSE choice]
      PROVE  /\ live' \in Chat \union {None}
             /\ call' \in [Chat -> {"idle", "closingOld", "establishing", "returned"}]
             /\ proc' \in [Chat -> {"none", "up", "orphaned"}]
             /\ resumes' \in [Chat -> Chat \union {None}]
             /\ model' \in [Chat -> Model]
             /\ lost' \in SUBSET Chat
  <2>1. live' \in Chat \union {None} /\ resumes' \in [Chat -> Chat \union {None}]
        /\ lost' \in SUBSET Chat
    BY <1>1, <1>3 DEF TypeOK
  <2>2. call' \in [Chat -> {"idle", "closingOld", "establishing", "returned"}]
    BY <1>3 DEF TypeOK
  <2>3. proc' \in [Chat -> {"none", "up", "orphaned"}]
    BY <1>3
  <2>4. model' \in [Chat -> Model]
    BY <1>1, <1>3
  <2>5. QED
    BY <2>1, <2>2, <2>3, <2>4
<1>4. QED
  BY <1>2, <1>3 DEF Install

\* ... what a record holds, ...
LEMMA RecordType ==
    ASSUME TypeOK, NEW c \in Chat, NEW s \in Chat \union {None}, NEW m \in Model,
           RecordSession(c, s, m)
    PROVE  store' \in [Providers -> Records] /\ stray' \in [Providers -> BOOLEAN]
<1>1. store' \in [Providers -> Records]
  BY DEF RecordSession, Records, TypeOK
<1>2. (c \in closing \union lost) \in BOOLEAN
  OBVIOUS
<1>3. stray' \in [Providers -> BOOLEAN]
  BY <1>2 DEF RecordSession, TypeOK
<1>4. QED
  BY <1>1, <1>3

\* ... what closing a chat does, and what becomes of one whose process ended.
LEMMA CloseType ==
    ASSUME TypeOK, NEW c \in Chat, CloseChat(c)
    PROVE  /\ live' = None
           /\ closing' \in SUBSET Chat /\ pids' \in SUBSET Chat /\ lost' \in SUBSET Chat
BY ChatIsNumber DEF CloseChat, LiveAdapters, TypeOK

LEMMA RejectType ==
    ASSUME TypeOK, NEW c \in Chat, Reject(c)
    PROVE  /\ turn' \in SUBSET Chat /\ handle' \in SUBSET Chat
           /\ changing' \in [Chat -> SUBSET Models]
           /\ runsOn' \in [Chat -> Model]
           /\ status' \in [Chat -> {"starting", "ready", "running"}]
           /\ session' \in [Chat -> Chat \union {None}]
           /\ provider' \in [Chat -> Providers]
<1>1. turn' \in SUBSET Chat /\ handle' \in SUBSET Chat
      /\ changing' \in [Chat -> SUBSET Models] /\ runsOn' \in [Chat -> Model]
  BY DEF Reject, TypeOK, Model
<1>2. /\ status' \in [Chat -> {"starting", "ready", "running"}]
      /\ session' \in [Chat -> Chat \union {None}]
      /\ provider' \in [Chat -> Providers]
  BY AProvider DEF Reject, TypeOK
<1>3. QED
  BY <1>1, <1>2

LEMMA AdaptersAreChats ==
    ASSUME TypeOK, NEW c \in Chat \union {None}, NEW handles \in SUBSET Chat
    PROVE  LiveAdapters(c, handles) \in SUBSET Chat
BY DEF LiveAdapters

LEMMA StartType ==
    ASSUME TypeOK, NEW c \in Chat, StartSession(c)
    PROVE  TypeOK'
<1>1. PICK m \in {"new", "resume"}, p \in Providers :
         /\ provider' = [provider EXCEPT ![c] = p]
         /\ \/ /\ live = None
               /\ Install(c, proc, model, m, p)
               /\ UNCHANGED <<mode, waitsFor, closing, pids>>
            \/ /\ live # None
               /\ CloseChat(live)
               /\ call' = [call EXCEPT ![c] = "closingOld"]
               /\ mode' = [mode EXCEPT ![c] = m]
               /\ waitsFor' = [waitsFor EXCEPT ![c] = live]
               /\ UNCHANGED <<resumes, proc, model>>
  BY DEF StartSession
<1>2. provider' \in [Chat -> Providers]
  BY <1>1 DEF TypeOK
<1>3. UNCHANGED <<status, handle, session, runsOn, changing, turn, store, stray>>
  BY DEF StartSession
<1>4. CASE live = None
  <2>1. Install(c, proc, model, m, p) /\ UNCHANGED <<mode, waitsFor, closing, pids>>
    BY <1>1, <1>4
  <2>2. /\ live' \in Chat \union {None}
        /\ call' \in [Chat -> {"idle", "closingOld", "establishing", "returned"}]
        /\ proc' \in [Chat -> {"none", "up", "orphaned"}]
        /\ resumes' \in [Chat -> Chat \union {None}]
        /\ model' \in [Chat -> Model]
        /\ lost' \in SUBSET Chat
    <3>1. proc \in [Chat -> {"none", "up", "orphaned"}] /\ model \in [Chat -> Model]
      BY DEF TypeOK
    <3>2. QED
      BY <2>1, <3>1, InstallType
  <2>3. QED
    BY <1>2, <1>3, <2>1, <2>2 DEF TypeOK
<1>5. CASE live # None
  <2>1. live' = None /\ closing' \in SUBSET Chat /\ pids' \in SUBSET Chat /\ lost' \in SUBSET Chat
    BY <1>1, <1>5, CloseType DEF TypeOK
  <2>2. /\ call' \in [Chat -> {"idle", "closingOld", "establishing", "returned"}]
        /\ waitsFor' \in [Chat -> Chat \union {None}]
        /\ mode' \in [Chat -> {"new", "resume"}]
    BY <1>1, <1>5 DEF TypeOK
  <2>3. UNCHANGED <<resumes, proc, model>>
    BY <1>1, <1>5
  <2>4. QED
    BY <1>2, <1>3, <2>1, <2>2, <2>3 DEF TypeOK
<1>6. QED
  BY <1>4, <1>5

LEMMA CloseCompletesType ==
    ASSUME TypeOK, NEW c \in Chat, CloseCompletes(c)
    PROVE  TypeOK'
<1> DEFINE procs == [proc EXCEPT ![c] = "none"]
           kept == [model EXCEPT ![c] = Default]
           waiting == {d \in Chat : call[d] = "closingOld" /\ waitsFor[d] = c}
<1>1. /\ procs \in [Chat -> {"none", "up", "orphaned"}]
      /\ kept \in [Chat -> Model]
  BY DEF TypeOK, Model
<1>2. pids' \in SUBSET Chat /\ closing' \in SUBSET Chat
  BY AdaptersAreChats DEF CloseCompletes, TypeOK
<1>3. UNCHANGED <<store, stray>>
  BY DEF CloseCompletes
<1>4. \/ proc' = procs /\ model' = kept
         /\ UNCHANGED <<live, call, mode, waitsFor, resumes, lost>>
      \/ \E d \in waiting :
            /\ Install(d, procs, kept, mode[d], provider[d])
            /\ mode' = [mode EXCEPT ![d] = "new"]
            /\ waitsFor' = [waitsFor EXCEPT ![d] = None]
  BY DEF CloseCompletes
<1> HIDE DEF procs, kept
<1>5. /\ live' \in Chat \union {None}
      /\ call' \in [Chat -> {"idle", "closingOld", "establishing", "returned"}]
      /\ proc' \in [Chat -> {"none", "up", "orphaned"}]
      /\ resumes' \in [Chat -> Chat \union {None}]
      /\ model' \in [Chat -> Model]
      /\ lost' \in SUBSET Chat
      /\ mode' \in [Chat -> {"new", "resume"}]
      /\ waitsFor' \in [Chat -> Chat \union {None}]
  <2>1. CASE proc' = procs /\ model' = kept
             /\ UNCHANGED <<live, call, mode, waitsFor, resumes, lost>>
    BY <1>1, <2>1 DEF TypeOK
  <2>2. ASSUME NEW d \in Chat, Install(d, procs, kept, mode[d], provider[d]),
               mode' = [mode EXCEPT ![d] = "new"],
               waitsFor' = [waitsFor EXCEPT ![d] = None]
        PROVE  /\ live' \in Chat \union {None}
               /\ call' \in [Chat -> {"idle", "closingOld", "establishing", "returned"}]
               /\ proc' \in [Chat -> {"none", "up", "orphaned"}]
               /\ resumes' \in [Chat -> Chat \union {None}]
               /\ model' \in [Chat -> Model]
               /\ lost' \in SUBSET Chat
               /\ mode' \in [Chat -> {"new", "resume"}]
               /\ waitsFor' \in [Chat -> Chat \union {None}]
    <3>1. mode[d] \in {"new", "resume"} /\ provider[d] \in Providers
      BY DEF TypeOK
    <3>2. mode' \in [Chat -> {"new", "resume"}] /\ waitsFor' \in [Chat -> Chat \union {None}]
      BY <2>2 DEF TypeOK
    <3>3. QED
      BY <1>1, <2>2, <3>1, <3>2, InstallType
  <2>3. QED
    BY <1>4, <2>1, <2>2
<1>6. Reject(c)
  BY DEF CloseCompletes
<1>7. QED
  BY <1>2, <1>3, <1>5, <1>6, RejectType DEF TypeOK

LEMMA EstablishSucceedsType ==
    ASSUME TypeOK, NEW c \in Chat, EstablishSucceeds(c)
    PROVE  TypeOK'
<1>1. PICK s \in {c, resumes[c]} \ {None}, opened \in Opened(c) :
        /\ session' = [session EXCEPT ![c] = s]
        /\ model' = [model EXCEPT ![c] = opened.says]
        /\ runsOn' = [runsOn EXCEPT ![c] = opened.runs]
        /\ RecordSession(c, s, opened.says)
  BY DEF EstablishSucceeds
<1>2. opened.says \in Model /\ opened.runs \in Model /\ s \in Chat
  BY DEF Opened, TypeOK, Model
<1>3. /\ session' \in [Chat -> Chat \union {None}]
      /\ model' \in [Chat -> Model] /\ runsOn' \in [Chat -> Model]
  BY <1>1, <1>2 DEF TypeOK
<1>4. store' \in [Providers -> Records] /\ stray' \in [Providers -> BOOLEAN]
  BY <1>1, <1>2, RecordType
<1>5. handle' \in SUBSET Chat /\ pids' \in SUBSET Chat
  <2>1. handle' \in SUBSET Chat /\ live \in Chat \union {None}
    BY DEF EstablishSucceeds, TypeOK
  <2>2. pids' = LiveAdapters(live, handle')
    BY DEF EstablishSucceeds
  <2>3. QED
    BY <2>1, <2>2, AdaptersAreChats
<1>6. /\ call' \in [Chat -> {"idle", "closingOld", "establishing", "returned"}]
      /\ status' \in [Chat -> {"starting", "ready", "running"}]
      /\ turn' \in SUBSET Chat
      /\ resumes' \in [Chat -> Chat \union {None}]
  BY DEF EstablishSucceeds, TypeOK
<1>7. UNCHANGED <<live, request, changing, closing, proc, lost>>
  BY DEF EstablishSucceeds
<1>8. QED
  BY <1>3, <1>4, <1>5, <1>6, <1>7 DEF TypeOK, request

LEMMA EstablishFailsType ==
    ASSUME TypeOK, NEW c \in Chat, EstablishFails(c)
    PROVE  TypeOK'
<1>1. /\ call' = [call EXCEPT ![c] = "returned"]
      /\ proc' = [proc EXCEPT ![c] = "none"]
      /\ live' = None
      /\ lost' = (lost \union {live}) \ {c, None}
      /\ resumes' = [resumes EXCEPT ![c] = None]
      /\ UNCHANGED <<request, status, handle, session, models, turn, closing, pids,
                     store, stray>>
  BY DEF EstablishFails
<1>2. /\ call' \in [Chat -> {"idle", "closingOld", "establishing", "returned"}]
      /\ proc' \in [Chat -> {"none", "up", "orphaned"}]
      /\ resumes' \in [Chat -> Chat \union {None}]
      /\ lost' \in SUBSET Chat
  BY <1>1 DEF TypeOK
<1>3. QED
  BY <1>1, <1>2 DEF TypeOK, request, models

LEMMA ExitType ==
    ASSUME TypeOK, NEW c \in Chat, AdapterExits(c)
    PROVE  TypeOK'
<1>1. live' \in Chat \union {None} /\ pids' \in SUBSET Chat /\ lost' \in SUBSET Chat
  BY AdaptersAreChats DEF AdapterExits, TypeOK
<1>2. proc' \in [Chat -> {"none", "up", "orphaned"}] /\ model' \in [Chat -> Model]
  BY DEF AdapterExits, TypeOK, Model
<1>3. UNCHANGED <<call, mode, waitsFor, resumes, closing, store, stray>> /\ Reject(c)
  BY DEF AdapterExits
<1>4. QED
  BY <1>1, <1>2, <1>3, RejectType DEF TypeOK

LEMMA TurnType ==
    ASSUME TypeOK, NEW c \in Chat, TurnStarts(c) \/ TurnEnds(c)
    PROVE  TypeOK'
<1>1. UNCHANGED <<live, call, request, resumes, handle, session, models,
                  closing, proc, pids, lost>>
  BY DEF TurnStarts, TurnEnds
<1>2. turn' \in SUBSET Chat /\ status' \in [Chat -> {"starting", "ready", "running"}]
  BY DEF TurnStarts, TurnEnds, TypeOK
<1>3. store' \in [Providers -> Records] /\ stray' \in [Providers -> BOOLEAN]
  <2>1. session[c] \in Chat \union {None} /\ model[c] \in Model
        /\ store \in [Providers -> Records] /\ stray \in [Providers -> BOOLEAN]
    BY DEF TypeOK
  <2>2. RecordSession(c, session[c], model[c]) \/ UNCHANGED <<store, stray>>
    BY DEF TurnStarts, TurnEnds
  <2>3. QED
    BY <2>1, <2>2, RecordType
<1>4. QED
  BY <1>1, <1>2, <1>3 DEF TypeOK, request, models

LEMMA ModelType ==
    ASSUME TypeOK, NEW m \in Models,
           SetModel(m) \/ \E c \in Chat : SetModelAnswered(c, m)
    PROVE  TypeOK'
<1>1. UNCHANGED <<live, call, request, status, handle, resumes, session, turn,
                  closing, proc, pids, lost>>
  BY DEF SetModel, SetModelAnswered
<1>2. CASE SetModel(m)
  <2>1. changing' \in [Chat -> SUBSET Models]
    BY <1>2 DEF SetModel, TypeOK
  <2>2. UNCHANGED <<model, runsOn, store, stray>>
    BY <1>2 DEF SetModel
  <2>3. QED
    BY <1>1, <2>1, <2>2 DEF TypeOK, request
<1>3. ASSUME NEW c \in Chat, SetModelAnswered(c, m)
      PROVE  TypeOK'
  <2>1. changing' \in [Chat -> SUBSET Models]
    BY <1>3 DEF SetModelAnswered, TypeOK
  <2>2. CASE UNCHANGED <<model, runsOn, store, stray>>
    BY <1>1, <2>1, <2>2 DEF TypeOK, request
  <2>3. CASE Switch(c, m)
    <3>1. m \in Model /\ session[c] \in Chat \union {None}
      BY DEF Model, TypeOK
    <3>2. store' \in [Providers -> Records] /\ stray' \in [Providers -> BOOLEAN]
      BY <2>3, <3>1, RecordType DEF Switch
    <3>3. model' \in [Chat -> Model] /\ runsOn' \in [Chat -> Model]
      BY <2>3, <3>1 DEF Switch, TypeOK
    <3>4. QED
      BY <1>1, <2>1, <3>2, <3>3 DEF TypeOK, request
  <2>4. QED
    BY <1>3, <2>2, <2>3 DEF SetModelAnswered
<1>4. QED
  BY <1>2, <1>3

LEMMA EndType ==
    ASSUME TypeOK, EndSession \/ ReapIdle
    PROVE  TypeOK'
<1>1. /\ live # None /\ CloseChat(live)
      /\ UNCHANGED <<call, request, resumes, status, handle, session, models,
                     turn, proc, store, stray>>
  BY DEF EndSession, ReapIdle
<1>2. live' = None /\ closing' \in SUBSET Chat /\ pids' \in SUBSET Chat /\ lost' \in SUBSET Chat
  BY <1>1, CloseType DEF TypeOK
<1>3. QED
  BY <1>1, <1>2 DEF TypeOK, request, models

LEMMA CrashType ==
    ASSUME TypeOK, CrashAndRestart
    PROVE  TypeOK'
<1>1. /\ call' \in [Chat -> {"idle", "closingOld", "establishing", "returned"}]
      /\ proc' \in [Chat -> {"none", "up", "orphaned"}]
      /\ status' \in [Chat -> {"starting", "ready", "running"}]
      /\ session' \in [Chat -> Chat \union {None}]
  BY DEF CrashAndRestart, TypeOK
<1>2. /\ runsOn' \in [Chat -> Model] /\ model' \in [Chat -> Model]
      /\ changing' \in [Chat -> SUBSET Models]
      /\ mode' \in [Chat -> {"new", "resume"}]
      /\ provider' \in [Chat -> Providers]
      /\ waitsFor' \in [Chat -> Chat \union {None}]
      /\ resumes' \in [Chat -> Chat \union {None}]
  BY AProvider DEF CrashAndRestart, Model
<1>3. /\ live' = None /\ handle' = {} /\ turn' = {} /\ pids' = {}
      /\ closing' \in SUBSET Chat /\ lost' \in SUBSET Chat
  BY DEF CrashAndRestart, TypeOK
<1>4. UNCHANGED <<store, stray>>
  BY DEF CrashAndRestart
<1>5. QED
  BY <1>1, <1>2, <1>3, <1>4 DEF TypeOK

LEMMA InitType == Init => TypeOK
<1> SUFFICES ASSUME Init PROVE TypeOK
  OBVIOUS
<1>1. NoRecord \in Records
  BY DEF NoRecord, Records, Model
<1>2. Default \in Model
  BY DEF Model
<1>3. QED
  BY <1>1, <1>2, AProvider DEF Init, TypeOK

LEMMA NextType ==
    ASSUME TypeOK, Next
    PROVE  TypeOK'
BY StartType, CloseCompletesType, EstablishSucceedsType, EstablishFailsType, ExitType,
   TurnType, ModelType, EndType, CrashType DEF Next

\* The life of a skill's sessions, whoever starts and ends them and whatever
\* the adapters do, keeps to the types of the manager's fields and files.
THEOREM TypeCorrect == Spec => []TypeOK
<1>1. TypeOK /\ [Next]_vars => TypeOK'
  <2>1. ASSUME TypeOK, UNCHANGED vars
        PROVE  TypeOK'
    BY <2>1 DEF TypeOK, vars
  <2>2. QED
    BY <2>1, NextType
<1>2. QED
  BY <1>1, InitType, PTL DEF Spec

-----------------------------------------------------------------------------
\* Processes end, and what their chats were is forgotten.
Forgets(gone) ==
    /\ handle' = handle \ gone /\ turn' = turn \ gone /\ closing' = closing \ gone
    /\ \A d \in gone :
          proc[d] = "up" /\ session'[d] = None /\ status'[d] = "starting" /\ changing'[d] = {}
    /\ \A d \in Chat \ gone :
          /\ session'[d] = session[d] /\ status'[d] = status[d]
          /\ changing'[d] = changing[d]

\* Besides, at most the live one of them leaves `live`, and a start that found
\* nothing to resume returns.
NothingStarts(gone) ==
    /\ Forgets(gone)
    /\ \/ live' = live /\ live \notin gone
       \/ live' = None /\ live \in gone \union {None}
    /\ live' \in handle => live' \in pids' \/ live' \notin pids
    /\ lost' \in {lost, lost \ gone}
    /\ \A d \in Chat :
          /\ proc'[d] = IF d \in gone THEN "none" ELSE proc[d]
          /\ \/ call'[d] = call[d]
             \/ call[d] \in {"idle", "closingOld"} /\ call'[d] = "returned"
    /\ \A d \in Chat \ gone :
          /\ model'[d] = model[d] /\ runsOn'[d] = runsOn[d]
          /\ call[d] = "returned" => provider'[d] = provider[d]
    /\ UNCHANGED <<store, stray>>

LEMMA ForgetKeeps ==
    ASSUME SessionsInv, TypeOK', NEW gone \in SUBSET Chat, NothingStarts(gone)
    PROVE  SessionsKept'
<1> USE DEF SessionsInv, SessionsKept, NothingStarts, Forgets
<1>1. StartsInv'
  BY DEF StartsInv
<1>2. LiveInv'
  BY ChatIsNumber DEF LiveInv, TypeOK
<1>3. LeftInv'
  BY DEF LeftInv
<1>4. HandleInv'
  BY DEF HandleInv
<1>5. OrphanInv'
  BY DEF OrphanInv
<1>6. LiveIsResumable'
  <2>1. SUFFICES ASSUME live' \in handle' PROVE LiveIsResumable'
    BY DEF LiveIsResumable
  <2>2. live' = live /\ live \in Chat \ gone /\ live \in handle
    BY <2>1, ChatIsNumber DEF TypeOK
  <2>3. call[live] = "returned"
    BY <2>2 DEF StartsInv
  <2>4. QED
    BY <2>2, <2>3 DEF LiveIsResumable
<1>7. QED
  BY <1>1, <1>2, <1>3, <1>4, <1>5, <1>6

\* A start that waits for nothing any more goes into `live`, while processes
\* that had been told to exit end: whatever it overwrites is lost.
Starts(c, gone) ==
    /\ Forgets(gone)
    /\ live' = c
    /\ lost' = lost \union ({live} \ {None})
    /\ \A d \in Chat :
          /\ call'[d] = IF d = c THEN "establishing" ELSE call[d]
          /\ proc'[d] = IF d = c THEN "up" ELSE IF d \in gone THEN "none" ELSE proc[d]

LEMMA InstallKeeps ==
    ASSUME SessionsInv, TypeOK', NEW gone \in SUBSET closing,
           NEW c \in Chat, call[c] \in {"idle", "closingOld"}, Starts(c, gone)
    PROVE  SessionsKept'
<1> USE DEF SessionsInv, SessionsKept, Starts, Forgets
<1>1. /\ status[c] = "starting" /\ session[c] = None /\ proc[c] = "none"
      /\ c \notin handle /\ c \notin closing /\ c \notin lost /\ c \notin gone
  BY DEF StartsInv
<1>2. live # c /\ \A d \in gone : call[d] = "returned" /\ d # live
  BY <1>1, ChatIsNumber DEF LiveInv, StartsInv, TypeOK
<1>3. StartsInv'
  <2>1. \A d \in Chat : call'[d] # "returned" =>
          /\ status'[d] = "starting" /\ session'[d] = None
          /\ d \notin handle' /\ d \notin closing'
    BY <1>1, <1>2 DEF StartsInv
  <2>2. \A d \in Chat : call'[d] \in {"idle", "closingOld"} => proc'[d] = "none" /\ d \notin lost'
    <3>1. live # None => call[live] \notin {"idle", "closingOld"}
      BY DEF LiveInv
    <3>2. QED
      BY <1>2, <3>1 DEF StartsInv
  <2>3. QED
    BY <2>1, <2>2 DEF StartsInv
<1>4. LiveInv'
  BY <1>1, <1>2 DEF LiveInv
<1>5. LeftInv'
  BY ChatIsNumber DEF LeftInv
<1>6. HandleInv'
  BY <1>1 DEF HandleInv
<1>7. OrphanInv'
  BY <1>1 DEF OrphanInv
<1>8. LiveIsResumable'
  BY <1>1 DEF LiveIsResumable
<1>9. QED
  BY <1>3, <1>4, <1>5, <1>6, <1>7, <1>8

\* The live chat is told to exit, or lost.
LEMMA CloseKeeps ==
    ASSUME SessionsInv, TypeOK', live # None, CloseChat(live),
           UNCHANGED <<status, handle, session, changing, turn, proc>>,
           \A d \in Chat : \/ call'[d] = call[d]
                           \/ call[d] = "idle" /\ call'[d] = "closingOld"
    PROVE  SessionsKept'
<1> USE DEF SessionsInv, SessionsKept
<1>1. live' = None /\ live \in Chat
      /\ \/ live \in handle /\ closing' = closing \union {live} /\ lost' = lost
         \/ live \notin handle /\ lost' = lost \union {live} /\ closing' = closing
  BY DEF CloseChat, TypeOK
<1>2. call[live] \notin {"idle", "closingOld"} /\ (live \in handle => call[live] = "returned")
  BY <1>1 DEF LiveInv, StartsInv
<1>3. StartsInv'
  BY <1>1, <1>2 DEF StartsInv
<1>4. LiveInv' /\ LiveIsResumable'
  BY <1>1, ChatIsNumber DEF LiveInv, LiveIsResumable, TypeOK
<1>5. LeftInv'
  BY <1>1 DEF LeftInv
<1>6. HandleInv'
  BY DEF HandleInv
<1>7. OrphanInv'
  BY <1>1 DEF OrphanInv
<1>8. QED
  BY <1>3, <1>4, <1>5, <1>6, <1>7

LEMMA StartKeeps ==
    ASSUME SessionsInv, NEW c \in Chat, StartSession(c)
    PROVE  SessionsKept'
<1>1. call[c] = "idle" /\ TypeOK /\ TypeOK'
  BY StartType DEF StartSession, SessionsInv
<1>2. PICK m \in {"new", "resume"}, p \in Providers :
         /\ provider' = [provider EXCEPT ![c] = p]
         /\ \/ /\ live = None
               /\ Install(c, proc, model, m, p)
               /\ UNCHANGED <<mode, waitsFor, closing, pids>>
            \/ /\ live # None
               /\ CloseChat(live)
               /\ call' = [call EXCEPT ![c] = "closingOld"]
               /\ mode' = [mode EXCEPT ![c] = m]
               /\ waitsFor' = [waitsFor EXCEPT ![c] = live]
               /\ UNCHANGED <<resumes, proc, model>>
  BY DEF StartSession
<1>3. UNCHANGED <<status, handle, session, runsOn, changing, turn, store, stray>>
  BY DEF StartSession
<1>4. CASE live = None
  <2>1. UNCHANGED <<closing, pids>>
    BY <1>2, <1>4
  <2>2. CASE /\ call' = [call EXCEPT ![c] = "returned"]
             /\ proc' = proc /\ model' = model
             /\ UNCHANGED <<live, resumes, lost>>
    <3>1. \A d \in Chat : call'[d] = IF d = c THEN "returned" ELSE call[d]
      BY <1>1, <2>2 DEF TypeOK
    <3>2. \A d \in Chat : call[d] = "returned" => provider'[d] = provider[d]
      BY <1>1, <1>2 DEF TypeOK
    <3>3. NothingStarts({})
      BY <1>3, <1>4, <2>1, <2>2, <3>1, <3>2, <1>1 DEF NothingStarts, Forgets
    <3>4. QED
      BY <1>1, <3>3, ForgetKeeps
  <2>3. CASE /\ call' = [call EXCEPT ![c] = "establishing"]
             /\ live' = c
             /\ lost' = lost \union ({live} \ {None})
             /\ proc' = [proc EXCEPT ![c] = "up"]
    <3>1. /\ \A d \in Chat : call'[d] = IF d = c THEN "establishing" ELSE call[d]
          /\ \A d \in Chat : proc'[d] = IF d = c THEN "up" ELSE proc[d]
      BY <1>1, <2>3 DEF TypeOK
    <3>2. Starts(c, {})
      BY <1>3, <2>1, <2>3, <3>1 DEF Starts, Forgets
    <3>3. QED
      BY <1>1, <3>2, InstallKeeps
  <2>4. QED
    BY <1>2, <1>4, <2>2, <2>3 DEF Install
<1>5. CASE live # None
  <2>1. \A d \in Chat : call'[d] = IF d = c THEN "closingOld" ELSE call[d]
    BY <1>1, <1>2, <1>5 DEF TypeOK
  <2>2. CloseChat(live) /\ UNCHANGED proc
    BY <1>2, <1>5
  <2>3. QED
    BY <1>1, <1>3, <1>5, <2>1, <2>2, CloseKeeps
<1>6. QED
  BY <1>4, <1>5

LEMMA EndKeeps ==
    ASSUME SessionsInv, EndSession \/ ReapIdle
    PROVE  SessionsKept'
<1>1. /\ live # None /\ CloseChat(live)
      /\ UNCHANGED <<call, status, handle, session, changing, turn, proc>>
  BY DEF EndSession, ReapIdle, models
<1>2. TypeOK'
  BY EndType DEF SessionsInv
<1>3. QED
  BY <1>1, <1>2, CloseKeeps

\* What Reject forgets of a chat, read chat by chat.
LEMMA RejectForgets ==
    ASSUME TypeOK, NEW c \in Chat, Reject(c)
    PROVE  /\ turn' = turn \ {c} /\ handle' = handle \ {c}
           /\ session'[c] = None /\ status'[c] = "starting" /\ changing'[c] = {}
           /\ \A d \in Chat \ {c} :
                 /\ session'[d] = session[d] /\ status'[d] = status[d]
                 /\ changing'[d] = changing[d] /\ runsOn'[d] = runsOn[d]
                 /\ provider'[d] = provider[d]
BY DEF Reject, TypeOK

\* A closed adapter is gone: nobody waited for it, or the call that did finds
\* nothing to resume or takes its place.
LEMMA CloseCompletesKeeps ==
    ASSUME SessionsInv, NEW c \in Chat, CloseCompletes(c)
    PROVE  SessionsKept'
<1> DEFINE procs == [proc EXCEPT ![c] = "none"]
           kept == [model EXCEPT ![c] = Default]
<1>1. /\ c \in closing /\ proc[c] = "up" /\ pids' = LiveAdapters(live, handle)
      /\ closing' = closing \ {c} /\ UNCHANGED <<store, stray>> /\ Reject(c)
  BY DEF CloseCompletes
<1>2. TypeOK /\ TypeOK'
  BY CloseCompletesType DEF SessionsInv
<1>3. live # c
  BY <1>1, ChatIsNumber DEF LiveInv, SessionsInv, SessionsKept
<1>4. /\ \A d \in Chat : procs[d] = IF d = c THEN "none" ELSE proc[d]
      /\ \A d \in Chat : d # c => kept[d] = model[d]
      /\ procs \in [Chat -> {"none", "up", "orphaned"}]
  BY <1>2 DEF TypeOK
<1>5. live \in handle => live \in pids'
  BY <1>1 DEF LiveAdapters
<1>6. \/ proc' = procs /\ model' = kept /\ UNCHANGED <<live, call, lost>>
      \/ \E d \in Chat : /\ call[d] = "closingOld"
                         /\ Install(d, procs, kept, mode[d], provider[d])
  BY DEF CloseCompletes
<1>7. Forgets({c})
  BY <1>1, <1>2, RejectForgets DEF Forgets
<1> HIDE DEF procs, kept
<1>8. CASE proc' = procs /\ model' = kept /\ UNCHANGED <<live, call, lost>>
  <2>1. NothingStarts({c})
    BY <1>3, <1>4, <1>5, <1>8, <1>1, <1>7, <1>2, RejectForgets DEF NothingStarts
  <2>2. QED
    BY <1>2, <2>1, ForgetKeeps
<1>9. ASSUME NEW d \in Chat, call[d] = "closingOld",
             Install(d, procs, kept, mode[d], provider[d])
      PROVE  SessionsKept'
  <2>1. CASE /\ call' = [call EXCEPT ![d] = "returned"]
             /\ proc' = procs /\ model' = kept /\ UNCHANGED <<live, lost>>
    <3>1. \A e \in Chat : call'[e] = IF e = d THEN "returned" ELSE call[e]
      BY <1>2, <2>1 DEF TypeOK
    <3>2. NothingStarts({c})
      BY <1>1, <1>7, <1>2, <1>3, <1>4, <1>5, <1>9, <2>1, <3>1, RejectForgets DEF NothingStarts
    <3>3. QED
      BY <1>2, <3>2, ForgetKeeps
  <2>2. CASE /\ call' = [call EXCEPT ![d] = "establishing"]
             /\ live' = d
             /\ lost' = lost \union ({live} \ {None})
             /\ proc' = [procs EXCEPT ![d] = "up"]
    <3>1. /\ \A e \in Chat : call'[e] = IF e = d THEN "establishing" ELSE call[e]
          /\ \A e \in Chat : proc'[e] = IF e = d THEN "up" ELSE procs[e]
      BY <1>2, <1>4, <2>2 DEF TypeOK
    <3>2. Starts(d, {c})
      BY <1>7, <1>4, <2>2, <3>1 DEF Starts
    <3>3. QED
      BY <1>1, <1>2, <1>9, <3>2, InstallKeeps
  <2>3. QED
    BY <1>9, <2>1, <2>2 DEF Install
<1>10. QED
  BY <1>6, <1>8, <1>9

\* An adapter nobody closed takes the live chat with it, or was nobody's.
LEMMA AdapterExitKeeps ==
    ASSUME SessionsInv, NEW c \in Chat, AdapterExits(c)
    PROVE  SessionsKept'
<1>1. /\ proc[c] = "up" /\ c \notin closing /\ Reject(c)
      /\ proc' = [proc EXCEPT ![c] = "none"]
      /\ model' = [model EXCEPT ![c] = Default]
      /\ lost' = lost \ {c}
      /\ UNCHANGED <<call, closing, store, stray>>
      /\ \/ live = c /\ live' = None
         \/ live # c /\ UNCHANGED <<live, pids>>
  BY DEF AdapterExits
<1>2. TypeOK /\ TypeOK'
  BY ExitType DEF SessionsInv
<1>3. Forgets({c})
  BY <1>1, <1>2, RejectForgets DEF Forgets
<1>4. NothingStarts({c})
  <2>1. /\ \A d \in Chat : proc'[d] = IF d = c THEN "none" ELSE proc[d]
        /\ \A d \in Chat \ {c} : model'[d] = model[d]
    BY <1>1, <1>2 DEF TypeOK
  <2>2. live' \in handle => live' \in pids' \/ live' \notin pids
    BY <1>1, <1>2, ChatIsNumber DEF TypeOK
  <2>3. QED
    BY <1>1, <1>2, <1>3, <2>1, <2>2, RejectForgets DEF NothingStarts
<1>5. QED
  BY <1>2, <1>4, ForgetKeeps

\* What an adapter answers is recorded: for the live chat, or astray.
LEMMA RecordKeeps ==
    ASSUME SessionsInv, NEW c \in Chat, proc[c] = "up", NEW s, NEW m,
           RecordSession(c, s, m)
    PROVE  /\ live = c \/ stray'[provider[c]]
           /\ store'[provider[c]] = [session |-> s, model |-> m]
           /\ \A p \in Providers \ {provider[c]} : store'[p] = store[p] /\ stray'[p] = stray[p]
<1>1. provider[c] \in Providers /\ store \in [Providers -> Records]
      /\ stray \in [Providers -> BOOLEAN]
  BY DEF SessionsInv, TypeOK
<1>2. live = c \/ c \in closing \union lost
  BY DEF SessionsInv, SessionsKept, LeftInv
<1>3. QED
  BY <1>1, <1>2 DEF RecordSession

\* A chat that is established is live and its session can be reopened, or it
\* was lost while it was starting.
LEMMA EstablishSucceedsKeeps ==
    ASSUME SessionsInv, NEW c \in Chat, EstablishSucceeds(c)
    PROVE  SessionsKept'
<1> USE DEF SessionsInv, SessionsKept
<1>1. /\ call[c] = "establishing" /\ proc[c] = "up"
      /\ call' = [call EXCEPT ![c] = "returned"]
      /\ handle' = handle \union {c}
      /\ pids' = LiveAdapters(live, handle')
      /\ UNCHANGED <<live, provider, changing, closing, proc, lost>>
      /\ turn' \subseteq turn \union {c}
  BY DEF EstablishSucceeds, request
<1>2. PICK s \in {c, resumes[c]} \ {None}, opened \in Opened(c) :
         /\ session' = [session EXCEPT ![c] = s]
         /\ model' = [model EXCEPT ![c] = opened.says]
         /\ runsOn' = [runsOn EXCEPT ![c] = opened.runs]
         /\ RecordSession(c, s, opened.says)
  BY DEF EstablishSucceeds
<1>3. /\ \A d \in Chat : call'[d] = IF d = c THEN "returned" ELSE call[d]
      /\ \A d \in Chat \ {c} : /\ session'[d] = session[d] /\ status'[d] = status[d]
                               /\ model'[d] = model[d] /\ runsOn'[d] = runsOn[d]
      /\ session'[c] = s /\ model'[c] = opened.says /\ runsOn'[c] = opened.runs
  BY <1>1, <1>2 DEF TypeOK, EstablishSucceeds
<1>4. c \notin handle /\ c \notin closing
  BY <1>1 DEF StartsInv
<1>5. StartsInv'
  BY <1>1, <1>3 DEF StartsInv
<1>6. LiveInv'
  <2>1. live \in handle' => live \in pids'
    BY <1>1 DEF LiveAdapters
  <2>2. QED
    BY <1>1, <1>3, <2>1 DEF LiveInv
<1>7. LeftInv'
  BY <1>1 DEF LeftInv
<1>8. HandleInv'
  BY <1>1 DEF HandleInv
<1>9. OrphanInv'
  BY <1>1, <1>3 DEF OrphanInv
<1>10. LiveIsResumable'
  <2>1. /\ live = c \/ stray'[provider[c]]
        /\ store'[provider[c]] = [session |-> s, model |-> opened.says]
        /\ \A p \in Providers \ {provider[c]} : store'[p] = store[p] /\ stray'[p] = stray[p]
    BY <1>1, <1>2, RecordKeeps
  <2>2. opened.says \in {Default, opened.runs}
    BY DEF Opened
  <2>3. CASE live = c
    BY <1>1, <1>3, <2>1, <2>2, <2>3 DEF LiveIsResumable
  <2>4. CASE live # c
    <3>1. live \in handle => provider[live] \in Providers
      BY DEF TypeOK
    <3>2. live \in handle' => live \in handle /\ live \in Chat \ {c}
      BY <1>1, <2>4 DEF TypeOK
    <3>3. QED
      BY <1>1, <1>3, <2>1, <2>4, <3>1, <3>2 DEF LiveIsResumable
  <2>5. QED
    BY <2>3, <2>4
<1>11. QED
  BY <1>5, <1>6, <1>7, <1>8, <1>9, <1>10

\* A start that fails leaves nothing live, and loses the chat it finds there.
LEMMA EstablishFailsKeeps ==
    ASSUME SessionsInv, NEW c \in Chat, EstablishFails(c)
    PROVE  SessionsKept'
<1> USE DEF SessionsInv, SessionsKept
<1>1. /\ call[c] = "establishing" /\ live' = None
      /\ call' = [call EXCEPT ![c] = "returned"]
      /\ proc' = [proc EXCEPT ![c] = "none"]
      /\ lost' = (lost \union {live}) \ {c, None}
      /\ UNCHANGED <<status, handle, session, changing, turn, closing>>
  BY DEF EstablishFails, models
<1>2. /\ \A d \in Chat : call'[d] = IF d = c THEN "returned" ELSE call[d]
      /\ \A d \in Chat : proc'[d] = IF d = c THEN "none" ELSE proc[d]
  BY <1>1 DEF TypeOK
<1>3. StartsInv'
  <2>1. live # None => call[live] \notin {"idle", "closingOld"}
    BY DEF LiveInv
  <2>2. QED
    BY <1>1, <1>2, <2>1 DEF StartsInv
<1>4. LiveInv' /\ LiveIsResumable'
  BY <1>1, ChatIsNumber DEF LiveInv, LiveIsResumable, TypeOK
<1>5. LeftInv'
  BY <1>1, <1>2, ChatIsNumber DEF LeftInv
<1>6. HandleInv'
  BY <1>1, <1>2 DEF HandleInv, StartsInv
<1>7. OrphanInv'
  BY <1>1, <1>2, ChatIsNumber DEF OrphanInv
<1>8. QED
  BY <1>3, <1>4, <1>5, <1>6, <1>7

\* A turn begins at the live chat.
LEMMA TurnStartsKeeps ==
    ASSUME SessionsInv, NEW c \in Chat, TurnStarts(c)
    PROVE  SessionsKept'
<1> USE DEF SessionsInv, SessionsKept
<1>1. /\ live = c /\ status[c] = "ready"
      /\ status' = [status EXCEPT ![c] = "running"]
      /\ turn' = turn \union {c}
      /\ UNCHANGED <<live, call, provider, handle, session, model, runsOn, changing,
                     closing, proc, pids, store, lost, stray>>
  BY DEF TurnStarts, request, models
<1>2. c \in handle /\ call[c] = "returned"
  BY <1>1, ChatIsNumber DEF LiveInv, StartsInv
<1>3. \A d \in Chat : call[d] # "returned" => status'[d] = status[d]
  BY <1>1, <1>2 DEF TypeOK
<1>4. StartsInv'
  BY <1>1, <1>3 DEF StartsInv
<1>5. LiveInv' /\ LeftInv' /\ OrphanInv' /\ LiveIsResumable'
  BY <1>1 DEF LiveInv, LeftInv, OrphanInv, LiveIsResumable
<1>6. HandleInv'
  BY <1>1, <1>2 DEF HandleInv
<1>7. QED
  BY <1>4, <1>5, <1>6

\* A turn that settles re-records the session it ran in.
LEMMA TurnEndsKeeps ==
    ASSUME SessionsInv, NEW c \in Chat, TurnEnds(c)
    PROVE  SessionsKept'
<1> USE DEF SessionsInv, SessionsKept
<1>1. /\ c \in turn /\ turn' = turn \ {c}
      /\ UNCHANGED <<live, call, provider, handle, session, model, runsOn, changing,
                     closing, proc, pids, lost>>
      /\ status' = IF live = c THEN [status EXCEPT ![c] = "ready"] ELSE status
      /\ \/ proc[c] = "up" /\ RecordSession(c, session[c], model[c])
         \/ UNCHANGED <<store, stray>>
  BY DEF TurnEnds, request, models
<1>2. call[c] = "returned"
  BY <1>1 DEF HandleInv, StartsInv
<1>3. \A d \in Chat : call[d] # "returned" => status'[d] = status[d]
  BY <1>1, <1>2 DEF TypeOK
<1>4. StartsInv'
  BY <1>1, <1>3 DEF StartsInv
<1>5. LiveInv' /\ LeftInv' /\ OrphanInv'
  BY <1>1 DEF LiveInv, LeftInv, OrphanInv
<1>6. HandleInv'
  BY <1>1 DEF HandleInv
<1>7. LiveIsResumable'
  <2>1. CASE UNCHANGED <<store, stray>>
    BY <1>1, <2>1 DEF LiveIsResumable
  <2>2. CASE proc[c] = "up" /\ RecordSession(c, session[c], model[c])
    <3>1. /\ live = c \/ stray'[provider[c]]
          /\ store'[provider[c]] = [session |-> session[c], model |-> model[c]]
          /\ \A p \in Providers \ {provider[c]} : store'[p] = store[p] /\ stray'[p] = stray[p]
      BY <2>2, RecordKeeps
    <3>2. live \in handle => provider[live] \in Providers
      BY DEF TypeOK
    <3>3. QED
      BY <1>1, <3>1, <3>2 DEF LiveIsResumable
  <2>3. QED
    BY <1>1, <2>1, <2>2
<1>8. QED
  BY <1>4, <1>5, <1>6, <1>7

\* Another model is asked of the live chat, ...
LEMMA SetModelKeeps ==
    ASSUME SessionsInv, NEW m \in Models, SetModel(m)
    PROVE  SessionsKept'
<1> USE DEF SessionsInv, SessionsKept
<1>1. /\ live \in handle /\ live \in Chat
      /\ changing' = [changing EXCEPT ![live] = @ \union {m}]
      /\ UNCHANGED <<live, call, provider, status, handle, session, model, runsOn, turn,
                     closing, proc, pids, store, lost, stray>>
  BY DEF SetModel, request, TypeOK
<1>2. proc[live] = "up"
  BY <1>1, ChatIsNumber DEF LiveInv
<1>3. \A d \in Chat : d # live => changing'[d] = changing[d]
  BY <1>1 DEF TypeOK
<1>4. StartsInv' /\ LiveInv' /\ LeftInv' /\ OrphanInv' /\ LiveIsResumable'
  BY <1>1 DEF StartsInv, LiveInv, LeftInv, OrphanInv, LiveIsResumable
<1>5. HandleInv'
  BY <1>1, <1>2, <1>3 DEF HandleInv
<1>6. QED
  BY <1>4, <1>5

\* ... and its adapter switches, or refuses to, also when the chat has been
\* told to exit or was lost meanwhile.
LEMMA SetModelAnsweredKeeps ==
    ASSUME SessionsInv, NEW c \in Chat, NEW m \in Models, SetModelAnswered(c, m)
    PROVE  SessionsKept'
<1> USE DEF SessionsInv, SessionsKept
<1>1. /\ m \in changing[c]
      /\ changing' = [changing EXCEPT ![c] = @ \ {m}]
      /\ UNCHANGED <<live, call, provider, status, handle, session, turn, closing, proc,
                     pids, lost>>
      /\ Switch(c, m) \/ UNCHANGED <<model, runsOn, store, stray>>
  BY DEF SetModelAnswered, request
<1>2. \A d \in Chat : changing'[d] \subseteq changing[d]
  BY <1>1 DEF TypeOK
<1>3. c \in handle /\ proc[c] = "up"
  BY <1>1 DEF HandleInv
<1>4. StartsInv' /\ LiveInv' /\ LeftInv' /\ OrphanInv'
  BY <1>1 DEF StartsInv, LiveInv, LeftInv, OrphanInv
<1>5. HandleInv'
  BY <1>1, <1>2 DEF HandleInv
<1>6. LiveIsResumable'
  <2>1. CASE UNCHANGED <<model, runsOn, store, stray>>
    BY <1>1, <2>1 DEF LiveIsResumable
  <2>2. CASE Switch(c, m)
    <3>1. /\ live = c \/ stray'[provider[c]]
          /\ store'[provider[c]] = [session |-> session[c], model |-> m]
          /\ \A p \in Providers \ {provider[c]} : store'[p] = store[p] /\ stray'[p] = stray[p]
      BY <1>3, <2>2, RecordKeeps DEF Switch
    <3>2. /\ model'[c] = m /\ runsOn'[c] = m
          /\ \A d \in Chat \ {c} : model'[d] = model[d] /\ runsOn'[d] = runsOn[d]
      BY <2>2 DEF Switch, TypeOK
    <3>3. live \in handle => live \in Chat /\ provider[live] \in Providers
      BY DEF TypeOK
    <3>4. QED
      BY <1>1, <3>1, <3>2, <3>3 DEF LiveIsResumable
  <2>3. QED
    BY <1>1, <2>1, <2>2
<1>7. QED
  BY <1>4, <1>5, <1>6

\* A crash leaves behind only what chat-live.json does not name: adapters that
\* were being established, had been told to exit, or were lost.
LEMMA CrashKeeps ==
    ASSUME SessionsInv, CrashAndRestart
    PROVE  SessionsKept'
<1> USE DEF SessionsInv, SessionsKept
<1>1. /\ live' = None /\ handle' = {} /\ turn' = {}
      /\ closing' = closing \ pids /\ lost' = lost \ pids
      /\ \A c \in Chat : session'[c] = IF c \in pids THEN None ELSE session[c]
      /\ \A c \in Chat : call'[c] = IF call[c] = "idle" THEN "idle" ELSE "returned"
      /\ \A c \in Chat : changing'[c] = {} /\ status'[c] = "starting"
      /\ \A c \in Chat : proc'[c] = IF proc[c] # "up" THEN proc[c]
                                    ELSE IF c \in pids THEN "none" ELSE "orphaned"
  BY DEF CrashAndRestart, Reclaimed
<1>2. StartsInv'
  BY <1>1 DEF StartsInv
<1>3. LiveInv' /\ LiveIsResumable'
  BY <1>1 DEF LiveInv, LiveIsResumable
<1>4. LeftInv' /\ HandleInv'
  BY <1>1 DEF LeftInv, HandleInv
<1>5. OrphanInv'
  <2>1. ASSUME NEW c \in Chat, proc[c] = "up", c \notin pids
        PROVE  call[c] # "idle" /\ (session[c] = None \/ c \in closing \union lost)
    <3>1. call[c] # "idle"
      BY <2>1 DEF StartsInv
    <3>2. live = c => session[c] = None
      BY <2>1, ChatIsNumber DEF LiveInv, StartsInv
    <3>3. QED
      BY <2>1, <3>1, <3>2 DEF LeftInv
  <2>2. \A c \in Chat : proc[c] = "orphaned" => call'[c] = "returned"
    BY <1>1 DEF OrphanInv
  <2>3. QED
    BY <1>1, <2>1, <2>2 DEF OrphanInv
<1>6. QED
  BY <1>2, <1>3, <1>4, <1>5

LEMMA InitKeeps == Init => SessionsInv
<1> SUFFICES ASSUME Init PROVE SessionsInv
  OBVIOUS
<1>1. StartsInv
  BY DEF Init, StartsInv
<1>2. LiveInv /\ LeftInv /\ HandleInv /\ OrphanInv /\ LiveIsResumable
  BY ChatIsNumber DEF Init, LiveInv, LeftInv, HandleInv, OrphanInv, LiveIsResumable
<1>3. QED
  BY <1>1, <1>2, InitType DEF SessionsInv, SessionsKept

LEMMA SessionsInductive ==
    ASSUME SessionsInv, [Next]_vars
    PROVE  SessionsInv'
<1>1. CASE UNCHANGED vars
  BY <1>1 DEF SessionsInv, SessionsKept, TypeOK, StartsInv, LiveInv, LeftInv, HandleInv,
              OrphanInv, LiveIsResumable, vars
<1>2. CASE Next
  <2>1. TypeOK'
    BY <1>2, NextType DEF SessionsInv
  <2>2. ASSUME NEW c \in Chat,
               \/ StartSession(c) \/ CloseCompletes(c)
               \/ EstablishSucceeds(c) \/ EstablishFails(c)
        PROVE  SessionsKept'
    BY <2>2, StartKeeps, CloseCompletesKeeps, EstablishSucceedsKeeps, EstablishFailsKeeps
  <2>3. ASSUME NEW c \in Chat,
               \/ AdapterExits(c) \/ TurnStarts(c) \/ TurnEnds(c)
               \/ \E m \in Models : SetModelAnswered(c, m)
        PROVE  SessionsKept'
    BY <2>3, AdapterExitKeeps, TurnStartsKeeps, TurnEndsKeeps, SetModelAnsweredKeeps
  <2>4. QED
    BY <1>2, <2>1, <2>2, <2>3, SetModelKeeps, EndKeeps, CrashKeeps DEF Next, SessionsInv
<1>3. QED
  BY <1>1, <1>2

\* One long-lived session per skill: no two established adapters run that
\* nobody told to exit, a crash leaves none behind that the next server does
\* not reclaim, and what both files say of the live session is true of it --
\* but for sessions that were lost and records that a closed or lost adapter
\* wrote, however starts, ends and answers overlap.
THEOREM SessionsKeep == Spec => []SessionsAreKept
<1>1. SessionsInv => SessionsAreKept
  <2>1. SUFFICES ASSUME SessionsInv PROVE AdaptersAreAccounted /\ LiveIsResumable
    BY DEF SessionsAreKept
  <2>2. OneSessionPerSkill
    BY <2>1 DEF SessionsInv, SessionsKept, LeftInv, OneSessionPerSkill, TypeOK
  <2>3. QED
    BY <2>1, <2>2 DEF SessionsInv, SessionsKept, OrphanInv, AdaptersAreAccounted,
                EstablishedAdaptersReclaimed
<1>2. SessionsInv /\ [Next]_vars => SessionsInv'
  BY SessionsInductive
<1>3. QED
  BY <1>1, <1>2, InitKeeps, PTL DEF Spec
=============================================================================
