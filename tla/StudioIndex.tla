----------------------------- MODULE StudioIndex -----------------------------
(***************************************************************************)
(* The index of a workspace, .skillmaker/studio.db, a cache that every     *)
(* reader rebuilds before it asks (packages/core/src/IndexService.ts, its  *)
(* callers in packages/cli/src: runIndexEffect of server/Server.ts,        *)
(* Skillbook.ts, commands/Status.ts and the like). A request opens a       *)
(* connection of its own, reads files and journal, writes a new database   *)
(* beside the old one, renames it over that, reopens and asks. Within one  *)
(* process the requests queue up; processes -- the server, the command     *)
(* lines -- know nothing of each other.                                    *)
(*                                                                         *)
(* Of the workspace it matters how many facts have been written: a door    *)
(* writes the file of a fact first and its journal line second. What the   *)
(* rows say is the folds' matter (StageMachine, RunLifecycle,              *)
(* SharedJournal). A database is made and deleted by nobody else, and the  *)
(* platform renames over an open file; whether a connection whose file     *)
(* was replaced still answers depends on it.                               *)
(***************************************************************************)
EXTENDS Integers, Sequences

CONSTANTS
    Requests,
    Processes,
    Of,          \* the process that handles each request
    MaxWrites,   \* bound: facts written
    MaxCrashes   \* bound: processes that die

ASSUME IndexConstants ==
    /\ Of \in [Requests -> Processes]
    /\ MaxWrites \in Nat /\ MaxCrashes \in Nat

\* What a database holds: how far skill.json, the journal, and the run and
\* grade files had got when each was read. "absent": no file, no connection.
Database == [holds : {"absent", "schema", "rows"},
             identity : 0..MaxWrites, events : 0..MaxWrites, runs : 0..MaxWrites]
Absent == [holds |-> "absent", identity |-> 0, events |-> 0, runs |-> 0]
Schema == [Absent EXCEPT !.holds = "schema"]

Steps == {"new", "waiting", "scan", "journal", "runs", "rename", "reopen", "query",
          "served", "failing", "over"}
NotAsked == [files |-> 0, lines |-> 0]

VARIABLES
    files, lines,  \* facts whose file, whose journal line is written
    db,            \* studio.db
    queue,         \* workspaceLocks of each process: who holds it, who waits
    step,          \* what each request does next
    rebuilds,      \* rebuilds it has still to do
    temp,          \* what it has read for the one under way
    handle,        \* its connection
    result,        \* what it was told
    asked,         \* history: what was written when it came in
    swapped,       \* history: requests that reopened what another process had
                   \*          renamed there since their own rename
    replaced,      \* connections whose file was renamed over
    crashes

request == <<queue, step, rebuilds, temp, handle, result, asked>>
indexVars == <<files, lines, db, request, swapped, replaced, crashes>>

IndexTypeOK ==
    /\ files \in 0..MaxWrites /\ lines \in 0..files
    /\ db \in Database
    /\ queue \in [Processes -> Seq(Requests)]
    /\ step \in [Requests -> Steps]
    /\ rebuilds \in [Requests -> 0..2]
    /\ {temp, handle, result} \subseteq [Requests -> Database]
    /\ asked \in [Requests -> [files : 0..MaxWrites, lines : 0..MaxWrites]]
    /\ swapped \subseteq Requests /\ replaced \subseteq Requests
    /\ crashes \in 0..MaxCrashes

IndexInit ==
    /\ files = 0 /\ lines = 0
    /\ db = Absent
    /\ queue = [p \in Processes |-> <<>>]
    /\ step = [r \in Requests |-> "new"]
    /\ rebuilds = [r \in Requests |-> 0]
    /\ temp = [r \in Requests |-> Absent]
    /\ handle = [r \in Requests |-> Absent]
    /\ result = [r \in Requests |-> Absent]
    /\ asked = [r \in Requests |-> NotAsked]
    /\ swapped = {} /\ replaced = {}
    /\ crashes = 0

-----------------------------------------------------------------------------
\* The doors of the other modules.

WriteFile == /\ files < MaxWrites
             /\ files' = files + 1
             /\ UNCHANGED <<lines, db, request, swapped, replaced, crashes>>

FaultLineFirst ==
    /\ lines < MaxWrites
    /\ lines' = lines + 1
    /\ UNCHANGED <<files, db, request, swapped, replaced, crashes>>
AppendLine == /\ lines < files
              /\ lines' = lines + 1
              /\ UNCHANGED <<files, db, request, swapped, replaced, crashes>>

-----------------------------------------------------------------------------
\* acquireWorkspaceLock: a request takes its place when it comes in.
Arrive(r) ==
    /\ step[r] = "new"
    /\ step' = [step EXCEPT ![r] = "waiting"]
    /\ queue' = [queue EXCEPT ![Of[r]] = Append(@, r)]
    /\ asked' = [asked EXCEPT ![r] = [files |-> files, lines |-> lines]]
    /\ UNCHANGED <<files, lines, db, rebuilds, temp, handle, result, swapped,
                   replaced, crashes>>

FaultUnlocked(r) == TRUE
HasLock(r) == Head(queue[Of[r]]) = r

\* The layer rebuilds when it found no database, and every caller does.
FaultOnlyWhenMissing(existed) == IF existed THEN 0 ELSE 1
Rebuilds(existed) == IF existed THEN 1 ELSE 2

OpenDatabase(r) ==
    /\ step[r] = "waiting"
    /\ HasLock(r)
    /\ LET existed == db.holds # "absent"
           opened == IF existed THEN db ELSE Schema
       IN  /\ db' = opened
           /\ handle' = [handle EXCEPT ![r] = opened]
           /\ rebuilds' = [rebuilds EXCEPT ![r] = Rebuilds(existed)]
           /\ step' = [step EXCEPT ![r] = IF Rebuilds(existed) = 0 THEN "query" ELSE "scan"]
    /\ UNCHANGED <<files, lines, queue, temp, result, asked, swapped, replaced, crashes>>

ReadStep(r, this, holding, next) ==
    /\ step[r] = this
    /\ temp' = [temp EXCEPT ![r] = holding]
    /\ step' = [step EXCEPT ![r] = next]
    /\ UNCHANGED <<files, lines, db, queue, rebuilds, handle, result, asked, swapped,
                   replaced, crashes>>

scanBundleIdentities(r) ==
    ReadStep(r, "scan", [Absent EXCEPT !.identity = files], "journal")

ReadJournal(r) == ReadStep(r, "journal", [temp[r] EXCEPT !.events = lines], "runs")

\* The loop over the bundles, and the new database made from all that was read.
ReadRuns(r) ==
    ReadStep(r, "runs", [temp[r] EXCEPT !.runs = files, !.holds = "rows"], "rename")

RenameOver(r) ==
    /\ step[r] = "rename"
    /\ db' = temp[r]
    /\ handle' = [handle EXCEPT ![r] = Absent]
    /\ temp' = [temp EXCEPT ![r] = Absent]
    /\ rebuilds' = [rebuilds EXCEPT ![r] = @ - 1]
    /\ replaced' = {q \in Requests : q # r /\ handle[q] # Absent}
    /\ swapped' = (swapped \ {r}) \union {q \in Requests : step[q] = "reopen"}
    /\ step' = [step EXCEPT ![r] = "reopen"]
    /\ UNCHANGED <<files, lines, queue, result, asked, crashes>>

Reopen(r) ==
    /\ step[r] = "reopen"
    /\ handle' = [handle EXCEPT ![r] = db]
    /\ step' = [step EXCEPT ![r] = IF rebuilds[r] = 0 THEN "query" ELSE "scan"]
    /\ UNCHANGED <<files, lines, db, queue, rebuilds, temp, result, asked, swapped,
                   replaced, crashes>>

\* listBundles, getBundle, listRuns ...: one connection, one state of affairs.
Query(r) ==
    /\ step[r] = "query"
    /\ result' = [result EXCEPT ![r] = handle[r]]
    /\ step' = [step EXCEPT ![r] = "served"]
    /\ UNCHANGED <<files, lines, db, queue, rebuilds, temp, handle, asked, swapped,
                   replaced, crashes>>

\* A file that cannot be read, a journal line that does not parse, a database
\* that is locked or cannot be written or renamed; a query of a connection
\* whose file was replaced.
Fails(r) ==
    /\ \/ step[r] \in {"scan", "journal", "runs", "rename"}
       \/ step[r] = "waiting" /\ HasLock(r)
       \/ step[r] = "query" /\ r \in replaced
    /\ step' = [step EXCEPT ![r] = "failing"]
    /\ UNCHANGED <<files, lines, db, queue, rebuilds, temp, handle, result, asked,
                   swapped, replaced, crashes>>

\* What a request had is gone with it.
Forget(over) ==
    /\ step' = [r \in Requests |-> IF r \in over THEN "over" ELSE step[r]]
    /\ handle' = [r \in Requests |-> IF r \in over THEN Absent ELSE handle[r]]
    /\ temp' = [r \in Requests |-> IF r \in over THEN Absent ELSE temp[r]]
    /\ result' = [r \in Requests |-> IF r \in over THEN Absent ELSE result[r]]
    /\ asked' = [r \in Requests |-> IF r \in over THEN NotAsked ELSE asked[r]]
    /\ rebuilds' = [r \in Requests |-> IF r \in over THEN 0 ELSE rebuilds[r]]
    /\ swapped' = swapped \ over
    /\ replaced' = replaced \ over
    /\ UNCHANGED <<files, lines, db>>

\* The scope ends, well or not: the connection is closed, then the lock passed on.
FaultLockOnFailure(r) == IF step[r] = "failing" THEN queue[Of[r]] ELSE Tail(queue[Of[r]])
Released(r) == Tail(queue[Of[r]])

Close(r) ==
    /\ step[r] \in {"served", "failing"}
    /\ queue' = [queue EXCEPT ![Of[r]] = Released(r)]
    /\ Forget({r})
    /\ UNCHANGED crashes

\* What a process that dies leaves is the database; the requests that come in
\* later find another process.
ProcessDies(p) ==
    /\ crashes < MaxCrashes
    /\ queue[p] # <<>>
    /\ crashes' = crashes + 1
    /\ queue' = [queue EXCEPT ![p] = <<>>]
    /\ Forget({queue[p][i] : i \in 1..Len(queue[p])})

GoesOn(r) == \/ OpenDatabase(r) \/ scanBundleIdentities(r) \/ ReadJournal(r)
             \/ ReadRuns(r) \/ RenameOver(r) \/ Reopen(r) \/ Query(r)
             \/ Fails(r) \/ Close(r)

IndexNext == \/ WriteFile \/ AppendLine
             \/ \E r \in Requests : Arrive(r) \/ GoesOn(r)
             \/ \E p \in Processes : ProcessDies(p)

\* A process that lives goes on with the request that has its lock.
IndexFairness == \A r \in Requests : WF_indexVars(GoesOn(r))

IndexSpec == IndexInit /\ [][IndexNext]_indexVars /\ IndexFairness

-----------------------------------------------------------------------------
(***************************************************************************)
(* Properties                                                              *)
(***************************************************************************)

\* A reader is never told less than what was written when it asked, unless
\* another process renamed its database over the reader's own before that could
\* reopen it; whatever it is told comes from one complete rebuild, in which no
\* journal line lacks its file (a run that the journal has graded is there with
\* its grade). And no two requests of one process have a connection open.
AnswersAreCurrent ==
    /\ \A r \in Requests : step[r] = "served" =>
         /\ result[r].holds = "rows"
         /\ result[r].events <= result[r].runs
         /\ r \notin swapped => /\ result[r].identity >= asked[r].files
                                /\ result[r].events >= asked[r].lines
    /\ \A q, r \in Requests :
         q # r /\ Of[q] = Of[r] => Absent \in {handle[q], handle[r]}

\* However the requests before it end, a request is answered, or refused, as
\* long as its process lives.
RequestsEnd == \A r \in Requests : step[r] = "waiting" ~> step[r] = "over"
=============================================================================
