# Skillmaker Studio in TLA+

Skillmaker Studio is a workbench for writing, evaluating and publishing agent
skills. A *workspace* is a git directory of *bundles* (one skill each, with its
`skill.json`, fixtures and run records) and an append-only journal,
`.skillmaker/events.jsonl`. A command line (`packages/cli`), a local server
(`packages/cli/src/server`), a viewer and a desktop window work on it over one
core library (`packages/core`). The server keeps live chat sessions with coding
agents and dispatches fixture runs; both spawn agent processes that speak ACP
over a pipe.

This directory has the TLA+ modules that model the parts with state that can go
wrong, the TLC runs that check them on small instances, and the proofs. All
paths below are relative to `src/packages` unless they begin with `src/`.

## Inventory

| Part | State | Operations | What is hard |
|---|---|---|---|
| **Chat turn engine** (`cli/src/server/ChatSessions.ts`) | per live chat: status, queue, `turnsInFlight`, `promptsSent`, the driver's busy flag | send, steer, dispatch a turn, finish a turn, pump the queue, orientation opening | steered and dispatched prompts settle in any order, fail, or never settle; closing in between |
| **Chat session lifecycle** (same file, driver `core/src/ChatSession.ts`, client `runner/src/AcpClient.ts`) | `live` map, handles, adapter processes, `chat-sessions.json`, `chat-live.json` | start, replace, resume, end, reap idle, adapter exit, stop, orphan cleanup; permissions, model change | two awaits inside a start; crashes with adapters running; late answers |
| **Run dispatcher** (`cli/src/server/RunDispatch.ts`) | entries, FIFO queue, slot counter, timers, sweep progress | dispatch, pump, release, run-all | a run released by its timer settles later; sweeps and users meet |
| **Stage machine** (`core/src/Machine.ts`, `Fold.ts`, `StageGates.ts`, `EntryStage.ts`, `SkillJsonWrite.ts`; `cli/src/commands/Advance.ts`, `ReviewRequest.ts`, `ReviewResolve.ts`; `Server.ts` `handlePostEvent`) | the journal, the stage declared in `skill.json` | advance, regress, override, request and resolve a review | several doors check, then write two records, without a lock; crashes between the writes |
| **Journal** (`core/src/JournalService.ts`, `Journal.ts`, `cli/src/GitFiles.ts`) | the file, in every clone of the workspace | read all, append with idempotency key, repair a torn line; git's union merge | read-then-append; one bad line; lines that others wrote appearing before one's own |
| **Run lifecycle** (`core/src/RunEngine.ts`, `RunRepair.ts`, `runner/src/Runner.ts`) | `run.json`, transcript, journal | run a case, repair | crash between any two writes; repairing a run that is alive |
| **ACP client** (`runner/src/AcpClient.ts`) | the adapter process, pending requests, the connection's error | spawn, request, answer, permission, close; classify an error | the adapter dies, hangs, answers late, prints strays, closes its output |
| **Stations** (`core/src/StationEngine.ts`) | one agent session, its sandbox, bundle files | seed a sandbox, run a station, copy back, end with a review request | its bundle is edited meanwhile; copies fail half-way; it ends by appending to a journal others append to |
| **Todos, grades** (`core/src/FoldTodos.ts`, `Todo.ts`, `TodoFromReport.ts`, `Grades.ts`) | journal, grade files | open, start, finish, drop, reopen, patch; grade | check-then-append, in several clones; file first, event second |
| **Intake dock** (`core/src/Receive.ts`, `Triage.ts`, `Route.ts`) | dock directory, journal | receive, triage, route | several files and events per item |
| **Publishing, versions** (`core/src/Publish.ts`, `InstallPublish.ts`, `Versions.ts`, `Ship.ts`) | installed copies, version records, journal | publish, record a version, ship | staged copies swapped into place, partial failure |
| **Bundle files** (`core/src/SkillJson*.ts`, `Adopt.ts`) | `skill.json`, `bundle.json`, the adopt marker | create, migrate, adopt | which of two records is believed |
| **Index** (`core/src/IndexService.ts`) | `studio.db`, one queue of requests per process | open, rebuild, query, close | every reader rebuilds; processes rename over each other's database |
| **Projects, single server** (`cli/src/server/ProjectRegistry.ts`, `ClaimFile.ts`, `JournalWatcher.ts`, `core/src/MachineConfig.ts`, desktop `claim.rs`, `sidecar.rs`) | registry of live projects, claim file, machine config, watches | refresh, start, stop, add and remove a project, watch a journal | read-classify-write of the claim and of the config; slugs that pass from one project to another; a journal's directory born under the watch |
| **Chat panel** (`viewer/src/app/next/chatApi.ts`, `chatModel.ts`, `RightPanel.tsx`) | per browser tab: a stream, the items made of it, drafts | connect, replay, reopen, send, answer a permission, restore drafts | ids that restart in every session; connections lost with frames on their way |
| **Rest of the viewer, command-line shell, book, site, desktop window** | none of their own that others depend on | rendering | - |

How they interact: every door (CLI process, server request, station, run)
*reads* the whole journal and *appends* to it; nothing locks it. The viewer
learns of changes by SSE ticks from the journal watcher and refetches. A chat
is started by `ChatSessionManager`, which calls the driver, which owns a client,
which owns the process; exits and updates come back as callbacks. Its panel
follows one event stream per session. Every screen asks the index, which each
request rebuilds from files and journal. The dispatcher calls the run engine and only watches whether its promise settles.

What makes each part correct is what its properties say, below; every place
where the code can be driven into trouble that a unit test would hardly reach is
in `PROJECT.json` under `hazards`, at its line, with the properties that watch it.

## Modules

A definition whose name begins with `Fault` is a slip of the code that some
property is checked to catch; no action uses it. `PROJECT.json` lists one per
property; a module whose properties have several parts keeps one for each.

| Module | Composes with |
|---|---|
| `ChatTurns` (implements `ChatDelivery`), `ChatSessions`, `ChatPanel` | the three views of a chat: messages within a session, sessions of a skill, what a browser sees of them |
| `StageMachine`, `RunLifecycle`, `Publishing`, `Dock` | doors that write files and append to the journal of one clone |
| `SharedJournal` | the journal itself, over clones; `RunLifecycle` and `Publishing` have its torn lines and its keys within one clone |
| `StudioIndex` | readers of what those doors write |
| `AgentRun` | the inside of a run, which `RunLifecycle` takes for one free outcome and `RunDispatch` for a promise that settles |
| `ProjectServer`, `RunDispatch` (implements `RunPool`) | the process that serves all this, and its runs |

### ChatTurns, ChatDelivery

`ChatTurns` is one live session. JavaScript runs a handler or a promise callback
to completion, so each of them is one action: `SendMessage` (`sendMessage` with
`steerLive`, `enqueue` and `pumpQueue`), `SessionReady` (what `startSession`
does once the adapter is there, orientation included), `TurnSettles`
(`dispatchTurn`'s continuation, `finishTurn`, the flush), `SteerAnswered` and
`SteerRefused` (`steerLive`'s two continuations), `Close` (`closeChat`).
The variables are the fields of `LiveChat` the code has, plus the driver's
unsettled prompts and steers and the history of the wire. The queue is a set,
because the code keeps it sorted by a unique `seq`. Two kinds of adapter stand
for the two shipped ones: `folds` (codex: a steered prompt need never be
answered and is not counted) and `answers` (claude: each steered prompt is a
counted turn, which may itself fail after the turn it was typed into has ended;
the history `failedAlone` has such steers). An adapter may fall silent and stay
so (`FallsSilentOrGoesOn`, `hung`), since no request of a chat has a time limit.

`ChatDelivery` is what the panel promises: a mailbox in which a message is
accepted, waits, and is handed over, the oldest waiting one first; a refused
message goes back to waiting; closing ends everything. `ChatTurns` implements it
under the mapping at its end (`DeliverySpec`).

### ChatSessions

All sessions of one skill over the life of the server and its successors.
`startSession` waits twice, so it is three steps: `StartSession` (to the first
wait), `Install` within `CloseCompletes` (to the second), and
`EstablishSucceeds` or `EstablishFails`. `EndSession`, `ReapIdle`,
`AdapterExits`, `TurnStarts`, `TurnEnds` and `CrashAndRestart` (with
`cleanupOrphans`) are the rest. The files are `store` (`chat-sessions.json`) and
`pids` (`chat-live.json`); `proc` is the adapter process. `SetModel` and
`SetModelAnswered` are the two halves of a change of model, whose answer can
cross the end of a turn or of the session; a start falls back to the adapter's
own model when that refuses the chosen one (`Opened`). The effort goes with the
model, and of the models only a chosen one and the default are told apart.
Starts, ends and crashes come at any time, also while other starts are pending,
and an adapter that was told to exit may answer until it is gone. What then goes
wrong is kept in two histories: `lost` has the chats that left `live` with nobody
closing their adapter (`CloseChat` of a start without a handle, `Install` over a
chat another call put there, `EstablishFails` deleting another's chat), and
`stray` the providers whose record was last written for a chat that was lost or
told to exit (`RecordSession`). What a turn does inside is `ChatTurns`; the modules share `closeChat`, the readiness step and the
meaning of `status`, and are kept apart because one counts messages and the
other sessions.

### RunDispatch, RunPool

`RunDispatcher` has no `await` inside, so `dispatch` and `release`, each with the
`pump` they end in, are single steps. The actions are `HandleRun`, `HandleRunAll`
and `SweepGoesOn` (the sweep's loop up to its next `await`), `RunSettles` and
`GoesStale`. Runs are numbered as they are accepted.

`RunPool` is what the dispatcher promises, without timers, sweeps or a slot
counter: a pool in which a run is accepted unless one of its fixture waits or is
active, and a slot that becomes free goes at once to the oldest run that waits.
`RunDispatch` implements it under the mapping `Pool` (`PoolSpec`): a run is active
while it has both started and its entry, and it waits while it is in the queue.

### StageMachine

One bundle: `journal` (its stage changes and reviews), `declared`
(`skill.json`), and at most one `request` in flight at each door.
`CheckStageChange` reads and checks (`checkTransition`), `WriteStage` is the
artifact gate and `writeSkillJsonStageSync`, `AppendEvent` is `journal.append`.
A door may write no stage and append all the same: the server's when it could not
fetch the bundles' locations, the command line's when the bundle is adopted in
place, outside `<skillsDir>/<slug>`. The history `unwritten` has the stage changes
recorded that way. And the append may find the idempotency key of the request
taken, after the stage was written. `CheckReview` is the check of the two review
commands; a request a guard refuses changes nothing and is no step. A door may die between any two steps (`Crash`).
The gate's outcome depends on files the bundle's author edits at will, so it is a
free choice.

### RunLifecycle

The files of a bundle's runs, and everyone who writes them, in the order of the
code: the process of an eval or station run (`Begin`, `Open`, `Reset`, `EndTurn`
or `SessionFails`, `Finalize`, `AppendRunEvent`), `run repair` (`BeginRepair`,
`Visit`, `RepairRecord`, `AppendRepaired`), and the two grading doors
(`BeginGrading`, `ArchiveGrade`, `WriteGrade`, `AppendGraded`, whose line is not
added when it repeats the idempotency key of an earlier grading; `ahead` has the
runs whose grade file says more than the journal for that). `Crash` kills one
of them between two writes or within one; a journal line cut short makes the
journal unreadable for good. Of the journal the lines `run.completed`,
`run.repaired` and `run.graded` of each run are kept, since nothing reads the
others. What the session does is a free outcome: captures, measurements and the
choice of a fixture, provider or station are left out.

### AgentRun

What happens within a run, of an eval case or of a station: `Begin` fills the
sandbox (`stationSeedPaths`) and takes its snapshot; `Spawn`, `Started`, `Ask`,
`Answer`, `PromptTimesOut` are `runAcpSession` over `AcpClient`, with its read
loop (`OutputEnds`, `StrayLine`) and `close` (`Close`, `Drained`); `AskPermission`
is the sandbox policy; `Snapshot` classifies the session and compares the sandbox,
`KeepArtifact` copies as an eval run does, `Mirror` and `CopyBack` as a station
does, `Finish` asks for the review. The adapter is a process of its own
(`AdapterExits`, `AgentWrites`), and the maker edits the bundle (`MakerEdits`). Of a
file it matters who wrote it last. A station's directory `research/` stands for all
the paths below it; the run gives it two, one of them named like a credential, which
only the copying of an eval run (`KeepArtifact`) redacts.
`Dies` stands for every end without an end, also by a file that vanishes while a
snapshot is taken. The evaluating station has no skill in the template, so no run of
it passes the preconditions.

### Publishing

One bundle with an `output/` directory, its live files, the journal, the
snapshots, and what lies at each target. A request at a door is a record of how
far it has got: reading and hashing (`OpenRecord`, `OpenInstall`, `OpenMarket`),
the search for the key and the write (`LookForKey`, `WriteEvent`), the snapshot
(`CopySnapshot`, `RenameSnapshot`), the copy or manifest (`Collect`,
`AlreadyPublished`, `Touch`, `CopyFiles`) and the remembered audiences
(`Remember`). `Change` is the maker, who edits the live files, or the world: a
change of stage, a graded run. Content stands for its
hash, the hashing of the two parts is one step, dates in stamps and targets in
git directories or of codex are left out.

### Dock

Receiving (`Receive`), the five rulings (`Rule`, then `Mint` for new and fork,
`Upgrade`, `RecordVersion`, `AppendRouted`) and the manifest row that adopts a
directory where it lies (`FindMine`, which shares `landAndAdopt`'s steps). A
payload stands for a skill's files; a directory two copies have met in holds
several. The header of the module lists what it leaves out.

### SharedJournal

One journal in several clones. A door reads the journal of its clone and appends
later (`Decide`, `WriteEvent`; a plain `todo add` and a field report rest on no
reading: `WriteAtOnce`), so two doors of one clone race and two clones do not know
of each other. `Push` and `Pull` are git with `merge=union`: `Union` is the joined
sequence with every line once, both sides' orders and, between two common lines,
one's own new lines before the other's (checked against git 2.39). One todo, one signal it may be opened
from, and one key stand for all: todos are folded independently. Clones commit
before they pull, and machines agree on the day.

### StudioIndex

The requests of several processes against one `studio.db`. `Arrive` queues at
the process's own lock, `OpenDatabase` finds or creates the file and decides how
many rebuilds there are (the layer's own, and the caller's), `scanBundleIdentities`,
`ReadJournal` and `ReadRuns` read in that order, `RenameOver` and `Reopen` replace
the database, `Query` asks, `Close` passes the lock on. What the doors write is
counted (`files`, `lines`), and a database is how far each count had got when it
was read. `Fails` may happen wherever the code can fail, `ProcessDies` kills a process.
The test for the file and its opening are one step, a request asks one query, and
nobody else deletes the database.

### ProjectServer

Servers (`skillmaker start`), tools (`project add` and `remove`), the machine's
`config.json`, the claim file, each server's registry of projects, and for every
project the journal watch. Reading and writing back a file that several processes
change are two steps. `Watch` is one project's watcher: the root's watch until
`.skillmaker` is born, the poll, the swap, the debounced tick. Of a project's
dispatcher the model has one fixture's run: `Dispatch` and `RunEnds`. A refresh
that drops a project drops its dispatcher without stopping the run, which is then
`forgotten`; nothing keeps its fixture from being run again beside it. A path stands for
its hash in a slug. A directory without its config file is a project that cannot
be loaded; a directory deleted and made again under a registered project, process
ids used again, and requests that arrive while a server closes are left out.

### ChatPanel

The event buffers of a skill's sessions, their streams, the pending permissions
and the queue on the server; and in each panel the stream's subscription, the
frames on their way, the items made of them (`Taken` folds one frame into them)
and the restored drafts. `Drop` loses a connection with whatever is on its way;
`Receive` takes a frame, `Connect` reconnects with the last id, `Reopen` changes
to the session it was told of. `Restart` loses the server's sessions. When turns
end and whether a steer is refused is `ChatTurns`' matter and free here; the
agent's own output is left out, starts do not overlap, and a session that is
starting is not ended. Frames that come in together may be rendered together
(`Receive`, `Rendered`), which matters for the drafts: the flag that restores them
once is reset only by a render with a session, so `restored` remembers whose texts
it was set for, and the property leaves out a panel whose flag is another
session's (see the findings; it takes two messages, and the run types one).

### MC modules

Each `MC` module extends its module and gives the constants that a `.cfg` cannot
write down, and the symmetry where there is one.

## Runs

| Run | Shows | Bounds and why they are enough |
|---|---|---|
| `turns` | `TurnsAreSound` (`OneTurnAtATime`: the driver's busy guard never swallows a message; `NoIdleBacklog`, `ContextOnFirstPromptOnly`, `SentOnceEachWay`; `RunningIffTurnsInFlight`: only a counted steer that failed alone leaves a session running without a turn), the refinement `DeliverySpec`, and `FlushedAtBoundary` under fairness | 4 messages: one turn, two steers and one queued message can be outstanding at once, and a refused message can overtake and be overtaken. The adapter may hang at any point, for a while or for ever |
| `sessions` | `SessionsAreKept`: `AdaptersAreAccounted` (`OneSessionPerSkill`, and after a crash `EstablishedAdaptersReclaimed`) and `LiveIsResumable` (the record names the conversation and model a resume should open), `EndedAdapterExits` under fairness | 3 starts, 2 providers, a model besides the default, any number of crashes: a start that waits, the chat another call installs meanwhile and a third that begins during either; starts, ends and late answers overlap freely. The chats in `lost` and the records in `stray` are the exceptions, and only their steps make them |
| `dispatch` | `DispatchIsSound` (slots and queue account for every run, one run per fixture, no idle slot, first come first started, no sweep that counts what never ran), the refinement `PoolSpec`, and `RunsAndSweepsEnd` under fairness | two slots (the default), skills of three and one fixtures; no request is taken after the fourth accepted run, sweeps under way may add theirs: enough for full slots, a queue, a stale run that settles after its successor started, and a sweep crossed by a user's run |
| `stage` | `HistoryIsSound` (`LegalHistory`, `ForwardWasApproved`), `RecordAgrees` | two doors, three rungs of the ladder (the guard only looks at neighbours), no new request once the journal has 4 events (two in flight may still land), 1 override, any number of crashes: a full request-approve-advance, a race in it, a stage that is not written, a key that is taken, and a regression |
| `publishing` | `VersionsKeepContent` (`SnapshotsKeepVersions`, `StampNamesContent`), `JournalIsTrue` (`RepeatsAreRaces`, `ReceiptMatchesCopy`) | two doors, two contents of each kind, an install target and a manifest, 3 requests, 2 changes of the world, 1 crash: record, publish and revert, or three that overlap |
| `lifecycle` | `RecordsAreTrue`: `VerdictsStand` (`VerdictRestsOnEndTurn`, `NoVerdictLost`) and `JournalTellsOutcome`; and of every step `FinalizedForGood` | a run and one left by a dead process, two repairs, two gradings, two verdicts, 1 crash: everyone who writes can meet another of his kind |
| `server` | `ClaimFindsServer`, `ProjectsStand` (`ListedIsReached`, `RunsAreGuarded`), `AppendsAreTold` under fairness | two servers and a tool, two projects of one name, a fixture to run in each, 3 changes, runs or crashes: a slug can pass to the other project and back. Three servers, for what a third start does beside one of two that raced, are left to the proof |
| `panel` | `PanelIsRight` (`StreamIsWhole`, `CaughtUpPanelIsRight`, `DraftsAreTheUndelivered`), `StarterSeesSession` under fairness | a panel beside another client, two sessions, a message, a permission request, 2 lost connections or restarts |
| `dock` | `CratesLeaveOnce` (`UndisposedIsAtDock`, `SecondRoutingIsRace`), `RoutedBundlesAreWhole` (`DispositionsAreEarned`, `IdentitySurvives`) | two command lines, the bundle `home`, a crate that comes back unchanged and a strange one, a free slug, 3 requests, 1 crash |
| `shared` | `TodosStand` (`DecisionsStand`, `SweptIsSettled`), `HistoriesGrow` | two clones with two doors and one, 4 lines, 2 days, a sweep after 1: opening, finishing, reopening and finishing again fit, in any split over the clones; one status of each kind is asked for (the fold treats done and wont-do alike, and in-progress as it does open) |
| `index` | `AnswersAreCurrent`, `RequestsEnd` under fairness | two requests of the server and one of a command line, a fact, 1 crash: a queue in one process and a rename from another |
| `agent` | `RunsAreTrue` (`StatusIsHonest`, `WorkIsOnRecord`, `PolicyHolds`), of every step `CopybackIsOwn`, and `PromptsEnd` under fairness | one run, of each kind, at four paths (produced below `research/`, produced and named like a credential, seeded only, and both), 2 writes of the agent, 1 edit of the maker, 2 faults. One run is enough: runs meet only in the bundle's files, where another run is to it what the maker is |

Most properties have exceptions, and each exception is a set of its own among the
history variables (`raced`, `crossed`, `torn`, `stranded`, `swapped`, ...) that a
named action fills: the property says that there is no other way. The larger runs
have one to eight million states and take half a minute to three minutes with two workers.

Fairness. `turns`: an adapter that is not hung settles a start, a turn and, if it
advertises `promptQueueing`, each steered prompt (by an answer or by exiting, when the
driver rejects what is pending); codex's steers get none. Nothing is assumed of an
adapter that hangs, neither the handshake nor a chat's prompt having a time limit, and
`FlushedAtBoundary` promises nothing in its session; nobody has
to type or close. `sessions`: only that `close()` comes back, since the client
kills the process after three seconds; establishing an adapter has no timeout, so
no fairness. `dispatch`: timers fire and continuations of settled promises run;
a run itself may hang for ever. `server`: a call that does not wait comes to its
end, and the operating system, the poll and the timer do their part of a watch;
no user, signal or start has to happen. `panel`: frames and answers arrive and a
browser connects again, so a panel takes its next step; nobody has to type or
answer. `index`: a process that lives goes on with the request that has its lock
(each is one promise nobody interrupts). `agent`: the process of a run goes on and
its prompt's timer fires, a killed adapter dies and the output of a dead one ends;
no adapter has to answer, write or leave by itself. The others state no liveness: nobody
has to go on with a request. Deadlock is not an error anywhere: with the bounds
used up, every one of these systems may rest.

### Findings

`PROJECT.json` has each with its lines and the words it contradicts. They were met
while modelling, and are the exceptions that the properties of the passing runs
name.

* Chats. A counted steer that fails after the primary turn ended leaves the
  session `running` with no turn in flight; its message waits for ever. (TLC shows
  it in `MCChatTurns` with `MaxMessages = 2` once `failedAlone` is taken out of
  `FlushedAtBoundary`: two steers outlive the opening turn and fail, both are queued
  again, and the behaviour ends there. `RunningIffTurnsInFlight` says in the passing
  run, and `RunningCounts` for any number of messages, that this is the only way.)
  Ending a session while its adapter starts leaks the adapter, and the next start
  makes a second one; a start that had waited for the old session to close
  overwrites a chat installed meanwhile, and one that fails deletes whichever is
  there. An answer that comes after its session was closed puts the old session back
  on the record, from which the next resume opens. A stream can resume in the buffer of
  another session at an id of the old one. A refused steer whose session dies is
  not given back as a draft, nor are the texts of a session that a panel saw begin
  and end between two renders, when it had just restored another's. `onWorkChanged` is not called after an ordinary turn.
* Runs. A run outlives its slot when the machine's run timeout is set above the
  dispatcher's fifteen minutes. `run repair` takes a live run for a stuck one, and
  each then overwrites the other's `run.json`. A station dies between two files of
  its copying when one has vanished. A stray value on the adapter's output, or a
  broken pipe, can make a fault of the connection pass for a failure of the task. The
  handshake has no time limit.
  A station keeps every file below `research/`, `research/auth.json` too, in the run's
  artifacts and in the bundle: only eval runs redact what is named like a credential,
  though the comments on it speak of every run. `WorkIsOnRecord` therefore says so of
  eval runs only.
* Stages. A stale `from` is not always rejected. A stage change is recorded although
  skill.json was not written: by the server when it could not fetch the bundles'
  locations, by the command line for a bundle that lives outside the skills
  directory. And skill.json is written before it turns out that the event's
  idempotency key is taken. A stage change does not cancel a
  pending review, which can then be resolved as an approval of the new stage. The
  documentation still demands a publish gate that `Machine.ts` no longer looks at.
* Versions. Going back to recorded content is a no-op that leaves the bundle out
  of sync for ever; a snapshot is keyed by the output alone but holds the design
  too; two recorders of one version can both append; a manifest that returns to
  earlier content gets no receipt. After a union merge the last version of the
  journal need not be the youngest.
* Dock. An upgrade in place removes `skill.json`; it clears the bundle before it
  looks for the crate; a crate whose mover dies cannot be ruled on again; two
  commands can give one crate two dispositions; one row's failure ends a triage.
* The machine. The desktop shell looks for the claim where no server writes it. A
  chat's tick goes out under the slug its project had at first.
* Shared files. The index's lock is one process's, though its comment rules out
  any second connection. Git's union can repeat a line, which breaks the primary
  key of the index's events table; it looks at no idempotency key; and a todo
  finished in two clones can be swept although it was reopened in between.

## Proofs

All theorems are about a module's specification, for every value of the constants that satisfies
the module's assumptions: any number of messages and adapter kinds; any
concurrency of at least one, any skills and fixtures; any ladder, any number of
doors, overrides and crashes, and journals of any length; any number of starts,
crashes and late answers of a chat; any number of runs, repairs and gradings; any
paths and kinds of run; any crates, payloads and directories; any panels and
sessions. The bounds that TLC needs are constants of the modules too, so the
theorems hold for each of their values. Beyond the kinds of the constants the
modules assume only that a provider is configured and no model is called "default" (`ChatSessions`), that
"none" is no intake, no directory (`Dock`), no server, slug or
change of config.json (`ProjectServer`), and that no content is named like a
publish target and "none" and "torn" are no content (`Publishing`). There is nothing else on trust: the facts about finite sets and sequences
are the library's, and the two that were missing are proved where they are needed:
a nonempty set of naturals has a least element (`LeastNatural`), a nonempty set of
positions a last one (`GreatestPosition`), which turns the `CHOOSE` of `Oldest`,
`Latest` and `LastOf` into a value, and a first one (`FirstPosition`), which stands
for induction over a journal. No theorem has a hypothesis besides. The theorems
about `ChatPanel`, `Publishing`, `SharedJournal` and `StudioIndex` stand at the end
of another component's proofs, in a module that extends both. So that the two can be
told apart there, what every module has (specification, next-state relation, type
invariant) carries a prefix in these four: `PanelSpec`, `PublishSpec`, `CloneSpec`,
`IndexSpec`, and so on. The theorems about `SharedJournal` hold for any clones
and doors of the model, whose `Union` never leaves a line twice; git keeps that
promise for two clones (see below).

| Module | Theorem | States |
|---|---|---|
| `ChatTurnsProofs` | `TypeCorrect`, `TurnsSound`, from `OneTurn`, `NoBacklog`, `ContextFirst`, `SentOnce`, `RunningCounts` | the invariants of the run `turns` |
| | `ImplementsDelivery` | `Spec => DeliverySpec`, the refinement of `ChatDelivery` |
| | `PanelTypeCorrect`, `PanelRight` | the invariants of the run `panel` |
| `ChatSessionsProofs` | `TypeCorrect`, `SessionsKeep` | the invariants of the run `sessions` |
| `RunDispatchProofs` | `TypeCorrect`, `DispatchSound`, from `SlotsCorrect`, `NoGhosts`, `OneActive`, `SlotsUsed`, `FirstComeFirstStarted`, `SweepsAreHonest` | the invariants of the run `dispatch` |
| | `ImplementsPool` | `Spec => PoolSpec`, the refinement of `RunPool` |
| | `PublishingTypeCorrect`, `VersionsKeep`, `JournalTrue` | the invariants of the run `publishing` |
| `StageMachineProofs` | `TypeCorrect`, `HistorySound`, from `HistoryIsLegal` and `MovesWereApproved`; `RecordsAgree` | the invariants of the run `stage` |
| | `SharedTypeCorrect`, `TodosStandFast`, and `HistoriesOnlyGrow`, an action property with its invariant | the properties of the run `shared` |
| `RunLifecycleProofs` | `TypeCorrect`, `RecordsTrue`, and `FinalizedStays`, an action property | the properties of the run `lifecycle` |
| `AgentRunProofs` | `TypeCorrect`, `RunsTrue`, and `CopiesOwn`, an action property | the safety properties of the run `agent` |
| `DockProofs` | `TypeCorrect`, `CratesLeave`, `BundlesWhole` | the invariants of the run `dock` |
| `ProjectServerProofs` | `TypeCorrect`, `ClaimFinds`, `ProjectsStandFast` | the invariants of the run `server` |
| | `IndexTypeCorrect`, `AnswersCurrent` | the invariants of the run `index` |

None of these invariants is inductive as it stands. What each needs, and why:

* **ChatTurns.** That the driver is never asked for a second turn depends on the
  count being right, so `CountInv` adds `TurnsCounted` (`turnsInFlight` is the
  number of unsettled driver prompts and, on an adapter that answers them, of
  unanswered steers), `NothingSentEarly` (before the adapter is ready there is
  nothing outstanding, so the opening turn is alone) and `WireCounted`
  (`promptsSent` is the length of the wire, which the first-prompt test reads).
  `WireInv` adds that what is held or sent was typed before the next message
  (`HeldWasTyped`, `SentWasTyped`), so a new message is new, and that a message
  whose turn was dispatched is held nowhere (`TurnIsFinal`), so it is not sent
  again. `CountInv` is proved first, `WireInv` with its help. The refinement also
  needs `SteersWereSent`: a steer that is refused is of a message the agent has,
  which makes it a `HandBack`; every other action is an `Accept`, a `HandOver`, a
  `Close` or a stutter, by one lemma each.
* **ChatSessions.** The idea is to account for every adapter: `LeftInv` says that one
  that runs is the live chat's, was told to exit, or was lost. `StartsInv` says what
  a start has before it returns -- a process at most -- and `LiveInv` that the live
  chat is such a start or is established, with its handle set and its pid in
  chat-live.json. What a crash leaves behind (`OrphanInv`) had therefore no session
  yet, was closing or was lost. `HandleInv` says that turns and changes of the model
  are asked of established chats only, so whoever answers is the live chat, whose
  answer keeps the record true, or has left `live` and makes it `stray`. Each action
  is a composition of a few effects, with a lemma each: what a start installs, what
  closing takes away, what an answer records, and what is forgotten of a chat whose
  process has ended.
* **RunDispatch.** `QueueIsTail` is the idea: the runs are numbered as they are
  accepted, those that have started are a prefix and the queue is the rest in
  order, each with its entry. With it the effect of `pump` (`PumpEffect`) is to
  move the border, and order, slots and entries follow. That it moves it by one run
  at most, since no slot is free while the queue holds two, is what makes each step
  one of `RunPool`: an accepted run starts or waits, a release hands its slot to
  the head of the queue, and a second release of the same run is a stutter. A sweep is honest because
  it is refused while a run of its skill is active: `EntriesSinceSweep` says that
  every active run of a swept skill is younger than its sweep, and `AwaitsNext`
  that the run a sweep waits for is of the fixture it will count next.
* **StageMachine.** `RequestsLegal` carries the guard's verdict from the check to
  the append: a request was legal after the part of the journal its door had read.
  Appending on a reading that is still whole puts a legal event in place; on an
  outrun reading its position becomes outdated. `RecordInv` follows the declared
  stage between the two writes: it is that of one of the `Writers`, doors that have
  written and not appended yet, or the replayed one, or the last change is outdated
  or `unwritten` -- and a writer whose stage
  another writer overwrote has an old reading by the time that other has appended.
  The guard lemmas (`GuardAllows`, `ResolutionAllowed`) relate `checkTransition`
  and the review commands, which look at the fold, to the history the property
  speaks of.
* **RunLifecycle.** A record is final because whoever may still write it would
  write what it says. Of a run that no repair took for dead while it lived,
  `RecordFollowsRunner` says what each step of the runner has left in the record,
  and `RepairsAgree` that a repair works on what a dead process left and that all
  repairs of the run come to one result. `OutcomeIsRecorded` ties the journal to
  the record: an outcome is missing only while the runner or a repair is on its
  way to append it. `GradesAreKept` is for runs whose gradings never overlapped:
  there is one at a time, a verdict on its way to the journal has its file
  already, and there are as many grade files as verdicts, the one on its way
  included. The runs are proved about one at a time: no step reads another run's
  files.
* **AgentRun.** Three arguments that do not need each other. `ReasonIsKnown`: the
  reason a session has ended for is what its adapter said last or the fault of its
  connection, and stays, because a late answer finds nothing pending; its status is
  made of that reason alone. `SandboxIsOwn`: of the files a run finds changed its
  own agent wrote what they hold, so that what `CopyBack` puts into the bundle is
  the run's own, and `BundleIsKept` that it was kept with the run's artifacts
  before. `OutsideIsRefused`: where an adapter offers a way to refuse, the policy's
  answer to a request that reaches outside is one.
* **Dock.** The disposition of a request fixes the steps it can have reached
  (`Lawful`), and who is beyond its ruling works in a directory that is there
  (`PlacesInv`). `MovedHasReason`: a crate that was moved is on its way with its
  mover, stranded by it, or routed. `RulingsAreFirst`: a request had read the
  journal before any routing of its crate, which makes a second routing a race.
  For the files, `LandingsAreWhole`: a bundle in which one request lands at a time
  holds exactly what that request has put there, at each of its steps --
  `CrossingsAreNoted` says that the exception is noted when a second one enters,
  and `EmptyIsCrossed` that without it no empty version is recorded, so that a
  crate that is gone, which hashes like an empty directory, is not taken for a
  returned one. `IdentityInv` follows bundle.json from its writing to the event
  that calls the bundle created.
* **ProjectServer.** Three arguments again. `ClaimInv`: what a claim names serves
  or has ended, and as long as nothing races there is one server up at a time; once
  something does, all that are up have raced, so that the last of them to go leaves
  nobody behind whose claim it could have removed. (The proof did not go through
  when only servers whose starts overlapped counted as raced: a third that starts
  beside the one that is left loses its claim when that one closes. It takes three
  servers; the run has two.) `PageInv` and `EditInv`: a listed project that
  is not excused has been registered and in its server's view ever since, because
  a change of config.json is about the project it was asked for, or was asked with
  the link of an excused one; and in a set of projects no two have one slug
  (`SlugsDiffer`). `LeftInv`: a dispatcher is dropped only for a project that has
  left.

* **StudioIndex.** `LockInv`: the queue of a process has each of its open requests
  once, those behind the first wait, and who has a connection is a first; so there
  is one connection per process, and a failure or a crash leaves no lock behind.
  `Covers` follows one request from its coming in to its answer: what it has read
  by now is no older than the request, the journal no newer than the run files, and
  what lies in the database when it reopens is its own or a whole rebuild of another
  process. Another's step leaves that as it was (`OthersCovered`), whatever it
  renames.
* **Publishing.** Content first: `Faithful` follows a request's hands, so that what
  it is about to copy or to name is the content of the version it says, unless the
  maker has edited it since; `SnapshotsHold` and `VersionsAreCovered` are the two
  directions between snapshots and recorded versions. Then the journal: `Grounded`
  says that what a door has read of it stays so while it only grows -- no event of
  its key up to where it searched, a receipt numbered by the landings it read.
  `ReceiptsAreNumbered` is why that number makes a key: a receipt of an install
  counts fewer landings than there are, so the next landing's key is new. `Orderly`
  is about a target that nothing disturbed: one request works at it, which has read
  all its receipts, or the last receipt is true.
* **ChatPanel.** Of a session, `StatesOf`, `AsksOf` and `MessagesOf` relate its buffer
  to its maps and its queue: requests and messages are numbered by the buffer, each
  once, settled or delivered after they were made, and pending or held until then.
  Of a panel that streams from session s, `FeedInv` says that there is a place n in
  the buffer: what the panel shows is what s has said up to n (`UpTo`), what is on
  its way are the frames the connection begins with (`Preludes`) and then the buffer
  after n (`Streams`), and `Follows` adds what the panel makes of that. `MemoryInv`
  is what a panel remembers when its connection is lost: the place of the last id it has is still
  the end of what it shows, or its session is gone (`Forgets`), so a resumption goes
  on where it stopped. Cards and bubbles are found by going through the items; that
  they are the requests and messages the buffer leaves open (`AsksOf` and
  `MessagesOf` for its items) needs no induction, as an id opens one item only. For
  the drafts, `Gone` says that what a panel without a session shows as pending is
  held by sessions that will deliver nothing any more.
* **SharedJournal.** `Decided` says of a decision what its door had read: the opening
  of the todo it changes, its signal, no version, and the status it starts from as
  the last one seen. It speaks of the seen lines and of their order only, so it
  stays true while a journal gains lines anywhere and keeps its order
  (`DecidedStays`), and every journal is `Grounded`: each line follows what it was
  decided upon. `ClonesInv` is why a union brings no line twice and turns none round:
  what a clone has besides its base is nowhere else, and its base has the origin's
  order. `FoldTells` says what the fold makes of a journal: the todo is known once it
  is opened, its status is that of the last line that gives one, and the day it
  became terminal is that of a finishing with no reopening after it. With that, the
  status which a change meets is its `from` when its door had seen all changes before
  it (`StatusIsFrom`).

### Model-checked only

Liveness (`FlushedAtBoundary`, `EndedAdapterExits`, `RunsAndSweepsEnd`,
`StarterSeesSession`, `AppendsAreTold`, `RequestsEnd`, `PromptsEnd`) is out of the prover's
reach and stays with TLC. Every invariant and every action property that a run
checks is proved. That a `Union` exists for any two journals that meet is stated
nowhere (without one a pull would not be taken): in all the states of the run
`shared` it was compared with the merge worked out line by line, and is that one
sequence.

## Not modelled, and why

* The text of messages, prompts, reports and HTTP answers: no property is about
  it. Hashing, parsing, migration and rendering: sequential functions of data.
  The rows of the index beyond those it has to choose between two records for,
  the parsing and printing of the triage table, and `Ship.ts`, which computes a
  plan, belong here.
* Which strings of a permission request are paths, and the reading of model
  catalogs: functions of JSON. The probing of providers: an adapter started, asked
  and closed, whose answer is remembered.
* What decides only whether a run succeeds: fixtures, cases, the installed skill,
  the prompt of a station, measurements.
* Publishing in place, to a git directory or for codex: the same steps at other
  paths.
* The rest of the viewer and the desktop window: they can only send requests, and
  what these can carry is in the inputs of the handlers. Automatic resume, the
  launcher's hand-off and the live refresh of screens are planned.
* A union merge of three clones, in which git can repeat lines (see the findings).
* The index's fallback on Windows, where a rename over an open file fails.

## Plan

1. `SharedJournal` with three clones and repeated lines, and what every reader
   makes of a line that is there twice.
2. The viewer's live refresh, and the rows of the index beyond those it chooses.

## Checking it

    tlc -workers 2 -config MCChatTurns.cfg MCChatTurns      # and so on
    tlapm ChatTurnsProofs.tla                               # and so on
