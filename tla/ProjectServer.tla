---------------------------- MODULE ProjectServer ----------------------------
(***************************************************************************)
(* The one server of a machine and the projects it serves: `skillmaker     *)
(* start` and the claim file (packages/cli/src/commands/Start.ts,          *)
(* server/ClaimFile.ts), the list of registered projects in the machine's  *)
(* config.json (packages/core/src/MachineConfig.ts) with the doors that    *)
(* change it (commands/Project.ts, handleRegisterProject and               *)
(* handleUnregisterProject of server/Server.ts), the server's own view of  *)
(* that list (server/ProjectRegistry.ts) and the watch on every project's  *)
(* journal (server/JournalWatcher.ts).                                     *)
(*                                                                         *)
(* A server is a process with one thread: its timers and requests do not   *)
(* interleave with a call that does not wait, but other processes do, and  *)
(* no file is locked. A server runs once; the machine has several.         *)
(***************************************************************************)
EXTENDS Integers, FiniteSets

CONSTANTS
    Servers,     \* processes of `skillmaker start`
    Tools,       \* processes of `skillmaker project add` and `remove`
    Paths,       \* project directories
    Base,        \* for each the slug of its last name
    AtFirst,     \* the projects registered before anything happens
    None,        \* no claim that can be read, no slug, no edit
    MaxEvents    \* bound: additions, removals, changes in the directories
                 \*        and servers that die

ASSUME ConstantsAssumption ==
    /\ \A p \in Paths : Base[p] \notin Paths
    /\ Servers \intersect Tools = {}
    /\ AtFirst \subseteq Paths
    /\ MaxEvents \in Nat

\* A slug is the base, or the base with the hash of the path, for which the
\* path stands here.
Slugs == {Base[p] : p \in Paths} \union Paths

\* What a server holds for a path. The chat manager comes and goes with the
\* watch, and so does the dispatcher, of which it matters here whether a run
\* of a certain fixture is active (the rest is module RunDispatch).
Entry == [kind : {"none", "broken", "ok"}, slug : Slugs \union {None},
          watch : {"none", "root", "dir"}, event : BOOLEAN, timer : BOOLEAN,
          run : BOOLEAN]
NoEntry == [kind |-> "none", slug |-> None, watch |-> "none", event |-> FALSE,
            timer |-> FALSE, run |-> FALSE]

Edit == [op : {"add", "remove"}, path : Paths, asked : Paths,
         read : SUBSET Paths]

ASSUME NoneIsNothing == None \notin Servers /\ None \notin Slugs /\ None \notin Edit

VARIABLES
    registered,  \* config.json
    dir,         \* skillmaker.config.json: there, there but malformed, not there
    born,        \* projects with a .skillmaker directory
    claim,       \* claims/server.json: whose it is
    server,      \* how far each server has got
    live,        \* ProjectRegistryManager.live of each server
    edit,        \* the change of config.json each process is making
    forgotten,   \* runs that go on though the dispatcher they were active in is gone
    page,        \* the slugs each server listed last
    excused,     \* history: listed projects asked to be removed since, or lost when
                 \*          config.json was changed between a read and a write
    raced,       \* history: servers, not ended, that started while another was
                 \*          starting, or while one that did was still there
    left,        \* history: projects with a dispatcher that were not registered,
                 \*          or had no config file, at some moment
    owed,        \* history: appends to a watched journal not yet broadcast
    events

disk == <<registered, dir, born>>
vars == <<disk, claim, server, live, edit, forgotten, page, excused, raced, left, owed,
          events>>

Alive(s) == server[s] \in {"warming", "starting", "serving", "closing"}
Serving == {s \in Servers : server[s] = "serving"}

TypeOK ==
    /\ registered \subseteq Paths
    /\ dir \in [Paths -> {"ok", "bad", "bare"}]
    /\ born \subseteq Paths
    /\ claim \in Servers \union {None}
    /\ server \in [Servers -> {"new", "warming", "starting", "serving",
                               "closing", "gone"}]
    /\ live \in [Servers -> [Paths -> Entry]]
    /\ \A s \in Servers, p \in Paths :
          /\ live[s][p].kind = "ok" <=> live[s][p].watch # "none"
          /\ live[s][p].kind # "none" => Alive(s)
    /\ edit \in [Servers \union Tools -> Edit \union {None}]
    /\ page \in [Servers -> [Paths -> Slugs \union {None}]]
    /\ excused \in [Servers -> SUBSET Paths]
    /\ \A s \in raced : s \in Servers /\ Alive(s)
    /\ forgotten \subseteq Servers \X Paths /\ left \subseteq Servers \X Paths
    /\ owed \subseteq {o \in Servers \X Paths : live[o[1]][o[2]].kind = "ok"}
    /\ events \in 0..MaxEvents

Init ==
    /\ registered = AtFirst
    /\ dir = [p \in Paths |-> "ok"]
    /\ born \in SUBSET Paths
    /\ claim = None
    /\ server = [s \in Servers |-> "new"]
    /\ live = [s \in Servers |-> [p \in Paths |-> NoEntry]]
    /\ edit = [e \in Servers \union Tools |-> None]
    /\ page = [s \in Servers |-> [p \in Paths |-> None]]
    /\ excused = [s \in Servers |-> {}]
    /\ raced = {} /\ owed = {} /\ forgotten = {} /\ left = {}
    /\ events = 0
-----------------------------------------------------------------------------
\* computeProjectSlugs: when two projects would share a slug, each gets the
\* hash of its path.
Slug(reg, p) ==
    IF \E q \in reg \ {p} : Base[q] = Base[p] THEN p ELSE Base[p]

\* watchJournal: the journal's directory, or the project's until there is one.
Attach(p) == IF p \in born THEN "dir" ELSE "root"

FaultWatchAnyway(p) == Attach(p)
WatchBroken(p) == "none"

Load(reg, p) ==
    IF dir[p] = "ok"
    THEN [NoEntry EXCEPT !.kind = "ok", !.slug = Slug(reg, p), !.watch = Attach(p)]
    ELSE [NoEntry EXCEPT !.kind = "broken", !.slug = Slug(reg, p),
                         !.watch = WatchBroken(p)]

\* ProjectRegistryManager.refresh: what is gone is dropped, a healthy project
\* keeps what it has and takes its new slug, and the rest is loaded.
FaultKeepsName(s, reg, p) ==
    p \in reg /\ live[s][p].kind = "ok" /\ dir[p] # "bare" /\ live[s][p].slug = Slug(reg, p)
Keeps(s, reg, p) == p \in reg /\ live[s][p].kind = "ok" /\ dir[p] # "bare"

\* A dispatcher that is dropped is not stopped.
RefreshFrom(s, reg) ==
    /\ live' = [live EXCEPT ![s] = [p \in Paths |->
          IF p \notin reg THEN NoEntry
          ELSE IF Keeps(s, reg, p) THEN [live[s][p] EXCEPT !.slug = Slug(reg, p)]
          ELSE Load(reg, p)]]
    /\ forgotten' = forgotten \union
          {<<s, p>> : p \in {q \in Paths : live[s][q].run /\ ~Keeps(s, reg, q)}}
    /\ owed' = {o \in owed : o[1] = s => Keeps(s, reg, o[2])}

\* What a process takes with it.
Ends(s) ==
    /\ live' = [live EXCEPT ![s] = [p \in Paths |-> NoEntry]]
    /\ edit' = [edit EXCEPT ![s] = None]
    /\ page' = [page EXCEPT ![s] = [p \in Paths |-> None]]
    /\ excused' = [excused EXCEPT ![s] = {}]
    /\ raced' = raced \ {s}
    /\ forgotten' = {o \in forgotten : o[1] # s}
    /\ left' = {o \in left : o[1] # s}
    /\ owed' = {o \in owed : o[1] # s}
-----------------------------------------------------------------------------
\* `start` looks whether the claim is held by a process that is alive ...
FaultAnyClaim(c) == c # None
Held(c) == c \in Servers /\ Alive(c)

Classify(s) ==
    /\ server[s] = "new"
    /\ LET others == {t \in Servers \ {s} : server[t] \in {"warming", "starting"}}
       IN  \/ /\ Held(claim)
              /\ server' = [server EXCEPT ![s] = "gone"]
              /\ UNCHANGED raced
           \/ /\ ~Held(claim)
              /\ server' = [server EXCEPT ![s] = "warming"]
              /\ raced' = IF others = {} /\ raced = {} THEN raced
                          ELSE raced \union {s} \union others
    /\ UNCHANGED <<disk, claim, live, edit, forgotten, page, excused, left, owed, events>>

\* ... warms the indexes, reads the projects and takes its port, unless
\* another server has that one ...
Listen(s) ==
    /\ server[s] = "warming"
    /\ server' = [server EXCEPT ![s] = "starting"]
    /\ RefreshFrom(s, registered)
    /\ UNCHANGED <<disk, claim, edit, page, excused, raced, left, events>>

PortTaken(s) ==
    /\ server[s] = "warming"
    /\ \E t \in Servers : server[t] \in {"starting", "serving", "closing"}
    /\ server' = [server EXCEPT ![s] = "gone"]
    /\ Ends(s)
    /\ UNCHANGED <<disk, claim, events>>

\* ... and writes its claim over any other.
WriteClaim(s) ==
    /\ server[s] = "starting"
    /\ server' = [server EXCEPT ![s] = "serving"]
    /\ claim' = s
    /\ UNCHANGED <<disk, live, edit, forgotten, page, excused, raced, left, owed, events>>

\* Between two synchronous calls.
Idle(s) == server[s] = "serving" /\ edit[s] = None

\* At a signal the claim is removed, whoever's it is, and then the rest.
Signal(s) ==
    /\ Idle(s)
    /\ server' = [server EXCEPT ![s] = "closing"]
    /\ claim' = None
    /\ Ends(s)
    /\ UNCHANGED <<disk, events>>

Stopped(s) ==
    /\ server[s] = "closing"
    /\ server' = [server EXCEPT ![s] = "gone"]
    /\ UNCHANGED <<disk, claim, live, edit, forgotten, page, excused, raced, left, owed,
                   events>>

\* A claim cut short cannot be read, which is taken for no claim.
Crash(s) ==
    /\ events < MaxEvents
    /\ events' = events + 1
    /\ Alive(s)
    /\ server' = [server EXCEPT ![s] = "gone"]
    /\ \/ UNCHANGED claim
       \/ server[s] = "starting" /\ claim' = None
    /\ Ends(s)
    /\ UNCHANGED disk
-----------------------------------------------------------------------------
\* GET /api/projects: refreshed, then listed.
List(s) ==
    /\ Idle(s)
    /\ RefreshFrom(s, registered)
    /\ page' = [page EXCEPT ![s] = [p \in Paths |-> live'[s][p].slug]]
    /\ excused' = [excused EXCEPT ![s] = {}]
    /\ UNCHANGED <<disk, claim, server, edit, raced, left, events>>

\* bySlug.
FaultBySharedName(s, slug) ==
    {p \in Paths : live[s][p].kind # "none" /\ slug \in {live[s][p].slug, Base[p]}}
BySlug(s, slug) == {p \in Paths : live[s][p].kind # "none" /\ live[s][p].slug = slug}

\* A request to a listed project that is not found: refreshed once.
Miss(s) ==
    /\ Idle(s)
    /\ \E p \in Paths : page[s][p] # None /\ BySlug(s, page[s][p]) = {}
    /\ RefreshFrom(s, registered)
    /\ UNCHANGED <<disk, claim, server, edit, page, excused, raced, left, events>>

\* Every change of config.json reads it all ...
Read(e, op, path, asked) ==
    /\ events < MaxEvents
    /\ events' = events + 1
    /\ edit' = [edit EXCEPT ![e] = [op |-> op, path |-> path, asked |-> asked,
                                    read |-> registered]]
    /\ UNCHANGED <<registered, claim, server, live, forgotten, page, excused, raced, left, owed>>

\* `project add` wants a workspace; `remove` does not even want a directory.
ReadTool(e) ==
    /\ edit[e] = None
    /\ \E p \in Paths :
          \/ Read(e, "remove", p, p)
          \/ dir[p] # "bare" /\ Read(e, "add", p, p)
    /\ UNCHANGED <<dir, born>>

\* POST /api/projects may make the directory a workspace first.
ReadAdd(s) ==
    /\ Idle(s)
    /\ \E p \in Paths :
          /\ Read(s, "add", p, p)
          /\ IF dir[p] = "bare"
             THEN /\ dir' = [dir EXCEPT ![p] = "ok"]
                  /\ born' = born \union {p}
             ELSE UNCHANGED <<dir, born>>

\* DELETE /api/projects/:slug, with a listed slug.
ReadRemove(s) ==
    /\ Idle(s)
    /\ \E p \in Paths :
          /\ page[s][p] # None
          /\ \E q \in BySlug(s, page[s][p]) : Read(s, "remove", q, p)
    /\ UNCHANGED <<dir, born>>

\* ... and writes it all, unless there was nothing to change.
Written(e) ==
    IF edit[e].op = "add" THEN edit[e].read \union {edit[e].path}
    ELSE edit[e].read \ {edit[e].path}

\* A listed slug of a project that has been removed may have passed to another.
DeadLink(e) == e \in Servers /\ edit[e].asked \in excused[e]

Away(paths) ==
    left \union {o \in Servers \X paths : live[o[1]][o[2]].kind = "ok"}

Write(e) ==
    /\ edit[e] # None
    /\ registered' = IF Written(e) = edit[e].read THEN registered ELSE Written(e)
    /\ LET asked == IF edit[e].op = "add" THEN {}
                    ELSE IF DeadLink(e) THEN {edit[e].asked, edit[e].path}
                    ELSE {edit[e].asked}
           lost == IF edit[e].read = registered THEN {}
                   ELSE registered \ registered'
       IN  excused' = [s \in Servers |->
              excused[s] \union {p \in asked \union lost : page[s][p] # None}]
    /\ edit' = [edit EXCEPT ![e] = None]
    /\ left' = Away(Paths \ registered')
    /\ UNCHANGED <<dir, born, claim, server, page, raced, events>>

WriteTool(e) == Write(e) /\ UNCHANGED <<live, forgotten, owed>>
WriteServer(s) == Write(s) /\ RefreshFrom(s, registered')
-----------------------------------------------------------------------------
\* In the projects: config files come and go, the journal's directory is made,
\* for the first append or earlier, and every append is an event for who
\* watches that directory.
ConfigChanges ==
    /\ \E p \in Paths : \E d \in {"ok", "bad", "bare"} \ {dir[p]} :
          /\ dir' = [dir EXCEPT ![p] = d]
          /\ left' = IF d = "bare" THEN Away({p}) ELSE left
    /\ UNCHANGED <<born, live, owed>>

JournalBorn ==
    /\ \E p \in Paths \ born : born' = born \union {p}
    /\ UNCHANGED <<dir, live, left, owed>>

JournalAppend ==
    /\ \E p \in Paths :
          /\ born' = born \union {p}
          /\ live' = [s \in Servers |-> [live[s] EXCEPT
                          ![p].event = @ \/ live[s][p].watch = "dir"]]
          /\ owed' = owed \union {<<s, p>> : s \in {t \in Servers : live[t][p].kind = "ok"}}
    /\ UNCHANGED <<dir, left>>

Change ==
    /\ events < MaxEvents
    /\ events' = events + 1
    /\ ConfigChanges \/ JournalBorn \/ JournalAppend
    /\ UNCHANGED <<registered, claim, server, edit, forgotten, page, excused, raced>>

\* The watcher: the directory is noticed, by an event or the poll, and
\* watched from then on, with a tick for what brought it ...
FaultNoTick(w) == [w EXCEPT !.watch = "dir"]
Swapped(w) == [w EXCEPT !.watch = "dir", !.timer = TRUE]

Notice(s, p) ==
    /\ live[s][p].watch = "root" /\ p \in born
    /\ live' = [live EXCEPT ![s][p] = Swapped(@)]
    /\ UNCHANGED owed

\* ... an event sets the timer, again if it was set ...
Deliver(s, p) ==
    /\ live[s][p].event
    /\ live' = [live EXCEPT ![s][p].event = FALSE, ![s][p].timer = TRUE]
    /\ UNCHANGED owed

\* ... and the timer broadcasts the slug the project has then.
Tick(s, p) ==
    /\ live[s][p].timer
    /\ live' = [live EXCEPT ![s][p].timer = FALSE]
    /\ owed' = owed \ {<<s, p>>}

Watch(s, p) ==
    /\ Idle(s)
    /\ Notice(s, p) \/ Deliver(s, p) \/ Tick(s, p)
    /\ UNCHANGED <<disk, claim, server, edit, forgotten, page, excused, raced, left,
                   events>>
-----------------------------------------------------------------------------
\* POST .../run of the fixture, which its dispatcher refuses while it is
\* active there; and its end, in a dispatcher that may be gone.
Dispatch(s, p) ==
    /\ Idle(s)
    /\ events < MaxEvents
    /\ events' = events + 1
    /\ live[s][p].kind = "ok" /\ ~live[s][p].run
    /\ live' = [live EXCEPT ![s][p].run = TRUE]
    /\ UNCHANGED forgotten

RunEnds(s, p) ==
    /\ Idle(s)
    /\ \/ /\ live[s][p].run
          /\ live' = [live EXCEPT ![s][p].run = FALSE]
          /\ UNCHANGED forgotten
       \/ /\ <<s, p>> \in forgotten
          /\ forgotten' = forgotten \ {<<s, p>>}
          /\ UNCHANGED live
    /\ UNCHANGED events

RunStep(s, p) ==
    /\ Dispatch(s, p) \/ RunEnds(s, p)
    /\ UNCHANGED <<disk, claim, server, edit, page, excused, raced, left, owed>>

ServerStep(s) ==
    \/ Classify(s) \/ Listen(s) \/ PortTaken(s) \/ WriteClaim(s)
    \/ Signal(s) \/ Stopped(s) \/ Crash(s)
    \/ List(s) \/ Miss(s) \/ ReadAdd(s) \/ ReadRemove(s) \/ WriteServer(s)

Next ==
    \/ Change
    \/ \E s \in Servers : ServerStep(s)
    \/ \E e \in Tools : ReadTool(e) \/ WriteTool(e)
    \/ \E s \in Servers, p \in Paths : Watch(s, p) \/ RunStep(s, p)

\* The operating system delivers what happens in a watched directory, the
\* poll and the timer come round, and a call that does not wait comes to its
\* end. Nothing makes a user, a signal or a start happen.
Fairness ==
    /\ \A s \in Servers : WF_vars(WriteServer(s)) /\ WF_vars(WriteClaim(s))
    /\ \A s \in Servers, p \in Paths : WF_vars(Watch(s, p))

Spec == Init /\ [][Next]_vars /\ Fairness
-----------------------------------------------------------------------------
\* "If a claim exists and its PID is alive, a second `start` defers to it":
\* at most one server serves, the claim names it, and a start is turned away
\* only when there is one; whatever crashed before -- unless two starts
\* overlapped and one of these is still there, or one that started while they
\* were: the one that goes removes the claim of the one that stays.
ClaimFindsServer ==
    raced = {} =>
        /\ Serving \subseteq {claim}
        /\ Held(claim) => claim \in Serving

\* A project the user was shown stays registered and its links lead to it or,
\* while it goes by another slug, to nobody, and never to a project that came
\* to use its name -- until it is asked to be removed, also by a link to
\* another project that was removed before, or two changes of config.json
\* overlap. "Order-independence matters: appending -2 by registration order
\* would let adding a project silently rename another project's URLs."
Reached(s, slug) ==
    IF BySlug(s, slug) # {} THEN BySlug(s, slug)
    ELSE {p \in registered : Slug(registered, p) = slug}

ListedIsReached ==
    \A s \in Serving, p \in Paths :
        page[s][p] # None /\ p \notin excused[s] =>
            /\ p \in registered
            /\ Reached(s, page[s][p]) \subseteq {p}
            /\ Slug(registered, p) = page[s][p] => Reached(s, page[s][p]) = {p}

\* A run goes on in the dispatcher that guards its fixture and counts its slot
\* for as long as its project is registered and has its config file, whatever
\* it is called meanwhile, and whatever comes and goes beside it: "kept paths
\* keep their live resources". (A run that is forgotten can meet another of
\* its fixture.)
RunsAreGuarded == forgotten \subseteq left

\* A project in use is still the one in use.
ProjectsStand == ListedIsReached /\ RunsAreGuarded

\* An append to the journal of a served project is broadcast, also when the
\* journal's directory is born after the watch and whatever is registered
\* meanwhile, as long as the project is served.
AppendsAreTold ==
    \A s \in Servers, p \in Paths : <<s, p>> \in owed ~> <<s, p>> \notin owed
=============================================================================
