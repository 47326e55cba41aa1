-------------------------------- MODULE Dock --------------------------------
(***************************************************************************)
(* The receiving dock: skills that arrive are copied to receiving/<intake> *)
(* (packages/core/src/Receive.ts) and leave through one of five doors      *)
(* (packages/core/src/Route.ts); a directory that lies in the workspace    *)
(* without an identity is adopted where it is (a `mine` row of             *)
(* packages/core/src/Triage.ts, which shares landAndAdopt's steps).        *)
(*                                                                         *)
(* Each command is a process of its own. It reads the journal and the      *)
(* registry once, then moves or copies files and appends events one by     *)
(* one; nothing locks the directories or the journal, and a process may    *)
(* die, or a file operation of it fail, between any two of these. A        *)
(* request that is refused before it has written anything is no step.      *)
(*                                                                         *)
(* A payload stands for the files of a skill: a directory that two copies  *)
(* have met in holds several. Left out: names, reasons, provenance and the *)
(* verdict (advice that gates nothing); the bundle a salvage defends; the  *)
(* reading of the index a little after the journal; files half copied; the *)
(* copying of a version's snapshot and the race of two records of one      *)
(* version (module Publishing); todos of a manifest row and its archiving; *)
(* a bundle that lies outside the skills directory; a row whose slug is    *)
(* taken, which gets another; the parent of a fork, always known here; a   *)
(* skill.json that a crate brings along, which an upgrade in place copies  *)
(* in as the bundle's.                                                     *)
(***************************************************************************)
EXTENDS Integers, Sequences, FiniteSets

CONSTANTS
    Doors,        \* command lines in use at the same time
    Intakes,      \* intake ids
    Slugs,        \* directories under the skills directory
    Home,         \* the bundle the workspace has
    Payloads,     \* what a skill's files may be
    Payload,      \* the files that arrive under each intake id
    HomePayload,  \* the files of Home, its recorded version
    MaxRequests,  \* bound: routings and adoptions that get beyond the checks
    MaxCrashes    \* bound: processes that die on the way

ASSUME ConstantsAssumption ==
    /\ Home \in Slugs
    /\ Payload \in [Intakes -> Payloads]
    /\ HomePayload \in Payloads
    /\ MaxRequests \in Nat
    /\ MaxCrashes \in Nat

Minting == {"new", "fork"}
Disposition == Minting \union {"return", "upgrade", "salvage"}
None == "none"  \* no intake, no bundle

ASSUME NoneIsNoName == None \notin Intakes \union Slugs

Directory == [there : BOOLEAN, identity : {None, "bundle.json", "skill.json"},
              marker : BOOLEAN, root : SUBSET Payloads, output : SUBSET Payloads]
Layout == {"in-place", "output-dir"}

\* Where a request stands: the last thing it has done.
Landing == {"moved", "identified", "marked", "created", "staged",
            "cleared", "landed"}
Step == Landing \union {"copied", "ruled", "recorded"}
Request == [at : Step, as : Disposition \union {"receive", "mine"},
            intake : Intakes \union {None}, slug : Slugs \union {None},
            layout : Layout, read : Nat]
NoRequest == [at |-> "idle", intake |-> None, slug |-> None, read |-> 0]

Event == [type : {"received"}, intake : Intakes]
    \union [type : {"created", "staged"}, bundle : Slugs]
    \union [type : {"version"}, bundle : Slugs, holds : SUBSET Payloads]
    \union [type : {"routed"}, intake : Intakes, as : Disposition,
            bundle : Slugs \union {None}, read : Nat]

VARIABLES
    dock,      \* receiving/<intake>: not there yet, there, or moved away
    dir,       \* skills/<slug>
    journal,   \* .skillmaker/events.jsonl, the events of dock and bundles
    request,   \* what each door is doing
    stranded,  \* history: crates whose mover died before the routing event
    crossed,   \* history: bundles in which two requests have landed at once
    requests,  \* how many requests were taken so far
    crashes    \* how many died

vars == <<dock, dir, journal, request, stranded, crossed, requests, crashes>>

TypeOK ==
    /\ dock \in [Intakes -> {"absent", "there", "moved"}]
    /\ dir \in [Slugs -> Directory]
    /\ \A s \in Slugs : dir[s].identity # None => dir[s].there
    /\ journal \in Seq(Event)
    /\ request \in [Doors -> Request \union {NoRequest}]
    /\ \A d \in Doors : request[d].read <= Len(journal)
    /\ stranded \subseteq {i \in Intakes : dock[i] = "moved"}
    /\ crossed \subseteq Slugs
    /\ requests \in 0..MaxRequests
    /\ crashes \in 0..MaxCrashes
-----------------------------------------------------------------------------
Happened(type) == {n \in 1..Len(journal) : journal[n].type = type}
Received(i) == \E n \in Happened("received") : journal[n].intake = i
Routings(i) == {n \in Happened("routed") : journal[n].intake = i}
Created(s) == \E n \in Happened("created") : journal[n].bundle = s
Versions(s) == {n \in Happened("version") : journal[n].bundle = s}

\* The registry: what has an identity, and what the journal tells of.
Known(s) == dir[s].identity # None \/ Created(s)

LayoutOf(s) == IF dir[s].marker THEN "in-place" ELSE "output-dir"

\* What hashing the bundle covers, by the layout the caller goes by.
Covered(s, layout) ==
    IF layout = "in-place" THEN dir[s].root \union dir[s].output
    ELSE dir[s].output

\* A directory that is not there hashes like an empty one.
CrateFiles(i) == IF dock[i] = "there" THEN {Payload[i]} ELSE {}

Recorded(s, files) == \E n \in Versions(s) : journal[n].holds = files

Append1(e) == journal' = Append(journal, e)

GoOn(d, step) == request' = [request EXCEPT ![d].at = step]
Leave(d) == request' = [request EXCEPT ![d] = NoRequest]

\* Another request is landing in the same bundle.
Crossing(d, s) ==
    \E other \in Doors \ {d} :
        request[other].slug = s /\ request[other].at \in Landing
NoteCrossing(d, s) ==
    crossed' = IF Crossing(d, s) THEN crossed \union {s} ELSE crossed
-----------------------------------------------------------------------------
\* receiveCrate: the copy under a fresh id, then the event. Until the event is
\* there nobody else knows of the id.
CopyCrate(d, i) ==
    /\ request[d] = NoRequest
    /\ dock[i] = "absent"
    /\ dock' = [dock EXCEPT ![i] = "there"]
    /\ request' = [request EXCEPT ![d] =
           [at |-> "copied", as |-> "receive", intake |-> i, slug |-> None,
            layout |-> "in-place", read |-> Len(journal)]]
    /\ UNCHANGED <<dir, journal, stranded, crossed, requests, crashes>>

AppendReceived(d) ==
    /\ request[d].at = "copied"
    /\ Append1([type |-> "received", intake |-> request[d].intake])
    /\ Leave(d)
    /\ UNCHANGED <<dock, dir, stranded, crossed, requests, crashes>>
-----------------------------------------------------------------------------
\* What each disposition asks of the registry as it was read.
Admissible(i, as, s) ==
    \/ as = "salvage" /\ s = None
    \/ as = "return" /\ s # None /\ Known(s) /\ Recorded(s, CrateFiles(i))
    \/ as = "upgrade" /\ s # None /\ Known(s)
    \/ as \in Minting /\ s # None /\ ~Known(s)

FaultTakenAgain(i) == Received(i)
Routable(i) == Received(i) /\ Routings(i) = {}

\* routeCrate up to the disposition's own work. A repeat of the same
\* disposition is a no-op and another one an error: neither is a step.
Rule(d, i, as, s) ==
    /\ request[d] = NoRequest
    /\ requests < MaxRequests
    /\ Routable(i)
    /\ Admissible(i, as, s)
    /\ request' = [request EXCEPT ![d] =
           [at |-> "ruled", as |-> as, intake |-> i, slug |-> s,
            layout |-> "in-place", read |-> Len(journal)]]
    /\ requests' = requests + 1
    /\ UNCHANGED <<dock, dir, journal, stranded, crossed, crashes>>

\* A `mine` row of a manifest, for a directory that has lost its way.
FindMine(d, s) ==
    /\ request[d] = NoRequest
    /\ requests < MaxRequests
    /\ dir[s].root # {}
    /\ ~Known(s)
    /\ request' = [request EXCEPT ![d] =
           [at |-> "moved", as |-> "mine", intake |-> None, slug |-> s,
            layout |-> "in-place", read |-> Len(journal)]]
    /\ NoteCrossing(d, s)
    /\ requests' = requests + 1
    /\ UNCHANGED <<dock, dir, journal, stranded, crashes>>
-----------------------------------------------------------------------------
\* landAndAdopt. The rename fails when the crate is gone or the directory is
\* taken, and then the request is over.
CanMove(d) ==
    ~dir[request[d].slug].there /\ dock[request[d].intake] = "there"

MoveCrate(d) ==
    LET i == request[d].intake
        s == request[d].slug
    IN  /\ request[d].at = "ruled" /\ request[d].as \in Minting
        /\ CanMove(d)
        /\ dock' = [dock EXCEPT ![i] = "moved"]
        /\ dir' = [dir EXCEPT ![s].there = TRUE, ![s].root = {Payload[i]}]
        /\ NoteCrossing(d, s)
        /\ GoOn(d, "moved")
        /\ UNCHANGED <<journal, stranded, requests, crashes>>

MoveFails(d) ==
    /\ request[d].at = "ruled" /\ request[d].as \in Minting
    /\ ~CanMove(d)
    /\ Leave(d)
    /\ UNCHANGED <<dock, dir, journal, stranded, crossed, requests, crashes>>

\* adoptDirectoryInPlace: bundle.json, then the marker.
WriteIdentity(d) ==
    /\ request[d].at = "moved"
    /\ dir' = [dir EXCEPT ![request[d].slug].identity = "bundle.json"]
    /\ GoOn(d, "identified")
    /\ UNCHANGED <<dock, journal, stranded, crossed, requests, crashes>>

WriteMarker(d) ==
    /\ request[d].at = "identified"
    /\ dir' = [dir EXCEPT ![request[d].slug].marker = TRUE]
    /\ GoOn(d, "marked")
    /\ UNCHANGED <<dock, journal, stranded, crossed, requests, crashes>>

\* The idempotency key of bundle.created is the slug.
AppendCreated(d) ==
    /\ request[d].at = "marked"
    /\ IF Created(request[d].slug) THEN UNCHANGED journal
       ELSE Append1([type |-> "created", bundle |-> request[d].slug])
    /\ GoOn(d, "created")
    /\ UNCHANGED <<dock, dir, stranded, crossed, requests, crashes>>

\* The placement on the ladder, when the files or --stage give one.
AppendStage(d) ==
    /\ request[d].at = "created"
    /\ \/ UNCHANGED journal
       \/ Append1([type |-> "staged", bundle |-> request[d].slug])
    /\ GoOn(d, "staged")
    /\ UNCHANGED <<dock, dir, stranded, crossed, requests, crashes>>
-----------------------------------------------------------------------------
\* landCrateContent: the bundle's files are removed first. In place that is
\* everything but the names of ADOPT_EXCLUDED_NAMES; skill.json is not one.
FaultWholeBundle(old) == [old EXCEPT !.root = {}, !.output = {}, !.identity = None]
Cleared(old) ==
    [old EXCEPT !.root = IF old.marker THEN {} ELSE @,
                !.output = {},
                !.identity = IF old.marker /\ @ = "skill.json" THEN None ELSE @]

ClearPayload(d) ==
    LET s == request[d].slug
    IN  /\ request[d].at = "ruled" /\ request[d].as = "upgrade"
        /\ dir' = [dir EXCEPT ![s] = Cleared(@)]
        /\ NoteCrossing(d, s)
        /\ request' = [request EXCEPT ![d].at = "cleared",
                                      ![d].layout = LayoutOf(s)]
        /\ UNCHANGED <<dock, journal, stranded, requests, crashes>>

\* Then the crate is copied in, beside whatever another copy has put there.
CopyPayload(d) ==
    LET i == request[d].intake
        s == request[d].slug
    IN  /\ request[d].at = "cleared"
        /\ dock[i] = "there"
        /\ dir' = IF request[d].layout = "in-place"
                  THEN [dir EXCEPT ![s].root = @ \union {Payload[i]}]
                  ELSE [dir EXCEPT ![s].output = @ \union {Payload[i]}]
        /\ GoOn(d, "landed")
        /\ UNCHANGED <<dock, journal, stranded, crossed, requests, crashes>>

CopyFails(d) ==
    /\ request[d].at = "cleared"
    /\ dock[request[d].intake] # "there"
    /\ Leave(d)
    /\ UNCHANGED <<dock, dir, journal, stranded, crossed, requests, crashes>>
-----------------------------------------------------------------------------
\* Only a crate is routed: a manifest row ends with its version.
FaultRouteRows(d) == FALSE
FaultForgetForks(d) == request[d].as \in {"mine", "fork"}
EndsUnrouted(d) == request[d].as = "mine"

\* computeBundleHashes and recordSkillVersion, which appends nothing for a
\* version the bundle has.
RecordVersion(d) ==
    LET s == request[d].slug
        files == Covered(s, request[d].layout)
    IN  /\ request[d].at \in {"staged", "landed"}
        /\ IF Recorded(s, files) THEN UNCHANGED journal
           ELSE Append1([type |-> "version", bundle |-> s, holds |-> files])
        /\ IF EndsUnrouted(d) THEN Leave(d) ELSE GoOn(d, "recorded")
        /\ UNCHANGED <<dock, dir, stranded, crossed, requests, crashes>>

FaultBeforehand(d) ==
    \/ request[d].at \in {"recorded", "landed"}
    \/ request[d].at = "ruled" /\ request[d].as \in {"return", "salvage"}
WorkDone(d) ==
    \/ request[d].at = "recorded"
    \/ request[d].at = "ruled" /\ request[d].as \in {"return", "salvage"}

AppendRouted(d) ==
    /\ WorkDone(d)
    /\ Append1([type |-> "routed", intake |-> request[d].intake,
                as |-> request[d].as, bundle |-> request[d].slug,
                read |-> request[d].read])
    /\ Leave(d)
    /\ UNCHANGED <<dock, dir, stranded, crossed, requests, crashes>>

\* The process dies, or a file operation or an append fails.
Crash(d) ==
    LET r == request[d]
    IN  /\ r # NoRequest
        /\ crashes < MaxCrashes
        /\ crashes' = crashes + 1
        /\ stranded' = IF r.as \in Minting /\ r.at \notin {"ruled"}
                       THEN stranded \union {r.intake} ELSE stranded
        /\ Leave(d)
        /\ UNCHANGED <<dock, dir, journal, crossed, requests>>
-----------------------------------------------------------------------------
\* Home was made here, or adopted in place and given a skill.json since.
Nothing == [there |-> FALSE, identity |-> None, marker |-> FALSE,
            root |-> {}, output |-> {}]
MadeHere == [Nothing EXCEPT !.there = TRUE, !.identity = "skill.json",
                            !.output = {HomePayload}]
AdoptedOnce == [Nothing EXCEPT !.there = TRUE, !.identity = "skill.json",
                               !.marker = TRUE, !.root = {HomePayload}]

Init ==
    /\ dock = [i \in Intakes |-> "absent"]
    /\ \E home \in {MadeHere, AdoptedOnce} :
          dir = [s \in Slugs |-> IF s = Home THEN home ELSE Nothing]
    /\ journal = <<[type |-> "created", bundle |-> Home],
                   [type |-> "version", bundle |-> Home, holds |-> {HomePayload}]>>
    /\ request = [d \in Doors |-> NoRequest]
    /\ stranded = {}
    /\ crossed = {}
    /\ requests = 0
    /\ crashes = 0

Receive(d) == (\E i \in Intakes : CopyCrate(d, i)) \/ AppendReceived(d)
Mint(d) ==
    \/ MoveCrate(d) \/ MoveFails(d) \/ WriteIdentity(d) \/ WriteMarker(d)
    \/ AppendCreated(d) \/ AppendStage(d)
Upgrade(d) == ClearPayload(d) \/ CopyPayload(d) \/ CopyFails(d)

Next ==
    \E d \in Doors :
        \/ Receive(d)
        \/ \E i \in Intakes, as \in Disposition, s \in Slugs \union {None} :
              Rule(d, i, as, s)
        \/ \E s \in Slugs : FindMine(d, s)
        \/ Mint(d)
        \/ Upgrade(d)
        \/ RecordVersion(d)
        \/ AppendRouted(d)
        \/ Crash(d)

Spec == Init /\ [][Next]_vars
-----------------------------------------------------------------------------
\* A disposition is written down after the work it stands for, whatever dies
\* on the way: a crate that came back is a version of the bundle it is said to
\* be, and one that became or upgraded a bundle is, unmixed, a recorded version
\* of it -- unless two requests have landed in that bundle at once. A bundle
\* that a crate became is in the journal by then.
Earned(n) ==
    LET e == journal[n]
        before(s, files) ==
            \E m \in Versions(s) : m < n /\ journal[m].holds = files
    IN  /\ \E m \in Happened("received") : m < n /\ journal[m].intake = e.intake
        /\ e.as # "salvage" =>
              \/ before(e.bundle, {Payload[e.intake]})
              \/ e.bundle \in crossed
        /\ e.as \in Minting =>
              \E m \in Happened("created") : m < n /\ journal[m].bundle = e.bundle

DispositionsAreEarned == \A n \in Happened("routed") : Earned(n)

\* A crate that is still listed as undisposed is at the dock, where a ruling
\* can act on it, unless a request that moved it is under way or has died.
UndisposedIsAtDock ==
    \A i \in Intakes :
        Received(i) /\ Routings(i) = {} =>
            \/ dock[i] = "there"
            \/ i \in stranded
            \/ \E d \in Doors : request[d].intake = i /\ request[d].at # "ruled"

\* A crate leaves through one door: a second routing event comes only from a
\* request that had read the journal before the first was appended.
SecondRoutingIsRace ==
    \A i \in Intakes : \A m, n \in Routings(i) : m < n => journal[n].read < m

\* A bundle the journal says was created keeps its identity on disk, whatever
\* lands in it and whoever dies: routing leaves the studio's own files alone --
\* but for the skill.json of a bundle adopted in place, which it takes for a
\* file of the skill.
IdentitySurvives ==
    \A s \in Slugs :
        Created(s) => \/ dir[s].identity # None
                      \/ s = Home /\ dir[s].marker

\* A crate is at the dock until it leaves it, and leaves it once.
CratesLeaveOnce == UndisposedIsAtDock /\ SecondRoutingIsRace

\* What the doors leave is whole: what is said of a bundle was done to it, and
\* it is still a bundle.
RoutedBundlesAreWhole == DispositionsAreEarned /\ IdentitySurvives
=============================================================================
