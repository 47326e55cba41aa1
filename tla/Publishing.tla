----------------------------- MODULE Publishing -----------------------------
(***************************************************************************)
(* The versions of one bundle and the doors that record and publish them:  *)
(* recordSkillVersion and its content snapshot (packages/core/src/         *)
(* Versions.ts), the implicit record of a run (RunEngine.ts), the install  *)
(* door (InstallPublish.ts) and the marketplace door (Publish.ts), over    *)
(* the append of the journal (JournalService.ts).                          *)
(*                                                                         *)
(* Doors are processes, or concurrent requests of one; the maker edits the *)
(* live files at any time, nothing is locked, and a door can die between   *)
(* any two of its writes. Content stands for its hash. The bundle has an   *)
(* output/ directory (it was not adopted in place).                        *)
(***************************************************************************)
EXTENDS Integers, Sequences, FiniteSets

CONSTANTS
    Doors,       \* who may have a request in flight; an event carries its
                 \* door as the actor, with the label a version is given
    Designs,     \* contents of design.md
    Outputs,     \* contents of output/
    Evidence,    \* what the measurements say; part of what is published
    Audiences,   \* install targets: user, project
    MARKETS,     \* the manifests among publishTargets, as configured
    None,        \* no snapshot, no copy
    Torn,        \* a copy that was cleared and not written again
    MaxRequests, \* bound: requests taken
    MaxChanges,  \* bound: changes of the world around the doors
    MaxCrashes   \* bound: doors that die

Content == [design : Designs, output : Outputs]
Markets == {MARKETS[i] : i \in 1..Len(MARKETS)}
Targets == Audiences \union Markets

\* What lies at a target: which version it says it is, the payload, and the
\* evidence in its stamp. A manifest points at the live output and holds no
\* payload: its body is the version.
Copy == [version : Outputs, body : Outputs, evidence : Evidence]

Recorded == [type : {"recorded"}, design : Designs, hash : Outputs, by : Doors]
Published == [type : {"published"}, target : Targets, copy : Copy, nth : Nat,
              by : Doors]
Event == Recorded \union Published

ASSUME PublishConstants ==
    /\ MARKETS \in Seq(STRING)
    /\ \A a \in Audiences \union Outputs : \A i \in 1..Len(MARKETS) : a # MARKETS[i]
    /\ Audiences \intersect Outputs = {}
    /\ None \notin Content \union Copy \union Event \union Audiences
    /\ Torn \notin Copy \union {None}
    /\ MaxRequests \in Nat /\ MaxChanges \in Nat /\ MaxCrashes \in Nat

VARIABLES
    live,        \* design.md and output/ in the bundle
    stage,       \* whether the journal folds to stage "published"
    measured,    \* what the index says of the runs
    journal,     \* skill.version_recorded and skill.published, as appended
    snapshots,   \* .skillmaker/versions/<hash>, None where there is none
    copies,      \* what lies at every target
    remembered,  \* publish.targets of skill.json
    door,        \* how far the request at each door has got
    contentless, \* history: hashes whose recorder died before the snapshot,
                 \*          or that are older than the snapshot store
    torn,        \* history: hashes and targets filled after the maker had
                 \*          changed what the door was about to copy
    disturbed,   \* history: targets where two publishes overlapped, or one
                 \*          ended between its write and its receipt
    outdated,    \* history: events appended after the key was looked for in
                 \*          a shorter journal
    requests, changes, crashes

world == <<live, stage, measured>>
files == <<snapshots, copies, remembered>>
history == <<contentless, torn, disturbed, outdated>>
counts == <<requests, changes, crashes>>
publishVars == <<world, journal, files, door, history, counts>>

Steps == {"idle", "append", "write", "snapshot", "rename", "collect", "target",
          "copy", "remember"}
Door == [step : Steps, kind : {"none", "record", "run", "install", "market"},
         event : Event \union {None}, version : Outputs \union {None},
         got : Content \union Copy \union {None}, todo : Seq(Targets),
         to : Audiences \union {None}, read : Nat,
         seen : Nat, fallback : BOOLEAN, edited : BOOLEAN]
Idle == [step |-> "idle", kind |-> "none", event |-> None, version |-> None,
         got |-> None, todo |-> <<>>, to |-> None, read |-> 0,
         seen |-> 0, fallback |-> FALSE, edited |-> FALSE]

Distinct(s) == \A i, j \in 1..Len(s) : s[i] = s[j] => i = j

PublishTypeOK ==
    /\ live \in Content
    /\ stage \in {"published", "earlier"}
    /\ measured \in Evidence
    /\ journal \in Seq(Event)
    /\ snapshots \in [Outputs -> Content \union {None}]
    /\ copies \in [Targets -> Copy \union {None, Torn}]
    /\ remembered \in Seq(Audiences) /\ Distinct(remembered)
    /\ door \in [Doors -> Door]
    /\ contentless \subseteq Outputs
    /\ torn \subseteq Outputs \union Targets
    /\ disturbed \subseteq Targets
    /\ outdated \subseteq 1..Len(journal)
    /\ requests \in 0..MaxRequests
    /\ changes \in 0..MaxChanges /\ crashes \in 0..MaxCrashes
-----------------------------------------------------------------------------
Last(s) == s[Len(s)]
Versions(j) == SelectSeq(j, LAMBDA e : e.type = "recorded")

\* computeDrift: the live hashes against the version recorded last.
InSync(j) ==
    /\ Versions(j) # <<>>
    /\ Last(Versions(j)).design = live.design
    /\ Last(Versions(j)).hash = live.output

\* The idempotency keys: both hashes for a version; version, target and the
\* written content for an install, and which landing of that content it is;
\* version and target for a manifest (0), and the content when it was
\* regenerated (1).
KeyOf(e) ==
    IF e.type = "recorded" THEN <<e.design, e.hash>>
    ELSE IF e.target \in Markets /\ e.nth = 0 THEN <<e.target, e.copy.version>>
    ELSE <<e.target, e.copy, e.nth>>

\* Journal.append, first half: what it does with a key that is there already.
FaultUnkeyedRuns(d, e) ==
    {i \in 1..Len(journal) :
        /\ journal[i].type = e.type
        /\ KeyOf(journal[i]) = KeyOf(e)
        /\ door[d].kind # "run"}
SameKey(d, e) ==
    {i \in 1..Len(journal) :
        journal[i].type = e.type /\ KeyOf(journal[i]) = KeyOf(e)}
\* The key fixes the rest of the payload; who and under which label it does not.
SameContent(e, f) == e.by = f.by

Receipts(j, t) ==
    {i \in 1..Len(j) : j[i].type = "published" /\ j[i].target = t}
Landed(j, t, c) == {i \in Receipts(j, t) : j[i].copy = c}

Now(d) == SubSeq(journal, 1, door[d].read)

\* Which landing of this content the receipt stands for.
FaultNoRenumber(d, t, c) == 0
Landing(d, t, c) ==
    IF t \in Audiences THEN Cardinality(Landed(Now(d), t, c))
    ELSE IF \E i \in Receipts(Now(d), t) :
              Now(d)[i].copy.version = c.version /\ Now(d)[i].nth = 0
         THEN 1 ELSE 0

\* A door between its look at a target and its receipt for it.
At(t) == {d \in Doors : /\ door[d].step \in {"copy", "append", "write"}
                        /\ door[d].kind \in {"install", "market"}
                        /\ Head(door[d].todo) = t}
-----------------------------------------------------------------------------
\* A bundle with one version or none, its snapshot taken or -- of an old
\* receipt -- not, nothing published.
PublishInit ==
    /\ live \in Content
    /\ stage \in {"published", "earlier"}
    /\ measured \in Evidence
    /\ \/ /\ journal = <<>>
          /\ contentless = {}
       \/ /\ \E d \in Doors :
                 journal = <<[type |-> "recorded", design |-> live.design,
                              hash |-> live.output, by |-> d]>>
          /\ contentless \in {{}, {live.output}}
    /\ snapshots = [h \in Outputs |->
                      IF journal # <<>> /\ h = live.output /\ h \notin contentless
                      THEN live ELSE None]
    /\ copies = [t \in Targets |-> None]
    /\ remembered = <<>>
    /\ door = [d \in Doors |-> Idle]
    /\ torn = {} /\ disturbed = {} /\ outdated = {}
    /\ requests = 0 /\ changes = 0 /\ crashes = 0

\* The world moves: the maker edits, a stage change is journaled, a run is
\* graded.
WillCopy(r) == \/ r.step = "collect"
               \/ r.step \in {"append", "write", "snapshot"} /\ r.event.type = "recorded"

Edit ==
    /\ live' \in Content \ {live}
    /\ door' = [d \in Doors |->
                  [door[d] EXCEPT !.edited = @ \/ WillCopy(door[d])]]
    /\ UNCHANGED <<stage, measured>>
Move == stage' \in {"published", "earlier"} \ {stage} /\ UNCHANGED <<live, measured, door>>
Measure == measured' \in Evidence \ {measured} /\ UNCHANGED <<live, stage, door>>

Change ==
    /\ changes < MaxChanges
    /\ changes' = changes + 1
    /\ Edit \/ Move \/ Measure
    /\ UNCHANGED <<journal, files, history, requests, crashes>>

\* A request comes in: its guards, on the journal as it is read here.
Open(d, request) ==
    /\ door[d] = Idle
    /\ requests < MaxRequests
    /\ requests' = requests + 1
    /\ door' = [door EXCEPT ![d] = request]
    /\ UNCHANGED <<world, journal, files, history, changes, crashes>>

\* recordSkillVersion, from `version record`, the server or, when the live
\* files are not the latest version, a run.
OpenRecord(d) ==
    \E kind \in {"record", "run"} :
        /\ kind = "run" => ~InSync(journal)
        /\ Open(d, [Idle EXCEPT !.step = "append", !.kind = kind,
                      !.version = live.output,
                      !.event = [type |-> "recorded", design |-> live.design,
                                 hash |-> live.output, by |-> d]])

\* publishToInstallTargets: the latest version behind the full guard, or a
\* recorded one asked for, to one audience or those remembered.
OpenInstall(d) ==
    \E to \in Audiences \union {None}, latest \in BOOLEAN :
    \E i \in 1..Len(journal) :
        /\ stage = "published"
        /\ journal[i].type = "recorded"
        /\ latest => InSync(journal) /\ journal[i] = Last(Versions(journal))
        /\ to = None => remembered # <<>>
        /\ Open(d, [Idle EXCEPT !.step = "collect", !.kind = "install",
                      !.version = journal[i].hash, !.fallback = latest,
                      !.todo = IF to = None THEN remembered ELSE <<to>>,
                      !.to = to, !.read = Len(journal)])

\* publishBundle: behind the full guard, to one configured target or, when no
\* audience is remembered, to all.
OpenMarket(d) ==
    \E todo \in {<<t>> : t \in Markets} \union {MARKETS} :
        /\ todo # <<>>
        /\ todo = MARKETS => Len(MARKETS) = 1 \/ remembered = <<>>
        /\ stage = "published" /\ InSync(journal)
        /\ Open(d, [Idle EXCEPT !.step = "target", !.kind = "market",
                      !.version = live.output, !.todo = todo,
                      !.read = Len(journal)])
-----------------------------------------------------------------------------
\* What comes after the receipt, or after finding it there.
NextTarget(r) ==
    IF Len(r.todo) > 1 THEN [r EXCEPT !.step = "target", !.todo = Tail(@)]
    ELSE IF r.kind = "install" THEN [r EXCEPT !.step = "remember"] ELSE Idle

FaultContentFree(r) ==
    IF r.kind \in {"install", "market"} THEN NextTarget(r)
    ELSE IF r.kind = "run" THEN Idle ELSE [r EXCEPT !.step = "snapshot"]
Receipted(r) ==
    IF r.kind \in {"install", "market"} THEN NextTarget(r)
    ELSE [r EXCEPT !.step = "snapshot"]

\* The door is gone with what it had not written yet.
Drop(d) ==
    /\ door' = [door EXCEPT ![d] = Idle]
    /\ disturbed' = disturbed \union {t \in Targets : d \in At(t)}

\* Journal.append reads the whole journal for the key ...
LookForKey(d) ==
    /\ door[d].step = "append"
    /\ LET hits == SameKey(d, door[d].event)
           known == journal[CHOOSE i \in hits : \A k \in hits : i <= k]
       IN  \/ /\ hits = {}
              /\ door' = [door EXCEPT ![d].step = "write",
                                       ![d].seen = Len(journal)]
              /\ UNCHANGED disturbed
           \/ /\ hits # {} /\ SameContent(known, door[d].event)
              /\ door' = [door EXCEPT ![d] = Receipted(@)]
              /\ UNCHANGED disturbed
           \/ /\ hits # {} /\ ~SameContent(known, door[d].event)
              /\ Drop(d)
    /\ UNCHANGED <<world, journal, files, contentless, torn, outdated, counts>>

\* ... and then writes, whatever has been written meanwhile.
WriteEvent(d) ==
    /\ door[d].step = "write"
    /\ journal' = Append(journal, door[d].event)
    /\ outdated' = IF door[d].seen < Len(journal)
                   THEN outdated \union {Len(journal) + 1} ELSE outdated
    /\ door' = [door EXCEPT ![d] = Receipted(@)]
    /\ UNCHANGED <<world, files, contentless, torn, disturbed, counts>>

\* snapshotVersionContent: nothing to do when there is one under this hash;
\* otherwise the live files are copied next to it ...
CopySnapshot(d) ==
    /\ door[d].step = "snapshot"
    /\ door' = [door EXCEPT ![d] =
                  IF snapshots[@.version] # None THEN Idle
                  ELSE [@ EXCEPT !.step = "rename", !.got = live]]
    /\ UNCHANGED <<world, journal, files, history, counts>>

\* ... and renamed into place, unless another recorder has been faster.
RenameSnapshot(d) ==
    /\ door[d].step = "rename"
    /\ door' = [door EXCEPT ![d] = Idle]
    /\ LET h == door[d].version
       IN  IF snapshots[h] # None THEN UNCHANGED <<snapshots, contentless, torn>>
           ELSE /\ snapshots' = [snapshots EXCEPT ![h] = door[d].got]
                /\ contentless' = contentless \ {h}
                /\ torn' = IF door[d].edited THEN torn \union {h} ELSE torn
    /\ UNCHANGED <<world, journal, copies, remembered, disturbed, outdated,
                   counts>>
-----------------------------------------------------------------------------
\* collectSourceFiles: the payload of the version's snapshot; without one the
\* live payload, which the guard has compared with the latest version, or no
\* payload for a version that was asked for.
FaultLiveForAny(r) == {live.output}
WithoutSnapshot(r) == IF r.fallback THEN {live.output} ELSE {}
Payload(r) == IF snapshots[r.version] # None THEN {snapshots[r.version].output}
              ELSE WithoutSnapshot(r)

Collect(d) ==
    /\ door[d].step = "collect"
    /\ \/ /\ Payload(door[d]) = {}
          /\ door' = [door EXCEPT ![d] = Idle]
       \/ \E body \in Payload(door[d]) :
             door' = [door EXCEPT
                 ![d].step = "target",
                 ![d].got = [version |-> door[d].version, body |-> body,
                             evidence |-> measured],
                 ![d].edited = IF snapshots[door[d].version] # None
                               THEN door[d].version \in torn ELSE @]
    /\ UNCHANGED <<world, journal, files, history, counts>>

Wanted(d) ==
    IF door[d].kind = "install" THEN door[d].got
    ELSE [version |-> door[d].version, body |-> door[d].version,
          evidence |-> measured]

\* What is there is what is wanted, and the journal as read has its receipt:
\* on to the next target.
AlreadyPublished(d) ==
    /\ door[d].step = "target"
    /\ LET t == Head(door[d].todo) IN
        /\ copies[t] = Wanted(d)
        /\ Landing(d, t, Wanted(d)) > 0
    /\ door' = [door EXCEPT ![d] = NextTarget(@)]
    /\ UNCHANGED <<world, journal, files, history, counts>>

\* Otherwise the target is brought to what is wanted before its receipt; an
\* install clears it first and then writes file by file.
ToReceipt(d, t, next) ==
    door' = [door EXCEPT
        ![d].step = next,
        ![d].event = [type |-> "published", target |-> t, copy |-> Wanted(d),
                      nth |-> Landing(d, t, Wanted(d)), by |-> d]]

Touch(d) ==
    /\ door[d].step = "target"
    /\ LET t == Head(door[d].todo) IN
        /\ copies[t] # Wanted(d) \/ Landing(d, t, Wanted(d)) = 0
        /\ \/ /\ copies[t] = Wanted(d)
              /\ ToReceipt(d, t, "append")
              /\ UNCHANGED copies
           \/ /\ copies[t] # Wanted(d) /\ t \in Audiences
              /\ ToReceipt(d, t, "copy")
              /\ copies' = [copies EXCEPT ![t] = Torn]
           \/ /\ copies[t] # Wanted(d) /\ t \in Markets
              /\ ToReceipt(d, t, "append")
              /\ copies' = [copies EXCEPT ![t] = Wanted(d)]
        /\ disturbed' =
              IF At(t) # {} \/ \E i \in Receipts(journal, t) : i > door[d].read
              THEN disturbed \union {t} ELSE disturbed \ {t}
    /\ UNCHANGED <<world, journal, snapshots, remembered, contentless, torn,
                   outdated, counts>>

CopyFiles(d) ==
    /\ door[d].step = "copy"
    /\ LET t == Head(door[d].todo) IN
        /\ copies' = [copies EXCEPT ![t] = door[d].got]
        /\ torn' = IF door[d].edited THEN torn \union {t} ELSE torn \ {t}
    /\ door' = [door EXCEPT ![d].step = "append"]
    /\ UNCHANGED <<world, journal, snapshots, remembered, contentless, disturbed,
                   outdated, counts>>

\* rememberInstallTargets, after the last receipt.
FaultAlwaysAdd(r) == {r.to} \ {None}
ToRemember(r) == {a \in {r.to} \ {None} : \A i \in 1..Len(remembered) :
                                              remembered[i] # a}
Remember(d) ==
    /\ door[d].step = "remember"
    /\ \/ /\ ToRemember(door[d]) = {}
          /\ UNCHANGED remembered
       \/ \E a \in ToRemember(door[d]) : remembered' = Append(remembered, a)
    /\ door' = [door EXCEPT ![d] = Idle]
    /\ UNCHANGED <<world, journal, snapshots, copies, history, counts>>

\* The process behind the door dies, or one of its writes fails.
Crash(d) ==
    /\ crashes < MaxCrashes
    /\ door[d] # Idle
    /\ Drop(d)
    /\ contentless' = contentless \union
         (IF door[d].step \in {"snapshot", "rename"} THEN {door[d].version} ELSE {})
    /\ crashes' = crashes + 1
    /\ UNCHANGED <<world, journal, files, torn, outdated, requests, changes>>

Step(d) ==
    \/ OpenRecord(d) \/ OpenInstall(d) \/ OpenMarket(d)
    \/ LookForKey(d) \/ WriteEvent(d)
    \/ CopySnapshot(d) \/ RenameSnapshot(d)
    \/ Collect(d) \/ AlreadyPublished(d) \/ Touch(d) \/ CopyFiles(d)
    \/ Remember(d) \/ Crash(d)

PublishNext == Change \/ \E d \in Doors : Step(d)

PublishSpec == PublishInit /\ [][PublishNext]_publishVars
-----------------------------------------------------------------------------
\* Every version in the journal keeps its content: there is a snapshot under
\* its hash that holds that output and the design.md of a recorded version,
\* unless its recorder is not done or died, or the maker edited the files
\* between their hashing and their copying. "Recording a version KEEPS its
\* content."
SnapshotsKeepVersions ==
    \A i \in 1..Len(journal) :
        LET h == journal[i].hash
        IN  journal[i].type = "recorded" =>
              \/ h \in contentless
              \/ \E d \in Doors : /\ door[d].step \in {"snapshot", "rename"}
                                  /\ door[d].version = h
              \/ /\ snapshots[h] # None
                 /\ h \notin torn =>
                      /\ snapshots[h].output = h
                      /\ \E k \in 1..Len(journal) :
                            /\ journal[k].type = "recorded"
                            /\ journal[k].hash = h
                            /\ journal[k].design = snapshots[h].design

\* The idempotency keys do their work whichever writer appends: an event
\* repeats the key of an earlier one only when another append got in between
\* its search for the key and its write. ("Routing everything through one
\* idempotency-keyed append makes a same-content repeat a clean no-op.")
RepeatsAreRaces ==
    \A j \in 1..Len(journal) : j \notin outdated =>
        \A i \in 1..(j - 1) :
            journal[i].type = journal[j].type => KeyOf(journal[i]) # KeyOf(journal[j])

\* An installed copy is the content of the version its stamp names, also
\* after a revert and when the snapshot is missing, unless the maker edited
\* the files after the guard or the hash and before they were copied.
StampNamesContent ==
    \A t \in Targets :
        copies[t] \notin {None, Torn} /\ t \notin torn =>
            copies[t].body = copies[t].version

\* What was recorded is what is kept and what is handed out.
VersionsKeepContent == SnapshotsKeepVersions /\ StampNamesContent

\* The journal misses no change of a target: when no publish is under way at
\* it, the last receipt names what lies at an install target -- through
\* reverts and re-publishes of content that was there before -- and some
\* receipt names what lies in a manifest; except where two publishes
\* overlapped or one died between the write and its receipt.
ReceiptMatchesCopy ==
    \A t \in Targets :
        At(t) = {} /\ t \notin disturbed /\ copies[t] # None =>
            \E i \in Receipts(journal, t) :
                /\ journal[i].copy = copies[t]
                /\ t \in Audiences => \A k \in Receipts(journal, t) : k <= i

\* The journal says of versions and targets what is there, and says it once.
JournalIsTrue == RepeatsAreRaces /\ ReceiptMatchesCopy
=============================================================================
