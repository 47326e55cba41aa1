----------------------------- MODULE DockProofs -----------------------------
(***************************************************************************)
(* Proofs about the receiving dock (module Dock), for any number of doors, *)
(* crates, directories, requests and crashes: its types; that a crate is   *)
(* at the dock until it leaves it and is routed twice only by requests     *)
(* that read the journal before either was routed; and that what a routing *)
(* says of a bundle was done to it, which stays a bundle.                  *)
(*                                                                         *)
(* The invariant has a part for each thing two doors can meet in.  What a  *)
(* door is doing is a lawful request: its disposition fixes the steps it   *)
(* can have reached, and it works in a directory that is there (TypeInv).  *)
(* A crate that was moved has a mover under way or dead, or a routing, and *)
(* a request had read the journal before any routing of its crate          *)
(* (DockInv).  What the journal calls created has an identity              *)
(* (IdentityInv).  A bundle in which one request has landed at a time      *)
(* holds exactly what that request has put there (FilesInv).               *)
(***************************************************************************)
EXTENDS Dock, TLAPS

\* The steps a request of each kind can have reached.
StepsOf(as) ==
    CASE as = "receive" -> {"copied"}
      [] as = "mine" -> {"moved", "identified", "marked", "created", "staged"}
      [] as \in Minting -> {"ruled", "moved", "identified", "marked", "created",
                            "staged", "recorded"}
      [] as = "upgrade" -> {"ruled", "cleared", "landed", "recorded"}
      [] OTHER -> {"ruled"}

Adopting == Minting \union {"mine"}

Lawful ==
    {r \in Request :
        /\ r.at \in StepsOf(r.as)
        /\ r.as \in Disposition \union {"receive"} => r.intake \in Intakes
        /\ r.as \in Disposition \union {"mine"} =>
              r.slug \in Slugs \/ r.as = "salvage"
        /\ r.as \in Adopting => r.slug # Home /\ r.layout = "in-place"}

ShapeInv == request \in [Doors -> Lawful \union {NoRequest}]

Busy(d) == request[d] # NoRequest
Routes(d) == Busy(d) /\ request[d].as \in Disposition
Adopts(d) == Busy(d) /\ request[d].as \in Adopting /\ request[d].at # "ruled"
Moves(d) == Adopts(d) /\ request[d].as \in Minting
Copies(d) == Busy(d) /\ request[d].at = "copied"

\* Who works in a directory finds it there, and who has moved a crate left none.
PlacesInv ==
    /\ Created(Home)
    /\ \A s \in Slugs : Created(s) => dir[s].there
    /\ \A s \in Slugs : ~dir[s].there => dir[s].root = {} /\ dir[s].output = {}
    /\ \A d \in Doors : Adopts(d) => dir[request[d].slug].there
    /\ \A d \in Doors : Routes(d) /\ request[d].as = "upgrade" =>
          dir[request[d].slug].there
    /\ \A d \in Doors : Moves(d) => dock[request[d].intake] = "moved"

TypeInv == TypeOK /\ ShapeInv /\ PlacesInv

\* A crate is copied by one door before anyone knows of it.
CratesAreNew ==
    /\ \A i \in Intakes : Received(i) => dock[i] # "absent"
    /\ \A d \in Doors, i \in Intakes : Copies(d) /\ request[d].intake = i =>
          dock[i] = "there" /\ ~Received(i)
    /\ \A d, e \in Doors : Copies(d) /\ Copies(e) /\ d # e =>
          request[d].intake # request[e].intake

\* A crate that was moved is accounted for.
MovedHasReason ==
    \A i \in Intakes : dock[i] = "moved" =>
        \/ i \in stranded
        \/ Routings(i) # {}
        \/ \E d \in Doors : Moves(d) /\ request[d].intake = i

\* A request saw its crate received and not yet routed.
RulingsAreFirst ==
    \A d \in Doors, i \in Intakes : Routes(d) /\ request[d].intake = i =>
        Received(i) /\ \A m \in Routings(i) : request[d].read < m

DockInv == CratesAreNew /\ MovedHasReason /\ RulingsAreFirst /\ SecondRoutingIsRace

\* What was created has an identity, of the kind the doors leave alone.
IdentityInv ==
    /\ dir[Home].marker \/ dir[Home].identity # None
    /\ \A s \in Slugs \ {Home} : dir[s].identity # "skill.json"
    /\ \A s \in Slugs \ {Home} : Created(s) => dir[s].identity # None
    /\ \A d \in Doors : Adopts(d) /\ request[d].at # "moved" =>
          dir[request[d].slug].identity # None
    /\ \A d \in Doors, s \in Slugs :
          /\ Adopts(d) /\ request[d].slug = s
          /\ request[d].at \in {"created", "staged", "recorded"}
          => Created(s)

Lands(d) == Busy(d) /\ request[d].at \in Landing

\* Two requests that land in one bundle at once are noted.
CrossingsAreNoted ==
    \A d, e \in Doors :
        Lands(d) /\ Lands(e) /\ d # e /\ request[d].slug = request[e].slug =>
            request[d].slug \in crossed

\* What a bundle holds of the request that lands in it alone.
Holds(d) ==
    LET r == request[d]
        files == Covered(r.slug, r.layout)
    IN  IF r.at = "cleared" THEN files = {}
        ELSE IF r.as = "mine" THEN files # {}
        ELSE files = {Payload[r.intake]}

LandingsAreWhole ==
    \A d \in Doors : Lands(d) /\ request[d].slug \notin crossed => Holds(d)

\* The journal has the version a request is about to be routed for.
WorkIsRecorded ==
    \A d \in Doors, i \in Intakes, s \in Slugs :
        /\ Routes(d) /\ request[d].intake = i /\ request[d].slug = s
        /\ request[d].at = "recorded" \/ request[d].as = "return"
        => Recorded(s, {Payload[i]}) \/ s \in crossed

EmptyIsCrossed ==
    \A n \in Happened("version") :
        journal[n].holds = {} => journal[n].bundle \in crossed

FilesInv ==
    /\ CrossingsAreNoted /\ LandingsAreWhole /\ WorkIsRecorded
    /\ EmptyIsCrossed /\ DispositionsAreEarned

YardInv == TypeInv /\ DockInv /\ IdentityInv /\ FilesInv

-----------------------------------------------------------------------------
\* One door takes a step.
DoorStep(d) ==
    \/ Receive(d)
    \/ \E i \in Intakes, as \in Disposition, s \in Slugs \union {None} : Rule(d, i, as, s)
    \/ \E s \in Slugs : FindMine(d, s)
    \/ Mint(d) \/ Upgrade(d) \/ RecordVersion(d) \/ AppendRouted(d) \/ Crash(d)

\* What is said stays said, and an event says one thing more.
LEMMA Grows ==
    ASSUME journal \in Seq(Event), NEW e \in Event, journal' = Append(journal, e)
    PROVE  /\ journal' \in Seq(Event) /\ Len(journal') = Len(journal) + 1
           /\ \A n \in 1..Len(journal) : journal'[n] = journal[n]
           /\ journal'[Len(journal) + 1] = e
           /\ \A type : Happened(type)' =
                 Happened(type) \union (IF e.type = type THEN {Len(journal) + 1} ELSE {})
<1>1. /\ journal' \in Seq(Event) /\ Len(journal') = Len(journal) + 1
      /\ \A n \in 1..Len(journal) : journal'[n] = journal[n]
      /\ journal'[Len(journal) + 1] = e
  OBVIOUS
<1>2. 1..Len(journal') = 1..Len(journal) \union {Len(journal) + 1}
  BY <1>1
<1>3. QED
  BY <1>1, <1>2 DEF Happened

LEMMA Says ==
    ASSUME journal \in Seq(Event), NEW e \in Event, journal' = Append(journal, e)
    PROVE  /\ \A i : Received(i)' <=> Received(i) \/ (e.type = "received" /\ e.intake = i)
           /\ \A s : Created(s)' <=> Created(s) \/ (e.type = "created" /\ e.bundle = s)
           /\ \A s, files : Recorded(s, files)' <=>
                 \/ Recorded(s, files)
                 \/ e.type = "version" /\ e.bundle = s /\ e.holds = files
           /\ \A i : Routings(i)' = Routings(i) \union
                 (IF e.type = "routed" /\ e.intake = i THEN {Len(journal) + 1} ELSE {})
<1>1. \A type : Happened(type) \subseteq 1..Len(journal)
  BY DEF Happened
<1>2. \A i : Received(i)' <=> Received(i) \/ (e.type = "received" /\ e.intake = i)
  BY <1>1, Grows DEF Received
<1>3. \A s : Created(s)' <=> Created(s) \/ (e.type = "created" /\ e.bundle = s)
  BY <1>1, Grows DEF Created
<1>4. \A s, files : Recorded(s, files)' <=>
         \/ Recorded(s, files)
         \/ e.type = "version" /\ e.bundle = s /\ e.holds = files
  BY <1>1, Grows DEF Recorded, Versions
<1>5. \A i : Routings(i)' = Routings(i) \union
         (IF e.type = "routed" /\ e.intake = i THEN {Len(journal) + 1} ELSE {})
  BY <1>1, Grows DEF Routings
<1>6. QED
  BY <1>2, <1>3, <1>4, <1>5

\* Where a lawful request stands says what kind it is.
LEMMA LawfulIs ==
    ASSUME NEW r \in Lawful
    PROVE  /\ r \in Request /\ r # NoRequest
           /\ r.at = "copied" <=> r.as = "receive"
           /\ r.at = "ruled" => r.as \in Disposition
           /\ r.at \in {"moved", "identified", "marked", "created", "staged"} =>
                 r.as \in Adopting
           /\ r.at \in {"cleared", "landed"} => r.as = "upgrade"
           /\ r.at = "recorded" => r.as \in Minting \union {"upgrade"}
           /\ r.as \in Disposition \union {"receive"} => r.intake \in Intakes
           /\ r.as \in Adopting \union {"upgrade", "return"} => r.slug \in Slugs
           /\ r.as \in Adopting => r.slug # Home /\ r.layout = "in-place"
BY DEF Lawful, StepsOf, Adopting, Minting, Disposition, Request, NoRequest, Step, Landing

LEMMA LawfulGoesOn ==
    ASSUME NEW r \in Lawful, NEW step \in StepsOf(r.as)
    PROVE  /\ [r EXCEPT !.at = step] \in Lawful
           /\ LET t == [r EXCEPT !.at = step]
              IN  /\ t.at = step /\ t.as = r.as /\ t.intake = r.intake
                  /\ t.slug = r.slug /\ t.layout = r.layout /\ t.read = r.read
<1>1. r \in Request /\ r.as \in Disposition \union {"receive", "mine"}
  BY DEF Lawful, Request
<1>2. step \in Step
  BY <1>1 DEF StepsOf, Step, Landing, Minting, Disposition
<1>3. [r EXCEPT !.at = step] \in Request
  BY <1>1, <1>2 DEF Request
<1>4. LET t == [r EXCEPT !.at = step]
      IN  /\ t.at = step /\ t.as = r.as /\ t.intake = r.intake
          /\ t.slug = r.slug /\ t.layout = r.layout /\ t.read = r.read
  BY <1>1 DEF Request
<1>5. QED
  BY <1>3, <1>4 DEF Lawful

-----------------------------------------------------------------------------
\* What becomes of a door's request, and of no other.
LEMMA GoesOn ==
    ASSUME TypeInv, NEW d \in Doors, Busy(d), NEW step \in StepsOf(request[d].as),
           GoOn(d, step)
    PROVE  /\ request' \in [Doors -> Lawful \union {NoRequest}]
           /\ \A other \in Doors \ {d} : request'[other] = request[other]
           /\ request'[d] \in Lawful /\ request'[d] # NoRequest
           /\ request'[d].at = step
           /\ request'[d].as = request[d].as /\ request'[d].intake = request[d].intake
           /\ request'[d].slug = request[d].slug /\ request'[d].layout = request[d].layout
           /\ request'[d].read = request[d].read
<1>1. request \in [Doors -> Lawful \union {NoRequest}] /\ request[d] \in Lawful
  BY DEF TypeInv, ShapeInv, Busy
<1>2. request' = [request EXCEPT ![d] = [request[d] EXCEPT !.at = step]]
  BY <1>1 DEF GoOn
<1>3. [request[d] EXCEPT !.at = step] \in Lawful
  BY <1>1, LawfulGoesOn
<1>4. request'[d] = [request[d] EXCEPT !.at = step]
  BY <1>1, <1>2
<1>5. request'[d] # NoRequest
  BY <1>3, <1>4, LawfulIs
<1>6. QED
  BY <1>1, <1>2, <1>3, <1>4, <1>5, LawfulGoesOn

LEMMA Leaves ==
    ASSUME TypeInv, NEW d \in Doors, Leave(d)
    PROVE  /\ request' \in [Doors -> Lawful \union {NoRequest}]
           /\ \A other \in Doors \ {d} : request'[other] = request[other]
           /\ request'[d] = NoRequest
BY DEF TypeInv, ShapeInv, Leave

\* A door that stands somewhere has a lawful request.
LEMMA AtLawful ==
    ASSUME TypeInv, NEW d \in Doors
    PROVE  /\ Busy(d) => request[d] \in Lawful
           /\ request[d].at \in Step => Busy(d)
BY DEF TypeInv, ShapeInv, Busy, NoRequest, Step, Landing

\* The one door that steps goes on, leaves, or takes up a request.
LEMMA TakesUp ==
    ASSUME TypeInv, NEW d \in Doors, NEW r \in Lawful, request' = [request EXCEPT ![d] = r]
    PROVE  /\ request' \in [Doors -> Lawful \union {NoRequest}]
           /\ \A other \in Doors \ {d} : request'[other] = request[other]
           /\ request'[d] = r /\ r # NoRequest
BY LawfulIs DEF TypeInv, ShapeInv

LEMMA CopyingIs ==
    ASSUME TypeInv, NEW d \in Doors, NEW i \in Intakes, CopyCrate(d, i)
    PROVE  \E r \in Lawful : /\ request' = [request EXCEPT ![d] = r]
                             /\ r.at = "copied" /\ r.as = "receive" /\ r.intake = i
                             /\ r.read = Len(journal)
<1> DEFINE r == [at |-> "copied", as |-> "receive", intake |-> i, slug |-> None,
                 layout |-> "in-place", read |-> Len(journal)]
<1>1. Len(journal) \in Nat
  BY DEF TypeInv, TypeOK
<1>2. r \in Request
  BY <1>1 DEF Request, Step, Layout
<1>3. r \in Lawful
  BY <1>2 DEF Lawful, StepsOf, Adopting, Minting, Disposition
<1>4. QED
  BY <1>3 DEF CopyCrate

LEMMA RulingIs ==
    ASSUME TypeInv, NEW d \in Doors, NEW i \in Intakes, NEW as \in Disposition,
           NEW s \in Slugs \union {None}, Rule(d, i, as, s)
    PROVE  /\ \E r \in Lawful : /\ request' = [request EXCEPT ![d] = r]
                                /\ r.at = "ruled" /\ r.read = Len(journal)
           /\ request'[d].at = "ruled" /\ request'[d].as = as
           /\ request'[d].intake = i /\ request'[d].slug = s
           /\ request'[d].read = Len(journal)
<1> DEFINE r == [at |-> "ruled", as |-> as, intake |-> i, slug |-> s,
                 layout |-> "in-place", read |-> Len(journal)]
<1>1. Len(journal) \in Nat
  BY DEF TypeInv, TypeOK
<1>2. r \in Request
  BY <1>1 DEF Request, Step, Layout
<1>3. as \in Minting => s # Home /\ s \in Slugs
  BY DEF Rule, Admissible, Known, TypeInv, PlacesInv, Minting
<1>4. s \in Slugs \/ as = "salvage"
  BY DEF Rule, Admissible
<1>5. "ruled" \in StepsOf(as)
  BY DEF StepsOf, Disposition, Minting
<1>6. r \in Lawful
  BY <1>2, <1>3, <1>4, <1>5 DEF Lawful, Adopting, Disposition, Minting
<1>7. request' = [request EXCEPT ![d] = r]
  BY DEF Rule
<1>8. /\ r.at = "ruled" /\ r.as = as /\ r.intake = i /\ r.slug = s
      /\ r.read = Len(journal)
  OBVIOUS
<1> HIDE DEF r
<1>9. request'[d] = r
  BY <1>6, <1>7, TakesUp
<1>10. QED
  BY <1>6, <1>7, <1>8, <1>9

LEMMA FindingIs ==
    ASSUME TypeInv, NEW d \in Doors, NEW s \in Slugs, FindMine(d, s)
    PROVE  \E r \in Lawful : /\ request' = [request EXCEPT ![d] = r]
                             /\ r.at = "moved" /\ r.as = "mine" /\ r.slug = s
                             /\ r.layout = "in-place" /\ r.read = Len(journal)
<1> DEFINE r == [at |-> "moved", as |-> "mine", intake |-> None, slug |-> s,
                 layout |-> "in-place", read |-> Len(journal)]
<1>1. Len(journal) \in Nat
  BY DEF TypeInv, TypeOK
<1>2. r \in Request
  BY <1>1 DEF Request, Step, Landing, Layout
<1>3. s # Home
  BY DEF FindMine, Known, TypeInv, PlacesInv
<1>4. r \in Lawful
  BY <1>2, <1>3 DEF Lawful, StepsOf, Adopting, Minting, Disposition
<1>5. QED
  BY <1>4 DEF FindMine

LEMMA ClearingIs ==
    ASSUME TypeInv, NEW d \in Doors, ClearPayload(d)
    PROVE  \E r \in Lawful : /\ request' = [request EXCEPT ![d] = r]
                             /\ r.at = "cleared" /\ r.as = "upgrade"
                             /\ r.intake = request[d].intake
                             /\ r.slug = request[d].slug
                             /\ r.layout = LayoutOf(r.slug)
                             /\ r.read = request[d].read
<1> DEFINE q == request[d]
           r == [q EXCEPT !.at = "cleared", !.layout = LayoutOf(q.slug)]
<1>1. q \in Lawful /\ q.as = "upgrade" /\ q.slug \in Slugs
  BY AtLawful, LawfulIs DEF ClearPayload, Step
<1>2. LayoutOf(q.slug) \in Layout
  BY DEF LayoutOf, Layout
<1>3. /\ r \in Request /\ r.at = "cleared" /\ r.as = q.as /\ r.intake = q.intake
      /\ r.slug = q.slug /\ r.layout = LayoutOf(q.slug) /\ r.read = q.read
  BY <1>1, <1>2 DEF Lawful, Request, Step, Landing
<1>4. r \in Lawful
  <2> HIDE DEF r
  <2>1. "cleared" \in StepsOf(r.as) /\ r.as \notin Adopting
    BY <1>1, <1>3 DEF StepsOf, Adopting, Minting
  <2>2. q.intake \in Intakes
    BY <1>1 DEF Lawful, Disposition
  <2>3. QED
    BY <1>1, <1>3, <2>1, <2>2 DEF Lawful
<1>5. request' = [request EXCEPT ![d] = r]
  BY DEF ClearPayload, TypeInv, ShapeInv
<1>6. QED
  BY <1>1, <1>3, <1>4, <1>5

-----------------------------------------------------------------------------
\* The steps that leave a request where it is but for the step it has reached,
\* and those that end it.
Advances(d, step) ==
    \/ step = "moved" /\ MoveCrate(d)
    \/ step = "identified" /\ WriteIdentity(d)
    \/ step = "marked" /\ WriteMarker(d)
    \/ step = "created" /\ AppendCreated(d)
    \/ step = "staged" /\ AppendStage(d)
    \/ step = "landed" /\ CopyPayload(d)
    \/ step = "recorded" /\ RecordVersion(d) /\ ~EndsUnrouted(d)

Ends(d) ==
    \/ AppendReceived(d) \/ MoveFails(d) \/ CopyFails(d) \/ AppendRouted(d) \/ Crash(d)
    \/ RecordVersion(d) /\ EndsUnrouted(d)

Starts(d) ==
    \/ \E i \in Intakes : CopyCrate(d, i)
    \/ \E i \in Intakes, as \in Disposition, s \in Slugs \union {None} : Rule(d, i, as, s)
    \/ \E s \in Slugs : FindMine(d, s)

LEMMA StepIs ==
    ASSUME NEW d \in Doors, DoorStep(d)
    PROVE  Starts(d) \/ Ends(d) \/ ClearPayload(d) \/ \E step \in Step : Advances(d, step)
BY DEF DoorStep, Receive, Mint, Upgrade, Starts, Ends, Advances, Step, Landing

LEMMA Advancing ==
    ASSUME TypeInv, NEW d \in Doors, NEW step, Advances(d, step)
    PROVE  /\ Busy(d) /\ request[d] \in Lawful
           /\ step \in StepsOf(request[d].as) /\ GoOn(d, step)
<1>1. request[d].at \in Step /\ GoOn(d, step)
  BY DEF Advances, MoveCrate, WriteIdentity, WriteMarker, AppendCreated, AppendStage,
         CopyPayload, RecordVersion, Step, Landing
<1>2. Busy(d) /\ request[d] \in Lawful
  BY <1>1, AtLawful
<1>3. CASE step \in {"moved", "identified", "marked", "created", "staged"}
  <2>1. request[d].as \in Minting \/ (request[d].as = "mine" /\ step # "moved")
    BY <1>2, <1>3, LawfulIs DEF Advances, MoveCrate, WriteIdentity, WriteMarker,
       AppendCreated, AppendStage, Adopting
  <2>2. QED
    BY <1>1, <1>2, <1>3, <2>1 DEF StepsOf, Minting
<1>4. CASE step = "landed"
  BY <1>1, <1>2, <1>4, LawfulIs DEF Advances, CopyPayload, StepsOf, Minting
<1>5. CASE step = "recorded"
  <2>1. request[d].as \in Minting \union {"upgrade"}
    BY <1>2, <1>5, LawfulIs DEF Advances, RecordVersion, EndsUnrouted, Adopting
  <2>2. QED
    BY <1>1, <1>2, <1>5, <2>1 DEF StepsOf, Minting
<1>6. QED
  BY <1>3, <1>4, <1>5 DEF Advances

\* So a door that has advanced does the same work at the next step.
LEMMA Advanced ==
    ASSUME TypeInv, NEW d \in Doors, NEW step, Advances(d, step)
    PROVE  /\ request' \in [Doors -> Lawful \union {NoRequest}]
           /\ \A other \in Doors \ {d} : request'[other] = request[other]
           /\ request[d] \in Lawful /\ Busy(d)
           /\ request'[d] \in Lawful /\ Busy(d)'
           /\ request'[d].at = step
           /\ request'[d].as = request[d].as /\ request'[d].intake = request[d].intake
           /\ request'[d].slug = request[d].slug /\ request'[d].layout = request[d].layout
           /\ request'[d].read = request[d].read
BY Advancing, GoesOn DEF Busy

LEMMA Ended ==
    ASSUME TypeInv, NEW d \in Doors, Ends(d)
    PROVE  /\ request' \in [Doors -> Lawful \union {NoRequest}]
           /\ \A other \in Doors \ {d} : request'[other] = request[other]
           /\ request'[d] = NoRequest /\ ~Busy(d)'
<1>1. Leave(d)
  BY DEF Ends, AppendReceived, MoveFails, CopyFails, AppendRouted, Crash, RecordVersion
<1>2. QED
  BY <1>1, Leaves DEF Busy

LEMMA Started ==
    ASSUME TypeInv, NEW d \in Doors, Starts(d)
    PROVE  \E r \in Lawful : /\ request' = [request EXCEPT ![d] = r]
                             /\ r.at \in {"copied", "ruled", "moved"}
                             /\ r.read = Len(journal)
BY CopyingIs, RulingIs, FindingIs DEF Starts

LEMMA ShapePreserved ==
    ASSUME TypeInv, NEW d \in Doors, DoorStep(d)
    PROVE  /\ request' \in [Doors -> Lawful \union {NoRequest}]
           /\ \A other \in Doors \ {d} : request'[other] = request[other]
<1>1. CASE Starts(d)
  BY <1>1, Started, TakesUp
<1>2. CASE Ends(d)
  BY <1>2, Ended
<1>3. CASE ClearPayload(d)
  BY <1>3, ClearingIs, TakesUp
<1>4. CASE \E step \in Step : Advances(d, step)
  BY <1>4, Advanced
<1>5. QED
  BY <1>1, <1>2, <1>3, <1>4, StepIs

\* The journal only grows, by one event at a time.
LEMMA JournalStep ==
    ASSUME TypeInv, NEW d \in Doors, DoorStep(d)
    PROVE  UNCHANGED journal \/ \E e \in Event : journal' = Append(journal, e)
<1> SUFFICES ASSUME journal' # journal
             PROVE  \E e \in Event : journal' = Append(journal, e)
  OBVIOUS
<1>1. \/ AppendReceived(d) \/ AppendCreated(d) \/ AppendStage(d) \/ RecordVersion(d)
      \/ AppendRouted(d)
  BY DEF DoorStep, Receive, Mint, Upgrade, CopyCrate, Rule, FindMine, MoveCrate, MoveFails,
         WriteIdentity, WriteMarker, ClearPayload, CopyPayload, CopyFails, Crash
<1>2. request[d] \in Lawful
  BY <1>1, AtLawful DEF AppendReceived, AppendCreated, AppendStage, RecordVersion,
     AppendRouted, WorkDone, Step, Landing
<1>3. CASE AppendReceived(d)
  BY <1>2, <1>3, LawfulIs DEF AppendReceived, Append1, Event
<1>4. CASE AppendCreated(d) \/ AppendStage(d)
  BY <1>2, <1>4, LawfulIs DEF AppendCreated, AppendStage, Append1, Event
<1>5. CASE RecordVersion(d)
  <2>1. request[d].slug \in Slugs /\ dir \in [Slugs -> Directory]
    BY <1>2, <1>5, LawfulIs DEF RecordVersion, TypeInv, TypeOK
  <2>2. Covered(request[d].slug, request[d].layout) \in SUBSET Payloads
    BY <2>1 DEF Covered, Directory
  <2>3. QED
    BY <1>5, <2>1, <2>2 DEF RecordVersion, Append1, Event
<1>6. CASE AppendRouted(d)
  <2>1. request[d].as \in Disposition /\ request[d].intake \in Intakes
    BY <1>2, <1>6, LawfulIs DEF AppendRouted, WorkDone, Disposition
  <2>2. request[d].slug \in Slugs \union {None} /\ request[d].read \in Nat
    BY <1>2, LawfulIs DEF Request
  <2>3. QED
    BY <1>6, <2>1, <2>2 DEF AppendRouted, Append1, Event
<1>7. QED
  BY <1>1, <1>3, <1>4, <1>5, <1>6

-----------------------------------------------------------------------------
\* What each door makes of the directory it works in.
LEMMA Moving ==
    ASSUME TypeInv, NEW d \in Doors, MoveCrate(d)
    PROVE  LET s == request[d].slug
               i == request[d].intake
           IN  /\ s \in Slugs /\ s # Home /\ i \in Intakes /\ request[d].as \in Minting
               /\ dock[i] = "there" /\ dock' = [dock EXCEPT ![i] = "moved"]
               /\ \E new \in Directory :
                     /\ dir' = [dir EXCEPT ![s] = new]
                     /\ ~dir[s].there /\ new.there /\ new.identity = dir[s].identity
                     /\ new.root = {Payload[i]} /\ new.output = {}
<1> DEFINE s == request[d].slug
           i == request[d].intake
           old == dir[s]
           new == [old EXCEPT !.there = TRUE, !.root = {Payload[i]}]
<1>1. request[d] \in Lawful /\ request[d].as \in Minting
  BY AtLawful DEF MoveCrate, Step
<1>2. s \in Slugs /\ s # Home /\ i \in Intakes
  BY <1>1, LawfulIs DEF Adopting, Disposition
<1>3. dir \in [Slugs -> Directory] /\ old \in Directory /\ ~old.there
  BY <1>2 DEF TypeInv, TypeOK, MoveCrate, CanMove
<1>4. dir' = [dir EXCEPT ![s].there = TRUE, ![s].root = {Payload[i]}]
  BY DEF MoveCrate
<1>5. dir' = [dir EXCEPT ![s] = new]
  BY <1>2, <1>3, <1>4
<1>6. {Payload[i]} \in SUBSET Payloads
  BY <1>2, ConstantsAssumption
<1>7. new \in Directory
  BY <1>3, <1>6 DEF Directory
<1>8. /\ new.there /\ new.identity = old.identity
      /\ new.root = {Payload[i]} /\ new.output = old.output
  BY <1>3 DEF Directory
<1>9. old.output = {}
  BY <1>2, <1>3 DEF TypeInv, PlacesInv
<1>10. dock[i] = "there" /\ dock' = [dock EXCEPT ![i] = "moved"]
  BY DEF MoveCrate, CanMove
<1> HIDE DEF new, old
<1>11. QED
  BY <1>1, <1>2, <1>3, <1>5, <1>7, <1>8, <1>9, <1>10 DEF old

LEMMA Marking ==
    ASSUME TypeInv, NEW d \in Doors, WriteIdentity(d) \/ WriteMarker(d)
    PROVE  LET s == request[d].slug
           IN  /\ s \in Slugs /\ s # Home /\ dir[s].there
               /\ \E new \in Directory :
                     /\ dir' = [dir EXCEPT ![s] = new]
                     /\ new.there = dir[s].there /\ new.root = dir[s].root
                     /\ new.output = dir[s].output
                     /\ new.identity = IF WriteIdentity(d) THEN "bundle.json"
                                       ELSE dir[s].identity
<1> DEFINE s == request[d].slug
           old == dir[s]
<1>1. /\ request[d] \in Lawful /\ request[d].as \in Adopting
      /\ Busy(d) /\ request[d].at # "ruled"
  BY AtLawful, LawfulIs DEF WriteIdentity, WriteMarker, Step, Landing
<1>2. s \in Slugs /\ s # Home
  BY <1>1, LawfulIs
<1>3. dir \in [Slugs -> Directory] /\ old \in Directory /\ old.there
  BY <1>1, <1>2 DEF TypeInv, TypeOK, PlacesInv, Adopts
<1>4. CASE WriteIdentity(d)
  <2> DEFINE new == [old EXCEPT !.identity = "bundle.json"]
  <2>1. dir' = [dir EXCEPT ![s] = new]
    BY <1>2, <1>3, <1>4 DEF WriteIdentity
  <2>2. /\ new \in Directory /\ new.there = old.there /\ new.root = old.root
        /\ new.output = old.output /\ new.identity = "bundle.json"
    BY <1>3 DEF Directory
  <2> HIDE DEF new
  <2>3. QED
    BY <1>2, <1>3, <1>4, <2>1, <2>2
<1>5. CASE WriteMarker(d)
  <2> DEFINE new == [old EXCEPT !.marker = TRUE]
  <2>1. dir' = [dir EXCEPT ![s] = new]
    BY <1>2, <1>3, <1>5 DEF WriteMarker
  <2>2. /\ new \in Directory /\ new.there = old.there /\ new.root = old.root
        /\ new.output = old.output /\ new.identity = old.identity
    BY <1>3 DEF Directory
  <2>3. ~WriteIdentity(d)
    BY <1>5 DEF WriteMarker, WriteIdentity
  <2> HIDE DEF new
  <2>4. QED
    BY <1>2, <1>3, <2>1, <2>2, <2>3
<1>6. QED
  BY <1>4, <1>5

LEMMA Clearing ==
    ASSUME TypeInv, NEW d \in Doors, ClearPayload(d)
    PROVE  LET s == request[d].slug
           IN  /\ s \in Slugs /\ dir[s].there
               /\ \E new \in Directory :
                     /\ dir' = [dir EXCEPT ![s] = new]
                     /\ new.there = dir[s].there /\ new.marker = dir[s].marker
                     /\ new.output = {} /\ (dir[s].marker => new.root = {})
                     /\ new.identity = IF dir[s].marker /\ dir[s].identity = "skill.json"
                                       THEN None ELSE dir[s].identity
<1> DEFINE s == request[d].slug
           old == dir[s]
           new == Cleared(old)
<1>1. /\ request[d] \in Lawful /\ request[d].as = "upgrade" /\ Busy(d)
  BY AtLawful DEF ClearPayload, Step
<1>2. s \in Slugs
  BY <1>1, LawfulIs
<1>3. dir \in [Slugs -> Directory] /\ old \in Directory /\ old.there
  BY <1>1, <1>2 DEF TypeInv, TypeOK, PlacesInv, Routes, Disposition
<1>4. dir' = [dir EXCEPT ![s] = new]
  BY <1>2, <1>3 DEF ClearPayload
<1>5. /\ new \in Directory /\ new.there = old.there /\ new.marker = old.marker
      /\ new.output = {} /\ (old.marker => new.root = {})
      /\ new.identity = IF old.marker /\ old.identity = "skill.json"
                        THEN None ELSE old.identity
  BY <1>3 DEF Cleared, Directory
<1> HIDE DEF new
<1>6. QED
  BY <1>2, <1>3, <1>4, <1>5

LEMMA Copying ==
    ASSUME TypeInv, NEW d \in Doors, CopyPayload(d)
    PROVE  LET s == request[d].slug
               i == request[d].intake
               layout == request[d].layout
           IN  /\ s \in Slugs /\ dir[s].there
               /\ \E new \in Directory :
                     /\ dir' = [dir EXCEPT ![s] = new]
                     /\ new.there = dir[s].there /\ new.marker = dir[s].marker
                     /\ new.identity = dir[s].identity
                     /\ new.root = dir[s].root \union
                           (IF layout = "in-place" THEN {Payload[i]} ELSE {})
                     /\ new.output = dir[s].output \union
                           (IF layout = "in-place" THEN {} ELSE {Payload[i]})
<1> DEFINE s == request[d].slug
           i == request[d].intake
           old == dir[s]
<1>1. /\ request[d] \in Lawful /\ request[d].as = "upgrade" /\ Busy(d)
  BY AtLawful, LawfulIs DEF CopyPayload, Step, Landing
<1>2. s \in Slugs /\ i \in Intakes
  BY <1>1, LawfulIs DEF Disposition
<1>3. dir \in [Slugs -> Directory] /\ old \in Directory /\ old.there
  BY <1>1, <1>2 DEF TypeInv, TypeOK, PlacesInv, Routes, Disposition
<1>4. Payload[i] \in Payloads
  BY <1>2, ConstantsAssumption
<1>5. CASE request[d].layout = "in-place"
  <2> DEFINE new == [old EXCEPT !.root = @ \union {Payload[i]}]
  <2>1. dir' = [dir EXCEPT ![s] = new]
    BY <1>2, <1>3, <1>5 DEF CopyPayload
  <2>2. /\ new \in Directory /\ new.there = old.there /\ new.marker = old.marker
        /\ new.identity = old.identity /\ new.root = old.root \union {Payload[i]}
        /\ new.output = old.output \union {}
    BY <1>3, <1>4 DEF Directory
  <2> HIDE DEF new
  <2>3. QED
    BY <1>2, <1>3, <1>5, <2>1, <2>2
<1>6. CASE request[d].layout # "in-place"
  <2> DEFINE new == [old EXCEPT !.output = @ \union {Payload[i]}]
  <2>1. dir' = [dir EXCEPT ![s] = new]
    BY <1>2, <1>3, <1>6 DEF CopyPayload
  <2>2. /\ new \in Directory /\ new.there = old.there /\ new.marker = old.marker
        /\ new.identity = old.identity /\ new.output = old.output \union {Payload[i]}
        /\ new.root = old.root \union {}
    BY <1>3, <1>4 DEF Directory
  <2> HIDE DEF new
  <2>3. QED
    BY <1>2, <1>3, <1>6, <2>1, <2>2
<1>7. QED
  BY <1>5, <1>6

-----------------------------------------------------------------------------
\* A directory that is there stays, and so does a crate's absence.
LEMMA DirStep ==
    ASSUME TypeInv, NEW d \in Doors, DoorStep(d)
    PROVE  /\ dir' \in [Slugs -> Directory]
           /\ \A s \in Slugs : dir[s].there => dir'[s].there
           /\ \A s \in Slugs : dir'[s] # dir[s] => dir'[s].there /\ s = request[d].slug
<1>1. dir \in [Slugs -> Directory]
  BY DEF TypeInv, TypeOK
<1>2. CASE UNCHANGED dir
  BY <1>1, <1>2
<1>3. CASE MoveCrate(d)
  BY <1>1, <1>3, Moving
<1>4. CASE WriteIdentity(d) \/ WriteMarker(d)
  BY <1>1, <1>4, Marking
<1>5. CASE ClearPayload(d)
  BY <1>1, <1>5, Clearing
<1>6. CASE CopyPayload(d)
  BY <1>1, <1>6, Copying
<1>7. QED
  BY <1>2, <1>3, <1>4, <1>5, <1>6 DEF DoorStep, Receive, Mint, Upgrade, CopyCrate,
     AppendReceived, Rule, FindMine, MoveFails, AppendCreated, AppendStage, CopyFails,
     RecordVersion, AppendRouted, Crash

LEMMA CrateStep ==
    ASSUME TypeInv, NEW d \in Doors, DoorStep(d)
    PROVE  /\ dock' \in [Intakes -> {"absent", "there", "moved"}]
           /\ \A i \in Intakes : dock[i] # "absent" => dock'[i] # "absent"
           /\ \A i \in Intakes : dock[i] = "moved" => dock'[i] = "moved"
           /\ \A i \in Intakes : dock'[i] = "moved" =>
                 dock[i] = "moved" \/ (MoveCrate(d) /\ i = request[d].intake)
<1>1. dock \in [Intakes -> {"absent", "there", "moved"}]
  BY DEF TypeInv, TypeOK
<1>2. CASE UNCHANGED dock
  BY <1>1, <1>2
<1>3. CASE MoveCrate(d)
  BY <1>1, <1>3, Moving
<1>4. ASSUME NEW i \in Intakes, CopyCrate(d, i)
      PROVE  dock[i] = "absent" /\ dock' = [dock EXCEPT ![i] = "there"]
  BY <1>4 DEF CopyCrate
<1>5. CASE \E i \in Intakes : CopyCrate(d, i)
  BY <1>1, <1>4, <1>5
<1>6. QED
  BY <1>2, <1>3, <1>5 DEF DoorStep, Receive, Mint, Upgrade, AppendReceived, Rule, FindMine,
     MoveFails, WriteIdentity, WriteMarker, ClearPayload, CopyPayload, AppendCreated,
     AppendStage, CopyFails, RecordVersion, AppendRouted, Crash

\* What was said stays said.
LEMMA SaidStays ==
    ASSUME TypeInv, NEW d \in Doors, DoorStep(d)
    PROVE  /\ journal' \in Seq(Event) /\ Len(journal') >= Len(journal)
           /\ \A n \in 1..Len(journal) : journal'[n] = journal[n]
           /\ \A i : Received(i) => Received(i)'
           /\ \A s : Created(s) => Created(s)'
           /\ \A s, files : Recorded(s, files) => Recorded(s, files)'
           /\ \A i : Routings(i) \subseteq Routings(i)'
<1>1. journal \in Seq(Event)
  BY DEF TypeInv, TypeOK
<1>2. CASE UNCHANGED journal
  BY <1>1, <1>2 DEF Received, Created, Recorded, Versions, Routings, Happened
<1>3. ASSUME NEW e \in Event, journal' = Append(journal, e)
      PROVE  /\ journal' \in Seq(Event) /\ Len(journal') >= Len(journal)
             /\ \A n \in 1..Len(journal) : journal'[n] = journal[n]
             /\ \A i : Received(i) => Received(i)'
             /\ \A s : Created(s) => Created(s)'
             /\ \A s, files : Recorded(s, files) => Recorded(s, files)'
             /\ \A i : Routings(i) \subseteq Routings(i)'
  <2>1. Len(journal) \in Nat
    BY <1>1
  <2>2. /\ journal' \in Seq(Event) /\ Len(journal') = Len(journal) + 1
        /\ \A n \in 1..Len(journal) : journal'[n] = journal[n]
    BY <1>1, <1>3, Grows
  <2>3. QED
    BY <1>1, <1>3, <2>1, <2>2, Says
<1>4. QED
  BY <1>2, <1>3, JournalStep

\* What is new in the journal is what the one door has appended.
LEMMA NewlySaid ==
    ASSUME TypeInv, NEW d \in Doors, DoorStep(d)
    PROVE  /\ \A i : Received(i)' =>
                 Received(i) \/ (AppendReceived(d) /\ i = request[d].intake)
           /\ \A s : Created(s)' =>
                 Created(s) \/ (AppendCreated(d) /\ s = request[d].slug)
           /\ \A i : \A m \in Routings(i)' :
                 \/ m \in Routings(i)
                 \/ /\ AppendRouted(d) /\ i = request[d].intake
                    /\ m = Len(journal) + 1 /\ journal'[m].read = request[d].read
<1>1. journal \in Seq(Event)
  BY DEF TypeInv, TypeOK
<1>2. CASE UNCHANGED journal
  BY <1>1, <1>2 DEF Received, Created, Routings, Happened
<1>3. CASE journal' # journal
  <2>1. PICK e \in Event : journal' = Append(journal, e)
    BY <1>3, JournalStep
  <2>2. e = journal'[Len(journal) + 1]
    BY <1>1, <2>1
  <2>3. \/ AppendReceived(d) \/ AppendCreated(d) \/ AppendStage(d) \/ RecordVersion(d)
        \/ AppendRouted(d)
    BY <1>3 DEF DoorStep, Receive, Mint, Upgrade, CopyCrate, Rule, FindMine, MoveCrate,
       MoveFails, WriteIdentity, WriteMarker, ClearPayload, CopyPayload, CopyFails, Crash
  <2>4. /\ e.type = "received" => AppendReceived(d) /\ e.intake = request[d].intake
        /\ e.type = "created" => AppendCreated(d) /\ e.bundle = request[d].slug
        /\ e.type = "routed" => /\ AppendRouted(d) /\ e.intake = request[d].intake
                                /\ e.read = request[d].read
    BY <1>1, <1>3, <2>2, <2>3 DEF AppendReceived, AppendCreated, AppendStage,
       RecordVersion, AppendRouted, Append1
  <2>5. QED
    BY <1>1, <2>1, <2>2, <2>4, Says
<1>4. QED
  BY <1>2, <1>3

LEMMA PlacesPreserved ==
    ASSUME TypeInv, NEW d \in Doors, DoorStep(d)
    PROVE  PlacesInv'
<1>1. /\ \A other \in Doors \ {d} : request'[other] = request[other]
      /\ \A other \in Doors : request[other] \in Lawful \union {NoRequest}
  BY ShapePreserved DEF TypeInv, ShapeInv
<1>2. Created(Home)'
  BY SaidStays DEF TypeInv, PlacesInv
<1>3. ASSUME NEW s \in Slugs, Created(s)'
      PROVE  dir'[s].there
  <2>1. CASE Created(s)
    BY <2>1, DirStep DEF TypeInv, PlacesInv
  <2>2. CASE ~Created(s)
    <3>1. AppendCreated(d) /\ s = request[d].slug
      BY <1>3, <2>2, NewlySaid
    <3>2. Adopts(d)
      BY <3>1, AtLawful, LawfulIs DEF AppendCreated, Adopts, Step, Landing
    <3>3. dir[s].there
      BY <3>1, <3>2 DEF TypeInv, PlacesInv
    <3>4. QED
      BY <3>3, DirStep
  <2>3. QED
    BY <2>1, <2>2
<1>4. ASSUME NEW s \in Slugs, ~dir'[s].there
      PROVE  dir'[s].root = {} /\ dir'[s].output = {}
  BY <1>4, DirStep DEF TypeInv, PlacesInv
<1>5. ASSUME NEW e \in Doors, Adopts(e)' \/ (Routes(e)' /\ request'[e].as = "upgrade")
      PROVE  dir'[request'[e].slug].there
  <2>1. CASE Adopts(e) \/ (Routes(e) /\ request[e].as = "upgrade")
    <3>1. dir[request[e].slug].there /\ request[e].slug \in Slugs
      BY <1>1, <2>1, LawfulIs DEF TypeInv, PlacesInv, Adopts, Routes, Busy
    <3>2. CASE request'[e].slug = request[e].slug
      BY <3>1, <3>2, DirStep
    <3>3. CASE request'[e].slug # request[e].slug
      <4>1. e = d
        BY <1>1, <3>3
      <4>2. ~Starts(d)
        BY <2>1, <4>1 DEF Starts, CopyCrate, Rule, FindMine, Adopts, Routes, Busy
      <4>3. ~Ends(d) /\ ~ClearPayload(d)
        BY <1>5, <3>3, <4>1, Ended, ClearingIs, TakesUp DEF Adopts, Routes
      <4>4. QED
        BY <3>3, <4>1, <4>2, <4>3, StepIs, Advanced
    <3>4. QED
      BY <3>2, <3>3
  <2>2. CASE ~Adopts(e) /\ ~(Routes(e) /\ request[e].as = "upgrade")
    <3>1. e = d
      BY <1>1, <1>5, <2>2 DEF Adopts, Routes, Busy
    <3>2. CASE Starts(d)
      <4>1. PICK r \in Lawful : request' = [request EXCEPT ![d] = r]
        BY <3>2, Started
      <4>2. request'[d] = r
        BY <4>1, TakesUp
      <4>3. CASE \E i \in Intakes : CopyCrate(d, i)
        BY <1>5, <3>1, <4>3, CopyingIs, TakesUp DEF Adopts, Routes, Adopting, Disposition,
           Minting
      <4>4. CASE \E i \in Intakes, as \in Disposition, s \in Slugs \union {None} :
                    Rule(d, i, as, s)
        <5>1. PICK i \in Intakes, as \in Disposition, s \in Slugs \union {None} :
                Rule(d, i, as, s)
          BY <4>4
        <5>2. request'[d].at = "ruled" /\ request'[d].as = as /\ request'[d].slug = s
          BY <5>1, RulingIs
        <5>3. as = "upgrade" /\ s \in Slugs /\ Known(s)
          BY <1>5, <3>1, <5>1, <5>2 DEF Adopts, Rule, Admissible, Minting
        <5>4. dir[s].there
          BY <5>3 DEF Known, TypeInv, TypeOK, PlacesInv
        <5>5. QED
          BY <3>1, <5>2, <5>3, <5>4, DirStep
      <4>5. ASSUME NEW s \in Slugs, FindMine(d, s)
            PROVE  dir'[request'[e].slug].there
        <5>1. request'[d].slug = s
          BY <4>5, FindingIs, TakesUp
        <5>2. dir[s].there
          BY <4>5 DEF FindMine, TypeInv, PlacesInv
        <5>3. QED
          BY <3>1, <5>1, <5>2, DirStep
      <4>6. QED
        BY <3>2, <4>3, <4>4, <4>5 DEF Starts
    <3>3. CASE Ends(d)
      BY <1>5, <3>1, <3>3, Ended DEF Adopts, Routes
    <3>4. CASE ClearPayload(d)
      BY <2>2, <3>1, <3>4, AtLawful DEF ClearPayload, Routes, Step, Disposition
    <3>5. ASSUME NEW step \in Step, Advances(d, step)
          PROVE  dir'[request'[e].slug].there
      <4>1. /\ Busy(d) /\ request'[d].as = request[d].as
            /\ request'[d].slug = request[d].slug /\ request'[d].at = step
        BY <3>5, Advanced
      <4>2. request[d].at = "ruled"
        BY <1>5, <2>2, <3>1, <4>1 DEF Adopts, Routes
      <4>3. MoveCrate(d)
        BY <3>5, <4>2 DEF Advances, WriteIdentity, WriteMarker, AppendCreated, AppendStage,
           CopyPayload, RecordVersion
      <4>4. QED
        BY <3>1, <4>1, <4>3, Moving, DirStep DEF TypeInv, TypeOK
    <3>6. QED
      BY <3>2, <3>3, <3>4, <3>5, StepIs
  <2>3. QED
    BY <2>1, <2>2
<1>6. ASSUME NEW e \in Doors, Moves(e)'
      PROVE  dock'[request'[e].intake] = "moved"
  <2>1. CASE Moves(e) /\ request'[e].intake = request[e].intake
    <3>1. request[e].intake \in Intakes /\ dock[request[e].intake] = "moved"
      BY <1>1, <2>1, LawfulIs DEF Moves, Adopts, Busy, TypeInv, PlacesInv, Disposition
    <3>2. QED
      BY <2>1, <3>1, CrateStep
  <2>2. CASE ~(Moves(e) /\ request'[e].intake = request[e].intake)
    <3>1. e = d
      BY <1>1, <1>6, <2>2 DEF Moves, Adopts, Busy
    <3>2. ~Starts(d)
      <4>1. SUFFICES ASSUME Starts(d) PROVE FALSE
        OBVIOUS
      <4>2. ASSUME NEW i \in Intakes, CopyCrate(d, i)
            PROVE  request'[d].at = "copied" /\ request'[d].as = "receive"
        BY <4>2, CopyingIs, TakesUp
      <4>3. ASSUME NEW i \in Intakes, NEW as \in Disposition, NEW s \in Slugs \union {None},
                   Rule(d, i, as, s)
            PROVE  request'[d].at = "ruled"
        BY <4>3, RulingIs
      <4>4. ASSUME NEW s \in Slugs, FindMine(d, s)
            PROVE  request'[d].as = "mine"
        BY <4>4, FindingIs, TakesUp
      <4>5. QED
        BY <1>6, <3>1, <4>1, <4>2, <4>3, <4>4 DEF Starts, Moves, Adopts, Minting
    <3>3. ~Ends(d) /\ ~ClearPayload(d)
      <4>1. ~Ends(d)
        BY <1>6, <3>1, Ended DEF Moves, Adopts
      <4>2. ASSUME ClearPayload(d) PROVE FALSE
        <5>1. request'[d].as = "upgrade"
          BY <4>2, ClearingIs, TakesUp
        <5>2. QED
          BY <1>6, <3>1, <5>1 DEF Moves, Minting
      <4>3. QED
        BY <4>1, <4>2
    <3>4. PICK step \in Step : Advances(d, step)
      BY <3>2, <3>3, StepIs
    <3>5. /\ Busy(d) /\ request'[d].as = request[d].as
          /\ request'[d].intake = request[d].intake
      BY <3>4, Advanced
    <3>6. request[d].at = "ruled"
      BY <1>6, <2>2, <3>1, <3>5 DEF Moves, Adopts
    <3>7. MoveCrate(d)
      BY <3>4, <3>6 DEF Advances, WriteIdentity, WriteMarker, AppendCreated, AppendStage,
         CopyPayload, RecordVersion
    <3>8. QED
      BY <3>1, <3>5, <3>7, Moving DEF TypeInv, TypeOK
  <2>3. QED
    BY <2>1, <2>2
<1>7. QED
  BY <1>2, <1>3, <1>4, <1>5, <1>6 DEF PlacesInv

-----------------------------------------------------------------------------
LEMMA TypePreserved == TypeInv /\ [Next]_vars => TypeInv'
<1> SUFFICES ASSUME TypeInv, [Next]_vars PROVE TypeInv'
  OBVIOUS
<1>1. CASE UNCHANGED vars
  BY <1>1 DEF vars, TypeInv, TypeOK, ShapeInv, PlacesInv, Created, Happened, Adopts, Routes,
     Moves, Busy
<1>2. ASSUME NEW d \in Doors, DoorStep(d)
      PROVE  TypeInv'
  <2>1. ShapeInv' /\ PlacesInv'
    BY <1>2, ShapePreserved, PlacesPreserved DEF ShapeInv
  <2>2. request' \in [Doors -> Request \union {NoRequest}]
    BY <1>2, ShapePreserved DEF Lawful
  <2>3. /\ dock' \in [Intakes -> {"absent", "there", "moved"}]
        /\ dir' \in [Slugs -> Directory] /\ journal' \in Seq(Event)
    BY <1>2, DirStep, CrateStep, SaidStays
  <2>4. \A s \in Slugs : dir'[s].identity # None => dir'[s].there
    BY <1>2, DirStep DEF TypeInv, TypeOK
  <2>5. \A e \in Doors : request'[e].read <= Len(journal')
    <3>1. /\ Len(journal) \in Nat /\ Len(journal') \in Nat /\ Len(journal') >= Len(journal)
          /\ \A e \in Doors : request[e].read \in Nat
      BY <1>2, SaidStays DEF TypeInv, TypeOK, Request, NoRequest
    <3>2. request'[d].read \in {request[d].read, 0, Len(journal)}
      <4>1. CASE Starts(d)
        BY <4>1, Started, TakesUp
      <4>2. CASE Ends(d)
        BY <4>2, Ended DEF NoRequest
      <4>3. CASE ClearPayload(d)
        BY <4>3, ClearingIs, TakesUp
      <4>4. CASE \E step \in Step : Advances(d, step)
        BY <4>4, Advanced
      <4>5. QED
        BY <1>2, <4>1, <4>2, <4>3, <4>4, StepIs
    <3>3. \A e \in Doors \ {d} : request'[e] = request[e]
      BY <1>2, ShapePreserved
    <3>4. QED
      BY <3>1, <3>2, <3>3 DEF TypeInv, TypeOK
  <2>6. stranded' \subseteq {i \in Intakes : dock'[i] = "moved"}
    <3>1. CASE UNCHANGED stranded
      BY <1>2, <3>1, CrateStep DEF TypeInv, TypeOK
    <3>2. CASE Crash(d) /\ stranded' # stranded
      <4>1. Moves(d) /\ stranded' = stranded \union {request[d].intake}
        BY <3>2 DEF Crash, Moves, Adopts, Adopting, Busy
      <4>2. request[d].intake \in Intakes /\ dock[request[d].intake] = "moved"
        BY <4>1, AtLawful, LawfulIs DEF Moves, Adopts, Disposition, TypeInv, PlacesInv
      <4>3. QED
        BY <1>2, <4>1, <4>2, CrateStep DEF TypeInv, TypeOK
    <3>3. QED
      BY <1>2, <3>1, <3>2 DEF DoorStep, Receive, Mint, Upgrade, CopyCrate, AppendReceived,
         Rule, FindMine, MoveCrate, MoveFails, WriteIdentity, WriteMarker, AppendCreated,
         AppendStage, ClearPayload, CopyPayload, CopyFails, RecordVersion, AppendRouted
  <2>7. crossed' \subseteq Slugs
    <3>1. UNCHANGED crossed \/ \E s \in Slugs : NoteCrossing(d, s)
      <4>1. ClearPayload(d) => request[d].slug \in Slugs
        BY Clearing
      <4>2. MoveCrate(d) => request[d].slug \in Slugs
        BY Moving
      <4>3. QED
        BY <1>2, <4>1, <4>2 DEF DoorStep, Receive, Mint, Upgrade, CopyCrate,
           AppendReceived, Rule, FindMine, MoveCrate, MoveFails, WriteIdentity,
           WriteMarker, AppendCreated, AppendStage, ClearPayload, CopyPayload, CopyFails,
           RecordVersion, AppendRouted, Crash
    <3>2. QED
      BY <3>1 DEF NoteCrossing, TypeInv, TypeOK
  <2>8. requests' \in 0..MaxRequests /\ crashes' \in 0..MaxCrashes
    <3>1. /\ UNCHANGED requests \/ (requests < MaxRequests /\ requests' = requests + 1)
          /\ UNCHANGED crashes \/ (crashes < MaxCrashes /\ crashes' = crashes + 1)
      BY <1>2 DEF DoorStep, Receive, Mint, Upgrade, CopyCrate,
           AppendReceived, Rule, FindMine, MoveCrate, MoveFails, WriteIdentity,
           WriteMarker, AppendCreated, AppendStage, ClearPayload, CopyPayload, CopyFails,
           RecordVersion, AppendRouted, Crash
    <3>2. QED
      BY <3>1, ConstantsAssumption DEF TypeInv, TypeOK
  <2>9. QED
    BY <2>1, <2>2, <2>3, <2>4, <2>5, <2>6, <2>7, <2>8 DEF TypeInv, TypeOK
<1>3. QED
  BY <1>1, <1>2 DEF Next, DoorStep

\* What the journal says at the start.
LEMMA AtFirst ==
    ASSUME Init
    PROVE  /\ journal \in Seq(Event) /\ Len(journal) = 2
           /\ Happened("created") = {1} /\ Happened("version") = {2}
           /\ Happened("received") = {} /\ Happened("routed") = {}
           /\ journal[1].bundle = Home /\ journal[2].holds = {HomePayload}
<1>1. /\ [type |-> "created", bundle |-> Home] \in Event
      /\ [type |-> "version", bundle |-> Home, holds |-> {HomePayload}] \in Event
  BY ConstantsAssumption DEF Event
<1>2. /\ journal \in Seq(Event) /\ Len(journal) = 2
      /\ journal[1] = [type |-> "created", bundle |-> Home]
      /\ journal[2] = [type |-> "version", bundle |-> Home, holds |-> {HomePayload}]
  BY <1>1 DEF Init
<1>3. 1..Len(journal) = {1, 2}
  BY <1>2
<1>4. QED
  BY <1>2, <1>3 DEF Happened

LEMMA DirAtFirst ==
    ASSUME Init
    PROVE  /\ dir \in [Slugs -> Directory]
           /\ dir[Home].there /\ dir[Home].identity = "skill.json"
           /\ \A s \in Slugs \ {Home} : dir[s] = Nothing
<1>1. /\ MadeHere \in Directory /\ AdoptedOnce \in Directory /\ Nothing \in Directory
      /\ MadeHere.there /\ AdoptedOnce.there
      /\ MadeHere.identity = "skill.json" /\ AdoptedOnce.identity = "skill.json"
  BY ConstantsAssumption DEF MadeHere, AdoptedOnce, Nothing, Directory
<1>2. PICK home \in {MadeHere, AdoptedOnce} :
        dir = [s \in Slugs |-> IF s = Home THEN home ELSE Nothing]
  BY DEF Init
<1> HIDE DEF MadeHere, AdoptedOnce, Nothing
<1>3. QED
  BY <1>1, <1>2, ConstantsAssumption

LEMMA TypeInit == Init => TypeInv
<1> SUFFICES ASSUME Init PROVE TypeInv
  OBVIOUS
<1>1. TypeOK
  <2>1. /\ dock \in [Intakes -> {"absent", "there", "moved"}]
        /\ request \in [Doors -> Request \union {NoRequest}]
        /\ stranded = {} /\ crossed = {}
        /\ requests \in 0..MaxRequests /\ crashes \in 0..MaxCrashes
    BY ConstantsAssumption DEF Init
  <2>2. \A d \in Doors : request[d].read <= Len(journal)
    BY AtFirst DEF Init, NoRequest
  <2>3. \A s \in Slugs : dir[s].identity # None => dir[s].there
    BY DirAtFirst DEF Nothing
  <2>4. QED
    BY <2>1, <2>2, <2>3, AtFirst, DirAtFirst DEF TypeOK
<1>2. ShapeInv
  BY DEF Init, ShapeInv
<1>3. PlacesInv
  <2>1. \A d \in Doors : ~Busy(d)
    BY DEF Init, Busy
  <2>2. \A s \in Slugs : Created(s) <=> s = Home
    BY AtFirst, ConstantsAssumption DEF Created
  <2>3. \A s \in Slugs : ~dir[s].there => dir[s].root = {} /\ dir[s].output = {}
    BY DirAtFirst DEF Nothing
  <2>4. QED
    BY <2>1, <2>2, <2>3, DirAtFirst, ConstantsAssumption DEF PlacesInv, Adopts, Routes, Moves
<1>4. QED
  BY <1>1, <1>2, <1>3 DEF TypeInv

\* Every state of the dock is made of the values declared for it, and a
\* stranded crate is one that was moved, however many doors work and die.
THEOREM TypeCorrect == Spec => []TypeOK
<1>1. TypeInv => TypeOK
  BY DEF TypeInv
<1>2. QED
  BY <1>1, TypeInit, TypePreserved, PTL DEF Spec

-----------------------------------------------------------------------------
\* How a request that copies, routes or moves a crate has come to do so.
LEMMA CopiesBefore ==
    ASSUME TypeInv, NEW d \in Doors, DoorStep(d), NEW e \in Doors, Copies(e)'
    PROVE  \/ e # d /\ Copies(e) /\ request'[e] = request[e]
           \/ e = d /\ CopyCrate(d, request'[d].intake) /\ request'[d].intake \in Intakes
<1>1. CASE e # d
  BY <1>1, ShapePreserved DEF Copies, Busy
<1>2. CASE e = d
  <2>1. CASE \E i \in Intakes : CopyCrate(d, i)
    <3>1. PICK i \in Intakes : CopyCrate(d, i)
      BY <2>1
    <3>2. PICK r \in Lawful : request' = [request EXCEPT ![d] = r] /\ r.intake = i
      BY <3>1, CopyingIs
    <3>3. request'[d].intake = i
      BY <3>2, TakesUp
    <3>4. QED
      BY <1>2, <3>1, <3>3
  <2>2. ASSUME NEW i \in Intakes, NEW as \in Disposition, NEW s \in Slugs \union {None},
               Rule(d, i, as, s)
        PROVE  FALSE
    BY <1>2, <2>2, RulingIs DEF Copies
  <2>3. ASSUME NEW s \in Slugs, FindMine(d, s)
        PROVE  FALSE
    BY <1>2, <2>3, FindingIs, TakesUp DEF Copies
  <2>4. CASE ClearPayload(d)
    BY <1>2, <2>4, ClearingIs, TakesUp DEF Copies
  <2>5. CASE Ends(d)
    BY <1>2, <2>5, Ended DEF Copies
  <2>6. ASSUME NEW step \in Step, Advances(d, step)
        PROVE  FALSE
    BY <1>2, <2>6, Advanced DEF Copies, Advances
  <2>7. QED
    BY <2>1, <2>2, <2>3, <2>4, <2>5, <2>6, StepIs DEF Starts
<1>3. QED
  BY <1>1, <1>2

LEMMA RoutesBefore ==
    ASSUME TypeInv, NEW d \in Doors, DoorStep(d), NEW e \in Doors, Routes(e)'
    PROVE  LET i == request'[e].intake
           IN  \/ /\ Routes(e) /\ i = request[e].intake
                  /\ request'[e].read = request[e].read
               \/ /\ e = d /\ i \in Intakes /\ request'[e].read = Len(journal)
                  /\ Routable(i) /\ UNCHANGED journal
<1>1. CASE e # d
  BY <1>1, ShapePreserved DEF Routes, Busy
<1>2. CASE e = d
  <2>1. ASSUME NEW i \in Intakes, CopyCrate(d, i)
        PROVE  FALSE
    BY <1>2, <2>1, CopyingIs, TakesUp DEF Routes, Disposition, Minting
  <2>2. ASSUME NEW i \in Intakes, NEW as \in Disposition, NEW s \in Slugs \union {None},
               Rule(d, i, as, s)
        PROVE  /\ request'[d].intake = i /\ request'[d].read = Len(journal)
               /\ Routable(i) /\ UNCHANGED journal
    BY <2>2, RulingIs DEF Rule
  <2>3. ASSUME NEW s \in Slugs, FindMine(d, s)
        PROVE  FALSE
    BY <1>2, <2>3, FindingIs, TakesUp DEF Routes, Disposition, Minting
  <2>4. ASSUME ClearPayload(d)
        PROVE  /\ Routes(d) /\ request'[d].intake = request[d].intake
               /\ request'[d].read = request[d].read
    <3>1. /\ request'[d].intake = request[d].intake
          /\ request'[d].read = request[d].read
      BY <2>4, ClearingIs, TakesUp
    <3>2. QED
      BY <2>4, <3>1, AtLawful DEF ClearPayload, Routes, Disposition, Step
  <2>5. CASE Ends(d)
    BY <1>2, <2>5, Ended DEF Routes
  <2>6. ASSUME NEW step \in Step, Advances(d, step)
        PROVE  /\ Routes(d) /\ request'[d].intake = request[d].intake
               /\ request'[d].read = request[d].read
    BY <1>2, <2>6, Advanced DEF Routes
  <2>7. QED
    BY <1>2, <2>1, <2>2, <2>3, <2>4, <2>5, <2>6, StepIs DEF Starts
<1>3. QED
  BY <1>1, <1>2

LEMMA MovesAfter ==
    ASSUME TypeInv, NEW d \in Doors, DoorStep(d), NEW e \in Doors, Moves(e)
    PROVE  \/ Moves(e)' /\ request'[e].intake = request[e].intake
           \/ e = d /\ (Crash(d) \/ AppendRouted(d))
<1>1. CASE e # d
  BY <1>1, ShapePreserved DEF Moves, Adopts, Busy
<1>2. CASE e = d
  <2>1. request[d] \in Lawful /\ Busy(d)
    BY <1>2, AtLawful DEF Moves, Adopts
  <2>2. ~Starts(d) /\ ~ClearPayload(d)
    BY <1>2 DEF Starts, CopyCrate, Rule, FindMine, ClearPayload, Moves, Adopts, Busy
  <2>3. CASE Ends(d)
    <3>1. ~MoveFails(d) /\ ~CopyFails(d) /\ ~AppendReceived(d)
      BY <1>2, <2>1, LawfulIs DEF MoveFails, CopyFails, AppendReceived, Moves, Adopts, Minting
    <3>2. ~EndsUnrouted(d)
      BY <1>2 DEF EndsUnrouted, Moves, Minting
    <3>3. QED
      BY <1>2, <2>3, <3>1, <3>2 DEF Ends
  <2>4. ASSUME NEW step \in Step, Advances(d, step)
        PROVE  Moves(d)' /\ request'[d].intake = request[d].intake
    <3>1. step # "ruled"
      BY <2>4 DEF Advances
    <3>2. QED
      BY <1>2, <2>4, <3>1, Advanced DEF Moves, Adopts
  <2>5. QED
    BY <1>2, <2>2, <2>3, <2>4, StepIs
<1>3. QED
  BY <1>1, <1>2
-----------------------------------------------------------------------------
LEMMA CratesStep ==
    ASSUME TypeInv, CratesAreNew, RulingsAreFirst, NEW d \in Doors, DoorStep(d)
    PROVE  CratesAreNew'
<1>1. \A e \in Doors : Copies(e) => request[e].intake \in Intakes
  BY AtLawful, LawfulIs DEF Copies
<1>2. ASSUME NEW i \in Intakes, Received(i)'
      PROVE  dock'[i] # "absent"
  <2>1. dock[i] # "absent"
    <3>1. CASE AppendReceived(d) /\ i = request[d].intake
      BY <3>1, AtLawful DEF AppendReceived, Copies, CratesAreNew, Step
    <3>2. QED
      BY <1>2, <3>1, NewlySaid DEF CratesAreNew
  <2>2. QED
    BY <2>1, CrateStep
<1>3. ASSUME NEW e \in Doors, Copies(e), e # d, NEW i \in Intakes, request[e].intake = i
      PROVE  dock'[i] = "there" /\ ~Received(i)'
  <2>1. dock[i] = "there" /\ ~Received(i)
    BY <1>3 DEF CratesAreNew
  <2>2. ~(MoveCrate(d) /\ i = request[d].intake)
    BY <2>1, AtLawful DEF MoveCrate, RulingsAreFirst, Routes, Step, Disposition
  <2>3. dock'[i] = "there"
    BY <2>1, <2>2, CrateStep
  <2>4. ~(AppendReceived(d) /\ i = request[d].intake)
    BY <1>3, AtLawful DEF AppendReceived, Copies, CratesAreNew, Step
  <2>5. QED
    BY <2>1, <2>3, <2>4, NewlySaid
<1>4. ASSUME NEW i \in Intakes, CopyCrate(d, i)
      PROVE  dock'[i] = "there" /\ ~Received(i)' /\ dock[i] = "absent"
  <2>1. dock[i] = "absent" /\ dock' = [dock EXCEPT ![i] = "there"] /\ UNCHANGED journal
    BY <1>4 DEF CopyCrate
  <2>2. Received(i)' <=> Received(i)
    BY <2>1 DEF Received, Happened
  <2>3. QED
    BY <2>1, <2>2 DEF CratesAreNew, TypeInv, TypeOK
<1>5. ASSUME NEW e \in Doors, NEW i \in Intakes, Copies(e)', request'[e].intake = i
      PROVE  dock'[i] = "there" /\ ~Received(i)'
  BY <1>3, <1>4, <1>5, CopiesBefore
<1>6. ASSUME NEW e \in Doors, NEW f \in Doors, Copies(e)', Copies(f)', e # f
      PROVE  request'[e].intake # request'[f].intake
  BY <1>1, <1>4, <1>6, CopiesBefore DEF CratesAreNew
<1>7. QED
  BY <1>2, <1>5, <1>6 DEF CratesAreNew

LEMMA MovedStep ==
    ASSUME TypeInv, MovedHasReason, NEW d \in Doors, DoorStep(d)
    PROVE  MovedHasReason'
<1> SUFFICES ASSUME NEW i \in Intakes, dock'[i] = "moved"
             PROVE  \/ i \in stranded'
                    \/ Routings(i)' # {}
                    \/ \E e \in Doors : Moves(e)' /\ request'[e].intake = i
  BY DEF MovedHasReason
<1>1. CASE MoveCrate(d) /\ i = request[d].intake
  <2>1. Advances(d, "moved") /\ request[d].as \in Minting
    BY <1>1 DEF Advances, MoveCrate
  <2>2. QED
    BY <1>1, <2>1, Advanced DEF Moves, Adopts, Adopting
<1>2. CASE i \in stranded
  <2>1. stranded \subseteq stranded'
    BY DEF DoorStep, Receive, Mint, Upgrade, CopyCrate, AppendReceived, Rule, FindMine,
       MoveCrate, MoveFails, WriteIdentity, WriteMarker, AppendCreated, AppendStage,
       ClearPayload, CopyPayload, CopyFails, RecordVersion, AppendRouted, Crash
  <2>2. QED
    BY <1>2, <2>1
<1>3. CASE Routings(i) # {}
  BY <1>3, SaidStays
<1>4. ASSUME NEW e \in Doors, Moves(e), request[e].intake = i
      PROVE  \/ i \in stranded'
             \/ Routings(i)' # {}
             \/ \E f \in Doors : Moves(f)' /\ request'[f].intake = i
  <2>1. CASE Crash(d) /\ e = d
    BY <1>4, <2>1 DEF Crash, Moves, Adopts
  <2>2. CASE AppendRouted(d) /\ e = d
    <3>1. journal \in Seq(Event) /\ i \in Intakes /\ journal' # journal
      <4>1. journal \in Seq(Event)
        BY DEF TypeInv, TypeOK
      <4>2. QED
        BY <2>2, <4>1 DEF AppendRouted, Append1
    <3>2. PICK event \in Event : journal' = Append(journal, event)
      BY <3>1, JournalStep
    <3>3. event = journal'[Len(journal) + 1]
      BY <3>1, <3>2
    <3>4. event.type = "routed" /\ event.intake = i
      BY <1>4, <2>2, <3>1, <3>3 DEF AppendRouted, Append1
    <3>5. QED
      BY <3>1, <3>2, <3>4, Says
  <2>3. QED
    BY <1>4, <2>1, <2>2, MovesAfter
<1>5. QED
  BY <1>1, <1>2, <1>3, <1>4, CrateStep DEF MovedHasReason

LEMMA RulingsStep ==
    ASSUME TypeInv, RulingsAreFirst, NEW d \in Doors, DoorStep(d)
    PROVE  RulingsAreFirst'
<1> SUFFICES ASSUME NEW e \in Doors, NEW i \in Intakes, Routes(e)', request'[e].intake = i
             PROVE  Received(i)' /\ \A m \in Routings(i)' : request'[e].read < m
  BY DEF RulingsAreFirst
<1>1. CASE Routes(e) /\ i = request[e].intake /\ request'[e].read = request[e].read
  <2>1. Received(i)'
    BY <1>1, SaidStays DEF RulingsAreFirst
  <2>2. request[e].read \in Nat /\ request[e].read <= Len(journal) /\ Len(journal) \in Nat
    BY DEF TypeInv, TypeOK, Request, NoRequest
  <2>3. QED
    BY <1>1, <2>1, <2>2, NewlySaid DEF RulingsAreFirst
<1>2. CASE Routable(i) /\ UNCHANGED journal
  BY <1>2 DEF Routable, Received, Routings, Happened
<1>3. QED
  BY <1>1, <1>2, RoutesBefore

LEMMA RoutingStep ==
    ASSUME TypeInv, RulingsAreFirst, SecondRoutingIsRace, NEW d \in Doors, DoorStep(d)
    PROVE  SecondRoutingIsRace'
<1> SUFFICES ASSUME NEW i \in Intakes, NEW m \in Routings(i)', NEW n \in Routings(i)', m < n
             PROVE  journal'[n].read < m
  BY DEF SecondRoutingIsRace
<1>1. Len(journal) \in Nat /\ \A k \in Routings(i) : k \in 1..Len(journal)
  BY DEF Routings, Happened, TypeInv, TypeOK
<1>2. m \in Routings(i)
  BY <1>1, NewlySaid
<1>3. CASE n \in Routings(i)
  BY <1>1, <1>2, <1>3, SaidStays DEF SecondRoutingIsRace
<1>4. CASE n \notin Routings(i)
  <2>1. /\ AppendRouted(d) /\ i = request[d].intake /\ journal'[n].read = request[d].read
    BY <1>4, NewlySaid
  <2>2. Routes(d)
    BY <2>1, AtLawful, LawfulIs DEF AppendRouted, WorkDone, Routes, Step, Disposition
  <2>3. QED
    BY <1>2, <2>1, <2>2 DEF RulingsAreFirst
<1>5. QED
  BY <1>3, <1>4

LEMMA DockPreserved == TypeInv /\ DockInv /\ [Next]_vars => DockInv'
<1> SUFFICES ASSUME TypeInv, DockInv, [Next]_vars PROVE DockInv'
  OBVIOUS
<1>1. CASE UNCHANGED vars
  BY <1>1 DEF vars, DockInv, CratesAreNew, MovedHasReason, RulingsAreFirst,
     SecondRoutingIsRace, Copies, Moves, Adopts, Routes, Busy, Received, Routings, Happened
<1>2. ASSUME NEW d \in Doors, DoorStep(d) PROVE DockInv'
  BY <1>2, CratesStep, MovedStep, RulingsStep, RoutingStep DEF DockInv
<1>3. QED
  BY <1>1, <1>2 DEF Next, DoorStep

LEMMA DockInit == Init => DockInv
<1> SUFFICES ASSUME Init PROVE DockInv
  OBVIOUS
<1>1. /\ \A d \in Doors : ~Busy(d)
      /\ \A i \in Intakes : dock[i] = "absent"
  BY DEF Init, Busy
<1>2. \A i \in Intakes : ~Received(i) /\ Routings(i) = {}
  BY AtFirst DEF Received, Routings
<1>3. QED
  BY <1>1, <1>2 DEF DockInv, CratesAreNew, MovedHasReason, RulingsAreFirst,
     SecondRoutingIsRace, Copies, Routes

\* A crate is at the dock until it leaves it, and leaves it once: one that is
\* still undisposed is there unless its mover is under way or has died, and a
\* second routing comes only from a request that read the journal before the
\* first was appended, however many doors race for it and die.
THEOREM CratesLeave == Spec => []CratesLeaveOnce
<1>1. TypeInv /\ DockInv => CratesLeaveOnce
  <2> SUFFICES ASSUME TypeInv, DockInv PROVE CratesLeaveOnce
    OBVIOUS
  <2>1. SecondRoutingIsRace
    BY DEF DockInv
  <2>2. ASSUME NEW i \in Intakes, Received(i), Routings(i) = {}
        PROVE  \/ dock[i] = "there" \/ i \in stranded
               \/ \E d \in Doors : request[d].intake = i /\ request[d].at # "ruled"
    <3>1. dock[i] \in {"there", "moved"}
      BY <2>2 DEF DockInv, CratesAreNew, TypeInv, TypeOK
    <3>2. QED
      BY <2>2, <3>1 DEF DockInv, MovedHasReason, Moves, Adopts
  <2>3. QED
    BY <2>1, <2>2 DEF CratesLeaveOnce, UndisposedIsAtDock
<1>2. QED
  BY <1>1, TypeInit, TypePreserved, DockInit, DockPreserved, PTL DEF Spec

-----------------------------------------------------------------------------
\* How a request has come to adopt a directory.
LEMMA AdoptsBefore ==
    ASSUME TypeInv, NEW d \in Doors, DoorStep(d), NEW e \in Doors, Adopts(e)',
           request'[e].at # "moved"
    PROVE  /\ request'[e].slug = request[e].slug /\ request'[e].as = request[e].as
           /\ Adopts(e)
           /\ \/ request'[e].at = request[e].at
              \/ e = d /\ Advances(d, request'[e].at)
<1>1. CASE e # d
  BY <1>1, ShapePreserved DEF Adopts, Busy
<1>2. CASE e = d
  <2>1. ~Starts(d)
    <3>1. ASSUME NEW i \in Intakes, CopyCrate(d, i) PROVE FALSE
      BY <1>2, <3>1, CopyingIs, TakesUp DEF Adopts, Adopting, Minting
    <3>2. ASSUME NEW i \in Intakes, NEW as \in Disposition, NEW s \in Slugs \union {None},
                 Rule(d, i, as, s)
          PROVE  FALSE
      BY <1>2, <3>2, RulingIs DEF Adopts
    <3>3. ASSUME NEW s \in Slugs, FindMine(d, s) PROVE FALSE
      BY <1>2, <3>3, FindingIs, TakesUp
    <3>4. QED
      BY <3>1, <3>2, <3>3 DEF Starts
  <2>2. ~Ends(d)
    BY <1>2, Ended DEF Adopts
  <2>3. ~ClearPayload(d)
    <3>1. SUFFICES ASSUME ClearPayload(d) PROVE FALSE
      OBVIOUS
    <3>2. request'[d].as = "upgrade"
      BY <3>1, ClearingIs, TakesUp
    <3>3. QED
      BY <1>2, <3>2 DEF Adopts, Adopting, Minting
  <2>4. PICK step \in Step : Advances(d, step)
    BY <2>1, <2>2, <2>3, StepIs
  <2>5. /\ Busy(d) /\ request'[d].at = step /\ request'[d].as = request[d].as
        /\ request'[d].slug = request[d].slug
    BY <2>4, Advanced
  <2>6. request[d].at # "ruled"
    BY <1>2, <2>4, <2>5 DEF Advances, WriteIdentity, WriteMarker, AppendCreated,
       AppendStage, CopyPayload, RecordVersion
  <2>7. QED
    BY <1>2, <2>4, <2>5, <2>6 DEF Adopts
<1>3. QED
  BY <1>1, <1>2

\* An identity is taken only off a bundle that was adopted before.
LEMMA IdentityStays ==
    ASSUME TypeInv, IdentityInv, NEW d \in Doors, DoorStep(d)
    PROVE  /\ dir'[Home].marker \/ dir'[Home].identity # None
           /\ \A s \in Slugs \ {Home} :
                 /\ dir'[s].identity # "skill.json"
                 /\ dir[s].identity # None => dir'[s].identity # None
<1>1. dir \in [Slugs -> Directory] /\ Home \in Slugs
  BY ConstantsAssumption DEF TypeInv, TypeOK
<1>2. /\ dir[Home].marker \/ dir[Home].identity # None
      /\ \A s \in Slugs \ {Home} : dir[s].identity # "skill.json"
  BY DEF IdentityInv
<1>3. CASE UNCHANGED dir
  BY <1>2, <1>3
<1>4. CASE MoveCrate(d)
  BY <1>1, <1>2, <1>4, Moving
<1>5. CASE WriteIdentity(d) \/ WriteMarker(d)
  <2> DEFINE s == request[d].slug
  <2>1. PICK new \in Directory :
          /\ dir' = [dir EXCEPT ![s] = new] /\ s \in Slugs /\ s # Home
          /\ new.identity = IF WriteIdentity(d) THEN "bundle.json" ELSE dir[s].identity
    BY <1>5, Marking
  <2>2. dir'[Home] = dir[Home] /\ dir'[s] = new
    BY <1>1, <2>1
  <2>3. new.identity # "skill.json" /\ (dir[s].identity # None => new.identity # None)
    BY <1>2, <2>1 DEF None
  <2>4. \A t \in Slugs \ {s} : dir'[t] = dir[t]
    BY <1>1, <2>1
  <2>5. QED
    BY <1>2, <2>2, <2>3, <2>4
<1>6. CASE ClearPayload(d)
  <2> DEFINE s == request[d].slug
  <2>1. PICK new \in Directory :
          /\ dir' = [dir EXCEPT ![s] = new] /\ s \in Slugs /\ new.marker = dir[s].marker
          /\ new.identity = IF dir[s].marker /\ dir[s].identity = "skill.json"
                            THEN None ELSE dir[s].identity
    BY <1>6, Clearing
  <2>2. dir'[s] = new /\ \A t \in Slugs \ {s} : dir'[t] = dir[t]
    BY <1>1, <2>1
  <2>3. s = Home => new.marker \/ new.identity # None
    BY <1>2, <2>1
  <2>4. s # Home => new.identity = dir[s].identity
    BY <1>2, <2>1
  <2>5. QED
    BY <1>1, <1>2, <2>1, <2>2, <2>3, <2>4
<1>7. CASE CopyPayload(d)
  <2> DEFINE s == request[d].slug
  <2>1. PICK new \in Directory :
          /\ dir' = [dir EXCEPT ![s] = new] /\ s \in Slugs /\ new.marker = dir[s].marker
          /\ new.identity = dir[s].identity
    BY <1>7, Copying
  <2>2. dir'[s] = new /\ \A t \in Slugs \ {s} : dir'[t] = dir[t]
    BY <1>1, <2>1
  <2>3. QED
    BY <1>1, <1>2, <2>1, <2>2
<1>8. QED
  BY <1>3, <1>4, <1>5, <1>6, <1>7 DEF DoorStep, Receive, Mint, Upgrade, CopyCrate,
     AppendReceived, Rule, FindMine, MoveFails, AppendCreated, AppendStage, CopyFails,
     RecordVersion, AppendRouted, Crash

LEMMA IdentityStep ==
    ASSUME TypeInv, IdentityInv, NEW d \in Doors, DoorStep(d)
    PROVE  IdentityInv'
<1>1. \A e \in Doors : Adopts(e) => request[e].slug \in Slugs \ {Home}
  BY AtLawful, LawfulIs DEF Adopts
<1>2. ASSUME NEW s \in Slugs \ {Home}, Created(s)'
      PROVE  dir'[s].identity # None
  <2>1. dir[s].identity # None
    <3>1. CASE Created(s)
      BY <3>1 DEF IdentityInv
    <3>2. CASE AppendCreated(d) /\ s = request[d].slug
      <4>1. Adopts(d) /\ request[d].at = "marked"
        BY <3>2, AtLawful, LawfulIs DEF AppendCreated, Adopts, Step, Landing
      <4>2. QED
        BY <3>2, <4>1 DEF IdentityInv
    <3>3. QED
      BY <1>2, <3>1, <3>2, NewlySaid
  <2>2. QED
    BY <2>1, IdentityStays
<1>3. ASSUME NEW e \in Doors, Adopts(e)', request'[e].at # "moved"
      PROVE  dir'[request'[e].slug].identity # None
  <2> DEFINE s == request[e].slug
  <2>1. Adopts(e) /\ request'[e].slug = s /\ s \in Slugs \ {Home}
    BY <1>1, <1>3, AdoptsBefore
  <2>2. CASE request[e].at # "moved"
    BY <2>1, <2>2, IdentityStays DEF IdentityInv
  <2>3. CASE request[e].at = "moved"
    <3>1. e = d /\ WriteIdentity(d)
      <4>1. e = d /\ Advances(d, request'[d].at) /\ request'[d].at # "moved"
        BY <1>3, <2>3, AdoptsBefore
      <4>2. QED
        BY <2>3, <4>1 DEF Advances, MoveCrate, WriteMarker, AppendCreated, AppendStage,
           CopyPayload, RecordVersion
    <3>2. PICK new \in Directory : dir' = [dir EXCEPT ![s] = new] /\ new.identity = "bundle.json"
      BY <3>1, Marking
    <3>3. QED
      BY <2>1, <3>2 DEF None, TypeInv, TypeOK
  <2>4. QED
    BY <2>2, <2>3
<1>4. ASSUME NEW e \in Doors, NEW s \in Slugs, Adopts(e)', request'[e].slug = s,
             request'[e].at \in {"created", "staged", "recorded"}
      PROVE  Created(s)'
  <2>1. Adopts(e) /\ request[e].slug = s
    BY <1>4, AdoptsBefore
  <2>2. CASE request[e].at \in {"created", "staged", "recorded"}
    <3>1. Created(s)
      BY <2>1, <2>2 DEF IdentityInv
    <3>2. QED
      BY <3>1, SaidStays
  <2>3. CASE request[e].at \notin {"created", "staged", "recorded"}
    <3>1. e = d /\ Advances(d, request'[e].at)
      BY <1>4, <2>3, AdoptsBefore
    <3>2. AppendCreated(d)
      <4>1. request[d].at # "landed"
        BY <2>1, <3>1, AtLawful, LawfulIs DEF Adopts, Adopting, Minting
      <4>2. QED
        BY <1>4, <2>3, <3>1, <4>1 DEF Advances, AppendStage, RecordVersion
    <3>3. CASE Created(s)
      BY <3>3, SaidStays
    <3>4. CASE ~Created(s)
      <4>1. journal \in Seq(Event) /\ [type |-> "created", bundle |-> s] \in Event
        BY DEF TypeInv, TypeOK, Event
      <4>2. journal' = Append(journal, [type |-> "created", bundle |-> s])
        BY <2>1, <3>1, <3>2, <3>4 DEF AppendCreated, Append1
      <4>3. QED
        BY <4>1, <4>2, Says
    <3>5. QED
      BY <3>3, <3>4
  <2>4. QED
    BY <2>2, <2>3
<1>5. QED
  BY <1>2, <1>3, <1>4, IdentityStays DEF IdentityInv

LEMMA IdentityPreserved == TypeInv /\ IdentityInv /\ [Next]_vars => IdentityInv'
<1> SUFFICES ASSUME TypeInv, IdentityInv, [Next]_vars PROVE IdentityInv'
  OBVIOUS
<1>1. CASE UNCHANGED vars
  BY <1>1 DEF vars, IdentityInv, Adopts, Busy, Created, Happened
<1>2. QED
  BY <1>1, IdentityStep DEF Next, DoorStep

LEMMA IdentityInit == Init => IdentityInv
<1> SUFFICES ASSUME Init PROVE IdentityInv
  OBVIOUS
<1>1. \A d \in Doors : ~Busy(d)
  BY DEF Init, Busy
<1>2. \A s \in Slugs : Created(s) <=> s = Home
  BY AtFirst, ConstantsAssumption DEF Created
<1>3. QED
  BY <1>1, <1>2, DirAtFirst DEF IdentityInv, Nothing, None, Adopts

-----------------------------------------------------------------------------
\* A door enters a bundle, and notes who else is in it.
Enters(d) ==
    /\ NoteCrossing(d, request'[d].slug)
    /\ \/ MoveCrate(d) /\ Advances(d, "moved")
       \/ FindMine(d, request'[d].slug) /\ request'[d].as = "mine"
             /\ request'[d].layout = "in-place" /\ request'[d].at = "moved"
       \/ /\ ClearPayload(d) /\ request'[d].slug = request[d].slug
          /\ request'[d].layout = LayoutOf(request[d].slug)
          /\ request'[d].at = "cleared" /\ request'[d].as = "upgrade"

LEMMA LandsBefore ==
    ASSUME TypeInv, NEW d \in Doors, DoorStep(d), NEW e \in Doors, Lands(e)'
    PROVE  \/ /\ Lands(e) /\ request'[e].slug = request[e].slug
              /\ request'[e].as = request[e].as /\ request'[e].intake = request[e].intake
              /\ request'[e].layout = request[e].layout
              /\ \/ e # d /\ request'[e].at = request[e].at
                 \/ e = d /\ Advances(d, request'[d].at) /\ request'[d].at # "moved"
           \/ e = d /\ Enters(d)
<1>1. CASE e # d
  BY <1>1, ShapePreserved DEF Lands, Busy
<1>2. CASE e = d
  <2>1. ASSUME NEW i \in Intakes, CopyCrate(d, i) PROVE FALSE
    BY <1>2, <2>1, CopyingIs, TakesUp DEF Lands, Landing
  <2>2. ASSUME NEW i \in Intakes, NEW as \in Disposition, NEW s \in Slugs \union {None},
               Rule(d, i, as, s)
        PROVE  FALSE
    BY <1>2, <2>2, RulingIs DEF Lands, Landing
  <2>3. ASSUME NEW s \in Slugs, FindMine(d, s) PROVE Enters(d)
    <3>1. PICK r \in Lawful : /\ request' = [request EXCEPT ![d] = r]
                              /\ r.as = "mine" /\ r.slug = s /\ r.layout = "in-place"
                              /\ r.at = "moved"
      BY <2>3, FindingIs
    <3>2. request'[d] = r
      BY <3>1, TakesUp
    <3>3. NoteCrossing(d, s)
      BY <2>3 DEF FindMine
    <3>4. QED
      BY <2>3, <3>1, <3>2, <3>3 DEF Enters
  <2>4. ASSUME ClearPayload(d) PROVE Enters(d)
    <3>1. PICK r \in Lawful : /\ request' = [request EXCEPT ![d] = r]
                              /\ r.at = "cleared" /\ r.as = "upgrade"
                              /\ r.slug = request[d].slug /\ r.layout = LayoutOf(r.slug)
      BY <2>4, ClearingIs
    <3>2. request'[d] = r
      BY <3>1, TakesUp
    <3>3. NoteCrossing(d, request[d].slug)
      BY <2>4 DEF ClearPayload
    <3>4. QED
      BY <2>4, <3>1, <3>2, <3>3 DEF Enters
  <2>5. ~Ends(d)
    BY <1>2, Ended DEF Lands
  <2>6. ASSUME NEW step \in Step, Advances(d, step), step # "moved"
        PROVE  /\ Lands(d) /\ request'[d].slug = request[d].slug
               /\ request'[d].as = request[d].as /\ request'[d].intake = request[d].intake
               /\ request'[d].layout = request[d].layout /\ request'[d].at = step
    <3>1. request'[d].at = step /\ Busy(d)
      BY <2>6, Advanced
    <3>2. step \in Landing
      BY <1>2, <3>1 DEF Lands
    <3>3. request[d].at \in Landing
      BY <2>6, <3>2 DEF Advances, WriteIdentity, WriteMarker, AppendCreated, AppendStage,
         CopyPayload, Landing
    <3>4. QED
      BY <2>6, <3>1, <3>3, Advanced DEF Lands
  <2>7. ASSUME Advances(d, "moved") PROVE Enters(d)
    <3>1. request'[d].slug = request[d].slug
      BY <2>7, Advanced
    <3>2. MoveCrate(d)
      BY <2>7 DEF Advances
    <3>3. NoteCrossing(d, request[d].slug)
      BY <3>2 DEF MoveCrate
    <3>4. QED
      BY <2>7, <3>1, <3>2, <3>3 DEF Enters
  <2>8. QED
    BY <1>2, <2>1, <2>2, <2>3, <2>4, <2>5, <2>6, <2>7, StepIs DEF Starts
<1>3. QED
  BY <1>1, <1>2

LEMMA CrossedGrows ==
    ASSUME NEW d \in Doors, DoorStep(d)
    PROVE  crossed \subseteq crossed'
BY DEF DoorStep, Receive, Mint, Upgrade, CopyCrate, AppendReceived, Rule, FindMine, MoveCrate,
   MoveFails, WriteIdentity, WriteMarker, AppendCreated, AppendStage, ClearPayload,
   CopyPayload, CopyFails, RecordVersion, AppendRouted, Crash, NoteCrossing

LEMMA CrossingsStep ==
    ASSUME TypeInv, CrossingsAreNoted, NEW d \in Doors, DoorStep(d)
    PROVE  CrossingsAreNoted'
<1> SUFFICES ASSUME NEW e \in Doors, NEW f \in Doors, Lands(e)', Lands(f)', e # f,
                    request'[e].slug = request'[f].slug
             PROVE  request'[e].slug \in crossed'
  BY DEF CrossingsAreNoted
<1>1. ASSUME NEW g \in Doors \ {d}, Lands(g)', Enters(d), request'[g].slug = request'[d].slug
      PROVE  request'[d].slug \in crossed'
  <2>1. Lands(g) /\ request[g].slug = request'[d].slug
    BY <1>1, LandsBefore
  <2>2. Crossing(d, request'[d].slug)
    BY <2>1 DEF Crossing, Lands
  <2>3. QED
    BY <1>1, <2>2 DEF Enters, NoteCrossing
<1>2. CASE Enters(d) /\ d \in {e, f}
  BY <1>1, <1>2
<1>3. CASE ~(Enters(d) /\ d \in {e, f})
  <2>1. /\ Lands(e) /\ Lands(f) /\ request'[e].slug = request[e].slug
        /\ request'[f].slug = request[f].slug
    BY <1>3, LandsBefore
  <2>2. QED
    BY <2>1, CrossedGrows DEF CrossingsAreNoted
<1>4. QED
  BY <1>2, <1>3

\* What one door does in a directory leaves alone the bundle another has to
\* itself.
LEMMA OthersWhole ==
    ASSUME TypeInv, CrossingsAreNoted, NEW d \in Doors, DoorStep(d),
           NEW e \in Doors, e # d, Lands(e), request[e].slug \notin crossed'
    PROVE  dir'[request[e].slug] = dir[request[e].slug]
<1> DEFINE s == request[e].slug
<1>1. s \in Slugs
  <2>1. request[e] \in Lawful /\ request[e].as \in Adopting \union {"upgrade"}
    BY AtLawful, LawfulIs DEF Lands, Landing
  <2>2. QED
    BY <2>1, LawfulIs
<1>2. SUFFICES ASSUME dir'[s] # dir[s] PROVE FALSE
  OBVIOUS
<1>3. s = request[d].slug
  BY <1>1, <1>2, DirStep
<1>4. s \notin crossed
  BY CrossedGrows
<1>5. ~Lands(d)
  BY <1>3, <1>4 DEF CrossingsAreNoted
<1>6. ~NoteCrossing(d, s)
  BY DEF NoteCrossing, Crossing, Lands
<1>7. ~(request[d].at \in Landing)
  BY <1>5, AtLawful DEF Lands, Step
<1>8. UNCHANGED dir \/ MoveCrate(d) \/ ClearPayload(d)
  BY <1>7 DEF DoorStep, Receive, Mint, Upgrade, CopyCrate, AppendReceived, Rule, FindMine,
     MoveFails, WriteIdentity, WriteMarker, AppendCreated, AppendStage, CopyPayload,
     CopyFails, RecordVersion, AppendRouted, Crash, Landing
<1>9. QED
  BY <1>2, <1>3, <1>6, <1>8 DEF MoveCrate, ClearPayload

LEMMA LandingsStep ==
    ASSUME TypeInv, CrossingsAreNoted, LandingsAreWhole, NEW d \in Doors, DoorStep(d)
    PROVE  LandingsAreWhole'
<1> SUFFICES ASSUME NEW e \in Doors, Lands(e)', request'[e].slug \notin crossed'
             PROVE  Holds(e)'
  BY DEF LandingsAreWhole
<1>1. dir \in [Slugs -> Directory]
  BY DEF TypeInv, TypeOK
<1>2. CASE Lands(e) /\ e # d
  <2>1. request'[e] = request[e]
    BY <1>2, ShapePreserved
  <2>2. dir'[request[e].slug] = dir[request[e].slug]
    BY <1>2, <2>1, OthersWhole
  <2>3. Holds(e)
    BY <1>2, <2>1, CrossedGrows DEF LandingsAreWhole
  <2>4. QED
    BY <2>1, <2>2, <2>3 DEF Holds, Covered
<1>3. CASE /\ e = d /\ Lands(d) /\ Advances(d, request'[d].at) /\ request'[d].at # "moved"
  <2> DEFINE s == request[d].slug
             i == request[d].intake
             layout == request[d].layout
             as == request[d].as
  <2>1. /\ request'[d].slug = s /\ request'[d].intake = i
        /\ request'[d].layout = layout /\ request'[d].as = as
        /\ request[d] \in Lawful
    BY <1>3, Advanced
  <2>2. Holds(d)
    BY <1>3, <2>1, CrossedGrows DEF LandingsAreWhole
  <2>3. CASE CopyPayload(d)
    <3>1. as = "upgrade" /\ request[d].at = "cleared" /\ request'[d].at = "landed"
      BY <1>3, <2>1, <2>3, AtLawful, LawfulIs DEF CopyPayload, Advances, MoveCrate,
         WriteIdentity, WriteMarker, AppendCreated, AppendStage, RecordVersion
    <3>2. Covered(s, layout) = {}
      BY <2>2, <3>1 DEF Holds, Minting
    <3>3. PICK new \in Directory :
            /\ dir' = [dir EXCEPT ![s] = new] /\ s \in Slugs
            /\ new.root = dir[s].root \union
                  (IF layout = "in-place" THEN {Payload[i]} ELSE {})
            /\ new.output = dir[s].output \union
                  (IF layout = "in-place" THEN {} ELSE {Payload[i]})
      BY <2>3, Copying
    <3>4. dir'[s] = new
      BY <1>1, <3>3
    <3>5. Covered(s, layout)' = {Payload[i]}
      <4>1. CASE layout = "in-place"
        <5>1. dir[s].root = {} /\ dir[s].output = {}
          BY <3>2, <4>1 DEF Covered
        <5>2. QED
          BY <2>1, <3>3, <3>4, <4>1, <5>1 DEF Covered
      <4>2. CASE layout # "in-place"
        BY <2>1, <3>2, <3>3, <3>4, <4>2 DEF Covered
      <4>3. QED
        BY <4>1, <4>2
    <3>6. QED
      BY <1>3, <2>1, <3>1, <3>5 DEF Holds, Minting
  <2>4. CASE ~CopyPayload(d)
    <3>1. as \in Adopting
      <4>1. request[d].at \in {"moved", "identified", "marked", "created"}
        BY <1>3, <2>4 DEF Lands, Advances, WriteIdentity, WriteMarker, AppendCreated,
           AppendStage, RecordVersion, Landing
      <4>2. QED
        BY <2>1, <4>1, LawfulIs
    <3>2. dir'[s].root = dir[s].root /\ dir'[s].output = dir[s].output
      <4>1. CASE WriteIdentity(d) \/ WriteMarker(d)
        BY <1>1, <4>1, Marking
      <4>2. CASE UNCHANGED dir
        BY <4>2
      <4>3. QED
        BY <1>3, <2>4, <4>1, <4>2 DEF Advances, AppendCreated, AppendStage, RecordVersion
    <3>3. Covered(s, layout)' = Covered(s, layout)
      BY <2>1, <3>2 DEF Covered
    <3>4. request[d].at # "cleared" /\ request'[d].at # "cleared"
      <4>1. request'[d] \in Lawful
        BY <1>3, Advanced
      <4>2. QED
        BY <2>1, <3>1, <4>1, LawfulIs DEF Adopting, Minting
    <3>5. QED
      BY <1>3, <2>1, <2>2, <3>3, <3>4 DEF Holds
  <2>5. QED
    BY <2>3, <2>4
<1>4. CASE e = d /\ Enters(d)
  <2>1. CASE MoveCrate(d) /\ Advances(d, "moved")
    <3> DEFINE s == request[d].slug
               i == request[d].intake
    <3>1. /\ request'[d].slug = s /\ request'[d].intake = i
          /\ request'[d].layout = request[d].layout /\ request'[d].as = request[d].as
          /\ request[d] \in Lawful
      BY <2>1, Advanced
    <3>2. PICK new \in Directory :
            /\ dir' = [dir EXCEPT ![s] = new] /\ s \in Slugs /\ request[d].as \in Minting
            /\ new.root = {Payload[i]} /\ new.output = {}
      BY <2>1, Moving
    <3>3. dir'[s] = new /\ request[d].layout = "in-place"
      BY <1>1, <3>1, <3>2, LawfulIs DEF Adopting
    <3>4. Covered(s, "in-place")' = {Payload[i]}
      BY <3>1, <3>2, <3>3 DEF Covered
    <3>5. request'[d].at = "moved" /\ request'[d].as # "mine"
      BY <2>1, <3>1, <3>2, Advanced DEF Minting
    <3>6. QED
      BY <1>4, <3>1, <3>3, <3>4, <3>5 DEF Holds
  <2>2. CASE /\ FindMine(d, request'[d].slug) /\ request'[d].as = "mine"
             /\ request'[d].layout = "in-place" /\ request'[d].at = "moved"
    <3>1. dir' = dir /\ dir[request'[d].slug].root # {}
      BY <2>2 DEF FindMine
    <3>2. (dir[request[d].slug].root \union dir[request[d].slug].output)' # {}
      BY <3>1
    <3>3. Covered(request[d].slug, "in-place")' # {}
      BY <3>2 DEF Covered
    <3>4. QED
      BY <1>4, <2>2, <3>3 DEF Holds
  <2>3. CASE /\ ClearPayload(d) /\ request'[d].slug = request[d].slug
             /\ request'[d].layout = LayoutOf(request[d].slug)
             /\ request'[d].at = "cleared" /\ request'[d].as = "upgrade"
    <3> DEFINE s == request[d].slug
    <3>1. PICK new \in Directory :
            /\ dir' = [dir EXCEPT ![s] = new] /\ s \in Slugs
            /\ new.output = {} /\ (dir[s].marker => new.root = {})
      BY <2>3, Clearing
    <3>2. dir'[s] = new
      BY <1>1, <3>1
    <3>3. QED
      BY <1>4, <2>3, <3>1, <3>2 DEF Holds, Covered, LayoutOf, Minting
  <2>4. QED
    BY <1>4, <2>1, <2>2, <2>3 DEF Enters
<1>5. QED
  BY <1>2, <1>3, <1>4, LandsBefore

-----------------------------------------------------------------------------
\* What the door that records a version of a bundle it has to itself finds there.
LEMMA Recording ==
    ASSUME TypeInv, LandingsAreWhole, NEW d \in Doors, RecordVersion(d)
    PROVE  LET s == request[d].slug
               files == Covered(s, request[d].layout)
           IN  /\ request[d] \in Lawful /\ Lands(d) /\ s \in Slugs
               /\ request[d].as \in Minting \union {"mine", "upgrade"}
               /\ s \notin crossed => files # {}
               /\ s \notin crossed /\ request[d].as # "mine" =>
                     files = {Payload[request[d].intake]}
               /\ \A t, f : t = s /\ f = files => Recorded(t, f)'
               /\ journal' # journal =>
                     /\ [type |-> "version", bundle |-> s, holds |-> files] \in Event
                     /\ journal' = Append(journal, [type |-> "version", bundle |-> s,
                                                    holds |-> files])
<1> DEFINE s == request[d].slug
           files == Covered(s, request[d].layout)
           e == [type |-> "version", bundle |-> s, holds |-> files]
<1>1. /\ request[d] \in Lawful /\ Lands(d) /\ request[d].at # "cleared"
      /\ request[d].as \in Minting \union {"mine", "upgrade"}
  BY AtLawful, LawfulIs DEF RecordVersion, Lands, Step, Landing, Adopting
<1>2. s \in Slugs
  BY <1>1, LawfulIs DEF Adopting
<1>3. files \in SUBSET Payloads
  BY <1>2 DEF Covered, Directory, TypeInv, TypeOK
<1>4. e \in Event
  BY <1>2, <1>3 DEF Event
<1>5. /\ s \notin crossed => files # {}
      /\ s \notin crossed /\ request[d].as # "mine" =>
            files = {Payload[request[d].intake]}
  BY <1>1 DEF LandingsAreWhole, Holds
<1>6. IF Recorded(s, files) THEN UNCHANGED journal ELSE journal' = Append(journal, e)
  BY DEF RecordVersion, Append1
<1>7. ASSUME NEW t, NEW f, t = s, f = files
      PROVE  Recorded(t, f)'
  <2>1. CASE Recorded(t, f) /\ UNCHANGED journal
    BY <2>1 DEF Recorded, Versions, Happened
  <2>2. CASE journal' = Append(journal, e)
    <3>1. journal \in Seq(Event) /\ e.type = "version" /\ e.bundle = t /\ e.holds = f
      BY <1>7 DEF TypeInv, TypeOK
    <3> HIDE DEF e
    <3>2. QED
      BY <1>4, <2>2, <3>1, Says
  <2>3. QED
    BY <1>6, <1>7, <2>1, <2>2
<1>8. QED
  BY <1>1, <1>2, <1>4, <1>5, <1>6, <1>7

\* How a request has come to be about to be routed.
LEMMA WorksBefore ==
    ASSUME TypeInv, NEW d \in Doors, DoorStep(d), NEW e \in Doors, Routes(e)',
           request'[e].at = "recorded" \/ request'[e].as = "return"
    PROVE  LET i == request'[e].intake
               s == request'[e].slug
           IN  \/ /\ Routes(e) /\ request[e].intake = i /\ request[e].slug = s
                  /\ \/ request[e].at = "recorded" \/ request[e].as = "return"
                     \/ e = d /\ RecordVersion(d) /\ request[d].as # "mine"
               \/ e = d /\ Rule(d, i, "return", s) /\ i \in Intakes
<1>1. CASE e # d
  BY <1>1, ShapePreserved DEF Routes, Busy
<1>2. CASE e = d
  <2>1. ASSUME NEW i \in Intakes, CopyCrate(d, i) PROVE FALSE
    BY <1>2, <2>1, CopyingIs, TakesUp DEF Routes, Disposition, Minting
  <2>2. ASSUME NEW i \in Intakes, NEW as \in Disposition, NEW s \in Slugs \union {None},
               Rule(d, i, as, s)
        PROVE  /\ as = "return" /\ request'[d].intake = i /\ request'[d].slug = s
    <3>1. /\ request'[d].at = "ruled" /\ request'[d].as = as
          /\ request'[d].intake = i /\ request'[d].slug = s
      BY <2>2, RulingIs
    <3>2. QED
      BY <1>2, <3>1
  <2>3. ASSUME NEW s \in Slugs, FindMine(d, s) PROVE FALSE
    BY <1>2, <2>3, FindingIs, TakesUp DEF Routes, Disposition, Minting
  <2>4. ~ClearPayload(d)
    <3>1. SUFFICES ASSUME ClearPayload(d) PROVE FALSE
      OBVIOUS
    <3>2. request'[d].as = "upgrade" /\ request'[d].at = "cleared"
      BY <3>1, ClearingIs, TakesUp
    <3>3. QED
      BY <1>2, <3>2
  <2>5. ~Ends(d)
    BY <1>2, Ended DEF Routes
  <2>6. ASSUME NEW step \in Step, Advances(d, step)
        PROVE  /\ Routes(d) /\ request'[d].intake = request[d].intake
               /\ request'[d].slug = request[d].slug
               /\ request[d].as = "return" \/ (RecordVersion(d) /\ request[d].as # "mine")
    <3>1. /\ request'[d].at = step /\ request'[d].as = request[d].as
          /\ request'[d].intake = request[d].intake /\ request'[d].slug = request[d].slug
          /\ Busy(d)
      BY <2>6, Advanced
    <3>2. Routes(d)
      BY <1>2, <3>1 DEF Routes
    <3>3. CASE request'[d].as = "return"
      BY <3>1, <3>2, <3>3
    <3>4. CASE request'[d].at = "recorded"
      BY <2>6, <3>1, <3>2, <3>4 DEF Advances, EndsUnrouted
    <3>5. QED
      BY <1>2, <3>3, <3>4
  <2>7. QED
    BY <1>2, <2>1, <2>2, <2>3, <2>4, <2>5, <2>6, StepIs DEF Starts
<1>3. QED
  BY <1>1, <1>2

LEMMA WorkStep ==
    ASSUME TypeInv, LandingsAreWhole, WorkIsRecorded, EmptyIsCrossed,
           NEW d \in Doors, DoorStep(d)
    PROVE  WorkIsRecorded'
<1> SUFFICES ASSUME NEW e \in Doors, NEW i \in Intakes, NEW s \in Slugs, Routes(e)',
                    request'[e].intake = i, request'[e].slug = s,
                    request'[e].at = "recorded" \/ request'[e].as = "return"
             PROVE  Recorded(s, {Payload[i]})' \/ s \in crossed'
  BY DEF WorkIsRecorded
<1>1. CASE /\ Routes(e) /\ request[e].intake = i /\ request[e].slug = s
           /\ request[e].at = "recorded" \/ request[e].as = "return"
  <2>1. Recorded(s, {Payload[i]}) \/ s \in crossed
    BY <1>1 DEF WorkIsRecorded
  <2>2. QED
    BY <2>1, SaidStays, CrossedGrows
<1>2. CASE /\ request[d].intake = i /\ request[d].slug = s
           /\ RecordVersion(d) /\ request[d].as # "mine"
  <2>1. CASE s \notin crossed
    <3>1. Covered(request[d].slug, request[d].layout) = {Payload[i]}
      BY <1>2, <2>1, Recording
    <3>2. QED
      BY <1>2, <3>1, Recording
  <2>2. QED
    BY <2>1, CrossedGrows
<1>3. CASE Rule(d, i, "return", s)
  <2>1. Recorded(s, CrateFiles(i))
    BY <1>3 DEF Rule, Admissible, Minting
  <2>2. CASE CrateFiles(i) = {Payload[i]}
    BY <2>1, <2>2, SaidStays
  <2>3. CASE CrateFiles(i) = {}
    <3>1. s \in crossed
      BY <2>1, <2>3 DEF Recorded, Versions, EmptyIsCrossed
    <3>2. QED
      BY <3>1, CrossedGrows
  <2>4. QED
    BY <2>2, <2>3 DEF CrateFiles
<1>4. QED
  BY <1>1, <1>2, <1>3, WorksBefore

LEMMA EmptyStep ==
    ASSUME TypeInv, LandingsAreWhole, EmptyIsCrossed, NEW d \in Doors, DoorStep(d)
    PROVE  EmptyIsCrossed'
<1> SUFFICES ASSUME NEW n \in Happened("version")', journal'[n].holds = {}
             PROVE  journal'[n].bundle \in crossed'
  BY DEF EmptyIsCrossed
<1>1. journal \in Seq(Event)
  BY DEF TypeInv, TypeOK
<1>2. CASE n \in 1..Len(journal)
  <2>1. journal'[n] = journal[n]
    BY <1>2, SaidStays
  <2>2. n \in Happened("version")
    BY <1>2, <2>1 DEF Happened
  <2>3. QED
    BY <2>1, <2>2, CrossedGrows DEF EmptyIsCrossed
<1>3. CASE n \notin 1..Len(journal)
  <2>1. PICK e \in Event : journal' = Append(journal, e)
    BY <1>3, JournalStep DEF Happened
  <2>2. n = Len(journal) + 1 /\ journal'[n] = e /\ e.type = "version" /\ journal' # journal
    BY <1>1, <1>3, <2>1, Grows DEF Happened
  <2>3. RecordVersion(d)
    BY <1>1, <2>1, <2>2 DEF DoorStep, Receive, Mint, Upgrade, CopyCrate, Rule, FindMine,
       MoveCrate, MoveFails, WriteIdentity, WriteMarker, AppendReceived, AppendCreated,
       AppendStage, ClearPayload, CopyPayload, CopyFails, AppendRouted, Crash, Append1
  <2>4. /\ e.bundle = request[d].slug
        /\ e.holds = Covered(request[d].slug, request[d].layout)
    <3> DEFINE rec == [type |-> "version", bundle |-> request[d].slug,
                       holds |-> Covered(request[d].slug, request[d].layout)]
    <3>1. rec \in Event /\ journal' = Append(journal, rec)
      BY <2>2, <2>3, Recording
    <3>2. journal'[n] = rec
      BY <1>1, <2>2, <3>1, Grows
    <3>3. QED
      BY <2>2, <3>2
  <2>5. e.bundle \in crossed
    BY <2>2, <2>3, <2>4, Recording
  <2>6. QED
    BY <2>2, <2>5, CrossedGrows
<1>4. QED
  BY <1>2, <1>3

LEMMA EarnedStep ==
    ASSUME TypeInv, DockInv, IdentityInv, WorkIsRecorded, DispositionsAreEarned,
           NEW d \in Doors, DoorStep(d)
    PROVE  DispositionsAreEarned'
<1> SUFFICES ASSUME NEW n \in Happened("routed")'
             PROVE  Earned(n)'
  BY DEF DispositionsAreEarned
<1>1. journal \in Seq(Event) /\ Len(journal) \in Nat
  BY DEF TypeInv, TypeOK
<1>2. \A m \in 1..Len(journal) : m \in 1..Len(journal') /\ journal'[m] = journal[m]
  BY <1>1, SaidStays
<1>3. \A type : \A m \in Happened(type) :
         m \in Happened(type)' /\ m \in 1..Len(journal) /\ journal'[m] = journal[m]
  BY <1>2 DEF Happened
<1>4. CASE n \in 1..Len(journal)
  <2>1. n \in Happened("routed") /\ journal'[n] = journal[n]
    BY <1>2, <1>4 DEF Happened
  <2>2. Earned(n)
    BY <2>1 DEF DispositionsAreEarned
  <2>3. QED
    BY <1>3, <2>1, <2>2, CrossedGrows DEF Earned, Versions
<1>5. CASE n \notin 1..Len(journal)
  <2>1. PICK e \in Event : journal' = Append(journal, e)
    BY <1>5, JournalStep DEF Happened
  <2>2. n = Len(journal) + 1 /\ journal'[n] = e /\ e.type = "routed" /\ journal' # journal
    BY <1>1, <1>5, <2>1, Grows DEF Happened
  <2>3. AppendRouted(d)
    BY <1>1, <2>1, <2>2 DEF DoorStep, Receive, Mint, Upgrade, CopyCrate, Rule, FindMine,
       MoveCrate, MoveFails, WriteIdentity, WriteMarker, AppendReceived, AppendCreated,
       AppendStage, ClearPayload, CopyPayload, CopyFails, RecordVersion, Crash, Append1
  <2>4. /\ e.intake = request[d].intake /\ e.as = request[d].as
        /\ e.bundle = request[d].slug
    BY <1>1, <2>2, <2>3 DEF AppendRouted, Append1
  <2>5. request[d] \in Lawful /\ Routes(d) /\ e.intake \in Intakes
    BY <2>3, <2>4, AtLawful, LawfulIs DEF AppendRouted, WorkDone, Routes, Step, Disposition
  <2>6. \E m \in Happened("received")' : m < n /\ journal'[m].intake = e.intake
    <3>1. Received(e.intake)
      BY <2>4, <2>5 DEF DockInv, RulingsAreFirst
    <3>2. QED
      BY <1>1, <1>3, <2>2, <3>1 DEF Received
  <2>7. ASSUME e.as # "salvage"
        PROVE  \/ \E m \in Versions(e.bundle)' :
                     m < n /\ journal'[m].holds = {Payload[e.intake]}
               \/ e.bundle \in crossed'
    <3>1. e.bundle \in Slugs /\ (request[d].at = "recorded" \/ request[d].as = "return")
      BY <2>3, <2>4, <2>5, <2>7, LawfulIs DEF AppendRouted, WorkDone, Adopting, Minting
    <3>2. Recorded(e.bundle, {Payload[e.intake]}) \/ e.bundle \in crossed
      BY <2>4, <2>5, <3>1 DEF WorkIsRecorded
    <3>3. QED
      BY <1>1, <1>3, <2>2, <3>2, CrossedGrows DEF Recorded, Versions
  <2>8. ASSUME e.as \in Minting
        PROVE  \E m \in Happened("created")' : m < n /\ journal'[m].bundle = e.bundle
    <3>1. Adopts(d) /\ request[d].at = "recorded" /\ e.bundle \in Slugs
      BY <2>3, <2>4, <2>5, <2>8, LawfulIs DEF AppendRouted, WorkDone, Adopts, Adopting,
         Minting, Routes
    <3>2. Created(e.bundle)
      BY <2>4, <3>1 DEF IdentityInv
    <3>3. QED
      BY <1>1, <1>3, <2>2, <3>2 DEF Created
  <2>9. QED
    BY <2>2, <2>6, <2>7, <2>8 DEF Earned, Versions
<1>6. QED
  BY <1>4, <1>5

LEMMA FilesPreserved ==
    TypeInv /\ DockInv /\ IdentityInv /\ FilesInv /\ [Next]_vars => FilesInv'
<1> SUFFICES ASSUME TypeInv, DockInv, IdentityInv, FilesInv, [Next]_vars
             PROVE  FilesInv'
  OBVIOUS
<1>1. CASE UNCHANGED vars
  <2> USE <1>1 DEF vars, FilesInv
  <2>1. CrossingsAreNoted'
    BY DEF CrossingsAreNoted, Lands, Busy
  <2>2. LandingsAreWhole'
    BY DEF LandingsAreWhole, Holds, Covered, Lands, Busy
  <2>3. WorkIsRecorded'
    BY DEF WorkIsRecorded, Routes, Busy, Recorded, Versions, Happened
  <2>4. EmptyIsCrossed'
    BY DEF EmptyIsCrossed, Happened
  <2>5. DispositionsAreEarned'
    <3>1. \A type : Happened(type)' = Happened(type)
      BY DEF Happened
    <3>2. \A s : Versions(s)' = Versions(s)
      BY <3>1 DEF Versions
    <3>3. ASSUME NEW n \in Happened("routed") PROVE Earned(n)'
      <4>1. Earned(n)
        BY DEF DispositionsAreEarned
      <4>2. QED
        BY <3>1, <3>2, <4>1 DEF Earned
    <3>4. QED
      BY <3>1, <3>3 DEF DispositionsAreEarned
  <2>6. QED
    BY <2>1, <2>2, <2>3, <2>4, <2>5
<1>2. ASSUME NEW d \in Doors, DoorStep(d) PROVE FilesInv'
  BY <1>2, CrossingsStep, LandingsStep, WorkStep, EmptyStep, EarnedStep DEF FilesInv
<1>3. QED
  BY <1>1, <1>2 DEF Next, DoorStep

LEMMA FilesInit == Init => FilesInv
<1> SUFFICES ASSUME Init PROVE FilesInv
  OBVIOUS
<1>1. \A d \in Doors : ~Busy(d)
  BY DEF Init, Busy
<1>2. EmptyIsCrossed /\ DispositionsAreEarned
  BY AtFirst DEF EmptyIsCrossed, DispositionsAreEarned
<1>3. QED
  BY <1>1, <1>2 DEF FilesInv, CrossingsAreNoted, LandingsAreWhole, WorkIsRecorded, Lands,
     Routes

LEMMA YardHolds == Spec => []YardInv
<1>1. Init => YardInv
  BY TypeInit, DockInit, IdentityInit, FilesInit DEF YardInv
<1>2. YardInv /\ [Next]_vars => YardInv'
  BY TypePreserved, DockPreserved, IdentityPreserved, FilesPreserved DEF YardInv
<1>3. QED
  BY <1>1, <1>2, PTL DEF Spec

\* What the doors leave is whole: a routing is written after the work it stands
\* for, and a bundle the journal calls created is still one, whatever dies on
\* the way -- but where two requests have landed in a bundle at once, and but
\* for the skill.json of a bundle that was adopted in place.
THEOREM BundlesWhole == Spec => []RoutedBundlesAreWhole
<1>1. YardInv => RoutedBundlesAreWhole
  <2> SUFFICES ASSUME YardInv PROVE RoutedBundlesAreWhole
    OBVIOUS
  <2>1. IdentitySurvives
    BY DEF YardInv, IdentityInv, IdentitySurvives
  <2>2. QED
    BY <2>1 DEF YardInv, FilesInv, RoutedBundlesAreWhole
<1>2. QED
  BY <1>1, YardHolds, PTL
=============================================================================
