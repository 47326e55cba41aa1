------------------------ MODULE ProjectServerProofs ------------------------
(***************************************************************************)
(* Proofs about ProjectServer, for any servers, tools and projects: its    *)
(* type invariant, that the claim finds the server, and that a project in  *)
(* use is still the one in use. And about the index behind the server's    *)
(* screens, StudioIndex, for any requests and processes: its type          *)
(* invariant, and that what it tells is current.                           *)
(***************************************************************************)
EXTENDS ProjectServer, StudioIndex, Sequences, TLAPS

\* Servers that have found no server before them, and have not ended.
Up == {s \in Servers : server[s] \in {"warming", "starting", "serving"}}

\* What a claim names is serving or has ended; servers that are up are up one
\* at a time, the one that serves under the claim, or all have raced.
ClaimInv ==
    /\ claim \in Servers => server[claim] \in {"serving", "gone"}
    /\ raced = {} => (\A s, t \in Up : s = t) /\ (\A s \in Serving : claim = s)
    /\ raced # {} => Up \subseteq raced

\* A server's view is a set of projects, under the slugs these have together.
View(s) == {p \in Paths : live[s][p].kind # "none"}

ViewInv ==
    \A s \in Servers, p \in Paths :
        /\ live[s][p].slug = IF p \in View(s) THEN Slug(View(s), p) ELSE None
        /\ live[s][p].run => live[s][p].kind = "ok"

\* A listed project that is not excused has stayed registered and in view.
PageInv ==
    \A s \in Servers, p \in Paths :
        /\ page[s][p] \in {None, Base[p], p}
        /\ page[s][p] # None /\ p \notin excused[s] => p \in registered /\ p \in View(s)

\* A change of config.json is about the project it was asked for, or it was
\* asked with the link of a project that is excused.
EditInv ==
    \A e \in Servers \union Tools : edit[e] # None =>
        /\ e \in Servers => server[e] = "serving"
        /\ edit[e].asked = edit[e].path \/ (e \in Servers /\ DeadLink(e))

\* A project with a dispatcher is registered and has its config file, or left.
LeftInv ==
    /\ \A s \in Servers, p \in Paths :
          live[s][p].kind = "ok" /\ (p \notin registered \/ dir[p] = "bare") => <<s, p>> \in left
    /\ forgotten \subseteq left

\* A server that is closing has nothing left.
ClosedInv ==
    \A s \in Servers : server[s] = "closing" => View(s) = {} /\ s \notin raced

IInv == TypeOK /\ ClaimInv /\ ClosedInv /\ ViewInv /\ PageInv /\ EditInv /\ LeftInv

-----------------------------------------------------------------------------
\* A project's slug is its base or stands for its path, and is one of the two.
LEMMA SlugIsOwn ==
    ASSUME NEW reg \in SUBSET Paths, NEW p \in Paths
    PROVE  /\ Slug(reg, p) \in {Base[p], p} /\ Slug(reg, p) \in Slugs
           /\ Slug(reg, p) # None
BY NoneIsNothing DEF Slug, Slugs

\* Among projects no two have one slug.
LEMMA SlugsDiffer ==
    ASSUME NEW reg \in SUBSET Paths, NEW p \in reg, NEW q \in Paths,
           NEW name \in {Base[p], p}, Slug(reg, q) = name, q \in reg
    PROVE  q = p
BY ConstantsAssumption DEF Slug

\* What is loaded is broken, or healthy and watched.
LEMMA Loaded ==
    ASSUME TypeOK, NEW reg \in SUBSET Paths, NEW p \in Paths
    PROVE  /\ Load(reg, p) \in Entry
           /\ Load(reg, p).kind \in {"ok", "broken"}
           /\ Load(reg, p).kind = "ok" => dir[p] # "bare"
           /\ Load(reg, p).kind = "ok" <=> Load(reg, p).watch # "none"
           /\ Load(reg, p).slug = Slug(reg, p)
           /\ ~Load(reg, p).run
<1>1. Slug(reg, p) \in Slugs
  BY SlugIsOwn
<1>2. Attach(p) \in {"dir", "root"}
  BY DEF Attach
<1>3. CASE dir[p] = "ok"
  <2> HIDE DEF Slug, Attach
  <2>1. Load(reg, p) = [kind |-> "ok", slug |-> Slug(reg, p), watch |-> Attach(p),
                        event |-> FALSE, timer |-> FALSE, run |-> FALSE]
    BY <1>3 DEF Load, NoEntry
  <2>2. QED
    BY <1>1, <1>2, <1>3, <2>1 DEF Entry
<1>4. CASE dir[p] # "ok"
  <2>1. Load(reg, p) = [kind |-> "broken", slug |-> Slug(reg, p), watch |-> "none",
                        event |-> FALSE, timer |-> FALSE, run |-> FALSE]
    BY <1>4 DEF Load, NoEntry, WatchBroken
  <2>2. QED
    BY <1>1, <1>4, <2>1 DEF Entry
<1>5. QED
  BY <1>3, <1>4

\* A healthy project takes its new slug and keeps the rest.
LEMMA Renamed ==
    ASSUME NEW e \in Entry, NEW name \in Slugs
    PROVE  /\ [e EXCEPT !.slug = name] \in Entry
           /\ [e EXCEPT !.slug = name].slug = name
           /\ [e EXCEPT !.slug = name].kind = e.kind
           /\ [e EXCEPT !.slug = name].watch = e.watch
           /\ [e EXCEPT !.slug = name].run = e.run
BY DEF Entry

\* Where a server holds nothing there is nothing.
LEMMA Nothing ==
    /\ NoEntry \in Entry /\ NoEntry.kind = "none" /\ NoEntry.slug = None
    /\ NoEntry.watch = "none" /\ ~NoEntry.run /\ ~NoEntry.event /\ ~NoEntry.timer
BY DEF NoEntry, Entry

\* After a refresh a server has in view what was registered, as it is there.
LEMMA Refreshed ==
    ASSUME TypeOK, NEW s \in Servers, NEW reg \in SUBSET Paths, RefreshFrom(s, reg)
    PROVE  /\ live' \in [Servers -> [Paths -> Entry]]
           /\ \A t \in Servers \ {s} : live'[t] = live[t]
           /\ \A p \in Paths :
                 /\ live'[s][p].kind # "none" <=> p \in reg
                 /\ live'[s][p].slug = IF p \in reg THEN Slug(reg, p) ELSE None
                 /\ live'[s][p].kind = "ok" <=> live'[s][p].watch # "none"
                 /\ live'[s][p].kind = "ok" => p \in reg /\ dir[p] # "bare"
                 /\ live'[s][p].run => live'[s][p].kind = "ok"
                 /\ Keeps(s, reg, p) => live'[s][p].kind = "ok"
<1> DEFINE after(p) ==
       IF p \notin reg THEN NoEntry
       ELSE IF Keeps(s, reg, p) THEN [live[s][p] EXCEPT !.slug = Slug(reg, p)]
       ELSE Load(reg, p)
<1>1. live' = [live EXCEPT ![s] = [p \in Paths |-> after(p)]]
  BY DEF RefreshFrom
<1>2. ASSUME NEW p \in Paths
      PROVE  /\ after(p) \in Entry
             /\ after(p).kind # "none" <=> p \in reg
             /\ after(p).slug = IF p \in reg THEN Slug(reg, p) ELSE None
             /\ after(p).kind = "ok" <=> after(p).watch # "none"
             /\ after(p).kind = "ok" => p \in reg /\ dir[p] # "bare"
             /\ after(p).run => after(p).kind = "ok"
             /\ Keeps(s, reg, p) => after(p).kind = "ok"
  <2>1. /\ live[s][p] \in Entry
        /\ live[s][p].kind = "ok" <=> live[s][p].watch # "none"
    BY DEF TypeOK
  <2>2. Slug(reg, p) \in Slugs
    BY SlugIsOwn
  <2>3. CASE p \notin reg
    BY <2>3, Nothing DEF Keeps
  <2>4. CASE Keeps(s, reg, p)
    <3>1. p \in reg /\ live[s][p].kind = "ok" /\ dir[p] # "bare"
      BY <2>4 DEF Keeps
    <3>2. after(p) = [live[s][p] EXCEPT !.slug = Slug(reg, p)]
      BY <2>4, <3>1
    <3> HIDE DEF after
    <3>3. QED
      BY <2>1, <2>2, <2>4, <3>1, <3>2, Renamed
  <2>5. CASE p \in reg /\ ~Keeps(s, reg, p)
    <3>1. after(p) = Load(reg, p)
      BY <2>5
    <3> HIDE DEF after
    <3>2. QED
      BY <2>5, <3>1, Loaded
  <2>6. QED
    BY <2>3, <2>4, <2>5
<1> HIDE DEF after
<1>3. /\ \A t \in Servers \ {s} : live'[t] = live[t]
      /\ \A p \in Paths : live'[s][p] = after(p)
      /\ live' \in [Servers -> [Paths -> Entry]]
  BY <1>1, <1>2 DEF TypeOK
<1>4. QED
  BY <1>2, <1>3

\* What a refresh leaves active in a dispatcher that is gone was there until
\* then; and it owes nothing to a project it does not keep.
LEMMA RefreshForgets ==
    ASSUME TypeOK, NEW s \in Servers, NEW reg \in SUBSET Paths, RefreshFrom(s, reg)
    PROVE  /\ forgotten' \subseteq Servers \X Paths
           /\ \A o \in forgotten' \ forgotten :
                 \E p \in Paths : o = <<s, p>> /\ live[s][p].run /\ ~Keeps(s, reg, p)
           /\ owed' \subseteq {o \in Servers \X Paths : live'[o[1]][o[2]].kind = "ok"}
<1>1. \A o \in forgotten' \ forgotten :
         \E p \in Paths : o = <<s, p>> /\ live[s][p].run /\ ~Keeps(s, reg, p)
  BY DEF RefreshFrom
<1>2. forgotten' \subseteq Servers \X Paths
  BY <1>1 DEF TypeOK
<1>3. ASSUME NEW o \in owed'
      PROVE  o \in Servers \X Paths /\ live'[o[1]][o[2]].kind = "ok"
  <2>1. o \in owed /\ (o[1] = s => Keeps(s, reg, o[2]))
    BY <1>3 DEF RefreshFrom
  <2>2. /\ o \in Servers \X Paths /\ o[1] \in Servers /\ o[2] \in Paths
        /\ live[o[1]][o[2]].kind = "ok"
    BY <2>1 DEF TypeOK
  <2>3. CASE o[1] = s
    BY <2>1, <2>2, <2>3, Refreshed
  <2>4. CASE o[1] # s
    BY <2>2, <2>4, Refreshed
  <2>5. QED
    BY <2>2, <2>3, <2>4
<1>4. QED
  BY <1>1, <1>2, <1>3

\* A server that ends takes what is its own with it, and nothing else.
LEMMA Ended ==
    ASSUME TypeOK, NEW s \in Servers, Ends(s)
    PROVE  /\ live' \in [Servers -> [Paths -> Entry]]
           /\ \A t \in Servers \ {s} : live'[t] = live[t] /\ page'[t] = page[t]
                                       /\ excused'[t] = excused[t]
           /\ \A p \in Paths : live'[s][p] = NoEntry /\ page'[s][p] = None
           /\ edit' \in [Servers \union Tools -> Edit \union {None}]
           /\ edit'[s] = None
           /\ \A e \in (Servers \union Tools) \ {s} : edit'[e] = edit[e]
           /\ page' \in [Servers -> [Paths -> Slugs \union {None}]]
           /\ excused' \in [Servers -> SUBSET Paths]
           /\ raced' = raced \ {s}
           /\ forgotten' = {o \in forgotten : o[1] # s}
           /\ left' = {o \in left : o[1] # s}
           /\ owed' \subseteq {o \in Servers \X Paths : live'[o[1]][o[2]].kind = "ok"}
<1>1. /\ [p \in Paths |-> NoEntry] \in [Paths -> Entry]
      /\ [p \in Paths |-> None] \in [Paths -> Slugs \union {None}]
  BY Nothing
<1>2. /\ live' \in [Servers -> [Paths -> Entry]]
      /\ \A t \in Servers \ {s} : live'[t] = live[t]
      /\ \A p \in Paths : live'[s][p] = NoEntry
  BY <1>1 DEF Ends, TypeOK
<1>3. /\ page' \in [Servers -> [Paths -> Slugs \union {None}]]
      /\ \A t \in Servers \ {s} : page'[t] = page[t]
      /\ \A p \in Paths : page'[s][p] = None
  BY <1>1 DEF Ends, TypeOK
<1>4. /\ excused' \in [Servers -> SUBSET Paths]
      /\ \A t \in Servers \ {s} : excused'[t] = excused[t]
  BY DEF Ends, TypeOK
<1>5. /\ edit' \in [Servers \union Tools -> Edit \union {None}]
      /\ edit'[s] = None
      /\ \A e \in (Servers \union Tools) \ {s} : edit'[e] = edit[e]
  BY DEF Ends, TypeOK
<1>6. ASSUME NEW o \in owed'
      PROVE  o \in Servers \X Paths /\ live'[o[1]][o[2]].kind = "ok"
  <2>1. o \in owed /\ o[1] # s
    BY <1>6 DEF Ends
  <2>2. o \in Servers \X Paths /\ o[1] \in Servers /\ live[o[1]][o[2]].kind = "ok"
    BY <2>1 DEF TypeOK
  <2>3. QED
    BY <1>2, <2>1, <2>2
<1>7. QED
  BY <1>2, <1>3, <1>4, <1>5, <1>6 DEF Ends

-----------------------------------------------------------------------------
\* Who is up, and what the claim says of it.
LEMMA ClassifyClaims ==
    ASSUME TypeOK, ClaimInv, NEW s \in Servers, Classify(s)
    PROVE  ClaimInv'
<1>1. CASE Held(claim) /\ server' = [server EXCEPT ![s] = "gone"] /\ UNCHANGED raced
  <2>1. \A t \in Servers : server'[t] = IF t = s THEN "gone" ELSE server[t]
    BY <1>1 DEF TypeOK
  <2>2. Up' \subseteq Up /\ Serving' \subseteq Serving
    BY <2>1 DEF Up, Serving
  <2>3. QED
    BY <1>1, <2>1, <2>2 DEF ClaimInv, Classify
<1>2. CASE ~Held(claim) /\ server' = [server EXCEPT ![s] = "warming"]
  <2> DEFINE others == {t \in Servers \ {s} : server[t] \in {"warming", "starting"}}
  <2>1. \A t \in Servers : server'[t] = IF t = s THEN "warming" ELSE server[t]
    BY <1>2 DEF TypeOK
  <2>2. server[s] = "new" /\ claim' = claim
    BY DEF Classify
  <2>3. Up' = Up \union {s} /\ Serving' = Serving
    BY <2>1, <2>2 DEF Up, Serving
  <2>4. raced' = IF others = {} /\ raced = {} THEN raced ELSE raced \union {s} \union others
    BY <1>2, <2>2 DEF Classify, Held, Alive, TypeOK
  <2>5. claim' \in Servers => server'[claim'] \in {"serving", "gone"}
    BY <2>1, <2>2 DEF ClaimInv
  \* While nothing races, a server that serves holds the claim.
  <2>6. raced = {} => Serving = {} /\ Up = others
    BY <1>2, <2>2 DEF ClaimInv, Held, Alive, Up, Serving
  <2>7. CASE raced = {} /\ others = {}
    BY <2>3, <2>4, <2>5, <2>6, <2>7 DEF ClaimInv
  <2>8. CASE raced # {} \/ others # {}
    <3>1. raced' = raced \union {s} \union others
      BY <2>4, <2>8
    <3>2. raced # {} => Up \subseteq raced
      BY DEF ClaimInv
    <3>3. QED
      BY <2>3, <2>5, <2>6, <3>1, <3>2 DEF ClaimInv
  <2>9. QED
    BY <2>7, <2>8
<1>3. QED
  BY <1>1, <1>2 DEF Classify

\* A server goes from warming to starting, or from closing to gone.
LEMMA ProgressClaims ==
    ASSUME TypeOK, ClaimInv, NEW s \in Servers, UNCHANGED <<claim, raced>>,
           \/ server[s] = "warming" /\ server' = [server EXCEPT ![s] = "starting"]
           \/ server[s] = "closing" /\ server' = [server EXCEPT ![s] = "gone"]
    PROVE  ClaimInv'
<1>1. Up' = Up /\ Serving' = Serving
  BY DEF Up, Serving, TypeOK
<1>2. claim \in Servers => server'[claim] \in {"serving", "gone"}
  BY DEF ClaimInv, TypeOK
<1>3. QED
  BY <1>1, <1>2 DEF ClaimInv

\* The one that is starting writes its claim over any other.
LEMMA WriteClaimClaims ==
    ASSUME TypeOK, ClaimInv, NEW s \in Servers, WriteClaim(s)
    PROVE  ClaimInv'
<1>1. /\ \A t \in Servers : server'[t] = IF t = s THEN "serving" ELSE server[t]
      /\ server[s] = "starting" /\ claim' = s /\ raced' = raced
  BY DEF WriteClaim, TypeOK
<1>2. Up' = Up /\ Serving' = Serving \union {s} /\ s \in Up /\ Serving \subseteq Up
  BY <1>1 DEF Up, Serving
<1>3. QED
  BY <1>1, <1>2 DEF ClaimInv

\* One that ends leaves the others as they are; the claim it takes with it was
\* its own, unless they raced.
LEMMA EndClaims ==
    ASSUME TypeOK, ClaimInv, NEW s \in Servers, raced' = raced \ {s},
           NEW next \in {"closing", "gone"}, server' = [server EXCEPT ![s] = next],
           \/ claim' = claim /\ (next = "gone" \/ claim # s)
           \/ claim' = None /\ server[s] \in {"starting", "serving"}
    PROVE  ClaimInv'
<1>1. \A t \in Servers : server'[t] = IF t = s THEN next ELSE server[t]
  BY DEF TypeOK
<1>2. Up' = Up \ {s} /\ Serving' = Serving \ {s} /\ Serving \subseteq Up
  BY <1>1 DEF Up, Serving
<1>3. claim' \in Servers => server'[claim'] \in {"serving", "gone"}
  BY <1>1, NoneIsNothing DEF ClaimInv
<1>4. raced' # {} => Up' \subseteq raced'
  BY <1>2 DEF ClaimInv
<1>5. raced' = {} => (\A t, u \in Up' : t = u) /\ (\A t \in Serving' : claim' = t)
  <2>1. CASE raced = {} /\ claim' = claim
    BY <1>2, <2>1 DEF ClaimInv
  <2>2. CASE raced = {} /\ claim' # claim
    <3>1. s \in Up
      BY <2>2 DEF Up
    <3>2. Up' = {}
      BY <1>2, <2>2, <3>1 DEF ClaimInv
    <3>3. QED
      BY <1>2, <3>2
  <2>3. CASE raced # {}
    <3>1. raced' = {} => Up' = {}
      BY <1>2, <2>3 DEF ClaimInv
    <3>2. QED
      BY <1>2, <3>1
  <2>4. QED
    BY <2>1, <2>2, <2>3
<1>6. QED
  BY <1>3, <1>4, <1>5 DEF ClaimInv

-----------------------------------------------------------------------------
\* Types, action by action.
LEMMA ClassifyType ==
    ASSUME TypeOK, NEW s \in Servers, Classify(s)
    PROVE  TypeOK'
<1>1. /\ server[s] = "new"
      /\ \E next \in {"gone", "warming"} : server' = [server EXCEPT ![s] = next]
      /\ UNCHANGED <<disk, claim, live, edit, forgotten, page, excused, left, owed, events>>
  BY DEF Classify
<1>2. /\ server' \in [Servers -> {"new", "warming", "starting", "serving", "closing", "gone"}]
      /\ \A t \in Servers : Alive(t) => t # s /\ Alive(t)'
  BY <1>1 DEF TypeOK, Alive
<1>3. \A t \in raced' : t \in Servers /\ Alive(t)'
  BY <1>2 DEF Classify, TypeOK, Alive
<1>4. QED
  BY <1>1, <1>2, <1>3 DEF TypeOK, disk

\* A server that goes on, with what it has.
LEMMA ProgressType ==
    ASSUME TypeOK, NEW s \in Servers, NEW next \in {"starting", "serving"},
           server' = [server EXCEPT ![s] = next]
    PROVE  /\ server' \in [Servers -> {"new", "warming", "starting", "serving",
                                       "closing", "gone"}]
           /\ \A t \in Servers : Alive(t) => Alive(t)'
BY DEF TypeOK, Alive

\* A refresh keeps the types of what it changes.
LEMMA RefreshType ==
    ASSUME TypeOK, NEW s \in Servers, NEW reg \in SUBSET Paths, RefreshFrom(s, reg),
           Alive(s), \A t \in Servers : Alive(t) => Alive(t)'
    PROVE  /\ live' \in [Servers -> [Paths -> Entry]]
           /\ \A t \in Servers, p \in Paths :
                 /\ live'[t][p].kind = "ok" <=> live'[t][p].watch # "none"
                 /\ live'[t][p].kind # "none" => Alive(t)'
           /\ forgotten' \subseteq Servers \X Paths
           /\ owed' \subseteq {o \in Servers \X Paths : live'[o[1]][o[2]].kind = "ok"}
<1>1. \A t \in Servers, p \in Paths :
         /\ live'[t][p].kind = "ok" <=> live'[t][p].watch # "none"
         /\ live'[t][p].kind # "none" => Alive(t)'
  <2>1. SUFFICES ASSUME NEW t \in Servers, NEW p \in Paths
                 PROVE  /\ live'[t][p].kind = "ok" <=> live'[t][p].watch # "none"
                        /\ live'[t][p].kind # "none" => Alive(t)'
    OBVIOUS
  <2>2. CASE t = s
    BY <2>2, Refreshed
  <2>3. CASE t # s
    <3>1. live'[t] = live[t]
      BY <2>3, Refreshed
    <3>2. QED
      BY <3>1 DEF TypeOK
  <2>4. QED
    BY <2>2, <2>3
<1>2. QED
  BY <1>1, Refreshed, RefreshForgets

\* The first refresh of a server that takes its port.
LEMMA ListenType ==
    ASSUME TypeOK, NEW s \in Servers, Listen(s)
    PROVE  TypeOK'
<1>1. /\ server' = [server EXCEPT ![s] = "starting"] /\ Alive(s)
      /\ RefreshFrom(s, registered) /\ registered \in SUBSET Paths
      /\ UNCHANGED <<disk, claim, edit, page, excused, raced, left, events>>
  BY DEF Listen, Alive, TypeOK
<1>2. /\ server' \in [Servers -> {"new", "warming", "starting", "serving", "closing", "gone"}]
      /\ \A t \in Servers : Alive(t) => Alive(t)'
  BY <1>1, ProgressType
<1>3. /\ live' \in [Servers -> [Paths -> Entry]]
      /\ \A t \in Servers, p \in Paths :
            /\ live'[t][p].kind = "ok" <=> live'[t][p].watch # "none"
            /\ live'[t][p].kind # "none" => Alive(t)'
      /\ forgotten' \subseteq Servers \X Paths
      /\ owed' \subseteq {o \in Servers \X Paths : live'[o[1]][o[2]].kind = "ok"}
  BY <1>1, <1>2, RefreshType
<1>4. \A t \in raced' : t \in Servers /\ Alive(t)'
  BY <1>1, <1>2 DEF TypeOK
<1>5. QED
  BY <1>1, <1>2, <1>3, <1>4 DEF TypeOK, disk

\* A server ends, by itself, at a signal or in a crash.
LEMMA EndType ==
    ASSUME TypeOK, NEW s \in Servers, Ends(s), UNCHANGED disk,
           NEW next \in {"closing", "gone"}, server' = [server EXCEPT ![s] = next],
           claim' \in {claim, None}, events' \in 0..MaxEvents
    PROVE  TypeOK'
<1>1. server' \in [Servers -> {"new", "warming", "starting", "serving", "closing", "gone"}]
  BY DEF TypeOK
<1>2. \A t \in Servers \ {s} : Alive(t) => Alive(t)'
  BY DEF TypeOK, Alive
<1>3. \A t \in Servers, p \in Paths :
         /\ live'[t][p].kind = "ok" <=> live'[t][p].watch # "none"
         /\ live'[t][p].kind # "none" => Alive(t)'
  <2>1. SUFFICES ASSUME NEW t \in Servers, NEW p \in Paths
                 PROVE  /\ live'[t][p].kind = "ok" <=> live'[t][p].watch # "none"
                        /\ live'[t][p].kind # "none" => Alive(t)'
    OBVIOUS
  <2>2. CASE t = s
    BY <2>2, Ended, Nothing
  <2>3. CASE t # s
    <3>1. live'[t] = live[t]
      BY <2>3, Ended
    <3>2. QED
      BY <1>2, <2>3, <3>1 DEF TypeOK
  <2>4. QED
    BY <2>2, <2>3
<1>4. \A t \in raced' : t \in Servers /\ Alive(t)'
  BY <1>2, Ended DEF TypeOK
<1>5. forgotten' \subseteq Servers \X Paths /\ left' \subseteq Servers \X Paths
  BY Ended DEF TypeOK
<1>6. claim' \in Servers \union {None}
  BY DEF TypeOK
<1>7. /\ live' \in [Servers -> [Paths -> Entry]]
      /\ edit' \in [Servers \union Tools -> Edit \union {None}]
      /\ page' \in [Servers -> [Paths -> Slugs \union {None}]]
      /\ excused' \in [Servers -> SUBSET Paths]
      /\ owed' \subseteq {o \in Servers \X Paths : live'[o[1]][o[2]].kind = "ok"}
  BY Ended
<1>8. /\ registered' \subseteq Paths /\ dir' \in [Paths -> {"ok", "bad", "bare"}]
      /\ born' \subseteq Paths
  BY DEF TypeOK, disk
<1>9. QED
  BY <1>1, <1>3, <1>4, <1>5, <1>6, <1>7, <1>8 DEF TypeOK

\* The claim is written, and a closed server stops.
LEMMA WriteClaimType ==
    ASSUME TypeOK, NEW s \in Servers, WriteClaim(s)
    PROVE  TypeOK'
<1>1. /\ server' = [server EXCEPT ![s] = "serving"] /\ Alive(s) /\ claim' = s
      /\ UNCHANGED <<disk, live, edit, forgotten, page, excused, raced, left, owed, events>>
  BY DEF WriteClaim, Alive
<1>2. /\ server' \in [Servers -> {"new", "warming", "starting", "serving", "closing", "gone"}]
      /\ \A t \in Servers : Alive(t) => Alive(t)'
  BY <1>1, ProgressType
<1>3. QED
  BY <1>1, <1>2 DEF TypeOK, disk

\* A closed server is gone.
LEMMA StoppedType ==
    ASSUME TypeOK, ClosedInv, NEW s \in Servers, Stopped(s)
    PROVE  TypeOK'
<1>1. /\ server' = [server EXCEPT ![s] = "gone"]
      /\ UNCHANGED <<disk, claim, live, edit, forgotten, page, excused, raced, left, owed,
         events>>
  BY DEF Stopped
<1>2. /\ server' \in [Servers -> {"new", "warming", "starting", "serving", "closing", "gone"}]
      /\ \A t \in Servers \ {s} : Alive(t) => Alive(t)'
  BY <1>1 DEF TypeOK, Alive
<1>3. /\ s \notin raced
      /\ \A p \in Paths : live[s][p].kind = "none"
  BY DEF Stopped, ClosedInv, View
<1>4. QED
  BY <1>1, <1>2, <1>3 DEF TypeOK, disk

\* GET /api/projects, and the refresh for a link that is not found.
LEMMA ListType ==
    ASSUME TypeOK, NEW s \in Servers, List(s) \/ Miss(s)
    PROVE  TypeOK'
<1>1. /\ Alive(s) /\ server' = server
      /\ RefreshFrom(s, registered) /\ registered \in SUBSET Paths
      /\ UNCHANGED <<disk, claim, edit, raced, left, events>>
  BY DEF List, Miss, Idle, Alive, TypeOK
<1>2. \A t \in Servers : Alive(t) => Alive(t)'
  BY <1>1 DEF Alive
<1>3. /\ live' \in [Servers -> [Paths -> Entry]]
      /\ \A t \in Servers, p \in Paths :
            /\ live'[t][p].kind = "ok" <=> live'[t][p].watch # "none"
            /\ live'[t][p].kind # "none" => Alive(t)'
      /\ forgotten' \subseteq Servers \X Paths
      /\ owed' \subseteq {o \in Servers \X Paths : live'[o[1]][o[2]].kind = "ok"}
  BY <1>1, <1>2, RefreshType
<1>4. page' \in [Servers -> [Paths -> Slugs \union {None}]]
      /\ excused' \in [Servers -> SUBSET Paths]
  <2>1. CASE List(s)
    <3>1. [p \in Paths |-> live'[s][p].slug] \in [Paths -> Slugs \union {None}]
      BY <1>3 DEF Entry
    <3>2. QED
      BY <2>1, <3>1 DEF List, TypeOK
  <2>2. CASE Miss(s)
    BY <2>2 DEF Miss, TypeOK
  <2>3. QED
    BY <2>1, <2>2
<1>5. \A t \in raced' : t \in Servers /\ Alive(t)'
  BY <1>1, <1>2 DEF TypeOK
<1>6. QED
  BY <1>1, <1>3, <1>4, <1>5 DEF TypeOK, disk

\* A reading of config.json leaves an edit to be written.
LEMMA ReadType ==
    ASSUME TypeOK, NEW e \in Servers \union Tools, NEW op \in {"add", "remove"},
           NEW path \in Paths, NEW wanted \in Paths, Read(e, op, path, wanted)
    PROVE  /\ edit' \in [Servers \union Tools -> Edit \union {None}]
           /\ edit' = [edit EXCEPT ![e] = [op |-> op, path |-> path, asked |-> wanted,
                                           read |-> registered]]
           /\ events' \in 0..MaxEvents
<1>1. [op |-> op, path |-> path, asked |-> wanted, read |-> registered] \in Edit
  BY DEF Edit, TypeOK
<1>2. QED
  BY <1>1, ConstantsAssumption DEF Read, TypeOK

\* What each of the three readings of config.json is for.
ReadAs(e, op, path, wanted) ==
    /\ Read(e, op, path, wanted)
    /\ dir' \in [Paths -> {"ok", "bad", "bare"}] /\ born' \subseteq Paths
    /\ \A p \in Paths : dir[p] # "bare" => dir'[p] # "bare"

\* Each of the three is such a reading, with its guard.
LEMMA Readings ==
    ASSUME TypeOK
    PROVE  /\ \A e \in Tools : ReadTool(e) =>
                 edit[e] = None /\ \E op \in {"add", "remove"}, p \in Paths : ReadAs(e, op, p, p)
           /\ \A s \in Servers : ReadAdd(s) =>
                 Idle(s) /\ \E p \in Paths : ReadAs(s, "add", p, p)
           /\ \A s \in Servers : ReadRemove(s) =>
                 Idle(s) /\ \E p \in Paths : page[s][p] # None /\
                    \E q \in BySlug(s, page[s][p]) : ReadAs(s, "remove", q, p)
<1>1. ASSUME NEW e \in Tools, ReadTool(e)
      PROVE  edit[e] = None /\ \E op \in {"add", "remove"}, p \in Paths : ReadAs(e, op, p, p)
  BY <1>1 DEF ReadTool, ReadAs, TypeOK
<1>2. ASSUME NEW s \in Servers, ReadAdd(s)
      PROVE  Idle(s) /\ \E p \in Paths : ReadAs(s, "add", p, p)
  <2>1. PICK p \in Paths :
           /\ Read(s, "add", p, p)
           /\ IF dir[p] = "bare"
              THEN dir' = [dir EXCEPT ![p] = "ok"] /\ born' = born \union {p}
              ELSE UNCHANGED <<dir, born>>
    BY <1>2 DEF ReadAdd
  <2>2. /\ dir' \in [Paths -> {"ok", "bad", "bare"}] /\ born' \subseteq Paths
        /\ \A q \in Paths : dir[q] # "bare" => dir'[q] # "bare"
    BY <2>1 DEF TypeOK
  <2>3. QED
    BY <1>2, <2>1, <2>2 DEF ReadAdd, ReadAs
<1>3. ASSUME NEW s \in Servers, ReadRemove(s)
      PROVE  Idle(s) /\ \E p \in Paths : page[s][p] # None /\
                \E q \in BySlug(s, page[s][p]) : ReadAs(s, "remove", q, p)
  BY <1>3 DEF ReadRemove, ReadAs, TypeOK
<1>4. QED
  BY <1>1, <1>2, <1>3

\* It keeps the types.
LEMMA ReadAsType ==
    ASSUME TypeOK, NEW e \in Servers \union Tools, NEW op \in {"add", "remove"},
           NEW path \in Paths, NEW wanted \in Paths, ReadAs(e, op, path, wanted)
    PROVE  TypeOK'
<1>1. /\ edit' \in [Servers \union Tools -> Edit \union {None}]
      /\ events' \in 0..MaxEvents
  BY ReadType DEF ReadAs
<1>2. UNCHANGED <<registered, claim, server, live, forgotten, page, excused, raced, left, owed>>
  BY DEF ReadAs, Read
<1>3. \A t \in Servers : Alive(t) <=> Alive(t)'
  BY <1>2 DEF Alive
<1>4. /\ dir' \in [Paths -> {"ok", "bad", "bare"}] /\ born' \subseteq Paths
  BY DEF ReadAs
<1>5. QED
  BY <1>1, <1>2, <1>3, <1>4 DEF TypeOK

\* A written change: what is registered then, who is excused, and who has left.
LEMMA WrittenType ==
    ASSUME TypeOK, NEW e \in Servers \union Tools, Write(e)
    PROVE  /\ registered' \subseteq Paths
           /\ excused' \in [Servers -> SUBSET Paths]
           /\ edit' \in [Servers \union Tools -> Edit \union {None}]
           /\ left' \subseteq Servers \X Paths
           /\ edit[e] \in Edit
           /\ UNCHANGED <<dir, born, claim, server, page, raced, events>>
<1>1. edit[e] \in Edit
  BY DEF Write, TypeOK
<1>2. Written(e) \subseteq Paths /\ edit[e].asked \in Paths /\ edit[e].path \in Paths
  BY <1>1 DEF Written, Edit
<1>3. registered' \subseteq Paths
  BY <1>2 DEF Write, TypeOK
<1>4. excused' \in [Servers -> SUBSET Paths]
  <2> DEFINE wanted == IF edit[e].op = "add" THEN {}
                       ELSE IF DeadLink(e) THEN {edit[e].asked, edit[e].path}
                       ELSE {edit[e].asked}
             lost == IF edit[e].read = registered THEN {} ELSE registered \ registered'
  <2>1. excused' = [s \in Servers |->
                      excused[s] \union {p \in wanted \union lost : page[s][p] # None}]
    BY DEF Write
  <2>2. wanted \subseteq Paths /\ lost \subseteq Paths
    BY <1>2 DEF TypeOK
  <2> HIDE DEF wanted, lost
  <2>3. QED
    BY <2>1, <2>2 DEF TypeOK
<1>5. left' \subseteq Servers \X Paths
  BY DEF Write, Away, TypeOK
<1>6. edit' \in [Servers \union Tools -> Edit \union {None}]
  BY DEF Write, TypeOK
<1>7. QED
  BY <1>1, <1>3, <1>4, <1>5, <1>6 DEF Write

\* A tool writes its change.
LEMMA WriteToolType ==
    ASSUME TypeOK, NEW e \in Tools, WriteTool(e)
    PROVE  TypeOK'
<1>1. Write(e) /\ UNCHANGED <<live, forgotten, owed>>
  BY DEF WriteTool
<1>2. \A t \in Servers : Alive(t) <=> Alive(t)'
  BY <1>1, WrittenType DEF Alive
<1>3. QED
  BY <1>1, <1>2, WrittenType DEF TypeOK

\* A server writes its change and refreshes.
LEMMA WriteServerType ==
    ASSUME TypeOK, EditInv, NEW s \in Servers, WriteServer(s)
    PROVE  TypeOK'
<1>1. Write(s) /\ RefreshFrom(s, registered')
  BY DEF WriteServer
<1>2. server[s] = "serving"
  BY <1>1 DEF EditInv, Write
<1>3. Alive(s) /\ registered' \in SUBSET Paths /\ \A t \in Servers : Alive(t) <=> Alive(t)'
  BY <1>1, <1>2, WrittenType DEF Alive
<1>4. /\ live' \in [Servers -> [Paths -> Entry]]
      /\ \A t \in Servers, p \in Paths :
            /\ live'[t][p].kind = "ok" <=> live'[t][p].watch # "none"
            /\ live'[t][p].kind # "none" => Alive(t)'
      /\ forgotten' \subseteq Servers \X Paths
      /\ owed' \subseteq {o \in Servers \X Paths : live'[o[1]][o[2]].kind = "ok"}
  BY <1>1, <1>3, RefreshType
<1>5. QED
  BY <1>1, <1>3, <1>4, WrittenType DEF TypeOK

\* What is in the directories, its watch and a dispatcher's runs: a project is
\* in view as before.
LooksSame ==
    /\ live' \in [Servers -> [Paths -> Entry]]
    /\ \A s \in Servers, p \in Paths :
          /\ live'[s][p].kind = live[s][p].kind
          /\ live'[s][p].slug = live[s][p].slug
          /\ live'[s][p].watch # "none" <=> live[s][p].watch # "none"
          /\ live'[s][p].run => live[s][p].run \/ live[s][p].kind = "ok"

\* One entry changes, in its watch or its run.
LEMMA EntryChanges ==
    ASSUME TypeOK, NEW s \in Servers, NEW p \in Paths, NEW new \in Entry,
           live' = [live EXCEPT ![s] = [live[s] EXCEPT ![p] = new]],
           new.kind = live[s][p].kind, new.slug = live[s][p].slug,
           new.watch # "none" <=> live[s][p].watch # "none",
           new.run => live[s][p].run \/ live[s][p].kind = "ok"
    PROVE  LooksSame
<1>1. [live[s] EXCEPT ![p] = new] \in [Paths -> Entry]
  BY DEF TypeOK
<1>2. live' \in [Servers -> [Paths -> Entry]]
  BY <1>1 DEF TypeOK
<1>3. \A t \in Servers, q \in Paths :
         live'[t][q] = IF t = s /\ q = p THEN new ELSE live[t][q]
  BY DEF TypeOK
<1>4. QED
  BY <1>2, <1>3 DEF LooksSame

LEMMA WatchLooks ==
    ASSUME TypeOK, NEW s \in Servers, NEW p \in Paths, Watch(s, p)
    PROVE  LooksSame /\ owed' \subseteq owed
<1>1. live[s][p] \in Entry
  BY DEF TypeOK
<1>2. CASE Notice(s, p)
  <2> DEFINE new == [live[s][p] EXCEPT !.watch = "dir", !.timer = TRUE]
  <2>1. live' = [live EXCEPT ![s] = [live[s] EXCEPT ![p] = new]] /\ live[s][p].watch = "root"
    BY <1>2 DEF Notice, Swapped, TypeOK
  <2>2. /\ new \in Entry /\ new.kind = live[s][p].kind /\ new.slug = live[s][p].slug
        /\ new.watch = "dir" /\ new.run = live[s][p].run
    BY <1>1 DEF Entry
  <2> HIDE DEF new
  <2>3. new.run => live[s][p].run \/ live[s][p].kind = "ok"
    BY <2>2
  <2>4. new.watch # "none" <=> live[s][p].watch # "none"
    BY <2>1, <2>2
  <2>5. LooksSame
    BY <2>1, <2>2, <2>3, <2>4, EntryChanges
  <2>6. QED
    BY <1>2, <2>5 DEF Notice
<1>3. CASE Deliver(s, p)
  <2> DEFINE new == [live[s][p] EXCEPT !.event = FALSE, !.timer = TRUE]
  <2>1. live' = [live EXCEPT ![s] = [live[s] EXCEPT ![p] = new]]
    BY <1>3 DEF Deliver, TypeOK
  <2>2. /\ new \in Entry /\ new.kind = live[s][p].kind /\ new.slug = live[s][p].slug
        /\ new.watch = live[s][p].watch /\ new.run = live[s][p].run
    BY <1>1 DEF Entry
  <2> HIDE DEF new
  <2>3. new.run => live[s][p].run \/ live[s][p].kind = "ok"
    BY <2>2
  <2>4. new.watch # "none" <=> live[s][p].watch # "none"
    BY <2>1, <2>2
  <2>5. LooksSame
    BY <2>1, <2>2, <2>3, <2>4, EntryChanges
  <2>6. QED
    BY <1>3, <2>5 DEF Deliver
<1>4. CASE Tick(s, p)
  <2> DEFINE new == [live[s][p] EXCEPT !.timer = FALSE]
  <2>1. live' = [live EXCEPT ![s] = [live[s] EXCEPT ![p] = new]]
    BY <1>4 DEF Tick, TypeOK
  <2>2. /\ new \in Entry /\ new.kind = live[s][p].kind /\ new.slug = live[s][p].slug
        /\ new.watch = live[s][p].watch /\ new.run = live[s][p].run
    BY <1>1 DEF Entry
  <2> HIDE DEF new
  <2>3. new.run => live[s][p].run \/ live[s][p].kind = "ok"
    BY <2>2
  <2>4. new.watch # "none" <=> live[s][p].watch # "none"
    BY <2>1, <2>2
  <2>5. LooksSame
    BY <2>1, <2>2, <2>3, <2>4, EntryChanges
  <2>6. QED
    BY <1>4, <2>5 DEF Tick
<1>5. QED
  BY <1>2, <1>3, <1>4 DEF Watch

LEMMA RunStepLooks ==
    ASSUME TypeOK, NEW s \in Servers, NEW p \in Paths, RunStep(s, p)
    PROVE  LooksSame /\ forgotten' \subseteq forgotten /\ events' \in 0..MaxEvents
<1>2. live[s][p] \in Entry
  BY DEF TypeOK
<1>3. CASE Dispatch(s, p)
  <2> DEFINE new == [live[s][p] EXCEPT !.run = TRUE]
  <2>1. /\ live' = [live EXCEPT ![s] = [live[s] EXCEPT ![p] = new]]
        /\ live[s][p].kind = "ok"
    BY <1>3 DEF Dispatch, TypeOK
  <2>2. /\ new \in Entry /\ new.kind = live[s][p].kind /\ new.slug = live[s][p].slug
        /\ new.watch = live[s][p].watch
    BY <1>2 DEF Entry
  <2> HIDE DEF new
  <2>3. LooksSame
    BY <2>1, <2>2, EntryChanges
  <2>4. forgotten' = forgotten /\ events' \in 0..MaxEvents
    BY <1>3, ConstantsAssumption DEF Dispatch, TypeOK
  <2>5. QED
    BY <2>3, <2>4
<1>4. CASE RunEnds(s, p) /\ live' # live
  <2> DEFINE new == [live[s][p] EXCEPT !.run = FALSE]
  <2>1. /\ live' = [live EXCEPT ![s] = [live[s] EXCEPT ![p] = new]]
        /\ live[s][p].run
    BY <1>4 DEF RunEnds, TypeOK
  <2>2. /\ new \in Entry /\ new.kind = live[s][p].kind /\ new.slug = live[s][p].slug
        /\ new.watch = live[s][p].watch
    BY <1>2 DEF Entry
  <2> HIDE DEF new
  <2>3. LooksSame
    BY <2>1, <2>2, EntryChanges
  <2>4. QED
    BY <1>4, <2>3 DEF RunEnds, TypeOK
<1>5. CASE RunEnds(s, p) /\ live' = live
  <2>1. LooksSame
    BY <1>5 DEF LooksSame, TypeOK
  <2>2. QED
    BY <1>5, <2>1 DEF RunEnds, TypeOK
<1>6. QED
  BY <1>3, <1>4, <1>5 DEF RunStep

\* The directories change, and the watches of those that serve them notice.
LEMMA ChangeLooks ==
    ASSUME TypeOK, Change
    PROVE  /\ LooksSame
           /\ dir' \in [Paths -> {"ok", "bad", "bare"}]
           /\ born' \subseteq Paths
           /\ left \subseteq left' /\ left' \subseteq Servers \X Paths
           /\ owed' \subseteq {o \in Servers \X Paths : live[o[1]][o[2]].kind = "ok"}
           /\ \A p \in Paths : dir'[p] = "bare" /\ dir[p] # "bare" =>
                 \A s \in Servers : live[s][p].kind = "ok" => <<s, p>> \in left'
           /\ events' \in 0..MaxEvents
<1>1. live' = live => LooksSame
  BY DEF LooksSame, TypeOK
<1>2. events' \in 0..MaxEvents
  BY ConstantsAssumption DEF Change, TypeOK
<1>3. CASE ConfigChanges
  <2>1. PICK p \in Paths, d \in {"ok", "bad", "bare"} :
           /\ dir' = [dir EXCEPT ![p] = d]
           /\ left' = IF d = "bare" THEN Away({p}) ELSE left
    BY <1>3 DEF ConfigChanges
  <2>2. left \subseteq left' /\ left' \subseteq Servers \X Paths
    BY <2>1 DEF Away, TypeOK
  <2>3. \A q \in Paths : dir'[q] = IF q = p THEN d ELSE dir[q]
    BY <2>1 DEF TypeOK
  <2>4. \A q \in Paths : dir'[q] = "bare" /\ dir[q] # "bare" =>
           \A s \in Servers : live[s][q].kind = "ok" => <<s, q>> \in left'
    BY <2>1, <2>3 DEF Away
  <2>5. dir' \in [Paths -> {"ok", "bad", "bare"}]
    BY <2>1 DEF TypeOK
  <2>6. UNCHANGED <<born, live, owed>>
    BY <1>3 DEF ConfigChanges
  <2>7. QED
    BY <1>1, <1>2, <2>2, <2>4, <2>5, <2>6 DEF TypeOK
<1>4. CASE JournalBorn
  <2>1. UNCHANGED <<dir, live, left, owed>> /\ born' \subseteq Paths
    BY <1>4 DEF JournalBorn, TypeOK
  <2>2. QED
    BY <1>1, <1>2, <2>1 DEF TypeOK
<1>5. CASE JournalAppend
  <2>1. PICK p \in Paths :
           /\ born' = born \union {p}
           /\ live' = [s \in Servers |-> [live[s] EXCEPT
                          ![p].event = @ \/ live[s][p].watch = "dir"]]
           /\ owed' = owed \union {<<s, p>> : s \in {t \in Servers : live[t][p].kind = "ok"}}
    BY <1>5 DEF JournalAppend
  <2> DEFINE new(s) == [live[s][p] EXCEPT !.event = live[s][p].event \/ live[s][p].watch = "dir"]
  <2>2. \A s \in Servers :
           /\ new(s) \in Entry /\ new(s).kind = live[s][p].kind
           /\ new(s).slug = live[s][p].slug /\ new(s).watch = live[s][p].watch
           /\ new(s).run = live[s][p].run
    <3>1. SUFFICES ASSUME NEW s \in Servers
                   PROVE  /\ new(s) \in Entry /\ new(s).kind = live[s][p].kind
                          /\ new(s).slug = live[s][p].slug /\ new(s).watch = live[s][p].watch
                          /\ new(s).run = live[s][p].run
      OBVIOUS
    <3>2. live[s][p] \in Entry
      BY DEF TypeOK
    <3>3. (live[s][p].event \/ live[s][p].watch = "dir") \in BOOLEAN
      OBVIOUS
    <3>4. QED
      BY <3>2, <3>3 DEF Entry
  <2>3. live' = [s \in Servers |-> [live[s] EXCEPT ![p] = new(s)]]
    BY <2>1
  <2> HIDE DEF new
  <2>4. \A s \in Servers : [live[s] EXCEPT ![p] = new(s)] \in [Paths -> Entry]
    BY <2>2 DEF TypeOK
  <2>5. \A s \in Servers, q \in Paths :
           live'[s][q] = IF q = p THEN new(s) ELSE live[s][q]
    BY <2>3 DEF TypeOK
  <2>6. LooksSame
    BY <2>2, <2>3, <2>4, <2>5 DEF LooksSame
  <2>7. owed' \subseteq {o \in Servers \X Paths : live[o[1]][o[2]].kind = "ok"}
    BY <2>1 DEF TypeOK
  <2>8. UNCHANGED <<dir, left>> /\ born' \subseteq Paths
    BY <1>5, <2>1 DEF JournalAppend, TypeOK
  <2>9. QED
    BY <1>2, <2>6, <2>7, <2>8 DEF TypeOK
<1>6. QED
  BY <1>3, <1>4, <1>5 DEF Change

LEMMA LooksType ==
    ASSUME TypeOK, LooksSame, UNCHANGED server
    PROVE  /\ \A s \in Servers, p \in Paths :
                 /\ live'[s][p].kind = "ok" <=> live'[s][p].watch # "none"
                 /\ live'[s][p].kind # "none" => Alive(s)'
           /\ {o \in Servers \X Paths : live[o[1]][o[2]].kind = "ok"}
                 \subseteq {o \in Servers \X Paths : live'[o[1]][o[2]].kind = "ok"}
           /\ \A s \in Servers : Alive(s) => Alive(s)'
<1>1. \A s \in Servers : Alive(s)' <=> Alive(s)
  BY DEF Alive
<1>2. \A s \in Servers, p \in Paths :
         /\ live'[s][p].kind = "ok" <=> live'[s][p].watch # "none"
         /\ live'[s][p].kind # "none" => Alive(s)'
  <2>1. SUFFICES ASSUME NEW s \in Servers, NEW p \in Paths
                 PROVE  /\ live'[s][p].kind = "ok" <=> live'[s][p].watch # "none"
                        /\ live'[s][p].kind # "none" => Alive(s)'
    OBVIOUS
  <2>2. /\ live[s][p].kind = "ok" <=> live[s][p].watch # "none"
        /\ live[s][p].kind # "none" => Alive(s)
    BY DEF TypeOK
  <2>3. /\ live'[s][p].kind = live[s][p].kind
        /\ live'[s][p].watch # "none" <=> live[s][p].watch # "none"
    BY DEF LooksSame
  <2>4. QED
    BY <1>1, <2>2, <2>3
<1>3. {o \in Servers \X Paths : live[o[1]][o[2]].kind = "ok"}
         \subseteq {o \in Servers \X Paths : live'[o[1]][o[2]].kind = "ok"}
  BY DEF LooksSame
<1>4. QED
  BY <1>1, <1>2, <1>3

LEMMA ChangeType ==
    ASSUME TypeOK, Change
    PROVE  TypeOK'
<1>1. UNCHANGED <<registered, claim, server, edit, forgotten, page, excused, raced>>
  BY DEF Change
<1>2. QED
  BY <1>1, ChangeLooks, LooksType DEF TypeOK, LooksSame

LEMMA WatchType ==
    ASSUME TypeOK, NEW s \in Servers, NEW p \in Paths, Watch(s, p)
    PROVE  TypeOK'
<1>1. UNCHANGED <<disk, claim, server, edit, forgotten, page, excused, raced, left, events>>
  BY DEF Watch
<1>2. QED
  BY <1>1, WatchLooks, LooksType DEF TypeOK, LooksSame, disk

LEMMA RunStepType ==
    ASSUME TypeOK, NEW s \in Servers, NEW p \in Paths, RunStep(s, p)
    PROVE  TypeOK'
<1>1. UNCHANGED <<disk, claim, server, edit, page, excused, raced, left, owed>>
  BY DEF RunStep
<1>2. QED
  BY <1>1, RunStepLooks, LooksType DEF TypeOK, LooksSame, disk

-----------------------------------------------------------------------------
\* What a server has in view.

\* A refresh of one server, an end of one server, or another look of none.
LEMMA RefreshViews ==
    ASSUME TypeOK, ViewInv, NEW s \in Servers, NEW reg \in SUBSET Paths, RefreshFrom(s, reg)
    PROVE  /\ View(s)' = reg
           /\ \A t \in Servers \ {s} : View(t)' = View(t)
           /\ ViewInv'
<1>1. View(s)' = reg
  BY Refreshed DEF View
<1>2. \A t \in Servers \ {s} : View(t)' = View(t) /\ live'[t] = live[t]
  BY Refreshed DEF View
<1>3. ASSUME NEW t \in Servers, NEW p \in Paths
      PROVE  /\ live'[t][p].slug = IF p \in View(t)' THEN Slug(View(t)', p) ELSE None
             /\ live'[t][p].run => live'[t][p].kind = "ok"
  <2>1. CASE t = s
    BY <1>1, <2>1, Refreshed
  <2>2. CASE t # s
    BY <1>2, <2>2 DEF ViewInv
  <2>3. QED
    BY <2>1, <2>2
<1>4. ViewInv'
  BY <1>3 DEF ViewInv, Slug
<1>5. QED
  BY <1>1, <1>2, <1>4

LEMMA EndViews ==
    ASSUME TypeOK, ViewInv, NEW s \in Servers, Ends(s)
    PROVE  /\ View(s)' = {}
           /\ \A t \in Servers \ {s} : View(t)' = View(t)
           /\ ViewInv'
<1>1. View(s)' = {}
  BY Ended, Nothing DEF View
<1>2. \A t \in Servers \ {s} : View(t)' = View(t) /\ live'[t] = live[t]
  BY Ended DEF View
<1>3. ASSUME NEW t \in Servers, NEW p \in Paths
      PROVE  /\ live'[t][p].slug = IF p \in View(t)' THEN Slug(View(t)', p) ELSE None
             /\ live'[t][p].run => live'[t][p].kind = "ok"
  <2>1. CASE t = s
    BY <1>1, <2>1, Ended, Nothing
  <2>2. CASE t # s
    BY <1>2, <2>2 DEF ViewInv
  <2>3. QED
    BY <2>1, <2>2
<1>4. ViewInv'
  BY <1>3 DEF ViewInv, Slug
<1>5. QED
  BY <1>1, <1>2, <1>4

LEMMA LooksViews ==
    ASSUME ViewInv, LooksSame
    PROVE  (\A t \in Servers : View(t)' = View(t)) /\ ViewInv'
<1>1. \A t \in Servers : View(t)' = View(t)
  BY DEF LooksSame, View
<1>2. ASSUME NEW t \in Servers, NEW p \in Paths
      PROVE  /\ live'[t][p].slug = IF p \in View(t)' THEN Slug(View(t)', p) ELSE None
             /\ live'[t][p].run => live'[t][p].kind = "ok"
  <2>1. /\ live[t][p].slug = IF p \in View(t) THEN Slug(View(t), p) ELSE None
        /\ live[t][p].run => live[t][p].kind = "ok"
    BY DEF ViewInv
  <2>2. /\ live'[t][p].kind = live[t][p].kind /\ live'[t][p].slug = live[t][p].slug
        /\ live'[t][p].run => live[t][p].run \/ live[t][p].kind = "ok"
    BY DEF LooksSame
  <2>3. QED
    BY <1>1, <2>1, <2>2
<1>3. ViewInv'
  BY <1>2 DEF ViewInv, Slug
<1>4. QED
  BY <1>1, <1>3

LEMMA SameViews ==
    ASSUME ViewInv, UNCHANGED live
    PROVE  (\A t \in Servers : View(t)' = View(t)) /\ ViewInv'
<1>1. \A t \in Servers : View(t)' = View(t)
  BY DEF View
<1>2. ViewInv'
  BY <1>1 DEF ViewInv, Slug
<1>3. QED
  BY <1>1, <1>2

-----------------------------------------------------------------------------
\* Where a listed link leads.

\* A link of a project that is not excused leads, in view, to no other.
LEMMA LinkIsOwn ==
    ASSUME TypeOK, ViewInv, PageInv, NEW s \in Servers, NEW p \in Paths,
           page[s][p] # None, p \notin excused[s]
    PROVE  BySlug(s, page[s][p]) \subseteq {p}
<1>1. p \in View(s) /\ page[s][p] \in {Base[p], p}
  BY DEF PageInv
<1>2. ASSUME NEW q \in BySlug(s, page[s][p])
      PROVE  q = p
  <2>1. q \in Paths /\ q \in View(s) /\ live[s][q].slug = page[s][p]
    BY DEF BySlug, View
  <2>2. Slug(View(s), q) = page[s][p]
    BY <2>1 DEF ViewInv
  <2>3. View(s) \in SUBSET Paths
    BY DEF View
  <2>4. QED
    BY <1>1, <2>1, <2>2, <2>3, SlugsDiffer
<1>3. QED
  BY <1>2

\* As long as nothing is listed, written or excused, and what is registered
\* does not go out of view.
LEMMA PageStands ==
    ASSUME PageInv, UNCHANGED <<page, excused, registered>>,
           \A s \in Servers : View(s) \intersect registered \subseteq View(s)'
    PROVE  PageInv'
BY DEF PageInv

LEMMA ListPages ==
    ASSUME TypeOK, ViewInv, PageInv, NEW s \in Servers, List(s)
    PROVE  PageInv'
<1>1. RefreshFrom(s, registered) /\ registered \in SUBSET Paths /\ registered' = registered
  BY DEF List, TypeOK, disk
<1>2. /\ View(s)' = registered
      /\ \A t \in Servers \ {s} : View(t)' = View(t)
  BY <1>1, RefreshViews
<1>3. /\ \A p \in Paths : page'[s][p] = live'[s][p].slug
      /\ \A t \in Servers \ {s} : page'[t] = page[t] /\ excused'[t] = excused[t]
  BY DEF List, TypeOK
<1>4. \A p \in Paths : live'[s][p].slug = IF p \in registered THEN Slug(registered, p) ELSE None
  BY <1>1, Refreshed
<1>5. SUFFICES ASSUME NEW t \in Servers, NEW p \in Paths
               PROVE  /\ page'[t][p] \in {None, Base[p], p}
                      /\ page'[t][p] # None /\ p \notin excused'[t] =>
                            p \in registered' /\ p \in View(t)'
  BY DEF PageInv
<1>6. CASE t = s
  BY <1>1, <1>2, <1>3, <1>4, <1>6, SlugIsOwn
<1>7. CASE t # s
  BY <1>1, <1>2, <1>3, <1>7 DEF PageInv
<1>8. QED
  BY <1>6, <1>7

\* Whatever a change of config.json takes out, it excuses in every list.
LEMMA WriteExcuses ==
    ASSUME TypeOK, EditInv, NEW e \in Servers \union Tools, Write(e),
           NEW s \in Servers, NEW p \in registered, p \notin registered', page[s][p] # None
    PROVE  p \in excused'[s]
<1> DEFINE wanted == IF edit[e].op = "add" THEN {}
                     ELSE IF DeadLink(e) THEN {edit[e].asked, edit[e].path}
                     ELSE {edit[e].asked}
           lost == IF edit[e].read = registered THEN {} ELSE registered \ registered'
<1>1. excused'[s] = excused[s] \union {q \in wanted \union lost : page[s][q] # None}
  BY DEF Write
<1>2. CASE edit[e].read # registered
  BY <1>1, <1>2
<1>3. CASE edit[e].read = registered
  <2>1. edit[e].op # "add" /\ p = edit[e].path
    BY <1>3 DEF Write, Written
  <2>2. edit[e].asked = edit[e].path \/ DeadLink(e)
    BY DEF EditInv, Write
  <2>3. p \in wanted
    BY <2>1, <2>2
  <2>4. QED
    BY <1>1, <2>3
<1>4. QED
  BY <1>2, <1>3

LEMMA WritePages ==
    ASSUME TypeOK, EditInv, PageInv, NEW e \in Servers \union Tools, Write(e),
           \A s \in Servers : View(s) \intersect registered' \subseteq View(s)'
    PROVE  PageInv'
<1>1. SUFFICES ASSUME NEW s \in Servers, NEW p \in Paths
               PROVE  /\ page'[s][p] \in {None, Base[p], p}
                      /\ page'[s][p] # None /\ p \notin excused'[s] =>
                            p \in registered' /\ p \in View(s)'
  BY DEF PageInv
<1>2. page' = page /\ excused[s] \subseteq excused'[s]
  BY DEF Write
<1>3. /\ page[s][p] \in {None, Base[p], p}
      /\ page[s][p] # None /\ p \notin excused[s] => p \in registered /\ p \in View(s)
  BY DEF PageInv
<1>4. page[s][p] # None /\ p \in registered /\ p \notin registered' => p \in excused'[s]
  BY WriteExcuses
<1>5. QED
  BY <1>2, <1>3, <1>4

LEMMA EndPages ==
    ASSUME TypeOK, ViewInv, PageInv, NEW s \in Servers, Ends(s), UNCHANGED registered
    PROVE  PageInv'
<1>1. SUFFICES ASSUME NEW t \in Servers, NEW p \in Paths
               PROVE  /\ page'[t][p] \in {None, Base[p], p}
                      /\ page'[t][p] # None /\ p \notin excused'[t] =>
                            p \in registered' /\ p \in View(t)'
  BY DEF PageInv
<1>2. CASE t = s
  BY <1>2, Ended
<1>3. CASE t # s
  BY <1>3, Ended, EndViews DEF PageInv
<1>4. QED
  BY <1>2, <1>3

-----------------------------------------------------------------------------
\* Who has left, and the runs that go on without their dispatcher.
LEMMA RefreshLeft ==
    ASSUME TypeOK, ViewInv, LeftInv, NEW s \in Servers, RefreshFrom(s, registered'),
           registered' \subseteq Paths, UNCHANGED dir, left \subseteq left',
           \A t \in Servers, p \in Paths :
              live[t][p].kind = "ok" /\ p \notin registered' => <<t, p>> \in left'
    PROVE  LeftInv'
<1>1. ASSUME NEW t \in Servers, NEW p \in Paths, live'[t][p].kind = "ok",
             p \notin registered' \/ dir'[p] = "bare"
      PROVE  <<t, p>> \in left'
  <2>1. CASE t = s
    BY <1>1, <2>1, Refreshed
  <2>2. CASE t # s
    <3>1. live[t][p].kind = "ok"
      BY <1>1, <2>2, Refreshed
    <3>2. QED
      BY <1>1, <2>2, <3>1 DEF LeftInv
  <2>3. QED
    BY <2>1, <2>2
<1>2. ASSUME NEW o \in forgotten', o \notin forgotten
      PROVE  o \in left'
  <2>1. PICK p \in Paths : o = <<s, p>> /\ live[s][p].run /\ ~Keeps(s, registered', p)
    BY <1>2, RefreshForgets
  <2>2. live[s][p].kind = "ok"
    BY <2>1 DEF ViewInv
  <2>3. p \notin registered' \/ dir[p] = "bare"
    BY <2>1, <2>2 DEF Keeps
  <2>4. QED
    BY <2>1, <2>2, <2>3 DEF LeftInv
<1>3. forgotten' \subseteq left'
  BY <1>2 DEF LeftInv
<1>4. QED
  BY <1>1, <1>3 DEF LeftInv

LEMMA EndLeft ==
    ASSUME TypeOK, LeftInv, NEW s \in Servers, Ends(s), UNCHANGED <<registered, dir>>
    PROVE  LeftInv'
<1>1. ASSUME NEW t \in Servers, NEW p \in Paths, live'[t][p].kind = "ok",
             p \notin registered' \/ dir'[p] = "bare"
      PROVE  <<t, p>> \in left'
  <2>1. t # s /\ live[t][p].kind = "ok"
    BY <1>1, Ended, Nothing
  <2>2. <<t, p>> \in left
    BY <1>1, <2>1 DEF LeftInv
  <2>3. QED
    BY <2>1, <2>2, Ended
<1>2. forgotten' \subseteq left'
  BY Ended DEF LeftInv
<1>3. QED
  BY <1>1, <1>2 DEF LeftInv

\* Nothing comes into view or leaves it.
LEMMA LooksLeft ==
    ASSUME LeftInv, LooksSame, left \subseteq left', forgotten' \subseteq forgotten,
           \A s \in Servers, p \in Paths :
              /\ live[s][p].kind = "ok"
              /\ \/ p \notin registered' /\ p \in registered
                 \/ dir'[p] = "bare" /\ dir[p] # "bare"
              => <<s, p>> \in left'
    PROVE  LeftInv'
<1>1. \A s \in Servers, p \in Paths : live'[s][p].kind = live[s][p].kind
  BY DEF LooksSame
<1>2. QED
  BY <1>1 DEF LeftInv

-----------------------------------------------------------------------------
\* The changes of config.json that are under way.
LEMMA EditStands ==
    ASSUME EditInv,
           \A e \in Servers \union Tools : edit'[e] # None =>
              /\ edit'[e] = edit[e]
              /\ e \in Servers /\ server[e] = "serving" =>
                    server'[e] = "serving" /\ excused[e] \subseteq excused'[e]
    PROVE  EditInv'
<1>1. SUFFICES ASSUME NEW e \in Servers \union Tools, edit'[e] # None
               PROVE  /\ e \in Servers => server'[e] = "serving"
                      /\ \/ edit'[e].asked = edit'[e].path
                         \/ e \in Servers /\ edit'[e].asked \in excused'[e]
  BY DEF EditInv, DeadLink
<1>2. /\ e \in Servers => server[e] = "serving"
      /\ edit[e].asked = edit[e].path \/ (e \in Servers /\ edit[e].asked \in excused[e])
  BY <1>1 DEF EditInv, DeadLink
<1>3. QED
  BY <1>1, <1>2

LEMMA ReadAsEdits ==
    ASSUME TypeOK, EditInv, NEW e \in Servers \union Tools, NEW op \in {"add", "remove"},
           NEW path \in Paths, NEW wanted \in Paths, ReadAs(e, op, path, wanted),
           e \in Servers => server[e] = "serving",
           wanted = path \/ (e \in Servers /\ wanted \in excused[e])
    PROVE  EditInv'
<1>1. edit' = [edit EXCEPT ![e] = [op |-> op, path |-> path, asked |-> wanted,
                                   read |-> registered]]
  BY DEF ReadAs, Read
<1>2. UNCHANGED <<server, excused>>
  BY DEF ReadAs, Read
<1>3. \A f \in Servers \union Tools :
         /\ f = e => edit'[f].asked = wanted /\ edit'[f].path = path
         /\ f # e => edit'[f] = edit[f]
  BY <1>1 DEF TypeOK
<1>4. SUFFICES ASSUME NEW f \in Servers \union Tools, edit'[f] # None
               PROVE  /\ f \in Servers => server[f] = "serving"
                      /\ \/ edit'[f].asked = edit'[f].path
                         \/ f \in Servers /\ edit'[f].asked \in excused[f]
  BY <1>2 DEF EditInv, DeadLink
<1>5. CASE f = e
  BY <1>3, <1>5
<1>6. CASE f # e
  BY <1>3, <1>4, <1>6 DEF EditInv, DeadLink
<1>7. QED
  BY <1>5, <1>6

-----------------------------------------------------------------------------
\* A server that is closing stays without anything.
LEMMA ClosedStands ==
    ASSUME ClosedInv,
           \A s \in Servers : server'[s] = "closing" =>
              \/ View(s)' = {} /\ s \notin raced'
              \/ /\ server[s] = "closing"
                 /\ View(s)' = View(s) /\ (s \in raced' => s \in raced)
    PROVE  ClosedInv'
BY DEF ClosedInv

-----------------------------------------------------------------------------
\* The inductive invariant, action by action.
LEMMA InitInv == Init => IInv
<1> SUFFICES ASSUME Init PROVE IInv
  OBVIOUS
<1>1. \A s \in Servers, p \in Paths :
         /\ live[s][p] = NoEntry /\ page[s][p] = None /\ server[s] = "new"
         /\ View(s) = {}
  BY Nothing DEF Init, View
<1>2. /\ live \in [Servers -> [Paths -> Entry]]
      /\ \A s \in Servers, p \in Paths :
            live[s][p].kind = "none" /\ live[s][p].watch = "none"
            /\ live[s][p].slug = None /\ ~live[s][p].run
  BY <1>1, Nothing DEF Init
<1>3. TypeOK
  BY <1>2, ConstantsAssumption DEF Init, TypeOK
<1>4. ClaimInv
  BY NoneIsNothing DEF Init, ClaimInv, Up, Serving
<1>5. ClosedInv
  BY DEF Init, ClosedInv
<1>6. ViewInv
  BY <1>1, <1>2 DEF ViewInv
<1>7. PageInv
  BY <1>1 DEF PageInv
<1>8. EditInv
  BY DEF Init, EditInv
<1>9. LeftInv
  BY <1>2 DEF Init, LeftInv
<1>10. QED
  BY <1>3, <1>4, <1>5, <1>6, <1>7, <1>8, <1>9 DEF IInv

\* A start, up to its claim, and the end of a closed server: what is in view
\* stays, but for the first refresh.
LEMMA ClassifyStep ==
    ASSUME IInv, NEW s \in Servers, Classify(s)
    PROVE  IInv'
<1> USE DEF IInv
<1>1. /\ server[s] = "new"
      /\ \E next \in {"gone", "warming"} : server' = [server EXCEPT ![s] = next]
      /\ UNCHANGED <<disk, claim, live, edit, forgotten, page, excused, left, owed, events>>
  BY DEF Classify
<1>2. \A t \in Servers : server'[t] = IF t = s THEN server'[s] ELSE server[t]
  BY <1>1 DEF TypeOK
<1>3. server'[s] \in {"gone", "warming"}
  BY <1>1 DEF TypeOK
<1>4. TypeOK' /\ ClaimInv'
  BY ClassifyType, ClassifyClaims
<1>5. (\A t \in Servers : View(t)' = View(t)) /\ ViewInv'
  BY <1>1, SameViews
<1>6. ClosedInv'
  <2>1. \A t \in raced' : t \in raced \/ t = s \/ server[t] \in {"warming", "starting"}
    BY DEF Classify
  <2>2. QED
    BY <1>2, <1>3, <1>5, <2>1, ClosedStands
<1>7. PageInv'
  BY <1>1, <1>5, PageStands DEF disk
<1>8. EditInv'
  BY <1>1, <1>2, EditStands
<1>9. LooksSame
  BY <1>1 DEF LooksSame, TypeOK
<1>10. LeftInv'
  BY <1>1, <1>9, LooksLeft DEF disk
<1>11. QED
  BY <1>4, <1>5, <1>6, <1>7, <1>8, <1>10

LEMMA ListenStep ==
    ASSUME IInv, NEW s \in Servers, Listen(s)
    PROVE  IInv'
<1> USE DEF IInv
<1>1. /\ server[s] = "warming" /\ server' = [server EXCEPT ![s] = "starting"]
      /\ RefreshFrom(s, registered) /\ registered \in SUBSET Paths
      /\ registered' = registered /\ UNCHANGED dir
      /\ UNCHANGED <<claim, edit, page, excused, raced, left>>
  BY DEF Listen, TypeOK, disk
<1>2. \A t \in Servers : server'[t] = IF t = s THEN "starting" ELSE server[t]
  BY <1>1 DEF TypeOK
<1>3. TypeOK' /\ ClaimInv'
  BY <1>1, ListenType, ProgressClaims
<1>4. /\ View(s)' = registered /\ ViewInv'
      /\ \A t \in Servers \ {s} : View(t)' = View(t)
  BY <1>1, RefreshViews
<1>5. ClosedInv'
  BY <1>1, <1>2, <1>4, ClosedStands
<1>6. PageInv'
  BY <1>1, <1>4, PageStands
<1>7. EditInv'
  BY <1>1, <1>2, EditStands
<1>8. LeftInv'
  <2>1. RefreshFrom(s, registered')
    BY <1>1
  <2>2. \A t \in Servers, p \in Paths :
           live[t][p].kind = "ok" /\ p \notin registered' => <<t, p>> \in left'
    BY <1>1 DEF LeftInv
  <2>3. QED
    BY <1>1, <2>1, <2>2, RefreshLeft
<1>9. QED
  BY <1>3, <1>4, <1>5, <1>6, <1>7, <1>8

LEMMA EndStep ==
    ASSUME IInv, NEW s \in Servers, Ends(s), UNCHANGED disk,
           NEW next \in {"closing", "gone"}, server' = [server EXCEPT ![s] = next],
           events' \in 0..MaxEvents,
           \/ claim' = claim /\ next = "gone"
           \/ claim' = None /\ server[s] \in {"starting", "serving"}
    PROVE  IInv'
<1> USE DEF IInv
<1>1. \A t \in Servers : server'[t] = IF t = s THEN next ELSE server[t]
  BY DEF TypeOK
<1>2. raced' = raced \ {s} /\ UNCHANGED <<registered, dir>>
  BY DEF Ends, disk
<1>3. TypeOK' /\ ClaimInv'
  BY <1>2, EndType, EndClaims
<1>4. /\ View(s)' = {} /\ ViewInv'
      /\ \A t \in Servers \ {s} : View(t)' = View(t)
  BY EndViews
<1>5. ClosedInv'
  BY <1>1, <1>2, <1>4, ClosedStands
<1>6. PageInv'
  BY <1>2, EndPages
<1>7. EditInv'
  BY <1>1, Ended, EditStands
<1>8. LeftInv'
  BY <1>2, EndLeft
<1>9. QED
  BY <1>3, <1>4, <1>5, <1>6, <1>7, <1>8

LEMMA EndsStep ==
    ASSUME IInv, NEW s \in Servers, PortTaken(s) \/ Signal(s) \/ Crash(s)
    PROVE  IInv'
<1>1. events \in 0..MaxEvents
  BY DEF IInv, TypeOK
<1>2. CASE PortTaken(s)
  BY <1>1, <1>2, EndStep DEF PortTaken
<1>3. CASE Signal(s)
  BY <1>1, <1>3, EndStep DEF Signal, Idle
<1>4. CASE Crash(s)
  <2>1. events' \in 0..MaxEvents
    BY <1>1, <1>4, ConstantsAssumption DEF Crash
  <2>2. QED
    BY <1>4, <2>1, EndStep DEF Crash
<1>5. QED
  BY <1>2, <1>3, <1>4

LEMMA ProgressStep ==
    ASSUME IInv, NEW s \in Servers, WriteClaim(s) \/ Stopped(s)
    PROVE  IInv'
<1> USE DEF IInv
<1>1. /\ \/ server[s] = "starting" /\ server' = [server EXCEPT ![s] = "serving"]
         \/ server[s] = "closing" /\ server' = [server EXCEPT ![s] = "gone"]
      /\ UNCHANGED <<disk, live, edit, forgotten, page, excused, raced, left>>
  BY DEF WriteClaim, Stopped
<1>2. \A t \in Servers : server'[t] \in {server[t], "serving", "gone"}
                         /\ (server[t] = "serving" => server'[t] = "serving")
  BY <1>1 DEF TypeOK
<1>3. TypeOK' /\ ClaimInv'
  <2>1. CASE WriteClaim(s)
    BY <2>1, WriteClaimType, WriteClaimClaims
  <2>2. CASE Stopped(s)
    BY <2>2, StoppedType, ProgressClaims DEF Stopped
  <2>3. QED
    BY <2>1, <2>2
<1>4. (\A t \in Servers : View(t)' = View(t)) /\ ViewInv'
  BY <1>1, SameViews
<1>5. ClosedInv'
  BY <1>1, <1>2, <1>4, ClosedStands
<1>6. PageInv'
  BY <1>1, <1>4, PageStands DEF disk
<1>7. EditInv'
  BY <1>1, <1>2, EditStands
<1>8. LooksSame
  BY <1>1 DEF LooksSame, TypeOK
<1>9. LeftInv'
  BY <1>1, <1>8, LooksLeft DEF disk
<1>10. QED
  BY <1>3, <1>4, <1>5, <1>6, <1>7, <1>9

\* Steps that leave the servers where they are.
LEMMA ClaimStands ==
    ASSUME ClaimInv, UNCHANGED <<claim, server, raced>>
    PROVE  ClaimInv'
BY DEF ClaimInv, Up, Serving

LEMMA ListStep ==
    ASSUME IInv, NEW s \in Servers, List(s) \/ Miss(s)
    PROVE  IInv'
<1> USE DEF IInv
<1>1. /\ server[s] = "serving" /\ edit[s] = None
      /\ RefreshFrom(s, registered) /\ registered \in SUBSET Paths
      /\ registered' = registered /\ UNCHANGED dir
      /\ UNCHANGED <<claim, server, edit, raced, left>>
  BY DEF List, Miss, Idle, TypeOK, disk
<1>2. TypeOK' /\ ClaimInv'
  BY <1>1, ListType, ClaimStands
<1>3. /\ View(s)' = registered /\ ViewInv'
      /\ \A t \in Servers \ {s} : View(t)' = View(t)
  BY <1>1, RefreshViews
<1>4. ClosedInv'
  BY <1>1, <1>3, ClosedStands
<1>5. PageInv'
  <2>1. CASE List(s)
    BY <2>1, ListPages
  <2>2. CASE Miss(s)
    <3>1. UNCHANGED <<page, excused>>
      BY <2>2 DEF Miss
    <3>2. QED
      BY <1>1, <1>3, <3>1, PageStands
  <2>3. QED
    BY <2>1, <2>2
<1>6. EditInv'
  <2>1. \A t \in Servers \ {s} : excused'[t] = excused[t]
    BY DEF List, Miss, TypeOK
  <2>2. QED
    BY <1>1, <2>1, EditStands
<1>7. LeftInv'
  <2>1. RefreshFrom(s, registered')
    BY <1>1
  <2>2. \A t \in Servers, p \in Paths :
           live[t][p].kind = "ok" /\ p \notin registered' => <<t, p>> \in left'
    BY <1>1 DEF LeftInv
  <2>3. QED
    BY <1>1, <2>1, <2>2, RefreshLeft
<1>8. QED
  BY <1>2, <1>3, <1>4, <1>5, <1>6, <1>7

\* What a reading of config.json leaves as it is.
LEMMA ReadAsStep ==
    ASSUME IInv, NEW e \in Servers \union Tools, NEW op \in {"add", "remove"},
           NEW path \in Paths, NEW wanted \in Paths, ReadAs(e, op, path, wanted),
           e \in Servers => server[e] = "serving",
           wanted = path \/ (e \in Servers /\ wanted \in excused[e])
    PROVE  IInv'
<1> USE DEF IInv
<1>1. UNCHANGED <<registered, claim, server, live, forgotten, page, excused, raced, left>>
  BY DEF ReadAs, Read
<1>2. TypeOK' /\ ClaimInv' /\ EditInv'
  BY <1>1, ReadAsType, ClaimStands, ReadAsEdits
<1>3. (\A t \in Servers : View(t)' = View(t)) /\ ViewInv'
  BY <1>1, SameViews
<1>4. ClosedInv' /\ PageInv'
  BY <1>1, <1>3, ClosedStands, PageStands
<1>5. LooksSame
  BY <1>1 DEF LooksSame, TypeOK
<1>6. \A p \in Paths : dir[p] # "bare" => dir'[p] # "bare"
  BY DEF ReadAs
<1>7. LeftInv'
  BY <1>1, <1>5, <1>6, LooksLeft
<1>8. QED
  BY <1>2, <1>3, <1>4, <1>7

LEMMA ReadToolStep ==
    ASSUME IInv, NEW e \in Tools, ReadTool(e)
    PROVE  IInv'
<1>1. PICK op \in {"add", "remove"}, p \in Paths : ReadAs(e, op, p, p)
  BY Readings DEF IInv
<1>2. e \notin Servers
  BY ConstantsAssumption
<1>3. QED
  BY <1>1, <1>2, ReadAsStep

LEMMA ReadServerStep ==
    ASSUME IInv, NEW s \in Servers, ReadAdd(s) \/ ReadRemove(s)
    PROVE  IInv'
<1>1. CASE ReadAdd(s)
  <2>1. PICK p \in Paths : ReadAs(s, "add", p, p)
    BY <1>1, Readings DEF IInv
  <2>2. server[s] = "serving"
    BY <1>1 DEF ReadAdd, Idle
  <2>3. QED
    BY <2>1, <2>2, ReadAsStep
<1>2. CASE ReadRemove(s)
  <2>1. PICK p \in Paths : page[s][p] # None /\
                \E q \in BySlug(s, page[s][p]) : ReadAs(s, "remove", q, p)
    BY <1>2, Readings DEF IInv
  <2>2. PICK q \in BySlug(s, page[s][p]) : ReadAs(s, "remove", q, p)
    BY <2>1
  <2>3. q \in Paths
    BY DEF BySlug
  <2>4. p \notin excused[s] => q = p
    BY <2>1, <2>2, LinkIsOwn DEF IInv
  <2>5. server[s] = "serving"
    BY <1>2 DEF ReadRemove, Idle
  <2>6. QED
    BY <2>2, <2>3, <2>4, <2>5, ReadAsStep
<1>3. QED
  BY <1>1, <1>2

\* A change is written: who has left, and what becomes of the others' edits.
LEMMA WriteLeaves ==
    ASSUME TypeOK, EditInv, NEW e \in Servers \union Tools, Write(e)
    PROVE  /\ left \subseteq left'
           /\ \A t \in Servers, p \in Paths :
                 live[t][p].kind = "ok" /\ p \notin registered' => <<t, p>> \in left'
           /\ EditInv'
<1>1. /\ left \subseteq left'
      /\ \A t \in Servers, p \in Paths :
            live[t][p].kind = "ok" /\ p \notin registered' => <<t, p>> \in left'
  BY DEF Write, Away
<1>2. \A f \in Servers \union Tools : edit'[f] # None => edit'[f] = edit[f]
  BY DEF Write, TypeOK
<1>3. server' = server /\ \A t \in Servers : excused[t] \subseteq excused'[t]
  BY DEF Write
<1>4. EditInv'
  BY <1>2, <1>3, EditStands
<1>5. QED
  BY <1>1, <1>4

LEMMA WriteToolStep ==
    ASSUME IInv, NEW e \in Tools, WriteTool(e)
    PROVE  IInv'
<1> USE DEF IInv
<1>1. Write(e) /\ UNCHANGED <<live, forgotten, owed>>
  BY DEF WriteTool
<1>2. UNCHANGED <<dir, claim, server, page, raced>>
  BY <1>1, WrittenType
<1>3. TypeOK' /\ ClaimInv'
  BY <1>2, WriteToolType, ClaimStands
<1>4. (\A t \in Servers : View(t)' = View(t)) /\ ViewInv'
  BY <1>1, SameViews
<1>5. ClosedInv'
  BY <1>2, <1>4, ClosedStands
<1>6. PageInv'
  BY <1>1, <1>4, WritePages
<1>7. LooksSame
  BY <1>1 DEF LooksSame, TypeOK
<1>8. EditInv' /\ LeftInv'
  BY <1>1, <1>2, <1>7, WriteLeaves, LooksLeft
<1>9. QED
  BY <1>3, <1>4, <1>5, <1>6, <1>8

LEMMA WriteServerStep ==
    ASSUME IInv, NEW s \in Servers, WriteServer(s)
    PROVE  IInv'
<1> USE DEF IInv
<1>1. Write(s) /\ RefreshFrom(s, registered')
  BY DEF WriteServer
<1>2. registered' \in SUBSET Paths /\ UNCHANGED <<dir, claim, server, page, raced>>
  BY <1>1, WrittenType
<1>3. TypeOK' /\ ClaimInv'
  BY <1>2, WriteServerType, ClaimStands
<1>4. /\ View(s)' = registered' /\ ViewInv'
      /\ \A t \in Servers \ {s} : View(t)' = View(t)
  BY <1>1, <1>2, RefreshViews
<1>5. server[s] = "serving"
  BY <1>1 DEF EditInv, Write
<1>6. ClosedInv'
  BY <1>2, <1>4, <1>5, ClosedStands
<1>7. PageInv'
  BY <1>1, <1>4, WritePages
<1>8. EditInv' /\ LeftInv'
  BY <1>1, <1>2, WriteLeaves, RefreshLeft
<1>9. QED
  BY <1>3, <1>4, <1>6, <1>7, <1>8

\* The directories, the watches and the runs: what is in view looks the same.
LEMMA LooksStep ==
    ASSUME IInv, TypeOK', LooksSame,
           UNCHANGED <<registered, claim, server, edit, page, excused, raced>>,
           left \subseteq left', forgotten' \subseteq forgotten,
           \A p \in Paths : dir'[p] = "bare" /\ dir[p] # "bare" =>
              \A s \in Servers : live[s][p].kind = "ok" => <<s, p>> \in left'
    PROVE  IInv'
<1> USE DEF IInv
<1>1. (\A t \in Servers : View(t)' = View(t)) /\ ViewInv'
  BY LooksViews
<1>2. ClaimInv' /\ ClosedInv' /\ PageInv' /\ EditInv'
  BY <1>1, ClaimStands, ClosedStands, PageStands, EditStands
<1>3. LeftInv'
  BY LooksLeft
<1>4. QED
  BY <1>1, <1>2, <1>3

LEMMA WorldStep ==
    ASSUME IInv,
           Change \/ \E s \in Servers, p \in Paths : Watch(s, p) \/ RunStep(s, p)
    PROVE  IInv'
<1> USE DEF IInv
<1>1. CASE Change
  <2>1. UNCHANGED <<registered, claim, server, edit, forgotten, page, excused, raced>>
    BY <1>1 DEF Change
  <2>2. QED
    BY <1>1, <2>1, ChangeType, ChangeLooks, LooksStep
<1>2. ASSUME NEW s \in Servers, NEW p \in Paths, Watch(s, p)
      PROVE  IInv'
  <2>1. UNCHANGED <<disk, claim, server, edit, forgotten, page, excused, raced, left>>
    BY <1>2 DEF Watch
  <2>2. QED
    BY <1>2, <2>1, WatchType, WatchLooks, LooksStep DEF disk
<1>3. ASSUME NEW s \in Servers, NEW p \in Paths, RunStep(s, p)
      PROVE  IInv'
  <2>1. UNCHANGED <<disk, claim, server, edit, page, excused, raced, left>>
    BY <1>3 DEF RunStep
  <2>2. QED
    BY <1>3, <2>1, RunStepType, RunStepLooks, LooksStep DEF disk
<1>4. QED
  BY <1>1, <1>2, <1>3

LEMMA InvStutter ==
    ASSUME IInv, UNCHANGED vars
    PROVE  IInv'
<1> USE DEF IInv
<1>1. /\ UNCHANGED <<registered, claim, server, edit, page, excused, raced, left>>
      /\ UNCHANGED <<dir, born, live, forgotten, owed, events>>
  BY DEF vars, disk
<1>2. TypeOK'
  BY <1>1 DEF TypeOK, Alive
<1>3. LooksSame
  BY <1>1 DEF LooksSame, TypeOK
<1>4. QED
  BY <1>1, <1>2, <1>3, LooksStep

LEMMA InvNext ==
    ASSUME IInv, [Next]_vars
    PROVE  IInv'
<1>1. ASSUME NEW s \in Servers, ServerStep(s)
      PROVE  IInv'
  BY <1>1, ClassifyStep, ListenStep, EndsStep, ProgressStep, ListStep, ReadServerStep,
     WriteServerStep DEF ServerStep
<1>2. ASSUME NEW e \in Tools, ReadTool(e) \/ WriteTool(e)
      PROVE  IInv'
  BY <1>2, ReadToolStep, WriteToolStep
<1>3. QED
  BY <1>1, <1>2, WorldStep, InvStutter DEF Next

\* The inductive invariant holds whatever happens.
THEOREM ProjectsSound == Spec => []IInv
<1>1. Init => IInv
  BY InitInv
<1>2. IInv /\ [Next]_vars => IInv'
  BY InvNext
<1>3. QED
  BY <1>1, <1>2, PTL DEF Spec

-----------------------------------------------------------------------------
\* Every variable has its type; a project has a watch when its dispatcher is
\* there, and nothing is held for a server that has ended (ProjectRegistry.ts).
THEOREM TypeCorrect == Spec => []TypeOK
<1>1. IInv => TypeOK
  BY DEF IInv
<1>2. QED
  BY <1>1, ProjectsSound, PTL

\* Unless starts overlapped, at most one server serves, the claim names it, and
\* a start is turned away only when there is one (Start.ts, ClaimFile.ts).
THEOREM ClaimFinds == Spec => []ClaimFindsServer
<1>1. IInv => ClaimFindsServer
  <2> SUFFICES ASSUME IInv, raced = {}
               PROVE  /\ Serving \subseteq {claim}
                      /\ Held(claim) => claim \in Serving
    BY DEF ClaimFindsServer
  <2>1. Serving \subseteq {claim}
    BY DEF IInv, ClaimInv
  <2>2. Held(claim) => claim \in Serving
    BY DEF IInv, ClaimInv, Held, Alive, Serving
  <2>3. QED
    BY <2>1, <2>2
<1>2. QED
  BY <1>1, ProjectsSound, PTL

\* A listed project stays registered and its links lead to it or to nobody,
\* until its removal is asked for or two changes of config.json overlap; and a
\* run keeps the dispatcher that guards it while its project stays
\* (ProjectRegistry.ts, MachineConfig.ts).
THEOREM ProjectsStandFast == Spec => []ProjectsStand
<1>1. IInv => ListedIsReached
  <2>1. SUFFICES ASSUME IInv, NEW s \in Serving, NEW p \in Paths,
                        page[s][p] # None, p \notin excused[s]
                 PROVE  /\ p \in registered
                        /\ Reached(s, page[s][p]) \subseteq {p}
                        /\ Slug(registered, p) = page[s][p] => Reached(s, page[s][p]) = {p}
    BY DEF ListedIsReached
  <2>2. s \in Servers
    BY DEF Serving
  <2>3. p \in registered /\ page[s][p] \in {Base[p], p} /\ registered \in SUBSET Paths
    BY <2>1, <2>2 DEF IInv, PageInv, TypeOK
  <2>4. BySlug(s, page[s][p]) \subseteq {p}
    BY <2>1, <2>2, LinkIsOwn DEF IInv
  <2> DEFINE named == {q \in registered : Slug(registered, q) = page[s][p]}
  <2>5. named \subseteq {p}
    BY <2>3, SlugsDiffer
  <2>6. Slug(registered, p) = page[s][p] => p \in named
    BY <2>3
  <2>7. Reached(s, page[s][p]) = IF BySlug(s, page[s][p]) # {}
                                 THEN BySlug(s, page[s][p]) ELSE named
    BY DEF Reached
  <2> HIDE DEF named
  <2>8. QED
    BY <2>3, <2>4, <2>5, <2>6, <2>7
<1>2. IInv => RunsAreGuarded
  BY DEF IInv, LeftInv, RunsAreGuarded
<1>3. IInv => ProjectsStand
  BY <1>1, <1>2 DEF ProjectsStand
<1>4. QED
  BY <1>3, ProjectsSound, PTL
-----------------------------------------------------------------------------
(***************************************************************************)
(* The index (StudioIndex), which a server rebuilds for every request that *)
(* it answers from it.                                                     *)
(***************************************************************************)
\* What a request reads is a whole rebuild, no older than the request unless it
\* opened what another process had renamed there.
Current(r, d) ==
    /\ d.holds = "rows" /\ d.events <= d.runs
    /\ r \notin swapped => d.identity >= asked[r].files /\ d.events >= asked[r].lines

Busy(r) == step[r] \notin {"new", "waiting", "over"}

\* The queue of a process has each of its open requests once, and all but the
\* first of them wait.
LockInv ==
    /\ \A p \in Processes : \A i \in 1..Len(queue[p]) :
          /\ Of[queue[p][i]] = p
          /\ step[queue[p][i]] \notin {"new", "over"}
          /\ i # 1 => step[queue[p][i]] = "waiting"
          /\ \A j \in 1..Len(queue[p]) : queue[p][i] = queue[p][j] => i = j
    /\ \A r \in Requests : step[r] \notin {"new", "over"} =>
          \E i \in 1..Len(queue[Of[r]]) : queue[Of[r]][i] = r
    /\ \A r \in Requests : handle[r] # Absent => Busy(r)

\* What has been read so far covers what had been written when the request
\* came in.
Covers(r) ==
    /\ asked[r].files <= files /\ asked[r].lines <= lines
    /\ step[r] \in {"scan", "journal", "runs", "rename"} => rebuilds[r] >= 1
    /\ step[r] \in {"journal", "runs", "rename"} => temp[r].identity >= asked[r].files
    /\ step[r] = "runs" => temp[r].events <= lines
    /\ step[r] \in {"runs", "rename"} => temp[r].events >= asked[r].lines
    /\ step[r] = "rename" => temp[r].holds = "rows" /\ temp[r].events <= temp[r].runs
    /\ step[r] = "reopen" => Current(r, db)
    /\ step[r] = "query" => Current(r, handle[r])
    /\ step[r] = "served" => Current(r, result[r])

ReadInv == lines <= files /\ \A r \in Requests : Covers(r)

IndexInv == IndexTypeOK /\ LockInv /\ ReadInv
-----------------------------------------------------------------------------
LEMMA QueueTypes ==
    ASSUME IndexTypeOK, NEW r \in Requests
    PROVE  Of[r] \in Processes /\ queue[Of[r]] \in Seq(Requests)
BY IndexConstants DEF IndexTypeOK

LEMMA CountTypes ==
    ASSUME IndexTypeOK
    PROVE  /\ files \in 0..MaxWrites /\ lines \in 0..MaxWrites /\ db \in Database
           /\ files \in Int /\ lines \in Int /\ lines <= files
BY IndexConstants DEF IndexTypeOK

LEMMA RequestTypes ==
    ASSUME IndexTypeOK, NEW r \in Requests
    PROVE  /\ temp[r] \in Database /\ handle[r] \in Database /\ result[r] \in Database
           /\ asked[r] \in [files : 0..MaxWrites, lines : 0..MaxWrites]
           /\ asked[r].files \in Int /\ asked[r].lines \in Int
           /\ temp[r].events \in Int /\ temp[r].identity \in Int /\ temp[r].runs \in Int
           /\ step[r] \in Steps /\ rebuilds[r] \in 0..2
<1>1. temp[r] \in Database /\ handle[r] \in Database /\ result[r] \in Database
  BY DEF IndexTypeOK
<1>2. asked[r] \in [files : 0..MaxWrites, lines : 0..MaxWrites]
  BY DEF IndexTypeOK
<1>3. asked[r].files \in Int /\ asked[r].lines \in Int
  BY <1>2
<1>4. temp[r].events \in Int /\ temp[r].identity \in Int /\ temp[r].runs \in Int
  BY <1>1 DEF Database
<1>5. QED
  BY <1>1, <1>2, <1>3, <1>4 DEF IndexTypeOK

\* Who does something has the lock, ...
LEMMA BusyIsFirst ==
    ASSUME IndexTypeOK, LockInv, NEW r \in Requests, Busy(r)
    PROVE  /\ Len(queue[Of[r]]) >= 1 /\ queue[Of[r]][1] = r
           /\ \A i \in 1..Len(queue[Of[r]]) : queue[Of[r]][i] = r => i = 1
<1>1. PICK i \in 1..Len(queue[Of[r]]) : queue[Of[r]][i] = r
  BY DEF LockInv, Busy
<1>2. i = 1
  BY <1>1, QueueTypes DEF LockInv, Busy
<1>3. Len(queue[Of[r]]) \in Nat
  BY QueueTypes
<1>4. QED
  BY <1>1, <1>2, <1>3, QueueTypes DEF LockInv

\* ... so that there is one in each process.
LEMMA OneIsBusy ==
    ASSUME IndexTypeOK, LockInv, NEW q \in Requests, NEW r \in Requests,
           Busy(q), Busy(r), Of[q] = Of[r]
    PROVE  q = r
BY BusyIsFirst

\* The first of those that wait, when it has the lock.
LEMMA FirstHasLock ==
    ASSUME IndexTypeOK, LockInv, NEW r \in Requests, step[r] = "waiting", HasLock(r)
    PROVE  /\ Len(queue[Of[r]]) >= 1 /\ queue[Of[r]][1] = r
           /\ \A i \in 1..Len(queue[Of[r]]) : queue[Of[r]][i] = r => i = 1
<1>1. PICK i \in 1..Len(queue[Of[r]]) : queue[Of[r]][i] = r
  BY DEF LockInv
<1>2. queue[Of[r]] \in Seq(Requests) /\ Of[r] \in Processes
  BY QueueTypes
<1>3. queue[Of[r]][1] = r /\ Len(queue[Of[r]]) >= 1 /\ 1 \in 1..Len(queue[Of[r]])
  BY <1>1, <1>2 DEF HasLock
<1>4. QED
  BY <1>2, <1>3 DEF LockInv

\* The holder of a lock goes on and keeps it.
LEMMA HolderKeepsLock ==
    ASSUME IndexTypeOK, LockInv, NEW r \in Requests,
           Busy(r) \/ (step[r] = "waiting" /\ HasLock(r)),
           NEW s \in Steps \ {"new", "waiting", "over"},
           step' = [step EXCEPT ![r] = s], UNCHANGED queue,
           \A q \in Requests : q # r => handle'[q] = handle[q]
    PROVE  LockInv'
<1>1. \A i \in 1..Len(queue[Of[r]]) : queue[Of[r]][i] = r => i = 1
  BY BusyIsFirst, FirstHasLock
<1>2. \A q \in Requests : step'[q] = IF q = r THEN s ELSE step[q]
  BY DEF IndexTypeOK
<1>3. \A p \in Processes : \A i \in 1..Len(queue[p]) :
          /\ Of[queue[p][i]] = p
          /\ step'[queue[p][i]] \notin {"new", "over"}
          /\ i # 1 => step'[queue[p][i]] = "waiting"
          /\ \A j \in 1..Len(queue[p]) : queue[p][i] = queue[p][j] => i = j
  <2> SUFFICES ASSUME NEW p \in Processes, NEW i \in 1..Len(queue[p])
               PROVE  /\ Of[queue[p][i]] = p
                      /\ step'[queue[p][i]] \notin {"new", "over"}
                      /\ i # 1 => step'[queue[p][i]] = "waiting"
                      /\ \A j \in 1..Len(queue[p]) : queue[p][i] = queue[p][j] => i = j
    OBVIOUS
  <2>1. queue[p][i] \in Requests
    BY DEF IndexTypeOK
  <2>2. /\ Of[queue[p][i]] = p
        /\ step[queue[p][i]] \notin {"new", "over"}
        /\ i # 1 => step[queue[p][i]] = "waiting"
        /\ \A j \in 1..Len(queue[p]) : queue[p][i] = queue[p][j] => i = j
    BY DEF LockInv
  <2>3. CASE queue[p][i] = r
    BY <1>1, <1>2, <2>2, <2>3
  <2>4. CASE queue[p][i] # r
    BY <1>2, <2>1, <2>2, <2>4
  <2>5. QED
    BY <2>3, <2>4
<1>4. \A q \in Requests : step'[q] \notin {"new", "over"} =>
          \E i \in 1..Len(queue[Of[q]]) : queue[Of[q]][i] = q
  <2>1. step[r] \notin {"new", "over"}
    BY DEF Busy
  <2>2. QED
    BY <1>2, <2>1 DEF LockInv
<1>5. \A q \in Requests : handle'[q] # Absent => Busy(q)'
  BY <1>2 DEF LockInv, Busy
<1>6. QED
  BY <1>3, <1>4, <1>5 DEF LockInv

\* A step of one request, or of the doors, leaves what another has read as good
\* as it was, whatever is renamed meanwhile.
LEMMA OthersCovered ==
    ASSUME IndexTypeOK, ReadInv, files' \in Int, lines' \in Int, NEW q \in Requests,
           step'[q] = step[q], rebuilds'[q] = rebuilds[q], temp'[q] = temp[q],
           handle'[q] = handle[q], result'[q] = result[q], asked'[q] = asked[q],
           q \in swapped => q \in swapped', files <= files', lines <= lines',
           step[q] = "reopen" =>
              \/ db' = db
              \/ q \in swapped' /\ db'.holds = "rows" /\ db'.events <= db'.runs
    PROVE  Covers(q)'
<1>1. /\ files \in Int /\ lines \in Int /\ files' \in Int /\ lines' \in Int
      /\ asked[q].files \in Int /\ asked[q].lines \in Int /\ temp[q].events \in Int
  BY RequestTypes, CountTypes
<1>2. Covers(q)
  BY DEF ReadInv
<1>3. (step[q] = "reopen" => Current(q, db)') /\ (step[q] = "query" => Current(q, handle[q])')
      /\ (step[q] = "served" => Current(q, result[q])')
  BY <1>2 DEF Covers, Current
<1>4. QED
  BY <1>1, <1>2, <1>3 DEF Covers, Current

\* The doors.
LEMMA WritesKeep ==
    ASSUME IndexInv, WriteFile \/ AppendLine
    PROVE  IndexInv'
<1> USE DEF IndexInv
<1>1. /\ UNCHANGED <<db, queue, step, rebuilds, temp, handle, result, asked, swapped, replaced,
                     crashes>>
      /\ \/ files' = files + 1 /\ lines' = lines /\ files < MaxWrites
         \/ lines' = lines + 1 /\ files' = files /\ lines < files
  BY DEF WriteFile, AppendLine, request
<1>2. /\ files' \in 0..MaxWrites /\ lines' \in 0..files'
      /\ lines' \in Int /\ files' \in Int /\ files <= files' /\ lines <= lines'
  BY <1>1, IndexConstants DEF IndexTypeOK
<1>3. IndexTypeOK'
  BY <1>1, <1>2 DEF IndexTypeOK
<1>4. LockInv'
  BY <1>1 DEF LockInv, Busy
<1>5. \A q \in Requests : Covers(q)'
  BY <1>1, <1>2, OthersCovered
<1>6. QED
  BY <1>2, <1>3, <1>4, <1>5 DEF ReadInv

\* A request takes the last place of its process's queue.
LEMMA ArriveKeeps ==
    ASSUME IndexInv, NEW r \in Requests, Arrive(r)
    PROVE  IndexInv'
<1> USE DEF IndexInv
<1> DEFINE p0 == Of[r]
           old == queue[p0]
<1>1. /\ step[r] = "new"
      /\ UNCHANGED <<files, lines, db, rebuilds, temp, handle, result, swapped, replaced,
                     crashes>>
  BY DEF Arrive
<1>2. /\ old \in Seq(Requests) /\ p0 \in Processes /\ Len(old) \in Nat
  BY QueueTypes
<1>3. /\ queue'[p0] = Append(old, r)
      /\ \A p \in Processes : p # p0 => queue'[p] = queue[p]
      /\ queue' \in [Processes -> Seq(Requests)]
  BY <1>2 DEF Arrive, IndexTypeOK
<1>4. /\ Len(queue'[p0]) = Len(old) + 1 /\ queue'[p0][Len(old) + 1] = r
      /\ \A i \in 1..Len(old) : queue'[p0][i] = old[i]
  BY <1>2, <1>3
<1>5. /\ \A q \in Requests : step'[q] = IF q = r THEN "waiting" ELSE step[q]
      /\ step' \in [Requests -> Steps]
  BY DEF Arrive, IndexTypeOK, Steps
<1>6. /\ \A q \in Requests : asked'[q] = IF q = r THEN [files |-> files, lines |-> lines]
                                         ELSE asked[q]
      /\ asked' \in [Requests -> [files : 0..MaxWrites, lines : 0..MaxWrites]]
  <2>1. [files |-> files, lines |-> lines] \in [files : 0..MaxWrites, lines : 0..MaxWrites]
    BY CountTypes
  <2>2. QED
    BY <2>1 DEF Arrive, IndexTypeOK
<1>7. IndexTypeOK'
  BY <1>1, <1>3, <1>5, <1>6 DEF IndexTypeOK
<1> HIDE DEF p0, old
<1>8. \A i \in 1..Len(old) : old[i] \in Requests /\ old[i] # r
  <2>1. old = queue[p0]
    BY DEF old
  <2>2. \A i \in 1..Len(old) : step[old[i]] # "new"
    BY <1>2, <2>1 DEF LockInv
  <2>3. QED
    BY <1>1, <1>2, <2>2
<1>9. LockInv'
  <2>1. ASSUME NEW p \in Processes, NEW i \in 1..Len(queue'[p])
        PROVE  /\ Of[queue'[p][i]] = p
               /\ step'[queue'[p][i]] \notin {"new", "over"}
               /\ i # 1 => step'[queue'[p][i]] = "waiting"
               /\ \A j \in 1..Len(queue'[p]) : queue'[p][i] = queue'[p][j] => i = j
    <3>1. CASE p # p0
      <4>1. /\ Of[queue[p][i]] = p
            /\ step[queue[p][i]] \notin {"new", "over"}
            /\ i # 1 => step[queue[p][i]] = "waiting"
            /\ \A j \in 1..Len(queue[p]) : queue[p][i] = queue[p][j] => i = j
        BY <1>3, <2>1, <3>1 DEF LockInv
      <4>2. queue[p][i] \in Requests /\ queue'[p] = queue[p]
        BY <1>3, <2>1, <3>1 DEF IndexTypeOK
      <4>3. QED
        BY <1>1, <1>5, <4>1, <4>2
    <3>2. CASE p = p0 /\ i \in 1..Len(old)
      <4>1. /\ Of[old[i]] = p
            /\ step[old[i]] \notin {"new", "over"}
            /\ i # 1 => step[old[i]] = "waiting"
            /\ \A j \in 1..Len(old) : old[i] = old[j] => i = j
        BY <3>2 DEF LockInv, old
      <4>2. \A j \in 1..Len(queue'[p0]) : old[i] = queue'[p0][j] => i = j
        BY <1>2, <1>4, <1>8, <3>2, <4>1
      <4>3. QED
        BY <1>4, <1>5, <1>8, <3>2, <4>1, <4>2
    <3>3. CASE p = p0 /\ i = Len(old) + 1
      <4>1. queue'[p0][i] = r /\ Of[r] = p0
        BY <1>4, <3>3 DEF p0
      <4>2. \A j \in 1..Len(queue'[p0]) : r = queue'[p0][j] => i = j
        BY <1>2, <1>4, <1>8, <3>3
      <4>3. QED
        BY <1>5, <3>3, <4>1, <4>2
    <3>4. QED
      BY <1>2, <1>4, <2>1, <3>1, <3>2, <3>3
  <2>2. ASSUME NEW q \in Requests, step'[q] \notin {"new", "over"}
        PROVE  \E i \in 1..Len(queue'[Of[q]]) : queue'[Of[q]][i] = q
    <3>1. CASE q = r
      <4>1. Of[q] = p0 /\ Len(old) + 1 \in 1..Len(queue'[p0])
        BY <1>2, <1>4, <3>1 DEF p0
      <4>2. QED
        BY <1>4, <3>1, <4>1
    <3>2. CASE q # r
      <4>1. PICK i \in 1..Len(queue[Of[q]]) : queue[Of[q]][i] = q
        BY <1>5, <2>2, <3>2 DEF LockInv
      <4>2. CASE Of[q] = p0
        BY <1>2, <1>4, <4>1, <4>2 DEF old
      <4>3. CASE Of[q] # p0
        BY <1>3, <4>1, <4>3, QueueTypes
      <4>4. QED
        BY <4>2, <4>3
    <3>3. QED
      BY <3>1, <3>2
  <2>3. \A q \in Requests : handle'[q] # Absent => Busy(q)'
    BY <1>1, <1>5 DEF LockInv, Busy
  <2>4. QED
    BY <2>1, <2>2, <2>3 DEF LockInv
<1>10. \A q \in Requests : Covers(q)'
  <2>1. ASSUME NEW q \in Requests, q # r
        PROVE  Covers(q)'
    BY <1>1, <1>5, <1>6, <2>1, OthersCovered, CountTypes
  <2>2. Covers(r)'
    BY <1>1, <1>5, <1>6, CountTypes DEF Covers
  <2>3. QED
    BY <2>1, <2>2
<1>11. QED
  BY <1>1, <1>7, <1>9, <1>10, CountTypes DEF ReadInv

\* The first of a queue opens the database, ...
LEMMA OpenKeeps ==
    ASSUME IndexInv, NEW r \in Requests, OpenDatabase(r)
    PROVE  IndexInv'
<1> USE DEF IndexInv
<1>1. PICK opened \in Database, n \in 1..2 :
         /\ opened = IF db.holds # "absent" THEN db ELSE Schema
         /\ db' = opened
         /\ handle' = [handle EXCEPT ![r] = opened]
         /\ rebuilds' = [rebuilds EXCEPT ![r] = n]
         /\ step' = [step EXCEPT ![r] = "scan"]
  <2> DEFINE existed == db.holds # "absent"
             opened == IF existed THEN db ELSE Schema
  <2>1. opened \in Database
    BY CountTypes, IndexConstants DEF Schema, Absent, Database
  <2>2. Rebuilds(existed) \in 1..2 /\ Rebuilds(existed) # 0
    BY DEF Rebuilds
  <2>3. /\ db' = opened
        /\ handle' = [handle EXCEPT ![r] = opened]
        /\ rebuilds' = [rebuilds EXCEPT ![r] = Rebuilds(existed)]
        /\ step' = [step EXCEPT ![r] = IF Rebuilds(existed) = 0 THEN "query" ELSE "scan"]
    BY Zenon DEF OpenDatabase
  <2>4. step' = [step EXCEPT ![r] = "scan"]
    BY <2>2, <2>3
  <2>5. opened = IF db.holds # "absent" THEN db ELSE Schema
    OBVIOUS
  <2> HIDE DEF opened, existed
  <2>6. QED
    BY <2>1, <2>2, <2>3, <2>4, <2>5
<1>2. /\ step[r] = "waiting" /\ HasLock(r)
      /\ UNCHANGED <<files, lines, queue, temp, result, asked, swapped, replaced, crashes>>
  BY DEF OpenDatabase
<1>3. /\ \A q \in Requests : q # r => /\ handle'[q] = handle[q] /\ rebuilds'[q] = rebuilds[q]
                                      /\ step'[q] = step[q]
      /\ step'[r] = "scan" /\ rebuilds'[r] >= 1
  BY <1>1 DEF IndexTypeOK
<1>4. IndexTypeOK'
  <2>1. /\ handle' \in [Requests -> Database] /\ rebuilds' \in [Requests -> 0..2]
        /\ step' \in [Requests -> Steps]
    BY <1>1 DEF IndexTypeOK, Steps
  <2>2. QED
    BY <1>1, <1>2, <2>1 DEF IndexTypeOK
<1>5. LockInv'
  BY <1>1, <1>2, <1>3, HolderKeepsLock DEF Steps
<1>6. \A q \in Requests : Covers(q)'
  <2>1. \A q \in Requests : step[q] = "reopen" => db' = db
    BY <1>1 DEF ReadInv, Covers, Current
  <2>2. ASSUME NEW q \in Requests, q # r
        PROVE  Covers(q)'
    BY <1>2, <1>3, <2>1, <2>2, OthersCovered, CountTypes
  <2>3. Covers(r)'
    BY <1>2, <1>3 DEF ReadInv, Covers
  <2>4. QED
    BY <2>2, <2>3
<1>7. QED
  BY <1>2, <1>4, <1>5, <1>6 DEF ReadInv

\* ... reads, ...
LEMMA ReadsKeep ==
    ASSUME IndexInv, NEW r \in Requests,
           scanBundleIdentities(r) \/ ReadJournal(r) \/ ReadRuns(r)
    PROVE  IndexInv'
<1> USE DEF IndexInv
<1>1. PICK holding, next :
         /\ temp' = [temp EXCEPT ![r] = holding]
         /\ step' = [step EXCEPT ![r] = next]
         /\ \/ step[r] = "scan" /\ next = "journal"
               /\ holding = [Absent EXCEPT !.identity = files]
            \/ step[r] = "journal" /\ next = "runs"
               /\ holding = [temp[r] EXCEPT !.events = lines]
            \/ step[r] = "runs" /\ next = "rename"
               /\ holding = [temp[r] EXCEPT !.runs = files, !.holds = "rows"]
  BY DEF scanBundleIdentities, ReadJournal, ReadRuns, ReadStep
<1>2. UNCHANGED <<files, lines, db, queue, rebuilds, handle, result, asked, swapped,
                  replaced, crashes>>
  BY DEF scanBundleIdentities, ReadJournal, ReadRuns, ReadStep
<1>3. holding \in Database /\ next \in Steps \ {"new", "waiting", "over"}
  <2>1. Absent \in Database
    BY IndexConstants DEF Absent, Database
  <2>2. holding \in Database
    BY <1>1, <2>1, CountTypes, RequestTypes DEF Database
  <2>3. QED
    BY <1>1, <2>2 DEF Steps
<1>4. /\ \A q \in Requests : q # r => temp'[q] = temp[q] /\ step'[q] = step[q]
      /\ step'[r] = next /\ temp'[r] = holding
  BY <1>1 DEF IndexTypeOK
<1>5. IndexTypeOK'
  <2>1. temp' \in [Requests -> Database] /\ step' \in [Requests -> Steps]
    BY <1>1, <1>3 DEF IndexTypeOK
  <2>2. QED
    BY <1>2, <2>1 DEF IndexTypeOK
<1>6. LockInv'
  <2>1. Busy(r)
    BY <1>1 DEF Busy
  <2>2. QED
    BY <1>1, <1>2, <1>3, <2>1, HolderKeepsLock
<1>7. \A q \in Requests : Covers(q)'
  <2>1. ASSUME NEW q \in Requests, q # r
        PROVE  Covers(q)'
    BY <1>2, <1>4, <2>1, OthersCovered, CountTypes
  <2>2. Covers(r)'
    <3>1. Covers(r)
      BY DEF ReadInv
    <3>2. CASE step[r] = "scan"
      <4>1. next = "journal" /\ holding.identity = files
        BY <1>1, <3>2 DEF Absent
      <4>2. QED
        BY <1>2, <1>4, <3>1, <3>2, <4>1 DEF Covers
    <3>3. CASE step[r] = "journal"
      <4>1. next = "runs" /\ holding.identity = temp[r].identity /\ holding.events = lines
        BY <1>1, <3>3, RequestTypes DEF Database
      <4>2. QED
        BY <1>2, <1>4, <3>1, <3>3, <4>1, CountTypes DEF Covers
    <3>4. CASE step[r] = "runs"
      <4>1. /\ next = "rename" /\ holding.identity = temp[r].identity
            /\ holding.events = temp[r].events /\ holding.runs = files /\ holding.holds = "rows"
        BY <1>1, <3>4, RequestTypes DEF Database
      <4>2. temp[r].events <= files
        BY <3>1, <3>4, CountTypes, RequestTypes DEF Covers
      <4>3. QED
        BY <1>2, <1>4, <3>1, <3>4, <4>1, <4>2 DEF Covers
    <3>5. QED
      BY <1>1, <3>2, <3>3, <3>4
  <2>3. QED
    BY <2>1, <2>2
<1>8. QED
  BY <1>2, <1>5, <1>6, <1>7 DEF ReadInv

\* ... renames what it has made over what is there, so that whoever was about
\* to reopen finds it in place of its own, ...
LEMMA RenameKeeps ==
    ASSUME IndexInv, NEW r \in Requests, RenameOver(r)
    PROVE  IndexInv'
<1> USE DEF IndexInv
<1>1. /\ step[r] = "rename" /\ db' = temp[r]
      /\ handle' = [handle EXCEPT ![r] = Absent]
      /\ temp' = [temp EXCEPT ![r] = Absent]
      /\ rebuilds' = [rebuilds EXCEPT ![r] = rebuilds[r] - 1]
      /\ replaced' \subseteq Requests
      /\ swapped' = (swapped \ {r}) \union {q \in Requests : step[q] = "reopen"}
      /\ step' = [step EXCEPT ![r] = "reopen"]
      /\ UNCHANGED <<files, lines, queue, result, asked, crashes>>
  BY DEF RenameOver
<1>2. Covers(r) /\ rebuilds[r] - 1 \in 0..2 /\ Absent \in Database
  <2>1. Covers(r)
    BY DEF ReadInv
  <2>2. rebuilds[r] >= 1 /\ rebuilds[r] \in 0..2
    BY <1>1, <2>1, RequestTypes DEF Covers
  <2>3. QED
    BY <2>1, <2>2, IndexConstants DEF Absent, Database
<1>3. IndexTypeOK'
  <2>1. /\ handle' \in [Requests -> Database] /\ temp' \in [Requests -> Database]
        /\ rebuilds' \in [Requests -> 0..2] /\ step' \in [Requests -> Steps]
        /\ db' \in Database /\ swapped' \subseteq Requests
    BY <1>1, <1>2, RequestTypes DEF IndexTypeOK, Steps
  <2>2. QED
    BY <1>1, <2>1 DEF IndexTypeOK
<1>4. \A q \in Requests : q # r => /\ handle'[q] = handle[q] /\ temp'[q] = temp[q]
                                   /\ rebuilds'[q] = rebuilds[q] /\ step'[q] = step[q]
  BY <1>1 DEF IndexTypeOK
<1>5. LockInv'
  <2>1. Busy(r)
    BY <1>1 DEF Busy
  <2>2. QED
    BY <1>1, <1>4, <2>1, HolderKeepsLock DEF Steps
<1>6. \A q \in Requests : Covers(q)'
  <2>1. db'.holds = "rows" /\ db'.events <= db'.runs
    BY <1>1, <1>2 DEF Covers
  <2>2. ASSUME NEW q \in Requests, q # r
        PROVE  Covers(q)'
    BY <1>1, <1>4, <2>1, <2>2, OthersCovered, CountTypes
  <2>3. Covers(r)'
    <3>1. step'[r] = "reopen"
      BY <1>1 DEF IndexTypeOK
    <3>2. Current(r, db)'
      BY <1>1, <1>2, <2>1 DEF Covers, Current
    <3>3. QED
      BY <1>1, <1>2, <3>1, <3>2 DEF Covers
  <2>4. QED
    BY <2>2, <2>3
<1>7. QED
  BY <1>1, <1>3, <1>5, <1>6 DEF ReadInv

\* ... and opens what it finds, asks it, or gives up.
LEMMA AnswerKeeps ==
    ASSUME IndexInv, NEW r \in Requests, Reopen(r) \/ Query(r) \/ Fails(r)
    PROVE  IndexInv'
<1> USE DEF IndexInv
<1>1. UNCHANGED <<files, lines, db, queue, rebuilds, temp, asked, swapped, replaced, crashes>>
  BY DEF Reopen, Query, Fails
<1>2. PICK next \in Steps \ {"new", "waiting", "over"} :
         /\ step' = [step EXCEPT ![r] = next]
         /\ \/ /\ step[r] = "reopen" /\ handle' = [handle EXCEPT ![r] = db] /\ result' = result
               /\ next = "query" \/ (next = "scan" /\ rebuilds[r] # 0)
            \/ /\ step[r] = "query" /\ result' = [result EXCEPT ![r] = handle[r]]
               /\ handle' = handle /\ next = "served"
            \/ /\ next = "failing" /\ UNCHANGED <<handle, result>>
               /\ Busy(r) \/ (step[r] = "waiting" /\ HasLock(r))
  BY DEF Reopen, Query, Fails, Steps, Busy
<1>3. /\ \A q \in Requests : q # r => /\ handle'[q] = handle[q] /\ result'[q] = result[q]
                                      /\ step'[q] = step[q]
      /\ step'[r] = next
  BY <1>2 DEF IndexTypeOK
<1>4. IndexTypeOK'
  <2>1. /\ handle' \in [Requests -> Database] /\ result' \in [Requests -> Database]
        /\ step' \in [Requests -> Steps]
    BY <1>2, CountTypes, RequestTypes DEF IndexTypeOK
  <2>2. QED
    BY <1>1, <2>1 DEF IndexTypeOK
<1>5. LockInv'
  <2>1. Busy(r) \/ (step[r] = "waiting" /\ HasLock(r))
    BY <1>2 DEF Busy
  <2>2. QED
    BY <1>1, <1>2, <1>3, <2>1, HolderKeepsLock
<1>6. \A q \in Requests : Covers(q)'
  <2>1. ASSUME NEW q \in Requests, q # r
        PROVE  Covers(q)'
    BY <1>1, <1>3, <2>1, OthersCovered, CountTypes
  <2>2. Covers(r)'
    <3>1. Covers(r)
      BY DEF ReadInv
    <3>2. CASE step[r] = "reopen" /\ handle' = [handle EXCEPT ![r] = db] /\ result' = result
               /\ (next = "query" \/ (next = "scan" /\ rebuilds[r] # 0))
      <4>1. handle'[r] = db
        BY <3>2 DEF IndexTypeOK
      <4>2. rebuilds[r] # 0 => rebuilds[r] >= 1
        BY RequestTypes
      <4>3. Current(r, db)'
        BY <1>1, <3>1, <3>2 DEF Covers, Current
      <4>4. QED
        BY <1>1, <1>3, <3>1, <3>2, <4>1, <4>2, <4>3 DEF Covers, Current
    <3>3. CASE step[r] = "query" /\ result' = [result EXCEPT ![r] = handle[r]]
               /\ handle' = handle /\ next = "served"
      <4>1. result'[r] = handle[r]
        BY <3>3 DEF IndexTypeOK
      <4>2. QED
        BY <1>1, <1>3, <3>1, <3>3, <4>1 DEF Covers, Current
    <3>4. CASE next = "failing"
      BY <1>1, <1>3, <3>1, <3>4 DEF Covers
    <3>5. QED
      BY <1>2, <3>2, <3>3, <3>4
  <2>3. QED
    BY <2>1, <2>2
<1>7. QED
  BY <1>1, <1>4, <1>5, <1>6 DEF ReadInv

\* Nothing is left of requests that are over, and nothing changes for others.
LEMMA ForgottenIsCovered ==
    ASSUME IndexInv, NEW gone, gone \subseteq Requests, Forget(gone), crashes' \in 0..MaxCrashes,
           queue' \in [Processes -> Seq(Requests)]
    PROVE  IndexTypeOK' /\ ReadInv'
<1> USE DEF IndexInv
<1>1. UNCHANGED <<files, lines, db>> /\ swapped' = swapped \ gone /\ replaced' = replaced \ gone
  BY DEF Forget
<1>2. /\ \A q \in Requests \ gone :
            /\ step'[q] = step[q] /\ handle'[q] = handle[q] /\ temp'[q] = temp[q]
            /\ result'[q] = result[q] /\ asked'[q] = asked[q] /\ rebuilds'[q] = rebuilds[q]
      /\ \A q \in gone : step'[q] = "over" /\ asked'[q] = NotAsked
  BY DEF Forget
<1>3. IndexTypeOK'
  <2>1. Absent \in Database /\ NotAsked \in [files : 0..MaxWrites, lines : 0..MaxWrites]
    BY IndexConstants DEF Absent, Database, NotAsked
  <2>2. /\ handle' \in [Requests -> Database] /\ temp' \in [Requests -> Database]
        /\ result' \in [Requests -> Database]
    BY <2>1 DEF Forget, IndexTypeOK
  <2>3. /\ asked' \in [Requests -> [files : 0..MaxWrites, lines : 0..MaxWrites]]
        /\ rebuilds' \in [Requests -> 0..2] /\ step' \in [Requests -> Steps]
    BY <2>1 DEF Forget, IndexTypeOK, Steps
  <2>4. QED
    BY <1>1, <2>2, <2>3 DEF IndexTypeOK
<1>4. \A q \in Requests : Covers(q)'
  <2>1. ASSUME NEW q \in Requests \ gone
        PROVE  Covers(q)'
    BY <1>1, <1>2, OthersCovered, CountTypes
  <2>2. ASSUME NEW q \in gone
        PROVE  Covers(q)'
    <3>1. step'[q] = "over" /\ asked'[q].files = 0 /\ asked'[q].lines = 0
      BY <1>2 DEF NotAsked
    <3>2. 0 <= files /\ 0 <= lines
      BY CountTypes
    <3>3. QED
      BY <1>1, <3>1, <3>2 DEF Covers
  <2>3. QED
    BY <2>1, <2>2
<1>5. QED
  BY <1>1, <1>3, <1>4 DEF ReadInv

\* The lock passes on to the next in the queue.
LEMMA CloseKeeps ==
    ASSUME IndexInv, NEW r \in Requests, Close(r)
    PROVE  IndexInv'
<1> USE DEF IndexInv
<1> DEFINE p0 == Of[r]
           old == queue[p0]
<1>1. /\ Busy(r) /\ Forget({r}) /\ crashes' = crashes
      /\ queue' = [queue EXCEPT ![p0] = Tail(old)]
  BY DEF Close, Busy, Released
<1>2. /\ old \in Seq(Requests) /\ p0 \in Processes /\ Len(old) \in Nat /\ Len(old) >= 1
      /\ old[1] = r /\ \A i \in 1..Len(old) : old[i] = r => i = 1
  BY <1>1, QueueTypes, BusyIsFirst
<1>3. /\ Tail(old) \in Seq(Requests) /\ Len(Tail(old)) = Len(old) - 1
      /\ \A i \in 1..Len(old) - 1 : Tail(old)[i] = old[i + 1]
  BY <1>2
<1>4. /\ queue'[p0] = Tail(old)
      /\ \A p \in Processes : p # p0 => queue'[p] = queue[p]
      /\ queue' \in [Processes -> Seq(Requests)]
  BY <1>1, <1>2, <1>3 DEF IndexTypeOK
<1>5. /\ \A q \in Requests : q # r => step'[q] = step[q] /\ handle'[q] = handle[q]
      /\ step'[r] = "over" /\ handle'[r] = Absent
  BY <1>1 DEF Forget
<1>6. IndexTypeOK' /\ ReadInv'
  BY <1>1, <1>4, ForgottenIsCovered DEF IndexTypeOK
<1> HIDE DEF p0, old
<1>7. \A p \in Processes : \A i \in 1..Len(queue'[p]) :
          /\ Of[queue'[p][i]] = p
          /\ step'[queue'[p][i]] \notin {"new", "over"}
          /\ i # 1 => step'[queue'[p][i]] = "waiting"
          /\ \A j \in 1..Len(queue'[p]) : queue'[p][i] = queue'[p][j] => i = j
  <2> SUFFICES ASSUME NEW p \in Processes, NEW i \in 1..Len(queue'[p])
               PROVE  /\ Of[queue'[p][i]] = p
                      /\ step'[queue'[p][i]] \notin {"new", "over"}
                      /\ i # 1 => step'[queue'[p][i]] = "waiting"
                      /\ \A j \in 1..Len(queue'[p]) : queue'[p][i] = queue'[p][j] => i = j
    OBVIOUS
  <2>1. CASE p # p0
    <3>1. /\ Of[queue[p][i]] = p
          /\ step[queue[p][i]] \notin {"new", "over"}
          /\ i # 1 => step[queue[p][i]] = "waiting"
          /\ \A j \in 1..Len(queue[p]) : queue[p][i] = queue[p][j] => i = j
      BY <1>4, <2>1 DEF LockInv
    <3>2. queue[p][i] \in Requests /\ queue'[p] = queue[p]
      BY <1>4, <2>1 DEF IndexTypeOK
    <3>3. queue[p][i] # r
      BY <2>1, <3>1 DEF p0
    <3>4. QED
      BY <1>5, <3>1, <3>2, <3>3
  <2>2. CASE p = p0
    <3>1. i \in 1..Len(old) - 1 /\ i + 1 \in 1..Len(old) /\ i + 1 # 1
      <4>1. Len(queue'[p]) = Len(old) - 1
        BY <1>3, <1>4, <2>2
      <4>2. QED
        BY <1>2, <4>1
    <3>2. /\ Of[old[i + 1]] = p0
          /\ step[old[i + 1]] = "waiting"
          /\ \A j \in 1..Len(old) : old[i + 1] = old[j] => i + 1 = j
      BY <1>2, <3>1 DEF LockInv, old
    <3>3. old[i + 1] \in Requests /\ old[i + 1] # r
      BY <1>2, <3>1
    <3>4. queue'[p][i] = old[i + 1]
      BY <1>3, <1>4, <2>2, <3>1
    <3>5. ASSUME NEW j \in 1..Len(queue'[p]), queue'[p][i] = queue'[p][j]
          PROVE  i = j
      <4>1. j \in 1..Len(old) - 1 /\ j + 1 \in 1..Len(old) /\ queue'[p][j] = old[j + 1]
        <5>1. queue'[p] = Tail(old) /\ Len(queue'[p]) = Len(old) - 1
          BY <1>3, <1>4, <2>2
        <5>2. j \in 1..Len(old) - 1 /\ j + 1 \in 1..Len(old)
          BY <1>2, <5>1
        <5>3. QED
          BY <1>3, <5>1, <5>2
      <4>2. i + 1 = j + 1
        BY <3>2, <3>4, <3>5, <4>1
      <4>3. QED
        BY <3>1, <4>1, <4>2
    <3>6. QED
      BY <1>5, <2>2, <3>2, <3>3, <3>4, <3>5
  <2>3. QED
    BY <2>1, <2>2
<1>8. ASSUME NEW q \in Requests, step'[q] \notin {"new", "over"}
      PROVE  \E i \in 1..Len(queue'[Of[q]]) : queue'[Of[q]][i] = q
  <2>1. q # r
    BY <1>5, <1>8
  <2>2. PICK i \in 1..Len(queue[Of[q]]) : queue[Of[q]][i] = q
    BY <1>5, <1>8, <2>1 DEF LockInv
  <2>3. CASE Of[q] # p0
    BY <1>4, <2>2, <2>3, QueueTypes
  <2>4. CASE Of[q] = p0
    <3>1. i \in 1..Len(old) /\ old[i] = q /\ i # 1
      BY <1>2, <2>1, <2>2, <2>4 DEF old
    <3>2. i - 1 \in 1..Len(old) - 1 /\ (i - 1) + 1 = i
      BY <1>2, <3>1
    <3>3. Tail(old)[i - 1] = q /\ i - 1 \in 1..Len(Tail(old))
      BY <1>3, <3>1, <3>2
    <3>4. QED
      BY <1>4, <2>4, <3>3
  <2>5. QED
    BY <2>3, <2>4
<1>9. \A q \in Requests : handle'[q] # Absent => Busy(q)'
  BY <1>5 DEF LockInv, Busy
<1>10. QED
  BY <1>6, <1>7, <1>8, <1>9 DEF LockInv

\* A process that dies takes its whole queue with it.
LEMMA CrashKeeps ==
    ASSUME IndexInv, NEW p0 \in Processes, ProcessDies(p0)
    PROVE  IndexInv'
<1> USE DEF IndexInv
<1> DEFINE gone == {queue[p0][i] : i \in 1..Len(queue[p0])}
<1>1. /\ Forget(gone) /\ crashes' \in 0..MaxCrashes
      /\ queue' = [queue EXCEPT ![p0] = <<>>]
  BY IndexConstants DEF ProcessDies, IndexTypeOK
<1>2. /\ queue'[p0] = <<>>
      /\ \A p \in Processes : p # p0 => queue'[p] = queue[p]
      /\ queue' \in [Processes -> Seq(Requests)]
  BY <1>1 DEF IndexTypeOK
<1>3. gone \subseteq Requests
  BY DEF IndexTypeOK
<1>4. \A q \in gone : Of[q] = p0
  BY DEF LockInv
<1>5. \A q \in Requests : Of[q] = p0 /\ step[q] \notin {"new", "over"} => q \in gone
  BY DEF LockInv
<1> HIDE DEF gone
<1>6. /\ \A q \in Requests \ gone : step'[q] = step[q] /\ handle'[q] = handle[q]
      /\ \A q \in gone : step'[q] = "over" /\ handle'[q] = Absent
  BY <1>1, <1>3 DEF Forget
<1>7. IndexTypeOK' /\ ReadInv'
  BY <1>1, <1>2, <1>3, ForgottenIsCovered
<1>8. \A p \in Processes : \A i \in 1..Len(queue'[p]) :
          /\ Of[queue'[p][i]] = p
          /\ step'[queue'[p][i]] \notin {"new", "over"}
          /\ i # 1 => step'[queue'[p][i]] = "waiting"
          /\ \A j \in 1..Len(queue'[p]) : queue'[p][i] = queue'[p][j] => i = j
  <2> SUFFICES ASSUME NEW p \in Processes, NEW i \in 1..Len(queue'[p])
               PROVE  /\ Of[queue'[p][i]] = p
                      /\ step'[queue'[p][i]] \notin {"new", "over"}
                      /\ i # 1 => step'[queue'[p][i]] = "waiting"
                      /\ \A j \in 1..Len(queue'[p]) : queue'[p][i] = queue'[p][j] => i = j
    OBVIOUS
  <2>1. p # p0 /\ queue'[p] = queue[p]
    BY <1>2
  <2>2. /\ Of[queue[p][i]] = p
        /\ step[queue[p][i]] \notin {"new", "over"}
        /\ i # 1 => step[queue[p][i]] = "waiting"
        /\ \A j \in 1..Len(queue[p]) : queue[p][i] = queue[p][j] => i = j
    BY <2>1 DEF LockInv
  <2>3. queue[p][i] \in Requests \ gone
    BY <1>4, <2>1, <2>2 DEF IndexTypeOK
  <2>4. QED
    BY <1>6, <2>1, <2>2, <2>3
<1>9. ASSUME NEW q \in Requests, step'[q] \notin {"new", "over"}
      PROVE  \E i \in 1..Len(queue'[Of[q]]) : queue'[Of[q]][i] = q
  <2>1. q \notin gone /\ step[q] \notin {"new", "over"}
    BY <1>6, <1>9
  <2>2. Of[q] # p0
    BY <1>5, <2>1
  <2>3. QED
    BY <1>2, <2>1, <2>2, QueueTypes DEF LockInv
<1>10. \A q \in Requests : handle'[q] # Absent => Busy(q)'
  BY <1>6 DEF LockInv, Busy
<1>11. QED
  BY <1>7, <1>8, <1>9, <1>10 DEF LockInv

LEMMA InitHolds == IndexInit => IndexInv
<1> SUFFICES ASSUME IndexInit PROVE IndexInv
  OBVIOUS
<1>1. IndexTypeOK
  <2>1. Absent \in Database /\ NotAsked \in [files : 0..MaxWrites, lines : 0..MaxWrites]
    BY IndexConstants DEF Absent, Database, NotAsked
  <2>2. QED
    BY <2>1, IndexConstants DEF IndexInit, IndexTypeOK, Steps
<1>2. LockInv
  BY DEF IndexInit, LockInv
<1>3. ReadInv
  BY DEF IndexInit, ReadInv, Covers, NotAsked
<1>4. QED
  BY <1>1, <1>2, <1>3 DEF IndexInv

LEMMA IndexInductive == IndexInv /\ [IndexNext]_indexVars => IndexInv'
<1> SUFFICES ASSUME IndexInv, [IndexNext]_indexVars PROVE IndexInv'
  OBVIOUS
<1>1. CASE UNCHANGED indexVars
  <2>1. UNCHANGED <<files, lines, db, queue, step, rebuilds, temp, handle, result, asked,
                    swapped, replaced, crashes>>
    BY <1>1 DEF indexVars, request
  <2>2. IndexTypeOK'
    BY <2>1 DEF IndexInv, IndexTypeOK
  <2>3. LockInv'
    BY <2>1 DEF IndexInv, LockInv, Busy
  <2>4. ReadInv'
    BY <2>1 DEF IndexInv, ReadInv, Covers, Current
  <2>5. QED
    BY <2>2, <2>3, <2>4 DEF IndexInv
<1>2. CASE IndexNext
  <2>1. ASSUME NEW r \in Requests, Arrive(r) \/ GoesOn(r)
        PROVE  IndexInv'
    BY <2>1, ArriveKeeps, OpenKeeps, ReadsKeep, RenameKeeps, AnswerKeeps, CloseKeeps DEF GoesOn
  <2>2. QED
    BY <1>2, <2>1, WritesKeep, CrashKeeps DEF IndexNext
<1>3. QED
  BY <1>1, <1>2

LEMMA AnswersFollow == IndexInv => AnswersAreCurrent
<1> SUFFICES ASSUME IndexInv PROVE AnswersAreCurrent
  OBVIOUS
<1> USE DEF IndexInv
<1>1. ASSUME NEW r \in Requests, step[r] = "served"
      PROVE  Current(r, result[r])
  BY <1>1 DEF ReadInv, Covers
<1>2. ASSUME NEW q \in Requests, NEW r \in Requests, q # r, Of[q] = Of[r]
      PROVE  Absent \in {handle[q], handle[r]}
  <2>1. handle[q] = Absent \/ handle[r] = Absent
    BY <1>2, OneIsBusy DEF LockInv
  <2>2. QED
    BY <2>1
<1>3. QED
  BY <1>1, <1>2 DEF AnswersAreCurrent, Current

\* Whoever writes, asks and dies, database, queues and readings keep their types.
THEOREM IndexTypeCorrect == IndexSpec => []IndexTypeOK
<1>1. IndexInv => IndexTypeOK
  BY DEF IndexInv
<1>2. QED
  BY <1>1, InitHolds, IndexInductive, PTL DEF IndexSpec

\* An answer has what had been written when its request came in, of one whole
\* rebuild, unless another process renamed a database of its own in between
\* (`layer` and `rebuild` of IndexService.ts, under what Server.ts lists).
THEOREM AnswersCurrent == IndexSpec => []AnswersAreCurrent
BY InitHolds, IndexInductive, AnswersFollow, PTL DEF IndexSpec
=============================================================================
