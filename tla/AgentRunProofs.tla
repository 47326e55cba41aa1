--------------------------- MODULE AgentRunProofs ---------------------------
(***************************************************************************)
(* Proofs about AgentRun, for any number of runs, paths, writes, edits and *)
(* deaths: a run reports what happened and changes of the bundle only what *)
(* is its own to change.                                                   *)
(*                                                                         *)
(* Session and adapter, sandbox and copies, and the permission policy each *)
(* have an argument of their own; the bundle's needs that of the sandbox.  *)
(***************************************************************************)
EXTENDS AgentRun, TLAPS

\* The steps at which a run knows what it found changed.
Late == {"copying", "done", "gone"}
\* ... and those before its session has ended.
Early == {"new", "prepared", "starting", "ready", "asking"}

\* Nothing is found changed before the session is over.
NothingFoundEarly == \A r \in Runs : paths[r] # {} => Step(r) \in Late

TypeInv == TypeOK /\ NothingFoundEarly

\* What a session ended for is what its adapter said last, or the fault of
\* its connection, and its status is made of that alone.
ReasonIsKnown(r) ==
    /\ Step(r) \in Early => session[r].reason = "none"
    /\ Step(r) = "asking" /\ session[r].next = "prompt" /\ adapter[r].up =>
          adapter[r].prompted
    /\ session[r].fault = "plain" => r \in garbled
    /\ session[r].reason = "end_turn" =>
          adapter[r].said = "ok" /\ adapter[r].prompted /\ ~adapter[r].asked
    /\ session[r].reason \in {"stop", "task"} =>
          adapter[r].said \in {"stop", "error", "nomethod"} /\ ~adapter[r].asked
    /\ session[r].reason = "plain" => session[r].model = "unknown" \/ r \in garbled
StatusIsOfReason(r) ==
    /\ status[r] # "none" => Step(r) \in Late
    /\ status[r] = "completed" => session[r].reason = "end_turn"
    /\ status[r] = "failed" => session[r].reason \in {"stop", "task", "plain"}
SessionInv == \A r \in Runs : ReasonIsKnown(r) /\ StatusIsOfReason(r)

\* What differs in a sandbox from what was seeded is of its own agent; what a
\* station found changed is among what it produces, and an eval run redacts.
SandboxIsOwn(r) ==
    /\ \A f \in Files : sandbox[r][f] \in {before[r][f], r, "absent"}
    /\ \A f \in paths[r] : sandbox[r][f] \in {r, "absent"}
    /\ session[r].kind # "eval" => paths[r] \subseteq Produces(session[r].kind)
    /\ session[r].kind = "eval" => artifacts[r] \intersect Secret = {}
SandboxInv == \A r \in Runs : SandboxIsOwn(r)

\* What is in the bundle of a run is among what that run kept.
BundleIsKept == \A f \in Files : bundle[f] \in Runs => f \in artifacts[bundle[f]]

AgentInv == TypeInv /\ SessionInv /\ SandboxInv /\ BundleIsKept /\ PolicyHolds
-----------------------------------------------------------------------------
\* What each handler of the client makes of a session.
Same(s, t) == /\ t.kind = s.kind /\ t.model = s.model
              /\ t.fault = s.fault /\ t.reading = s.reading

LEMMA SettledIs ==
    ASSUME NEW s \in Session, NEW why \in Reasons
    PROVE  /\ Settled(s, why) \in Session /\ Same(s, Settled(s, why))
           /\ Settled(s, why).step = "closing" /\ Settled(s, why).reason = why
  BY DEF Settled, Session, Steps, Same

LEMMA ReceivedIs ==
    ASSUME NEW s \in Session, NEW answer \in Answers
    PROVE  LET t == Received(s, answer)
           IN  /\ t \in Session /\ Same(s, t)
               /\ \/ t.step = "ready" /\ t.reason = s.reason
                  \/ /\ t.step = "closing"
                     /\ \/ t.reason = "end_turn" /\ answer = "ok" /\ s.next = "prompt"
                        \/ t.reason = "plain" /\ s.model = "unknown"
                        \/ t.reason = "stop" /\ answer = "stop"
                        \/ t.reason = "task" /\ answer \in {"error", "nomethod"}
                        \/ t.reason = "auth"
<1> DEFINE t == Received(s, answer)
<1>1. CASE answer = "ok" /\ s.next = "prompt"
  <2>1. t = Settled(s, "end_turn") /\ "end_turn" \in Reasons
    BY <1>1 DEF Received, Reasons
  <2>2. QED
    BY <1>1, <2>1, SettledIs
<1>2. CASE answer = "ok" /\ s.next = "session/new" /\ s.model = "unknown"
  <2>1. t = Settled(s, "plain") /\ "plain" \in Reasons
    BY <1>2 DEF Received, Reasons
  <2>2. QED
    BY <1>2, <2>1, SettledIs
<1>3. CASE /\ answer = "ok" /\ s.next # "prompt"
           /\ ~(s.next = "session/new" /\ s.model = "unknown")
  <2>1. t = [s EXCEPT !.step = "ready", !.next = NextRequest(s)]
    BY <1>3 DEF Received
  <2>2. NextRequest(s) \in Requests
    BY DEF NextRequest, Requests
  <2>3. QED
    BY <2>1, <2>2 DEF Session, Steps, Same
<1>4. CASE answer = "nomethod" /\ s.next = "set_model"
  <2>1. t = [s EXCEPT !.step = "ready", !.next = "set_config_option"]
    BY <1>4 DEF Received
  <2>2. QED
    BY <2>1 DEF Session, Steps, Requests, Same
<1>5. CASE answer \in {"stop", "auth"}
  <2>1. t = Settled(s, answer) /\ answer \in Reasons
    BY <1>5 DEF Received, Reasons
  <2>2. QED
    BY <1>5, <2>1, SettledIs
<1>6. CASE answer \in {"error", "nomethod"} /\ ~(answer = "nomethod" /\ s.next = "set_model")
  <2>1. t = Settled(s, "task") /\ "task" \in Reasons
    BY <1>6 DEF Received, Reasons
  <2>2. QED
    BY <1>6, <2>1, SettledIs
<1>7. QED
  BY <1>1, <1>2, <1>3, <1>4, <1>5, <1>6 DEF Answers

LEMMA LoopEndsIs ==
    ASSUME NEW s \in Session, NEW fault \in {"none", "connection", "plain"}
    PROVE  LET t == LoopEnds(s, fault)
           IN  /\ t \in Session /\ t.kind = s.kind /\ t.model = s.model
               /\ t.fault = fault
               /\ \/ s.step # "asking" /\ t.step = s.step /\ t.reason = s.reason
                  \/ s.step = "asking" /\ t.step = "closing" /\ t.reason = "connection"
<1>1. CASE s.step = "asking"
  <2>1. LoopEnds(s, fault) =
           [Settled(s, "connection") EXCEPT !.reading = FALSE, !.fault = fault]
    BY <1>1 DEF LoopEnds
  <2>2. Settled(s, "connection") \in Session /\ Same(s, Settled(s, "connection"))
        /\ Settled(s, "connection").step = "closing"
        /\ Settled(s, "connection").reason = "connection"
    BY SettledIs DEF Reasons
  <2>3. QED
    BY <1>1, <2>1, <2>2 DEF Session, Same
<1>2. CASE s.step # "asking"
  <2>1. LoopEnds(s, fault) = [s EXCEPT !.reading = FALSE, !.fault = fault]
    BY <1>2 DEF LoopEnds
  <2>2. QED
    BY <1>2, <2>1 DEF Session
<1>3. QED
  BY <1>1, <1>2

-----------------------------------------------------------------------------
RunStep(r) == DriverStep(r) \/ PromptTimesOut(r) \/ AdapterStep(r) \/ Dies(r)

\* A session never goes back: what it has begun with stays, and so does what
\* came after its end.
Onward(s, t) ==
    /\ t \in Session
    /\ s.step \in Late => t.step \in Late
    /\ s.step # "new" => t.step # "new" /\ t.kind = s.kind /\ t.model = s.model

LEMMA SessionGoesOnward ==
    ASSUME TypeInv, NEW r \in Runs, RunStep(r)
    PROVE  \E t : Onward(session[r], t) /\ session' = [session EXCEPT ![r] = t]
<1> DEFINE s == session[r]
           Goes(t) == session' = [session EXCEPT ![r] = t]
<1>1. s \in Session /\ session \in [Runs -> Session]
  BY DEF TypeInv, TypeOK
<1> USE DEF Step, Late
<1>2. ASSUME NEW step \in Steps \ {"new"}, s.step \notin Late \/ step \in Late,
             Goes([s EXCEPT !.step = step])
      PROVE  \E t : Onward(s, t) /\ Goes(t)
  <2>1. Onward(s, [s EXCEPT !.step = step])
    BY <1>1, <1>2 DEF Onward, Session
  <2>2. QED
    BY <1>2, <2>1
<1>3. ASSUME NEW why \in Reasons, s.step \notin Late, Goes(Settled(s, why))
      PROVE  \E t : Onward(s, t) /\ Goes(t)
  <2>1. Onward(s, Settled(s, why))
    BY <1>1, <1>3, SettledIs DEF Onward, Same
  <2>2. QED
    BY <1>3, <2>1
<1>4. ASSUME UNCHANGED session
      PROVE  \E t : Onward(s, t) /\ Goes(t)
  <2>1. Onward(s, s) /\ Goes(s)
    BY <1>1, <1>4 DEF Onward
  <2>2. QED
    BY <2>1
<1>5. ASSUME NEW fault \in {"none", "connection", "plain"}, Goes(LoopEnds(s, fault))
      PROVE  \E t : Onward(s, t) /\ Goes(t)
  <2>1. Onward(s, LoopEnds(s, fault))
    BY <1>1, LoopEndsIs DEF Onward
  <2>2. QED
    BY <1>5, <2>1
<1>6. CASE Begin(r)
  <2>1. PICK kind \in Kinds, model \in {"default", "known", "unknown"} :
          session' = [session EXCEPT ![r].step = "prepared", ![r].kind = kind,
                                     ![r].model = model]
    BY <1>6 DEF Begin
  <2>2. Goes([s EXCEPT !.step = "prepared", !.kind = kind, !.model = model])
    BY <1>1, <2>1
  <2>3. Onward(s, [s EXCEPT !.step = "prepared", !.kind = kind, !.model = model])
    BY <1>1, <1>6 DEF Begin, Onward, Session, Steps
  <2>4. QED
    BY <2>2, <2>3
<1>7. CASE Spawn(r)
  <2>1. CASE Goes([s EXCEPT !.step = "starting", !.reading = TRUE])
    <3>1. Onward(s, [s EXCEPT !.step = "starting", !.reading = TRUE])
      BY <1>1, <1>7 DEF Spawn, Onward, Session, Steps
    <3>2. QED
      BY <2>1, <3>1
  <2>2. CASE Goes([s EXCEPT !.step = "over", !.reason = "spawn"])
    <3>1. Onward(s, [s EXCEPT !.step = "over", !.reason = "spawn"])
      BY <1>1, <1>7 DEF Spawn, Onward, Session, Steps, Reasons
    <3>2. QED
      BY <2>2, <3>1
  <2>3. QED
    BY <1>7, <2>1, <2>2 DEF Spawn
<1>8. CASE Started(r)
  <2>1. s.step = "starting" /\ (Goes([s EXCEPT !.step = "ready"]) \/ Goes(Settled(s, "spawn")))
    BY <1>8 DEF Started, To, Settle
  <2>2. QED
    BY <1>2, <1>3, <2>1 DEF Steps, Reasons
<1>9. CASE Ask(r)
  <2>1. /\ s.step = "ready"
        /\ \/ Goes([s EXCEPT !.step = "asking"])
           \/ Goes(Settled(s, "plain"))
           \/ s.fault # "none" /\ Goes(Settled(s, s.fault))
    BY <1>9 DEF Ask, To, Settle
  <2>2. s.fault # "none" => s.fault \in Reasons
    BY <1>1 DEF Session, Reasons
  <2>3. QED
    BY <1>2, <1>3, <2>1, <2>2 DEF Steps, Reasons
<1>10. CASE Answer(r)
  <2>1. CASE UNCHANGED session
    BY <1>4, <2>1
  <2>2. CASE session' # session
    <3>1. PICK answer \in Answers : Goes(Received(s, answer)) /\ s.step = "asking"
      BY <1>10, <2>2 DEF Answer, Pending
    <3>2. Onward(s, Received(s, answer))
      BY <1>1, <3>1, ReceivedIs DEF Onward, Same
    <3>3. QED
      BY <3>1, <3>2
  <2>3. QED
    BY <2>1, <2>2
<1>11. CASE PromptTimesOut(r)
  <2>1. s.step = "asking" /\ Goes(Settled(s, "timeout"))
    BY <1>11 DEF PromptTimesOut, Settle
  <2>2. QED
    BY <1>3, <2>1 DEF Reasons
<1>12. CASE OutputEnds(r)
  <2>1. Goes(LoopEnds(s, s.fault)) /\ s.fault \in {"none", "connection", "plain"}
    BY <1>1, <1>12 DEF OutputEnds, Session
  <2>2. QED
    BY <1>5, <2>1
<1>13. CASE StrayLine(r)
  <2>1. CASE Goes([s EXCEPT !.fault = "connection"])
    <3>1. Onward(s, [s EXCEPT !.fault = "connection"])
      BY <1>1 DEF Onward, Session
    <3>2. QED
      BY <2>1, <3>1
  <2>2. CASE Goes(LoopEnds(s, "plain"))
    BY <1>5, <2>2
  <2>3. QED
    BY <1>13, <2>1, <2>2 DEF StrayLine
<1>14. CASE Close(r) \/ Drained(r) \/ Snapshot(r) \/ Finish(r) \/ Dies(r)
  <2>1. \E step \in {"draining", "over", "copying", "done", "gone"} :
           /\ s.step \in Late => step \in Late
           /\ Goes([s EXCEPT !.step = step])
    BY <1>14 DEF Close, Drained, Snapshot, Finish, Dies, To
  <2>2. QED
    BY <1>2, <2>1 DEF Steps
<1>15. CASE Mirror(r) \/ CopyBack(r)
  <2>1. Goes([s EXCEPT !.step = "gone"]) \/ UNCHANGED session
    BY <1>15 DEF Mirror, CopyBack, To
  <2>2. QED
    BY <1>2, <1>4, <2>1 DEF Steps
<1>16. CASE KeepArtifact(r) \/ AdapterExits(r) \/ AskPermission(r) \/ AgentWrites(r)
  BY <1>4, <1>16 DEF KeepArtifact, AdapterExits, AskPermission, AgentWrites
<1>17. QED
  BY <1>6, <1>7, <1>8, <1>9, <1>10, <1>11, <1>12, <1>13, <1>14, <1>15, <1>16
     DEF RunStep, DriverStep, AdapterStep

\* The same of all sessions.
LEMMA SessionsGoOnward ==
    ASSUME TypeInv, [Next]_vars
    PROVE  /\ session' \in [Runs -> Session]
           /\ \A r \in Runs : Onward(session[r], session'[r])
<1>1. session \in [Runs -> Session] /\ \A r \in Runs : Onward(session[r], session[r])
  BY DEF TypeInv, TypeOK, Onward
<1>2. CASE UNCHANGED session
  BY <1>1, <1>2
<1>3. ASSUME NEW r \in Runs, RunStep(r)
      PROVE  /\ session' \in [Runs -> Session]
             /\ \A q \in Runs : Onward(session[q], session'[q])
  <2>1. PICK t : Onward(session[r], t) /\ session' = [session EXCEPT ![r] = t]
    BY <1>3, SessionGoesOnward
  <2>2. t \in Session
    BY <2>1 DEF Onward
  <2>3. QED
    BY <1>1, <2>1, <2>2
<1>4. QED
  BY <1>2, <1>3 DEF Next, vars, MakerEdits, RunStep

\* Adapters keep their type.
LEMMA AdapterTypes ==
    ASSUME TypeInv, [Next]_vars
    PROVE  adapter' \in [Runs -> Adapter]
<1>1. adapter \in [Runs -> Adapter] /\ session \in [Runs -> Session]
  BY DEF TypeInv, TypeOK
<1>2. CASE UNCHANGED adapter
  BY <1>1, <1>2
<1>3. ASSUME NEW r \in Runs, adapter' # adapter, RunStep(r)
      PROVE  adapter' \in [Runs -> Adapter]
  <2> DEFINE a == adapter[r]
  <2>1. a \in Adapter
    BY <1>1
  <2>2. CASE Spawn(r) \/ AdapterExits(r)
    <3>1. PICK up \in BOOLEAN : adapter' = [adapter EXCEPT ![r] = [a EXCEPT !.up = up]]
      BY <1>3, <2>2 DEF Spawn, AdapterExits
    <3>2. [a EXCEPT !.up = up] \in Adapter
      BY <2>1 DEF Adapter
    <3>3. QED
      BY <1>1, <3>1, <3>2
  <2>3. CASE Ask(r)
    <3>1. adapter' = [adapter EXCEPT ![r] =
             [a EXCEPT !.asked = TRUE, !.prompted = @ \/ session[r].next = "prompt"]]
      BY <1>3, <2>3 DEF Ask
    <3>2. [a EXCEPT !.asked = TRUE, !.prompted = @ \/ session[r].next = "prompt"] \in Adapter
      BY <2>1 DEF Adapter
    <3>3. QED
      BY <1>1, <3>1, <3>2
  <2>4. CASE Answer(r)
    <3>1. PICK answer \in Answers :
            adapter' = [adapter EXCEPT ![r] = [a EXCEPT !.asked = FALSE, !.said = answer]]
      BY <2>4 DEF Answer
    <3>2. [a EXCEPT !.asked = FALSE, !.said = answer] \in Adapter
      BY <2>1 DEF Adapter
    <3>3. QED
      BY <1>1, <3>1, <3>2
  <2>5. CASE Close(r)
    BY <1>1, <2>5 DEF Close, Killed, Adapter
  <2>6. QED
    BY <1>3, <2>2, <2>3, <2>4, <2>5 DEF RunStep, DriverStep, AdapterStep, Begin, Started,
       Drained, Snapshot, KeepArtifact, Mirror, CopyBack, Finish, PromptTimesOut,
       OutputEnds, StrayLine, AskPermission, AgentWrites, Dies
<1>4. QED
  BY <1>2, <1>3 DEF Next, vars, MakerEdits, RunStep

\* Only what a run seeds, what its agent or the maker writes and what a station
\* copies back changes a file.
LEMMA FileTypes ==
    ASSUME TypeInv, [Next]_vars
    PROVE  bundle' \in Tree /\ sandbox' \in [Runs -> Tree] /\ before' \in [Runs -> Tree]
<1>1. bundle \in Tree /\ sandbox \in [Runs -> Tree] /\ before \in [Runs -> Tree]
  BY DEF TypeInv, TypeOK
<1>2. CASE UNCHANGED files
  BY <1>1, <1>2 DEF files
<1>3. ASSUME NEW r \in Runs, Begin(r)
      PROVE  bundle' \in Tree /\ sandbox' \in [Runs -> Tree] /\ before' \in [Runs -> Tree]
  <2>1. PICK kind \in Kinds :
          LET seeded == [f \in Files |-> IF f \in Seeds(kind) THEN bundle[f] ELSE "absent"]
          IN  /\ sandbox' = [sandbox EXCEPT ![r] = seeded]
              /\ before' = [before EXCEPT ![r] = seeded]
    BY <1>3 DEF Begin
  <2>2. [f \in Files |-> IF f \in Seeds(kind) THEN bundle[f] ELSE "absent"] \in Tree
    BY <1>1 DEF Tree, Content
  <2>3. bundle' = bundle
    BY <1>3 DEF Begin
  <2>4. QED
    BY <1>1, <2>1, <2>2, <2>3
<1>4. ASSUME NEW r \in Runs, AgentWrites(r)
      PROVE  bundle' \in Tree /\ sandbox' \in [Runs -> Tree] /\ before' \in [Runs -> Tree]
  <2>1. PICK f \in Files, content \in {r, "absent"} :
          sandbox' = [sandbox EXCEPT ![r] = [sandbox[r] EXCEPT ![f] = content]]
    BY <1>4 DEF AgentWrites
  <2>2. [sandbox[r] EXCEPT ![f] = content] \in Tree
    BY <1>1 DEF Tree, Content
  <2>3. UNCHANGED <<bundle, before>>
    BY <1>4 DEF AgentWrites
  <2>4. QED
    BY <1>1, <2>1, <2>2, <2>3
<1>5. ASSUME MakerEdits
      PROVE  bundle' \in Tree /\ sandbox' \in [Runs -> Tree] /\ before' \in [Runs -> Tree]
  BY <1>1, <1>5 DEF MakerEdits, Tree, Content
<1>6. ASSUME NEW r \in Runs, CopyBack(r)
      PROVE  bundle' \in Tree /\ sandbox' \in [Runs -> Tree] /\ before' \in [Runs -> Tree]
  BY <1>1, <1>6 DEF CopyBack, Tree
<1>7. UNCHANGED files \/ MakerEdits
      \/ \E r \in Runs : Begin(r) \/ AgentWrites(r) \/ CopyBack(r)
  BY DEF Next, vars, RunStep, DriverStep, AdapterStep, Spawn, Started, Ask, Close, Drained,
         Snapshot, KeepArtifact, Mirror, Finish, PromptTimesOut, Answer, OutputEnds,
         StrayLine, AdapterExits, AskPermission, Dies
<1>8. QED
  BY <1>2, <1>3, <1>4, <1>5, <1>6, <1>7

\* A run copies among what it found changed, and finds that at one time.
LEMMA OutputTypes ==
    ASSUME TypeInv, [Next]_vars
    PROVE  /\ paths' \in [Runs -> SUBSET Files] /\ handled' \in [Runs -> SUBSET Files]
           /\ artifacts' \in [Runs -> SUBSET Files]
           /\ \A r \in Runs : handled'[r] \union artifacts'[r] \subseteq paths'[r]
           /\ status' \in [Runs -> Status \union {"none"}]
           /\ reviewed' \subseteq Runs
           /\ NothingFoundEarly'
<1> DEFINE Found(p, h, a) ==
        /\ p \in [Runs -> SUBSET Files] /\ h \in [Runs -> SUBSET Files]
        /\ a \in [Runs -> SUBSET Files]
        /\ \A r \in Runs : h[r] \union a[r] \subseteq p[r]
<1>1. Found(paths, handled, artifacts) /\ status \in [Runs -> Status \union {"none"}]
      /\ reviewed \subseteq Runs
  BY DEF TypeInv, TypeOK
<1>2. \A r \in Runs : Step(r) \in Late => Step(r)' \in Late
  BY SessionsGoOnward DEF Onward, Step
<1>3. CASE UNCHANGED output
  BY <1>1, <1>2, <1>3 DEF output, NothingFoundEarly, TypeInv
<1>4. ASSUME NEW r \in Runs, Snapshot(r)
      PROVE  /\ Found(paths', handled', artifacts')
             /\ status' \in [Runs -> Status \union {"none"}] /\ reviewed' \subseteq Runs
             /\ NothingFoundEarly'
  <2>1. Given(session[r].kind, Changed(r)) \subseteq Files
    BY DEF Given, Changed
  <2>2. paths[r] = {} /\ Step(r)' = "copying"
    BY <1>4 DEF Snapshot, TypeInv, NothingFoundEarly, Late, To, Step, TypeOK, Session
  <2>3. Found(paths', handled', artifacts')
    BY <1>1, <1>4, <2>1, <2>2 DEF Snapshot
  <2>4. PICK noisy \in BOOLEAN :
          status' = [status EXCEPT ![r] = StatusOf(session[r].reason, noisy)]
    BY <1>4 DEF Snapshot
  <2>5. StatusOf(session[r].reason, noisy) \in Status
    BY DEF StatusOf, Status
  <2>6. NothingFoundEarly'
    BY <1>1, <1>2, <1>4, <2>2 DEF NothingFoundEarly, TypeInv, Snapshot, Late
  <2>7. QED
    BY <1>1, <1>4, <2>3, <2>4, <2>5, <2>6 DEF Snapshot
<1>5. ASSUME NEW r \in Runs, KeepArtifact(r) \/ Mirror(r) \/ CopyBack(r) \/ Finish(r)
      PROVE  /\ Found(paths', handled', artifacts')
             /\ status' \in [Runs -> Status \union {"none"}] /\ reviewed' \subseteq Runs
             /\ NothingFoundEarly'
  <2>1. UNCHANGED <<paths, status>> /\ reviewed' \subseteq Runs
    BY <1>1, <1>5 DEF KeepArtifact, Mirror, CopyBack, Finish
  <2>2. NothingFoundEarly'
    BY <1>2, <2>1 DEF NothingFoundEarly, TypeInv
  <2>3. Found(paths', handled', artifacts')
    <3>1. CASE KeepArtifact(r)
      BY <1>1, <3>1 DEF KeepArtifact, Copied, Kept
    <3>2. CASE Mirror(r)
      BY <1>1, <3>2 DEF Mirror, Kept
    <3>3. CASE CopyBack(r)
      BY <1>1, <3>3 DEF CopyBack, Copied, HalfCopied
    <3>4. CASE Finish(r)
      BY <1>1, <3>4 DEF Finish
    <3>5. QED
      BY <1>5, <3>1, <3>2, <3>3, <3>4
  <2>4. QED
    BY <1>1, <2>1, <2>2, <2>3
<1>6. UNCHANGED output
      \/ \E r \in Runs : Snapshot(r) \/ KeepArtifact(r) \/ Mirror(r) \/ CopyBack(r) \/ Finish(r)
  BY DEF Next, vars, MakerEdits, DriverStep, AdapterStep, Begin, Spawn, Started, Ask, Close,
         Drained, PromptTimesOut, Answer, OutputEnds, StrayLine, AdapterExits, AskPermission,
         AgentWrites, Dies
<1>7. QED
  BY <1>3, <1>4, <1>5, <1>6

LEMMA TypePreserved == TypeInv /\ [Next]_vars => TypeInv'
<1> SUFFICES ASSUME TypeInv, [Next]_vars PROVE TypeInv'
  OBVIOUS
<1>1. garbled' \subseteq Runs /\ breached' \subseteq Runs
  BY DEF TypeInv, TypeOK, Next, vars, history, MakerEdits, DriverStep, AdapterStep, Begin,
         Spawn, Started, Ask, Close, Drained, Snapshot, KeepArtifact, Mirror, CopyBack,
         Finish, PromptTimesOut, Answer, OutputEnds, StrayLine, AdapterExits, AskPermission,
         AgentWrites, Dies
<1>2. writes' \in [Runs -> 0..MaxWrites] /\ edits' \in 0..MaxEdits
      /\ faults' \in 0..MaxFaults
  <2>1. /\ writes \in [Runs -> 0..MaxWrites] /\ edits \in 0..MaxEdits
        /\ faults \in 0..MaxFaults
    BY DEF TypeInv, TypeOK
  <2>2. CASE UNCHANGED bounds
    BY <2>1, <2>2 DEF bounds
  <2>3. CASE MakerEdits
    BY <2>1, <2>3, ConstantsAssumption DEF MakerEdits
  <2>4. ASSUME NEW r \in Runs, AgentWrites(r)
        PROVE  writes' \in [Runs -> 0..MaxWrites] /\ UNCHANGED <<edits, faults>>
    <3>1. writes[r] + 1 \in 0..MaxWrites /\ writes' = [writes EXCEPT ![r] = writes[r] + 1]
      BY <2>1, <2>4, ConstantsAssumption DEF AgentWrites
    <3>2. QED
      BY <2>1, <2>4, <3>1 DEF AgentWrites
  <2>5. ASSUME NEW r \in Runs, OutputEnds(r) \/ StrayLine(r) \/ AdapterExits(r) \/ Dies(r)
        PROVE  faults' \in 0..MaxFaults /\ UNCHANGED <<writes, edits>>
    BY <2>1, <2>5, ConstantsAssumption DEF OutputEnds, StrayLine, AdapterExits, Dies, Fault
  <2>6. UNCHANGED bounds \/ MakerEdits
        \/ \E r \in Runs : \/ AgentWrites(r) \/ OutputEnds(r) \/ StrayLine(r)
                           \/ AdapterExits(r) \/ Dies(r)
    BY DEF Next, vars, DriverStep, AdapterStep, Begin, Spawn, Started, Ask, Close, Drained,
           Snapshot, KeepArtifact, Mirror, CopyBack, Finish, PromptTimesOut, Answer,
           AskPermission
  <2>7. QED
    BY <2>1, <2>2, <2>3, <2>4, <2>5, <2>6
<1>3. QED
  BY <1>1, <1>2, SessionsGoOnward, AdapterTypes, FileTypes, OutputTypes DEF TypeInv, TypeOK

LEMMA TypeInit == Init => TypeInv
<1> SUFFICES ASSUME Init PROVE TypeInv
  OBVIOUS
<1>1. NoSession \in Session /\ NoAdapter \in Adapter
  <2>1. (CHOOSE k \in Kinds : TRUE) \in Kinds
    BY ConstantsAssumption
  <2>2. QED
    BY <2>1 DEF NoSession, Session, NoAdapter, Adapter, Steps, Requests
<1>2. bundle \in Tree /\ Empty \in Tree
  BY DEF Init, Tree, Content, Empty
<1>3. NothingFoundEarly
  BY DEF Init, NothingFoundEarly
<1>4. QED
  BY <1>1, <1>2, <1>3, ConstantsAssumption DEF Init, TypeInv, TypeOK

\* The files, sessions and outputs of all runs are of their types.
THEOREM TypeCorrect == Spec => []TypeOK
<1>1. Spec => []TypeInv
  BY TypeInit, TypePreserved, PTL DEF Spec
<1>2. TypeInv => TypeOK
  BY DEF TypeInv
<1>3. QED
  BY <1>1, <1>2, PTL

-----------------------------------------------------------------------------
\* Runs meet in the bundle only.
LEMMA RunsApart ==
    ASSUME TypeInv, NEW q \in Runs, RunStep(q), NEW r \in Runs \ {q}
    PROVE  /\ session'[r] = session[r] /\ adapter'[r] = adapter[r]
           /\ sandbox'[r] = sandbox[r] /\ before'[r] = before[r]
           /\ paths'[r] = paths[r] /\ artifacts'[r] = artifacts[r]
           /\ status'[r] = status[r]
           /\ r \in garbled' <=> r \in garbled
<1>1. session'[r] = session[r]
  BY SessionGoesOnward DEF TypeInv, TypeOK
<1>2. adapter'[r] = adapter[r]
  BY DEF TypeInv, TypeOK, RunStep, DriverStep, AdapterStep, Begin, Spawn, Started, Ask,
         Close, Killed, Drained, Snapshot, KeepArtifact, Mirror, CopyBack, Finish,
         PromptTimesOut, Answer, OutputEnds, StrayLine, AdapterExits, AskPermission,
         AgentWrites, Dies
<1>3. sandbox'[r] = sandbox[r] /\ before'[r] = before[r]
  BY DEF TypeInv, TypeOK, RunStep, DriverStep, AdapterStep, Begin, Spawn, Started, Ask,
         Close, Drained, Snapshot, KeepArtifact, Mirror, CopyBack, Finish,
         PromptTimesOut, Answer, OutputEnds, StrayLine, AdapterExits, AskPermission,
         AgentWrites, Dies, files
<1>4. /\ paths'[r] = paths[r] /\ artifacts'[r] = artifacts[r] /\ status'[r] = status[r]
      /\ r \in garbled' <=> r \in garbled
  BY DEF TypeInv, TypeOK, RunStep, DriverStep, AdapterStep, Begin, Spawn, Started, Ask,
         Close, Drained, Snapshot, KeepArtifact, Kept, Mirror, CopyBack, Finish,
         PromptTimesOut, Answer, OutputEnds, StrayLine, AdapterExits, AskPermission,
         AgentWrites, Dies, output, history
<1>5. QED
  BY <1>1, <1>2, <1>3, <1>4

\* What a session has ended for is not forgotten nor overtaken by a late answer.
LEMMA ReasonRunStep ==
    ASSUME TypeInv, NEW r \in Runs, ReasonIsKnown(r), RunStep(r)
    PROVE  ReasonIsKnown(r)'
<1> DEFINE s == session[r]
           a == adapter[r]
<1>1. /\ session \in [Runs -> Session] /\ s \in Session
      /\ adapter \in [Runs -> Adapter] /\ a \in Adapter
  BY DEF TypeInv, TypeOK
<1> USE DEF Step, Early
<1>2. CASE Begin(r)
  <2>1. session'[r].step = "prepared" /\ session'[r].reason = s.reason
        /\ session'[r].fault = s.fault /\ UNCHANGED <<adapter, garbled>>
    BY <1>1, <1>2 DEF Begin, Session, history
  <2>2. s.reason = "none"
    BY <1>2 DEF Begin, ReasonIsKnown
  <2>3. QED
    BY <2>1, <2>2 DEF ReasonIsKnown
<1>3. CASE Spawn(r)
  <2>1. s.reason = "none" /\ UNCHANGED garbled
    BY <1>3 DEF Spawn, ReasonIsKnown, history
  <2>2. CASE session' = [session EXCEPT ![r].step = "starting", ![r].reading = TRUE]
    <3>1. session'[r].step = "starting" /\ session'[r].reason = "none"
          /\ session'[r].fault = s.fault
      BY <1>1, <2>1, <2>2 DEF Session
    <3>2. QED
      BY <2>1, <3>1 DEF ReasonIsKnown
  <2>3. CASE session' = [session EXCEPT ![r].step = "over", ![r].reason = "spawn"]
    <3>1. session'[r].step = "over" /\ session'[r].reason = "spawn"
          /\ session'[r].fault = s.fault
      BY <1>1, <2>1, <2>3 DEF Session
    <3>2. QED
      BY <2>1, <3>1 DEF ReasonIsKnown
  <2>4. QED
    BY <1>3, <2>2, <2>3 DEF Spawn
\* Giving up for any reason but an answer.
<1>4. ASSUME NEW why \in {"spawn", "connection", "plain", "timeout"},
             session' = [session EXCEPT ![r] = Settled(s, why)],
             garbled \subseteq garbled', s.fault = "plain" => r \in garbled,
             why = "plain" => r \in garbled'
      PROVE  ReasonIsKnown(r)'
  <2>1. why \in Reasons
    BY DEF Reasons
  <2>2. session'[r] = Settled(s, why)
    BY <1>1, <1>4
  <2>3. session'[r].step = "closing" /\ session'[r].reason = why /\ session'[r].fault = s.fault
    BY <1>1, <2>1, <2>2, SettledIs DEF Same
  <2>4. QED
    BY <1>4, <2>3 DEF ReasonIsKnown
<1>5. CASE Started(r)
  <2>1. UNCHANGED <<adapter, garbled>> /\ s.reason = "none" /\ (s.fault = "plain" => r \in garbled)
    BY <1>5 DEF Started, history, ReasonIsKnown
  <2>2. CASE session' = [session EXCEPT ![r].step = "ready"]
    <3>1. session'[r].step = "ready" /\ session'[r].reason = "none" /\ session'[r].fault = s.fault
      BY <1>1, <2>1, <2>2 DEF Session
    <3>2. QED
      BY <2>1, <3>1 DEF ReasonIsKnown
  <2>3. CASE session' = [session EXCEPT ![r] = Settled(s, "spawn")]
    BY <1>4, <2>1, <2>3
  <2>4. QED
    BY <1>5, <2>2, <2>3 DEF Started, To, Settle
<1>6. CASE Ask(r)
  <2>1. s.step = "ready" /\ s.reason = "none" /\ (s.fault = "plain" => r \in garbled)
        /\ garbled \subseteq garbled'
    BY <1>6 DEF Ask, ReasonIsKnown
  <2>2. CASE s.fault # "none"
    <3>1. s.fault \in {"connection", "plain"} /\ UNCHANGED garbled
          /\ session' = [session EXCEPT ![r] = Settled(s, s.fault)]
      BY <1>1, <1>6, <2>2 DEF Ask, Session, Settle
    <3>2. QED
      BY <1>4, <2>1, <3>1
  <2>3. CASE s.fault = "none" /\ To(r, "asking")
    <3>1. session'[r] = [s EXCEPT !.step = "asking"]
      BY <1>1, <2>3 DEF To
    <3>2. session'[r].next = s.next /\ session'[r].reason = "none" /\ session'[r].fault = "none"
      BY <1>1, <2>1, <2>3, <3>1 DEF Session
    <3>3. s.next = "prompt" /\ adapter'[r].up => adapter'[r].prompted
      <4>1. CASE a.up
        <5>1. adapter' = [adapter EXCEPT ![r] =
                 [a EXCEPT !.asked = TRUE, !.prompted = @ \/ s.next = "prompt"]]
          <6>1. s.step = "asking" => FALSE
            BY <2>1
          <6>2. session' # [session EXCEPT ![r] = Settled(s, "plain")]
            <7>1. Settled(s, "plain").step = "closing"
              BY <1>1, SettledIs DEF Reasons
            <7>2. session'[r].step = "asking"
              BY <1>1, <3>1 DEF Session
            <7>3. QED
              BY <1>1, <7>1, <7>2
          <6>3. QED
            BY <1>6, <2>3, <4>1, <6>2 DEF Ask, Settle
        <5>2. QED
          BY <1>1, <5>1 DEF Adapter
      <4>2. CASE ~a.up
        BY <1>6, <2>3, <4>2 DEF Ask
      <4>3. QED
        BY <4>1, <4>2
    <3>4. QED
      BY <3>2, <3>3 DEF ReasonIsKnown
  <2>4. CASE s.fault = "none" /\ ~To(r, "asking")
    <3>1. session' = [session EXCEPT ![r] = Settled(s, "plain")] /\ r \in garbled'
      BY <1>6, <2>4 DEF Ask, Settle
    <3>2. QED
      BY <1>4, <2>1, <3>1
  <2>5. QED
    BY <2>2, <2>3, <2>4
<1>7. CASE Answer(r)
  <2>1. PICK answer \in Answers :
          /\ adapter' = [adapter EXCEPT ![r] = [a EXCEPT !.asked = FALSE, !.said = answer]]
          /\ session' = IF Pending(r) THEN [session EXCEPT ![r] = Received(s, answer)]
                        ELSE session
    BY <1>7 DEF Answer
  <2>2. a.up /\ a.asked /\ UNCHANGED garbled
    BY <1>7 DEF Answer, history
  <2>3. /\ adapter'[r].said = answer /\ adapter'[r].prompted = a.prompted
        /\ ~adapter'[r].asked
    BY <1>1, <2>1 DEF Adapter
  <2>4. CASE Pending(r)
    <3>1. session'[r] = Received(s, answer) /\ s.step = "asking" /\ s.reason = "none"
      BY <1>1, <2>1, <2>4 DEF Pending, ReasonIsKnown
    <3>2. s.next = "prompt" => a.prompted
      BY <2>2, <3>1 DEF ReasonIsKnown
    <3>3. /\ session'[r].fault = s.fault /\ session'[r].model = s.model
          /\ \/ session'[r].step = "ready" /\ session'[r].reason = "none"
             \/ /\ session'[r].step = "closing"
                /\ \/ session'[r].reason = "end_turn" /\ answer = "ok" /\ s.next = "prompt"
                   \/ session'[r].reason = "plain" /\ s.model = "unknown"
                   \/ session'[r].reason = "stop" /\ answer = "stop"
                   \/ session'[r].reason = "task" /\ answer \in {"error", "nomethod"}
                   \/ session'[r].reason = "auth"
      BY <1>1, <3>1, ReceivedIs DEF Same
    <3>4. QED
      BY <2>2, <2>3, <3>2, <3>3 DEF ReasonIsKnown
  <2>5. CASE ~Pending(r)
    BY <2>1, <2>2, <2>3, <2>5 DEF ReasonIsKnown, Pending
  <2>6. QED
    BY <2>4, <2>5
<1>8. CASE PromptTimesOut(r)
  BY <1>4, <1>8 DEF PromptTimesOut, Settle, history, ReasonIsKnown
\* The loop's end settles what is pending, and touches no adapter's word.
<1>9. ASSUME NEW fault \in {"none", "connection", "plain"},
             session' = [session EXCEPT ![r] = LoopEnds(s, fault)],
             UNCHANGED adapter, garbled \subseteq garbled',
             fault = "plain" => r \in garbled'
      PROVE  ReasonIsKnown(r)'
  <2>1. session'[r] = LoopEnds(s, fault)
    BY <1>1, <1>9
  <2>2. /\ session'[r].fault = fault /\ session'[r].model = s.model
        /\ \/ s.step # "asking" /\ session'[r].step = s.step /\ session'[r].reason = s.reason
           \/ session'[r].step = "closing" /\ session'[r].reason = "connection"
    BY <1>1, <2>1, LoopEndsIs
  <2>3. QED
    BY <1>9, <2>2 DEF ReasonIsKnown
<1>10. CASE OutputEnds(r)
  <2>1. /\ s.fault \in {"none", "connection", "plain"}
        /\ session' = [session EXCEPT ![r] = LoopEnds(s, s.fault)]
        /\ UNCHANGED <<adapter, garbled>>
    BY <1>1, <1>10 DEF OutputEnds, Session, history
  <2>2. s.fault = "plain" => r \in garbled
    BY DEF ReasonIsKnown
  <2>3. QED
    BY <1>9, <2>1, <2>2
<1>11. CASE StrayLine(r)
  <2>1. UNCHANGED adapter /\ garbled \subseteq garbled'
    BY <1>11 DEF StrayLine
  <2>2. CASE session' = [session EXCEPT ![r].fault = "connection"]
    <3>1. session'[r] = [s EXCEPT !.fault = "connection"]
      BY <1>1, <2>2
    <3>2. /\ session'[r].fault = "connection" /\ session'[r].step = s.step
          /\ session'[r].reason = s.reason /\ session'[r].model = s.model
          /\ session'[r].next = s.next
      BY <1>1, <3>1 DEF Session
    <3>3. QED
      BY <2>1, <3>2 DEF ReasonIsKnown
  <2>3. CASE session' = [session EXCEPT ![r] = LoopEnds(s, "plain")] /\ r \in garbled'
    BY <1>9, <2>1, <2>3
  <2>4. QED
    BY <1>11, <2>2, <2>3 DEF StrayLine
<1>12. CASE AdapterExits(r)
  <2>1. UNCHANGED <<session, garbled>> /\ ~adapter'[r].up /\ adapter'[r].said = a.said
        /\ adapter'[r].prompted = a.prompted /\ adapter'[r].asked = a.asked
    BY <1>1, <1>12 DEF AdapterExits, Adapter, history
  <2>2. QED
    BY <2>1 DEF ReasonIsKnown
\* From the end of the session on only its step changes.
<1>13. CASE \/ Close(r) \/ Drained(r) \/ Snapshot(r) \/ KeepArtifact(r) \/ Mirror(r)
            \/ CopyBack(r) \/ Finish(r) \/ Dies(r)
  <2>1. UNCHANGED garbled /\ adapter'[r].said = a.said /\ adapter'[r].asked = a.asked
        /\ adapter'[r].prompted = a.prompted
    BY <1>1, <1>13 DEF Close, Killed, Drained, Snapshot, KeepArtifact, Mirror, CopyBack,
                       Finish, Dies, Adapter, history
  <2>2. \/ UNCHANGED session /\ UNCHANGED adapter
        \/ \E step \in {"draining", "over", "copying", "done", "gone"} : To(r, step)
    BY <1>13 DEF Close, Drained, Snapshot, KeepArtifact, Mirror, CopyBack, Finish, Dies
  <2>3. CASE UNCHANGED session /\ UNCHANGED adapter
    BY <2>1, <2>3 DEF ReasonIsKnown
  <2>4. ASSUME NEW step \in {"draining", "over", "copying", "done", "gone"}, To(r, step)
        PROVE  ReasonIsKnown(r)'
    <3>1. session'[r] = [s EXCEPT !.step = step]
      BY <1>1, <2>4 DEF To
    <3>2. /\ session'[r].fault = s.fault /\ session'[r].step = step
          /\ session'[r].reason = s.reason /\ session'[r].model = s.model
      BY <1>1, <3>1 DEF Session
    <3>3. QED
      BY <2>1, <3>2 DEF ReasonIsKnown
  <2>5. QED
    BY <2>2, <2>3, <2>4
<1>14. CASE AskPermission(r) \/ AgentWrites(r)
  BY <1>14 DEF AskPermission, AgentWrites, history, ReasonIsKnown
<1>15. QED
  BY <1>2, <1>3, <1>5, <1>6, <1>7, <1>8, <1>10, <1>11, <1>12, <1>13, <1>14
     DEF RunStep, DriverStep, AdapterStep

\* A status is made once, of the reason the session has ended for.
LEMMA StatusRunStep ==
    ASSUME TypeInv, NEW r \in Runs, ReasonIsKnown(r), StatusIsOfReason(r), RunStep(r)
    PROVE  StatusIsOfReason(r)'
<1>1. session[r] \in Session /\ status \in [Runs -> Status \union {"none"}]
      /\ session \in [Runs -> Session]
  BY DEF TypeInv, TypeOK
<1>2. CASE Snapshot(r)
  <2>1. session'[r] = [session[r] EXCEPT !.step = "copying"]
    BY <1>1, <1>2 DEF Snapshot, To
  <2>2. session'[r].step = "copying" /\ session'[r].reason = session[r].reason
    BY <1>1, <2>1 DEF Session
  <2>3. PICK noisy \in BOOLEAN : status'[r] = StatusOf(session[r].reason, noisy)
    BY <1>1, <1>2 DEF Snapshot
  <2>4. /\ status'[r] = "completed" => session[r].reason = "end_turn"
        /\ status'[r] = "failed" => session[r].reason \in {"stop", "task", "plain"}
    BY <2>3 DEF StatusOf
  <2>5. QED
    BY <2>2, <2>4 DEF StatusIsOfReason, Step, Late
<1>3. CASE ~Snapshot(r)
  <2>1. UNCHANGED status
    BY <1>3 DEF RunStep, DriverStep, AdapterStep, Begin, Spawn, Started, Ask, Close,
       Drained, KeepArtifact, Mirror, CopyBack, Finish, PromptTimesOut, Answer,
       OutputEnds, StrayLine, AdapterExits, AskPermission, AgentWrites, Dies, output
  <2>2. CASE status[r] = "none"
    BY <2>1, <2>2 DEF StatusIsOfReason
  <2>3. CASE status[r] # "none"
    <3>1. session[r].step \in Late
      BY <2>3 DEF StatusIsOfReason, Step
    <3>2. PICK t : Onward(session[r], t) /\ session' = [session EXCEPT ![r] = t]
      BY SessionGoesOnward
    <3>3. session'[r].step \in Late
      BY <1>1, <3>1, <3>2 DEF Onward
    <3>4. session'[r].reason = session[r].reason
      <4>1. CASE UNCHANGED session
        BY <4>1
      <4>2. CASE session' # session /\ \E step \in Steps : To(r, step)
        <5>1. PICK step \in Steps : session'[r] = [session[r] EXCEPT !.step = step]
          BY <1>1, <4>2 DEF To
        <5>2. QED
          BY <1>1, <5>1 DEF Session
      <4>3. CASE OutputEnds(r)
        <5>1. session'[r] = LoopEnds(session[r], session[r].fault)
              /\ session[r].fault \in {"none", "connection", "plain"}
          BY <1>1, <4>3 DEF OutputEnds, Session
        <5>2. QED
          BY <1>1, <3>1, <5>1, LoopEndsIs DEF Late
      <4>4. CASE StrayLine(r)
        <5>1. CASE session' = [session EXCEPT ![r].fault = "connection"]
          <6>1. session'[r] = [session[r] EXCEPT !.fault = "connection"]
            BY <1>1, <5>1
          <6>2. QED
            BY <1>1, <6>1 DEF Session
        <5>2. CASE session' = [session EXCEPT ![r] = LoopEnds(session[r], "plain")]
          <6>1. session'[r] = LoopEnds(session[r], "plain")
            BY <1>1, <5>2
          <6>2. QED
            BY <1>1, <3>1, <6>1, LoopEndsIs DEF Late
        <5>3. QED
          BY <4>4, <5>1, <5>2 DEF StrayLine
      <4>5. \/ UNCHANGED session \/ (\E step \in Steps : To(r, step))
            \/ OutputEnds(r) \/ StrayLine(r)
        BY <1>3, <3>1 DEF RunStep, DriverStep, AdapterStep, Begin, Spawn, Started, Ask,
           Close, Drained, KeepArtifact, Mirror, CopyBack, Finish, PromptTimesOut, Answer,
           Pending, AdapterExits, AskPermission, AgentWrites, Dies, Late, Step, Steps
      <4>6. QED
        BY <4>1, <4>2, <4>3, <4>4, <4>5
    <3>5. QED
      BY <2>1, <3>3, <3>4 DEF StatusIsOfReason, Step
  <2>4. QED
    BY <2>2, <2>3
<1>4. QED
  BY <1>2, <1>3

LEMMA SessionPreserved == TypeInv /\ SessionInv /\ [Next]_vars => SessionInv'
<1> SUFFICES ASSUME TypeInv, SessionInv, [Next]_vars, NEW r \in Runs
             PROVE  ReasonIsKnown(r)' /\ StatusIsOfReason(r)'
  BY DEF SessionInv
<1>1. ReasonIsKnown(r) /\ StatusIsOfReason(r)
  BY DEF SessionInv
<1>2. ASSUME session'[r] = session[r], adapter'[r] = adapter[r], status'[r] = status[r],
             r \in garbled' <=> r \in garbled
      PROVE  ReasonIsKnown(r)' /\ StatusIsOfReason(r)'
  BY <1>1, <1>2 DEF ReasonIsKnown, StatusIsOfReason, Step
<1>3. CASE RunStep(r)
  BY <1>1, <1>3, ReasonRunStep, StatusRunStep
<1>4. ASSUME NEW q \in Runs \ {r}, RunStep(q)
      PROVE  ReasonIsKnown(r)' /\ StatusIsOfReason(r)'
  <2>1. /\ session'[r] = session[r] /\ adapter'[r] = adapter[r] /\ status'[r] = status[r]
        /\ r \in garbled' <=> r \in garbled
    BY <1>4, RunsApart
  <2>2. QED
    BY <1>2, <2>1
<1>5. CASE MakerEdits \/ UNCHANGED vars
  BY <1>2, <1>5 DEF MakerEdits, vars, output, history
<1>6. QED
  BY <1>3, <1>4, <1>5 DEF Next, RunStep
-----------------------------------------------------------------------------
\* An agent writes as itself, and a run finds changed only what its agent wrote.
LEMMA SandboxRunStep ==
    ASSUME TypeInv, NEW r \in Runs, SandboxIsOwn(r), RunStep(r)
    PROVE  SandboxIsOwn(r)'
<1>1. /\ sandbox \in [Runs -> Tree] /\ before \in [Runs -> Tree]
      /\ paths \in [Runs -> SUBSET Files] /\ artifacts \in [Runs -> SUBSET Files]
      /\ session[r] \in Session
  BY DEF TypeInv, TypeOK
<1>2. /\ session'[r] \in Session
      /\ Step(r) # "new" => session'[r].kind = session[r].kind
  <2>1. PICK t : Onward(session[r], t) /\ session' = [session EXCEPT ![r] = t]
    BY SessionGoesOnward
  <2>2. session'[r] = t
    BY <2>1 DEF TypeInv, TypeOK
  <2>3. QED
    BY <2>1, <2>2 DEF Onward, Step
<1>3. CASE Begin(r)
  <2>1. paths[r] = {} /\ UNCHANGED <<paths, artifacts>>
    BY <1>3 DEF Begin, TypeInv, NothingFoundEarly, Late, output
  <2>2. sandbox'[r] = before'[r]
    BY <1>1, <1>3 DEF Begin
  <2>3. artifacts[r] = {}
    BY <2>1 DEF TypeInv, TypeOK
  <2>4. QED
    BY <2>1, <2>2, <2>3 DEF SandboxIsOwn
<1>4. CASE AgentWrites(r)
  <2>1. PICK f \in Files, content \in {r, "absent"} :
          sandbox' = [sandbox EXCEPT ![r] = [sandbox[r] EXCEPT ![f] = content]]
    BY <1>4 DEF AgentWrites
  <2>2. \A g \in Files : sandbox'[r][g] = sandbox[r][g] \/ sandbox'[r][g] \in {r, "absent"}
    BY <1>1, <2>1 DEF Tree
  <2>3. UNCHANGED <<session, before, paths, artifacts>>
    BY <1>4 DEF AgentWrites, output
  <2>4. paths[r] \subseteq Files
    BY <1>1
  <2>5. QED
    BY <2>2, <2>3, <2>4 DEF SandboxIsOwn
<1>5. CASE Snapshot(r)
  <2>1. Step(r) = "over" /\ UNCHANGED <<sandbox, before, artifacts>>
    BY <1>5 DEF Snapshot, files
  <2>2. paths'[r] = Given(session[r].kind, Changed(r))
    BY <1>1, <1>5 DEF Snapshot
  <2>3. /\ paths'[r] \subseteq Changed(r)
        /\ session[r].kind # "eval" => paths'[r] \subseteq Produces(session[r].kind)
    BY <2>2 DEF Given
  <2>4. \A f \in Changed(r) : sandbox[r][f] \in {r, "absent"}
    BY DEF Changed, SandboxIsOwn
  <2>5. QED
    BY <1>2, <2>1, <2>3, <2>4 DEF SandboxIsOwn
<1>6. CASE KeepArtifact(r) \/ Mirror(r)
  <2>1. /\ UNCHANGED <<sandbox, before, paths>> /\ Step(r) = "copying"
        /\ \/ UNCHANGED artifacts
           \/ \E f \in paths[r] :
                 /\ session[r].kind = "eval" => f \notin Secret
                 /\ artifacts' = [artifacts EXCEPT ![r] = @ \union {f}]
    BY <1>6 DEF KeepArtifact, Mirror, Kept, files
  <2>2. session'[r].kind = "eval" => artifacts'[r] \intersect Secret = {}
    <3>1. CASE UNCHANGED artifacts
      BY <1>2, <2>1, <3>1 DEF SandboxIsOwn
    <3>2. ASSUME NEW f \in paths[r], session[r].kind = "eval" => f \notin Secret,
                 artifacts' = [artifacts EXCEPT ![r] = @ \union {f}]
          PROVE  session'[r].kind = "eval" => artifacts'[r] \intersect Secret = {}
      <4>1. artifacts'[r] = artifacts[r] \union {f}
        BY <1>1, <3>2
      <4>2. QED
        BY <1>2, <2>1, <3>2, <4>1 DEF SandboxIsOwn
    <3>3. QED
      BY <2>1, <3>1, <3>2
  <2>3. QED
    BY <1>2, <2>1, <2>2 DEF SandboxIsOwn
<1>7. CASE UNCHANGED <<sandbox, before, paths, artifacts>> /\ Step(r) # "new"
  BY <1>2, <1>7 DEF SandboxIsOwn
<1>8. UNCHANGED <<sandbox, before, paths, artifacts>>
      \/ Begin(r) \/ AgentWrites(r) \/ Snapshot(r) \/ KeepArtifact(r) \/ Mirror(r)
  BY DEF RunStep, DriverStep, AdapterStep, Spawn, Started, Ask, Close, Drained, CopyBack,
     Finish, PromptTimesOut, Answer, OutputEnds, StrayLine, AdapterExits, AskPermission,
     Dies, files, output
<1>9. CASE Step(r) = "new" /\ ~Begin(r)
  <2>1. UNCHANGED <<sandbox, before, paths, artifacts>> \/ AgentWrites(r)
    BY <1>8, <1>9 DEF Snapshot, KeepArtifact, Mirror
  <2>2. paths[r] = {} /\ artifacts[r] = {}
    BY <1>9 DEF TypeInv, TypeOK, NothingFoundEarly, Late
  <2>3. QED
    BY <1>4, <2>1, <2>2 DEF SandboxIsOwn
<1>10. QED
  BY <1>3, <1>4, <1>5, <1>6, <1>7, <1>8, <1>9

LEMMA SandboxPreserved == TypeInv /\ SandboxInv /\ [Next]_vars => SandboxInv'
<1> SUFFICES ASSUME TypeInv, SandboxInv, [Next]_vars, NEW r \in Runs
             PROVE  SandboxIsOwn(r)'
  BY DEF SandboxInv
<1>1. SandboxIsOwn(r)
  BY DEF SandboxInv
<1>2. CASE RunStep(r)
  BY <1>1, <1>2, SandboxRunStep
<1>3. ASSUME NEW q \in Runs \ {r}, RunStep(q)
      PROVE  SandboxIsOwn(r)'
  BY <1>1, <1>3, RunsApart DEF SandboxIsOwn
<1>4. CASE MakerEdits \/ UNCHANGED vars
  BY <1>1, <1>4 DEF MakerEdits, vars, files, output, SandboxIsOwn
<1>5. QED
  BY <1>2, <1>3, <1>4 DEF Next, RunStep

\* Who copies a file back has kept it, and puts what its own agent wrote where
\* its station may.
LEMMA CopiesBackOwn ==
    ASSUME TypeInv, SandboxInv, NEW r \in Runs, CopyBack(r)
    PROVE  \/ UNCHANGED bundle
           \/ \E f \in Files : /\ bundle' = [bundle EXCEPT ![f] = r]
                               /\ f \in artifacts[r]
                               /\ f \in Produces(session[r].kind)
                               /\ UNCHANGED session
<1>1. PICK f \in HalfCopied(r) :
        IF sandbox[r][f] = "absent" THEN UNCHANGED bundle
        ELSE bundle' = [bundle EXCEPT ![f] = sandbox[r][f]] /\ UNCHANGED session
  BY DEF CopyBack
<1>2. f \in artifacts[r] /\ f \in paths[r] /\ f \in Files
  BY DEF HalfCopied, TypeInv, TypeOK
<1>3. session[r].kind # "eval"
  BY DEF CopyBack
<1>4. sandbox[r][f] \in {r, "absent"} /\ f \in Produces(session[r].kind)
  BY <1>2, <1>3 DEF SandboxInv, SandboxIsOwn
<1>5. QED
  BY <1>1, <1>2, <1>4

\* Only a station's copy and the maker change the bundle.
LEMMA BundleChanges ==
    ASSUME [Next]_vars
    PROVE  UNCHANGED bundle \/ MakerEdits \/ \E r \in Runs : CopyBack(r)
BY DEF Next, vars, DriverStep, AdapterStep, Begin, Spawn, Started, Ask, Close, Drained,
   Snapshot, KeepArtifact, Mirror, Finish, PromptTimesOut, Answer, OutputEnds, StrayLine,
   AdapterExits, AskPermission, AgentWrites, Dies, files

LEMMA BundlePreserved ==
    TypeInv /\ SandboxInv /\ BundleIsKept /\ [Next]_vars => BundleIsKept'
<1> SUFFICES ASSUME TypeInv, SandboxInv, BundleIsKept, [Next]_vars,
                    NEW f \in Files, bundle'[f] \in Runs
             PROVE  f \in artifacts'[bundle'[f]]
  BY DEF BundleIsKept
<1>1. \A r \in Runs : artifacts[r] \subseteq artifacts'[r]
  <2>1. \/ UNCHANGED artifacts
        \/ \E q \in Runs : KeepArtifact(q) \/ Mirror(q)
    BY DEF Next, vars, output, MakerEdits, DriverStep, AdapterStep, Begin, Spawn, Started,
       Ask, Close, Drained, Snapshot, CopyBack, Finish, PromptTimesOut, Answer, OutputEnds,
       StrayLine, AdapterExits, AskPermission, AgentWrites, Dies
  <2>2. ASSUME NEW q \in Runs, KeepArtifact(q) \/ Mirror(q)
        PROVE  \E S : artifacts' = [artifacts EXCEPT ![q] = @ \union S]
    <3>1. ASSUME UNCHANGED artifacts
          PROVE  artifacts' = [artifacts EXCEPT ![q] = @ \union {}]
      BY <3>1 DEF TypeInv, TypeOK
    <3>2. UNCHANGED artifacts \/ \E path \in paths[q] : Kept(q, path)
      BY <2>2 DEF KeepArtifact, Mirror
    <3>3. QED
      BY <3>1, <3>2 DEF Kept
  <2>3. QED
    BY <2>1, <2>2 DEF TypeInv, TypeOK
<1>2. CASE UNCHANGED bundle
  BY <1>1, <1>2 DEF BundleIsKept
<1>3. CASE MakerEdits
  <2>1. bundle'[f] = bundle[f] \/ bundle'[f] = "maker"
    BY <1>3 DEF MakerEdits, TypeInv, TypeOK, Tree
  <2>2. QED
    BY <1>1, <2>1, ConstantsAssumption DEF BundleIsKept
<1>4. ASSUME NEW r \in Runs, CopyBack(r)
      PROVE  f \in artifacts'[bundle'[f]]
  <2>1. CASE UNCHANGED bundle
    BY <1>2, <2>1
  <2>2. ASSUME NEW g \in Files, bundle' = [bundle EXCEPT ![g] = r], g \in artifacts[r]
        PROVE  f \in artifacts'[bundle'[f]]
    <3>1. (f = g /\ bundle'[f] = r) \/ bundle'[f] = bundle[f]
      BY <2>2 DEF TypeInv, TypeOK, Tree
    <3>2. QED
      BY <1>1, <2>2, <3>1 DEF BundleIsKept
  <2>3. QED
    BY <1>4, <2>1, <2>2, CopiesBackOwn
<1>5. QED
  BY <1>2, <1>3, <1>4, BundleChanges
-----------------------------------------------------------------------------
\* Where a refusal is offered, the policy finds it.
LEMMA OutsideIsRefused ==
    ASSUME NEW offer \in Offers, NEW i \in DOMAIN offer, offer[i] \in Refusing
    PROVE  Decision(TRUE, offer) \in Refusing
<1> DEFINE kinds == <<"reject_once", "reject_always", "deny">>
           found == {k \in DOMAIN kinds : \E j \in DOMAIN offer : offer[j] = kinds[k]}
<1>1. DOMAIN kinds = 1..3 /\ \A k \in 1..3 : kinds[k] \in Refusing
  BY DEF Refusing
<1>2. found # {}
  <2>1. \E k \in 1..3 : kinds[k] = offer[i]
    <3>1. kinds[1] = "reject_once" /\ kinds[2] = "reject_always" /\ kinds[3] = "deny"
      OBVIOUS
    <3>2. QED
      BY <3>1 DEF Refusing
  <2>2. QED
    BY <1>1, <2>1
<1>3. found \subseteq 1..3
  BY <1>1
<1> HIDE DEF kinds
<1>4. \E k \in found : \A m \in found : k <= m
  <2> HIDE DEF found
  <2>1. PICK j \in found : TRUE
    BY <1>2
  <2>2. CASE 1 \in found
    BY <1>3, <2>2
  <2>3. CASE 1 \notin found /\ 2 \in found
    BY <1>3, <2>3
  <2>4. CASE found = {3}
    BY <2>4
  <2>5. QED
    BY <1>3, <2>1, <2>2, <2>3, <2>4
<1>5. kinds[CHOOSE k \in found : \A m \in found : k <= m] \in Refusing
  <2>1. (CHOOSE k \in found : \A m \in found : k <= m) \in found
    BY <1>4
  <2>2. QED
    BY <1>1, <2>1
<1>6. QED
  BY <1>2, <1>5 DEF Decision, Deny, FirstOf, kinds

LEMMA PolicyPreserved == PolicyHolds /\ [Next]_vars => PolicyHolds'
<1> SUFFICES ASSUME PolicyHolds, [Next]_vars PROVE PolicyHolds'
  OBVIOUS
<1>1. UNCHANGED breached \/ \E r \in Runs : AskPermission(r)
  BY DEF Next, vars, history, MakerEdits, DriverStep, AdapterStep, Begin, Spawn, Started,
     Ask, Close, Drained, Snapshot, KeepArtifact, Mirror, CopyBack, Finish, PromptTimesOut,
     Answer, OutputEnds, StrayLine, AdapterExits, AgentWrites, Dies
<1>2. ASSUME NEW r \in Runs, AskPermission(r)
      PROVE  UNCHANGED breached
  <2>1. PICK outside \in BOOLEAN, offer \in Offers :
          breached' = IF /\ outside /\ Decision(outside, offer) \notin Refusing
                         /\ \E i \in DOMAIN offer : offer[i] \in Refusing
                      THEN breached \union {r} ELSE breached
    BY <1>2 DEF AskPermission
  <2>2. CASE outside /\ \E i \in DOMAIN offer : offer[i] \in Refusing
    <3>1. outside = TRUE
      BY <2>2
    <3>2. Decision(outside, offer) \in Refusing
      BY <2>2, <3>1, OutsideIsRefused
    <3>3. QED
      BY <2>1, <3>2
  <2>3. CASE ~(outside /\ \E i \in DOMAIN offer : offer[i] \in Refusing)
    BY <2>1, <2>3
  <2>4. QED
    BY <2>2, <2>3
<1>3. QED
  BY <1>1, <1>2 DEF PolicyHolds
-----------------------------------------------------------------------------
LEMMA AgentHolds == Spec => []AgentInv
<1>1. Init => AgentInv
  <2> SUFFICES ASSUME Init PROVE AgentInv
    OBVIOUS
  <2>1. TypeInv
    BY TypeInit
  <2>2. SessionInv
    BY DEF Init, SessionInv, ReasonIsKnown, StatusIsOfReason, NoSession, Step
  <2>3. SandboxInv
    BY DEF Init, SandboxInv, SandboxIsOwn
  <2>4. BundleIsKept
    BY ConstantsAssumption DEF Init, BundleIsKept
  <2>5. QED
    BY <2>1, <2>2, <2>3, <2>4 DEF Init, AgentInv, PolicyHolds
<1>2. AgentInv /\ [Next]_vars => AgentInv'
  BY TypePreserved, SessionPreserved, SandboxPreserved, BundlePreserved, PolicyPreserved
     DEF AgentInv
<1>3. QED
  BY <1>1, <1>2, PTL DEF Spec

\* A run reports what happened: its status is what its adapter answered or what
\* became of the connection, all it put into the bundle is on its own record,
\* and no request that reached outside and could be refused was allowed.
THEOREM RunsTrue == Spec => []RunsAreTrue
<1>1. AgentInv => RunsAreTrue
  <2> SUFFICES ASSUME AgentInv PROVE RunsAreTrue
    OBVIOUS
  <2>1. StatusIsHonest
    BY DEF AgentInv, SessionInv, ReasonIsKnown, StatusIsOfReason, StatusIsHonest
  <2>2. WorkIsOnRecord
    <3>1. \A r \in reviewed : {f \in Files : bundle[f] = r} \subseteq paths[r]
      BY DEF AgentInv, BundleIsKept, TypeInv, TypeOK
    <3>2. QED
      BY <3>1 DEF AgentInv, BundleIsKept, SandboxInv, SandboxIsOwn, WorkIsOnRecord
  <2>3. QED
    BY <2>1, <2>2 DEF AgentInv, RunsAreTrue
<1>2. QED
  BY <1>1, AgentHolds, PTL

\* A run changes the bundle only into what its own agent wrote, and only what
\* its station produces.
THEOREM CopiesOwn == Spec => CopybackIsOwn
<1> DEFINE Own == \A f \in Files : bundle'[f] # bundle[f] /\ bundle'[f] # "maker" =>
                     \E r \in Runs : /\ bundle'[f] = r
                                     /\ f \in Produces(session[r].kind)
<1>1. AgentInv /\ [Next]_vars => Own
  <2> SUFFICES ASSUME AgentInv, [Next]_vars, NEW f \in Files,
                      bundle'[f] # bundle[f], bundle'[f] # "maker"
               PROVE  \E r \in Runs : bundle'[f] = r /\ f \in Produces(session[r].kind)
    OBVIOUS
  <2>1. ~MakerEdits
    BY DEF MakerEdits, AgentInv, TypeInv, TypeOK, Tree
  <2>2. PICK r \in Runs : CopyBack(r)
    BY <2>1, BundleChanges
  <2>3. PICK g \in Files : /\ bundle' = [bundle EXCEPT ![g] = r]
                           /\ g \in Produces(session[r].kind)
    BY <2>2, CopiesBackOwn DEF AgentInv
  <2>4. f = g /\ bundle'[f] = r
    BY <2>3 DEF AgentInv, TypeInv, TypeOK, Tree
  <2>5. QED
    BY <2>3, <2>4
<1>2. QED
  BY <1>1, AgentHolds, PTL DEF Spec, CopybackIsOwn
=============================================================================
