------------------------------ MODULE AgentRun ------------------------------
(***************************************************************************)
(* What happens inside a run: a sandbox is filled with files of the        *)
(* bundle, an agent works in it behind an adapter process that speaks      *)
(* JSON-RPC over its pipes (packages/runner/src/AcpClient.ts), the         *)
(* session is classified, and what the agent changed is copied out: by an  *)
(* eval run to its own artifacts (packages/runner/src/Runner.ts), by a     *)
(* station run also into the bundle, whose review it then requests         *)
(* (packages/core/src/StationEngine.ts).                                   *)
(*                                                                         *)
(* Nothing keeps two runs of a bundle, or a run and its maker, apart. The  *)
(* adapter is not trusted: it may die, answer late or never, close its     *)
(* output, print lines that are no messages, and outlive its session. Of   *)
(* a message it matters which request it answers and how; of a file, who   *)
(* wrote it last. The records and events of a run are module RunLifecycle. *)
(* Left out: the files of an eval case and of the installed skill, which   *)
(* no one copies back; credentials and environment; notes and prompts.     *)
(***************************************************************************)
EXTENDS Integers, Sequences, FiniteSets

CONSTANTS
    Runs,       \* runs of one bundle
    Files,      \* paths, of the bundle and of the sandboxes
    Research,   \* those under research/
    Secret,     \* those whose names look like credentials
    Kinds,      \* "eval" and the stations that are run
    Noise,      \* may lines of the adapter be no messages?
    MaxWrites,  \* bound: files written or removed by each agent
    MaxEdits,   \* bound: files edited by the maker
    MaxFaults   \* bound: deaths, closed outputs, stray lines, broken pipes

ASSUME ConstantsAssumption ==
    /\ Research \subseteq Files /\ Secret \subseteq Files
    /\ Kinds \subseteq {"eval", "researching", "drafting"} /\ Kinds # {}
    /\ {"absent", "old", "maker"} \intersect Runs = {}
    /\ Noise \in BOOLEAN
    /\ MaxWrites \in Nat /\ MaxEdits \in Nat /\ MaxFaults \in Nat

\* DEFAULT_STATIONS_TEMPLATE: what a station may give back to the bundle,
\* and what else it is given to read; design.md is given to every one. A
\* directory stands for all that lies under it, whatever its name. The
\* evaluating station has no skill, so there are no runs of it.
Produces(kind) ==
    CASE kind = "researching" -> Research
      [] kind = "drafting" -> {"design.md", "output/SKILL.md"}
      [] OTHER -> {}

Seeds(kind) ==
    Produces(kind) \union
    CASE kind = "researching" -> {"design.md"}
      [] kind = "drafting" -> {"design.md"} \union Research
      [] OTHER -> {}

Content == {"absent", "old", "maker"} \union Runs
Tree == [Files -> Content]

Requests == {"initialize", "session/new", "set_model", "set_config_option", "prompt"}
Answers == {"ok", "stop", "auth", "nomethod", "error"}
\* Why a session ended: an answer, or what went wrong.
Reasons == {"end_turn", "stop", "auth", "task", "plain", "spawn", "timeout",
            "connection"}
Status == {"completed", "failed", "infra-error"}

Steps == {"new", "prepared", "starting", "ready", "asking", "closing", "draining",
          "over", "copying", "done", "gone"}
Session == [step : Steps, kind : Kinds, model : {"default", "known", "unknown"},
            next : Requests, fault : {"none", "connection", "plain"},
            reading : BOOLEAN, reason : Reasons \union {"none"}]
NoSession == [step |-> "new", kind |-> CHOOSE k \in Kinds : TRUE, model |-> "default",
              next |-> "initialize", fault |-> "none", reading |-> FALSE,
              reason |-> "none"]
Adapter == [up : BOOLEAN, asked : BOOLEAN, prompted : BOOLEAN, killed : BOOLEAN,
            said : Answers \union {"none"}]
NoAdapter == [up |-> FALSE, asked |-> FALSE, prompted |-> FALSE, killed |-> FALSE,
              said |-> "none"]

VARIABLES
    bundle,     \* the files of the bundle
    session,    \* the process of each run, and the client in it
    adapter,    \* the adapter process of each run
    sandbox,    \* the files of each sandbox
    before,     \* ... as they were when the agent was let in
    paths,      \* changedPaths: what each run found changed
    handled,    \* those of them that it has copied, or passed over
    artifacts,  \* what lies under runs/<id>/artifacts
    status,     \* what each run came to
    reviewed,   \* runs whose review was requested, of all their paths
    garbled,    \* history: runs that met a stray value or a broken pipe
    breached,   \* history: runs that allowed what they could have refused
    writes, edits, faults

files == <<bundle, sandbox, before>>
output == <<paths, handled, artifacts, status, reviewed>>
history == <<garbled, breached>>
bounds == <<writes, edits, faults>>
vars == <<files, session, adapter, output, history, bounds>>

TypeOK ==
    /\ bundle \in Tree
    /\ session \in [Runs -> Session] /\ adapter \in [Runs -> Adapter]
    /\ sandbox \in [Runs -> Tree] /\ before \in [Runs -> Tree]
    /\ paths \in [Runs -> SUBSET Files] /\ handled \in [Runs -> SUBSET Files]
    /\ artifacts \in [Runs -> SUBSET Files]
    /\ \A r \in Runs : handled[r] \union artifacts[r] \subseteq paths[r]
    /\ status \in [Runs -> Status \union {"none"}]
    /\ reviewed \subseteq Runs /\ garbled \subseteq Runs /\ breached \subseteq Runs
    /\ writes \in [Runs -> 0..MaxWrites]
    /\ edits \in 0..MaxEdits /\ faults \in 0..MaxFaults

Empty == [f \in Files |-> "absent"]
Fault == faults < MaxFaults /\ faults' = faults + 1

Init ==
    /\ bundle \in {t \in [Files -> {"absent", "old"}] :
                     \A f \in Files : t[f] = "old" <=> f \notin Secret}
    /\ session = [r \in Runs |-> NoSession] /\ adapter = [r \in Runs |-> NoAdapter]
    /\ sandbox = [r \in Runs |-> Empty] /\ before = [r \in Runs |-> Empty]
    /\ paths = [r \in Runs |-> {}] /\ handled = [r \in Runs |-> {}]
    /\ artifacts = [r \in Runs |-> {}] /\ status = [r \in Runs |-> "none"]
    /\ reviewed = {} /\ garbled = {} /\ breached = {}
    /\ writes = [r \in Runs |-> 0] /\ edits = 0 /\ faults = 0
-----------------------------------------------------------------------------
Step(r) == session[r].step
To(r, step) == session' = [session EXCEPT ![r].step = step]

\* The preconditions hold, or there is no run; the sandbox is filled in one
\* stretch of synchronous code and its snapshot taken.
Begin(r) ==
    /\ Step(r) = "new"
    /\ \E kind \in Kinds, model \in {"default", "known", "unknown"} :
          /\ model # "default" => kind = "eval"
          /\ LET seeded == [f \in Files |->
                              IF f \in Seeds(kind) THEN bundle[f] ELSE "absent"]
             IN  /\ sandbox' = [sandbox EXCEPT ![r] = seeded]
                 /\ before' = [before EXCEPT ![r] = seeded]
          /\ session' = [session EXCEPT ![r].step = "prepared", ![r].kind = kind,
                                        ![r].model = model]
    /\ UNCHANGED <<bundle, adapter, output, history, bounds>>
-----------------------------------------------------------------------------
(* AcpClient and runAcpSession.  A session that settles is closed, whatever it *)
(* settled for; the request it was waiting on is then no longer pending.       *)
Settled(s, why) == [s EXCEPT !.step = "closing", !.reason = why]
Settle(r, why) == session' = [session EXCEPT ![r] = Settled(@, why)]

\* A command that cannot be run leaves nothing to close.
Spawn(r) ==
    /\ Step(r) = "prepared"
    /\ \/ /\ adapter' = [adapter EXCEPT ![r].up = TRUE]
          /\ session' = [session EXCEPT ![r].step = "starting", ![r].reading = TRUE]
       \/ /\ session' = [session EXCEPT ![r].step = "over", ![r].reason = "spawn"]
          /\ UNCHANGED adapter
    /\ UNCHANGED <<files, output, history, bounds>>

\* An adapter that is still there after 800 ms is taken to be well.
Started(r) ==
    /\ Step(r) = "starting"
    /\ IF adapter[r].up THEN To(r, "ready") ELSE Settle(r, "spawn")
    /\ UNCHANGED <<files, adapter, output, history, bounds>>

\* request(): refused once a line was no message, and otherwise written to
\* the adapter. Into a pipe that no one reads the write may fail, or not.
Ask(r) ==
    /\ Step(r) = "ready"
    /\ IF session[r].fault # "none"
       THEN Settle(r, session[r].fault) /\ UNCHANGED <<adapter, garbled>>
       ELSE \/ /\ To(r, "asking")
               /\ adapter' = IF adapter[r].up
                             THEN [adapter EXCEPT ![r].asked = TRUE,
                                     ![r].prompted = @ \/ session[r].next = "prompt"]
                             ELSE adapter
               /\ UNCHANGED garbled
            \/ /\ ~adapter[r].up
               /\ Settle(r, "plain")
               /\ garbled' = garbled \union {r}
               /\ UNCHANGED adapter
    /\ UNCHANGED <<files, output, breached, bounds>>

\* The requests of a session in order; a model is set by the older method
\* and, where that does not exist, by the newer one.
NextRequest(s) ==
    CASE s.next = "initialize" -> "session/new"
      [] s.next = "session/new" /\ s.model = "known" -> "set_model"
      [] OTHER -> "prompt"

Received(s, answer) ==
    CASE answer = "ok" ->
            IF s.next = "prompt" THEN Settled(s, "end_turn")
            ELSE IF s.next = "session/new" /\ s.model = "unknown"
            THEN Settled(s, "plain")
            ELSE [s EXCEPT !.step = "ready", !.next = NextRequest(s)]
      [] answer = "nomethod" /\ s.next = "set_model" ->
            [s EXCEPT !.step = "ready", !.next = "set_config_option"]
      [] answer \in {"stop", "auth"} -> Settled(s, answer)
      [] OTHER -> Settled(s, "task")

\* The adapter answers; what is no longer pending is not looked at.
Pending(r) == Step(r) = "asking"

Answer(r) ==
    /\ adapter[r].up /\ adapter[r].asked /\ session[r].reading
    /\ \E answer \in Answers :
          /\ answer = "stop" => session[r].next = "prompt"
          /\ adapter' = [adapter EXCEPT ![r].asked = FALSE, ![r].said = answer]
          /\ session' = IF Pending(r)
                        THEN [session EXCEPT ![r] = Received(@, answer)]
                        ELSE session
    /\ UNCHANGED <<files, output, history, bounds>>

\* Only a prompt has a time limit.
PromptTimesOut(r) ==
    /\ Step(r) = "asking" /\ session[r].next = "prompt"
    /\ Settle(r, "timeout")
    /\ UNCHANGED <<files, adapter, output, history, bounds>>

\* The read loop ends and rejects what is pending.
LoopEnds(s, fault) ==
    [(IF s.step = "asking" THEN Settled(s, "connection") ELSE s)
        EXCEPT !.reading = FALSE, !.fault = fault]

\* The output of a process ends with it, or before.
OutputEnds(r) ==
    /\ session[r].reading
    /\ IF adapter[r].up THEN Fault ELSE UNCHANGED faults
    /\ session' = [session EXCEPT ![r] = LoopEnds(@, @.fault)]
    /\ UNCHANGED <<files, adapter, output, history, writes, edits>>

\* A line that is not JSON is remembered against later requests; JSON that
\* is no object throws inside the loop and ends it.
StrayLine(r) ==
    /\ Noise /\ Fault
    /\ adapter[r].up /\ session[r].reading
    /\ \/ /\ session' = [session EXCEPT ![r].fault = "connection"]
          /\ UNCHANGED garbled
       \/ /\ session' = [session EXCEPT ![r] = LoopEnds(@, "plain")]
          /\ garbled' = garbled \union {r}
    /\ UNCHANGED <<files, adapter, output, breached, writes, edits>>

AdapterExits(r) ==
    /\ adapter[r].up
    /\ IF adapter[r].killed \/ Step(r) \in {"closing", "draining"}
       THEN UNCHANGED faults ELSE Fault
    /\ adapter' = [adapter EXCEPT ![r].up = FALSE]
    /\ UNCHANGED <<files, session, output, history, writes, edits>>

\* close(): the end of its input should make the adapter go; if it has not
\* gone within three seconds it is killed. Then its output is awaited.
FaultNoKill(r) == adapter
Killed(r) == [adapter EXCEPT ![r].killed = adapter[r].up]

Close(r) ==
    /\ Step(r) = "closing"
    /\ To(r, "draining")
    /\ adapter' = Killed(r)
    /\ UNCHANGED <<files, output, history, bounds>>

Drained(r) ==
    /\ Step(r) = "draining"
    /\ ~session[r].reading
    /\ To(r, "over")
    /\ UNCHANGED <<files, adapter, output, history, bounds>>
-----------------------------------------------------------------------------
(* The permission policy of a run: makeSandboxPermissionPolicy. Of the request *)
(* it matters whether it names a path outside the sandbox; of an option, its   *)
(* kind. (With --permissive everything is allowed, and nothing claimed.)       *)
OptionKinds == {"allow_once", "allow_always", "reject_once", "reject_always", "deny"}
Refusing == {"reject_once", "reject_always", "deny"}
Offers == UNION {[1..n -> OptionKinds] : n \in 1..2}

\* The first of these kinds that is offered, or else the given one.
FirstOf(kinds, offer, other) ==
    LET found == {i \in DOMAIN kinds : \E j \in DOMAIN offer : offer[j] = kinds[i]}
    IN  IF found = {} THEN other
        ELSE kinds[CHOOSE i \in found : \A k \in found : i <= k]

Approve(offer) == FirstOf(<<"allow_once", "allow_always">>, offer, offer[1])
LeastPermissive(offer) == FirstOf(<<"allow_once">>, offer, offer[1])
Deny(offer) == FirstOf(<<"reject_once", "reject_always", "deny">>, offer,
                       LeastPermissive(offer))

Decision(outside, offer) == IF outside THEN Deny(offer) ELSE Approve(offer)

AskPermission(r) ==
    /\ adapter[r].up /\ session[r].reading
    /\ \E outside \in BOOLEAN, offer \in Offers :
          breached' = IF /\ outside /\ Decision(outside, offer) \notin Refusing
                         /\ \E i \in DOMAIN offer : offer[i] \in Refusing
                      THEN breached \union {r} ELSE breached
    /\ UNCHANGED <<files, session, adapter, output, garbled, bounds>>

\* The agent works in its sandbox as long as its adapter is there, also when
\* nobody listens to it any more.
AgentWrites(r) ==
    /\ adapter[r].up /\ adapter[r].prompted
    /\ Step(r) \notin {"done", "gone"}
    /\ writes[r] < MaxWrites
    /\ \E f \in Files, content \in {r, "absent"} :
          /\ sandbox[r][f] # content
          /\ sandbox' = [sandbox EXCEPT ![r][f] = content]
    /\ writes' = [writes EXCEPT ![r] = @ + 1]
    /\ UNCHANGED <<bundle, before, session, adapter, output, history, edits, faults>>

MakerEdits ==
    /\ edits < MaxEdits
    /\ edits' = edits + 1
    /\ \E f \in Files :
          /\ bundle[f] # "maker"
          /\ bundle' = [bundle EXCEPT ![f] = "maker"]
    /\ UNCHANGED <<sandbox, before, session, adapter, output, history, writes, faults>>
-----------------------------------------------------------------------------
\* classifyAcpFailure and classifyAcpError: an error is taken for a fault of
\* the infrastructure also when what the adapter printed looks like one.
FaultTimeoutFails(reason, noisy) ==
    CASE reason = "end_turn" -> "completed"
      [] reason \in {"stop", "timeout"} -> "failed"
      [] reason \in {"task", "plain"} /\ ~noisy -> "failed"
      [] OTHER -> "infra-error"
StatusOf(reason, noisy) ==
    CASE reason = "end_turn" -> "completed"
      [] reason = "stop" -> "failed"
      [] reason \in {"task", "plain"} /\ ~noisy -> "failed"
      [] OTHER -> "infra-error"

\* What the sandbox holds that it did not hold before, or held otherwise: a
\* file that was removed is not among it.
FaultAllThere(r) == {f \in Files : sandbox[r][f] # "absent"}
Changed(r) == {f \in Files : sandbox[r][f] \notin {"absent", before[r][f]}}

Given(kind, changed) ==
    IF kind = "eval" THEN changed ELSE changed \intersect Produces(kind)

Snapshot(r) ==
    /\ Step(r) = "over"
    /\ To(r, "copying")
    /\ paths' = [paths EXCEPT ![r] = Given(session[r].kind, Changed(r))]
    /\ \E noisy \in BOOLEAN :
          status' = [status EXCEPT ![r] = StatusOf(session[r].reason, noisy)]
    /\ UNCHANGED <<files, adapter, handled, artifacts, reviewed, history, bounds>>

HalfCopied(r) == artifacts[r] \ handled[r]
Copied(r, f) == handled' = [handled EXCEPT ![r] = @ \union {f}]
FaultEverythingKept(r, f) ==
    artifacts' = [artifacts EXCEPT ![r] =
                     @ \union {g \in Files : sandbox[r][g] # "absent"}]
Kept(r, f) == artifacts' = [artifacts EXCEPT ![r] = @ \union {f}]

\* runCase copies each path to the artifacts, but passes over a name that
\* looks like a credential and a file that has vanished since the snapshot.
KeepArtifact(r) ==
    /\ Step(r) = "copying" /\ session[r].kind = "eval"
    /\ \E f \in paths[r] \ handled[r] :
          /\ Copied(r, f)
          /\ IF f \in Secret \/ sandbox[r][f] = "absent"
             THEN UNCHANGED artifacts ELSE Kept(r, f)
    /\ UNCHANGED <<files, session, adapter, paths, status, reviewed, history, bounds>>

\* runStation copies each to the artifacts and then to the bundle, whatever
\* it is named, and dies of a file that has vanished.
Mirror(r) ==
    /\ Step(r) = "copying" /\ session[r].kind # "eval"
    /\ HalfCopied(r) = {}
    /\ \E f \in paths[r] \ handled[r] :
          IF sandbox[r][f] = "absent" THEN To(r, "gone") /\ UNCHANGED artifacts
          ELSE Kept(r, f) /\ UNCHANGED session
    /\ UNCHANGED <<files, adapter, paths, handled, status, reviewed, history, bounds>>

CopyBack(r) ==
    /\ Step(r) = "copying" /\ session[r].kind # "eval"
    /\ \E f \in HalfCopied(r) :
          IF sandbox[r][f] = "absent"
          THEN To(r, "gone") /\ UNCHANGED <<bundle, handled>>
          ELSE /\ bundle' = [bundle EXCEPT ![f] = sandbox[r][f]]
               /\ Copied(r, f)
               /\ UNCHANGED session
    /\ UNCHANGED <<sandbox, before, adapter, paths, artifacts, status, reviewed,
                   history, bounds>>

\* The sandbox is removed; a station's review names everything it changed.
AsksReview(r) == session[r].kind # "eval" /\ status[r] = "completed"

Finish(r) ==
    /\ Step(r) = "copying" /\ handled[r] = paths[r]
    /\ To(r, "done")
    /\ reviewed' = IF AsksReview(r) THEN reviewed \union {r} ELSE reviewed
    /\ UNCHANGED <<files, adapter, paths, handled, artifacts, status, history, bounds>>

\* The process of the run dies; its adapter is told by the end of its input.
Dies(r) ==
    /\ Step(r) \notin {"new", "done", "gone"}
    /\ Fault
    /\ To(r, "gone")
    /\ UNCHANGED <<files, adapter, output, history, writes, edits>>

DriverStep(r) ==
    \/ Begin(r) \/ Spawn(r) \/ Started(r) \/ Ask(r) \/ Close(r) \/ Drained(r)
    \/ Snapshot(r) \/ KeepArtifact(r) \/ Mirror(r) \/ CopyBack(r) \/ Finish(r)
AdapterStep(r) ==
    \/ Answer(r) \/ OutputEnds(r) \/ StrayLine(r) \/ AdapterExits(r)
    \/ AskPermission(r) \/ AgentWrites(r)

Next ==
    \/ \E r \in Runs : DriverStep(r) \/ PromptTimesOut(r) \/ AdapterStep(r) \/ Dies(r)
    \/ MakerEdits

\* The process of a run goes on and its timers fire; a process that was
\* killed dies, and the output of a dead one ends.
Fairness ==
    \A r \in Runs : /\ WF_vars(DriverStep(r))
                    /\ WF_vars(PromptTimesOut(r))
                    /\ WF_vars(adapter[r].killed /\ AdapterExits(r))
                    /\ WF_vars(~adapter[r].up /\ OutputEnds(r))

Spec == Init /\ [][Next]_vars /\ Fairness
-----------------------------------------------------------------------------
\* "infra-error ... strictly apart from failed": a run that counts as
\* completed had its prompt answered by the end of the turn, and one that
\* counts as failed had an answer too, or asked for a model that was not
\* offered -- whatever died, was late or timed out in between, except that
\* a stray value or a broken pipe can pass for a failure.
StatusIsHonest ==
    \A r \in Runs :
        /\ status[r] = "completed" => adapter[r].said = "ok" /\ adapter[r].prompted
        /\ status[r] = "failed" =>
              \/ adapter[r].said \in {"stop", "error", "nomethod"}
              \/ session[r].model = "unknown"
              \/ r \in garbled

\* What a run put into the bundle it also kept under its own record, however
\* it ended, and if it requested a review all that it put there is in what
\* the review names. An eval run keeps no file that is named like a
\* credential; a station run does keep such a file, and puts it into the
\* bundle, if its agent left it under research/ (see the findings).
WorkIsOnRecord ==
    /\ \A f \in Files : bundle[f] \in Runs => f \in artifacts[bundle[f]]
    /\ \A r \in reviewed : {f \in Files : bundle[f] = r} \subseteq paths[r]
    /\ \A r \in Runs :
          session[r].kind = "eval" => artifacts[r] \intersect Secret = {}

\* No request that reaches outside the sandbox is allowed where the agent
\* offered to be refused.
PolicyHolds == breached = {}

\* A run reports what happened.
RunsAreTrue == StatusIsHonest /\ WorkIsOnRecord /\ PolicyHolds

\* A run changes a file of the bundle only into what its own agent wrote,
\* and only what its station produces: what the maker or another run wrote
\* meanwhile is never undone by an older copy out of a sandbox.
CopybackIsOwn ==
    [][\A f \in Files :
         bundle'[f] # bundle[f] /\ bundle'[f] # "maker" =>
            \E r \in Runs : /\ bundle'[f] = r
                            /\ f \in Produces(session[r].kind)]_vars

\* A run that has sent its prompt comes to an end, though the agent may
\* never answer it nor leave.
PromptsEnd ==
    \A r \in Runs :
        session[r].next = "prompt" /\ Step(r) = "asking" ~> Step(r) \in {"done", "gone"}
=============================================================================
