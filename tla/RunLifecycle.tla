---------------------------- MODULE RunLifecycle ----------------------------
(***************************************************************************)
(* The records of a bundle's runs and who writes them: the process that    *)
(* executes an eval run (packages/core/src/RunEngine.ts around             *)
(* packages/runner/src/Runner.ts) or a station (StationEngine.ts), `run    *)
(* repair` (RunRepair.ts), and the two grading doors (handlePostEvent of   *)
(* packages/cli/src/server/Server.ts and packages/cli/src/commands/        *)
(* Grade.ts, over Grades.ts).                                              *)
(*                                                                         *)
(* Each writes files under runs/<id>/ and then appends to the journal. No  *)
(* process knows of another, any can die between two writes or within one: *)
(* a file cut short does not parse, and a journal line cut short makes     *)
(* every later read of the journal fail (JournalService.ts), and with it   *)
(* every later append.                                                     *)
(***************************************************************************)
EXTENDS Integers, Sequences, FiniteSets

CONSTANTS
    Runs,         \* run ids
    OldRuns,      \* those whose process has died, leaving them unfinished
    Repairs,      \* invocations of `run repair`
    Graders,      \* grading requests
    Verdicts,     \* pass, fail, ...
    None,         \* no run
    MaxCrashes    \* bound: processes that die, and transcripts cut short

ASSUME ConstantsAssumption ==
    /\ OldRuns \subseteq Runs
    /\ {"none", "broken"} \intersect Verdicts = {}
    /\ MaxCrashes \in Nat

Terminal == {"completed", "failed", "infra-error"}
Kinds == {"eval", "station"}

\* run.json: missing, not parseable, or the status it gives.
Record == {"absent", "broken", "running"} \union Terminal

\* The journal lines about a run. That it and its station were started and
\* its review requested are lines too, but nothing here reads them.
Event == [type : {"run.completed", "run.repaired", "run.graded"},
          what : Terminal \union Verdicts]

\* The process of a run, named by the write it makes next.
RunnerSteps == {"new", "open", "station", "started", "reset", "session", "final",
                "completed", "review", "done", "gone"}
Runner == [step : RunnerSteps, kind : Kinds, status : Terminal \union {"none"}]
Ended(how) == [step |-> how, kind |-> "eval", status |-> "none"]

Repair == [step : {"new", "read", "write", "append", "over"},
           left : SUBSET Runs, run : Runs \union {None},
           status : {"none", "completed", "failed"}]
Resting(step) == [step |-> step, left |-> {}, run |-> None, status |-> "none"]

Grader == [step : {"new", "archive", "write", "append", "over"},
           run : Runs \union {None}, verdict : Verdicts \union {"none"}]
NoGrading(step) == [step |-> step, run |-> None, verdict |-> "none"]

VARIABLES
    record,      \* runs/<id>/run.json
    transcript,  \* runs/<id>/transcript.jsonl: does it show the end_turn?
    grade,       \* runs/<id>/grades/human/grade.json
    archived,    \* ... and grade.<n>.json, the oldest first
    journal,     \* for each run the lines about it; how those of different
                 \* runs are interleaved is left out
    readable,    \* no line of the journal was cut short
    runner,      \* the process of each run
    repair,      \* each repair: what it visits, what it is about to write
    grader,      \* each grading request
    raced,       \* history: runs repaired while their process was alive
    untold,      \* history: runs with a writer that ended between its file
                 \*          and its event
    unseen,      \* history: runs whose end_turn was not written down
    overlapped,  \* history: runs with two gradings under way at once
    ahead,       \* history: runs whose last grading left only its file
    crashes

files == <<record, transcript, grade, archived>>
history == <<raced, untold, unseen, overlapped, ahead>>
log == <<journal, readable>>
vars == <<files, log, runner, repair, grader, history, crashes>>

TypeOK ==
    /\ record \in [Runs -> Record]
    /\ transcript \in [Runs -> {"none", "open", "end_turn"}]
    /\ grade \in [Runs -> Verdicts \union {"none", "broken"}]
    /\ archived \in [Runs -> Seq(Verdicts \union {"broken"})]
    /\ journal \in [Runs -> Seq(Event)]
    /\ readable \in BOOLEAN
    /\ runner \in [Runs -> Runner]
    /\ repair \in [Repairs -> Repair]
    /\ \A p \in Repairs : repair[p].step \notin {"new", "over"} => repair[p].left # {}
    /\ grader \in [Graders -> Grader]
    /\ raced \subseteq Runs /\ untold \subseteq Runs /\ unseen \subseteq Runs
    /\ overlapped \subseteq Runs /\ ahead \subseteq Runs
    /\ crashes \in 0..MaxCrashes
-----------------------------------------------------------------------------
Alive(r) == runner[r].step \notin {"new", "done", "gone"}

\* Journal.readAll fails on a line that does not parse; append reads first.
Line(type, what) == [type |-> type, what |-> what]
AppendTo(r, lines) == readable /\ journal' = [journal EXCEPT ![r] = @ \o lines]
AppendFails == ~readable /\ UNCHANGED journal

\* The lines of a run's journal that give a verdict, and those that give an
\* outcome; and what the last of them says.
VerdictsOf(r) == {i \in 1..Len(journal[r]) : journal[r][i].type = "run.graded"}
Outcomes(r) == {i \in 1..Len(journal[r]) :
                   journal[r][i].type \in {"run.completed", "run.repaired"}}
LastOf(lines) == CHOOSE i \in lines : \A k \in lines : k <= i
Said(r, lines) == IF lines = {} THEN "none" ELSE journal[r][LastOf(lines)].what

Init ==
    /\ record \in {f \in [Runs -> {"absent", "broken", "running"}] :
                     \A r \in Runs : f[r] = "absent" <=> r \notin OldRuns}
    /\ transcript \in {f \in [Runs -> {"none", "end_turn"}] :
                         \A r \in Runs : f[r] = "end_turn" =>
                             r \in OldRuns /\ record[r] = "running"}
    /\ grade = [r \in Runs |-> "none"]
    /\ archived = [r \in Runs |-> <<>>]
    /\ journal = [r \in Runs |-> <<>>] /\ readable = TRUE
    /\ runner = [r \in Runs |-> Ended(IF r \in OldRuns THEN "gone" ELSE "new")]
    /\ repair = [p \in Repairs |-> Resting("new")]
    /\ grader = [g \in Graders |-> NoGrading("new")]
    /\ raced = {} /\ untold = {} /\ unseen = {} /\ overlapped = {} /\ ahead = {}
    /\ crashes = 0
-----------------------------------------------------------------------------
\* runFixture and runStation read the journal before they write anything.
Begin(r) ==
    /\ runner[r].step = "new"
    /\ readable
    /\ \E kind \in Kinds :
          runner' = [runner EXCEPT ![r].step = "open", ![r].kind = kind]
    /\ UNCHANGED <<files, log, repair, grader, history, crashes>>

Open(r) ==
    /\ runner[r].step = "open"
    /\ record' = [record EXCEPT ![r] = "running"]
    /\ runner' = [runner EXCEPT
          ![r].step = IF runner[r].kind = "station" THEN "station" ELSE "started"]
    /\ UNCHANGED <<transcript, grade, archived, log, repair, grader, history,
                   crashes>>

\* runCase writes the record again before it begins the transcript.
Reset(r) ==
    /\ runner[r].step = "reset"
    /\ record' = IF runner[r].kind = "eval"
                 THEN [record EXCEPT ![r] = "running"] ELSE record
    /\ transcript' = [transcript EXCEPT ![r] = "open"]
    /\ runner' = [runner EXCEPT ![r].step = "session"]
    /\ UNCHANGED <<grade, archived, log, repair, grader, history, crashes>>

\* The agent session ends its turn, which the transcript shows unless that
\* write failed; or it ends in any other way.
EndTurn(r) ==
    /\ runner[r].step = "session"
    /\ runner' = [runner EXCEPT ![r].step = "final", ![r].status = "completed"]
    /\ \/ /\ transcript' = [transcript EXCEPT ![r] = "end_turn"]
          /\ UNCHANGED <<unseen, crashes>>
       \/ /\ crashes < MaxCrashes
          /\ crashes' = crashes + 1
          /\ unseen' = unseen \union {r}
          /\ UNCHANGED transcript
    /\ UNCHANGED <<record, grade, archived, log, repair, grader, raced,
                   untold, overlapped, ahead>>

SessionFails(r) ==
    /\ runner[r].step = "session"
    /\ \E status \in Terminal \ {"completed"} :
          runner' = [runner EXCEPT ![r].step = "final", ![r].status = status]
    /\ UNCHANGED <<files, log, repair, grader, history, crashes>>

\* The final record is made from the one the run began with.
Finalize(r) ==
    /\ runner[r].step = "final"
    /\ record' = [record EXCEPT ![r] = runner[r].status]
    /\ runner' = [runner EXCEPT ![r].step = "completed"]
    /\ UNCHANGED <<transcript, grade, archived, log, repair, grader, history,
                   crashes>>

\* The events, in order; an append that fails ends the process.
AppendSteps == {"station", "started", "completed", "review"}

FaultAlwaysCompleted(r) == "completed"
Outcome(r) == runner[r].status

LinesOf(r) ==
    IF runner[r].step = "completed" THEN <<Line("run.completed", Outcome(r))>>
    ELSE <<>>

After(r) ==
    CASE runner[r].step = "station" -> [runner[r] EXCEPT !.step = "started"]
      [] runner[r].step = "started" -> [runner[r] EXCEPT !.step = "reset"]
      [] runner[r].step = "completed" ->
            IF runner[r].kind = "station" /\ runner[r].status = "completed"
            THEN [runner[r] EXCEPT !.step = "review"] ELSE Ended("done")
      [] runner[r].step = "review" -> Ended("done")

AppendRunEvent(r) ==
    /\ runner[r].step \in AppendSteps
    /\ \/ /\ AppendTo(r, LinesOf(r))
          /\ runner' = [runner EXCEPT ![r] = After(r)]
          /\ UNCHANGED untold
       \/ /\ AppendFails
          /\ runner' = [runner EXCEPT ![r] = Ended("gone")]
          /\ untold' = untold \union {r}
    /\ UNCHANGED <<files, readable, repair, grader, raced, unseen, overlapped, ahead, crashes>>
-----------------------------------------------------------------------------
\* `run repair <slug>` visits every run with a run.json, `run repair <slug>
\* <id>` that one. (A request for a run without one is refused.)
BeginRepair(p) ==
    /\ repair[p].step = "new"
    /\ \E asked \in {{r} : r \in Runs} \union {Runs} :
          LET found == {r \in asked : record[r] # "absent"}
          IN  /\ found # {}
              /\ repair' = [repair EXCEPT ![p] = [Resting("read") EXCEPT !.left = found]]
    /\ UNCHANGED <<files, log, runner, grader, history, crashes>>

\* A record is taken for stuck if it says running ...
FaultNotCompleted(r) == record[r] # "completed"
Stuck(r) == record[r] = "running"

\* ... and completed if its transcript shows that the agent ended its turn.
FaultAnyTranscript(r) == IF transcript[r] = "none" THEN "failed" ELSE "completed"
RepairedStatus(r) == IF transcript[r] = "end_turn" THEN "completed" ELSE "failed"

OnToNext(p, r) ==
    LET left == repair[p].left \ {r}
    IN  IF left = {} THEN Resting("over") ELSE [Resting("read") EXCEPT !.left = left]

Visit(p) ==
    /\ repair[p].step = "read"
    /\ \E r \in repair[p].left :
          /\ repair' = [repair EXCEPT ![p] =
                IF record[r] = "broken" THEN Resting("over")
                ELSE IF ~Stuck(r) THEN OnToNext(p, r)
                ELSE [@ EXCEPT !.step = "write", !.run = r,
                               !.status = RepairedStatus(r)]]
          /\ raced' = IF Stuck(r) /\ Alive(r) THEN raced \union {r} ELSE raced
    /\ UNCHANGED <<files, log, runner, grader, untold, unseen, overlapped, ahead,
                   crashes>>

\* The new record is renamed over whatever the file has become.
RepairRecord(p) ==
    /\ repair[p].step = "write"
    /\ record' = [record EXCEPT ![repair[p].run] = repair[p].status]
    /\ repair' = [repair EXCEPT ![p].step = "append"]
    /\ UNCHANGED <<transcript, grade, archived, log, runner, grader, history,
                   crashes>>

AppendRepaired(p) ==
    /\ repair[p].step = "append"
    /\ LET r == repair[p].run
       IN  \/ /\ AppendTo(r, <<Line("run.repaired", repair[p].status)>>)
              /\ repair' = [repair EXCEPT ![p] = OnToNext(p, r)]
              /\ UNCHANGED untold
           \/ /\ AppendFails
              /\ repair' = [repair EXCEPT ![p] = Resting("over")]
              /\ untold' = untold \union {r}
    /\ UNCHANGED <<files, readable, runner, grader, raced, unseen, overlapped, ahead,
                   crashes>>
-----------------------------------------------------------------------------
\* The grading doors look at run.json: only a completed run is graded.
Gradable(r) == record[r] = "completed"

BeginGrading(g) ==
    /\ grader[g].step = "new"
    /\ \E r \in Runs, v \in Verdicts :
          /\ Gradable(r)
          /\ grader' = [grader EXCEPT ![g] = [step |-> "archive", run |-> r,
                                             verdict |-> v]]
          /\ overlapped' = IF \E h \in Graders : grader[h].run = r
                           THEN overlapped \union {r} ELSE overlapped
    /\ UNCHANGED <<files, log, runner, repair, raced, untold, unseen, ahead,
                   crashes>>

\* writeGradeFile: the current grade goes to the next history slot ...
FaultArchiveAnyway(r) == <<grade[r]>>
FaultOverwrite(r) == <<>>
ToArchive(r) == IF grade[r] = "none" THEN <<>> ELSE <<grade[r]>>

ArchiveGrade(g) ==
    /\ grader[g].step = "archive"
    /\ LET r == grader[g].run
       IN  /\ archived' = [archived EXCEPT ![r] = @ \o ToArchive(r)]
           /\ grade' = [grade EXCEPT ![r] = "none"]
    /\ grader' = [grader EXCEPT ![g].step = "write"]
    /\ UNCHANGED <<record, transcript, log, runner, repair, history, crashes>>

\* ... and the new one takes its place.
WriteGrade(g) ==
    /\ grader[g].step = "write"
    /\ grade' = [grade EXCEPT ![grader[g].run] = grader[g].verdict]
    /\ grader' = [grader EXCEPT ![g].step = "append"]
    /\ UNCHANGED <<record, transcript, archived, log, runner, repair, history,
                   crashes>>

\* A request may bring an idempotency key of its own; one that repeats the key of
\* an earlier grading of the run adds no line, nor does one whose append fails.
AppendGraded(g) ==
    /\ grader[g].step = "append"
    /\ LET r == grader[g].run
       IN  \/ /\ AppendTo(r, <<Line("run.graded", grader[g].verdict)>>)
              /\ ahead' = ahead \ {r}
           \/ /\ AppendFails \/ (VerdictsOf(r) # {} /\ UNCHANGED journal)
              /\ ahead' = ahead \union {r}
    /\ grader' = [grader EXCEPT ![g] = NoGrading("over")]
    /\ UNCHANGED <<files, readable, runner, repair, raced, untold, unseen, overlapped,
                   crashes>>

\* The verdict the index shows: that of the grade file, or else the last one
\* in the journal.
Shown(r) ==
    IF grade[r] \in Verdicts THEN grade[r] ELSE Said(r, VerdictsOf(r))

\* The verdicts that have a file.
Kept(r) == {i \in 1..Len(archived[r]) : archived[r][i] \in Verdicts}
    \union (IF grade[r] \in Verdicts THEN {0} ELSE {})
-----------------------------------------------------------------------------
\* A process dies, or one of its writes fails: a file it was writing may be
\* cut short, and so may the line it was appending.
Tear(appending) ==
    \/ UNCHANGED readable
    \/ appending /\ readable' = FALSE

CrashRunner(r) ==
    /\ Alive(r)
    /\ runner' = [runner EXCEPT ![r] = Ended("gone")]
    /\ \/ UNCHANGED record
       \/ /\ \/ runner[r].step \in {"open", "final"}
             \/ runner[r].step = "reset" /\ runner[r].kind = "eval"
          /\ record' = [record EXCEPT ![r] = "broken"]
    /\ Tear(runner[r].step \in AppendSteps)
    /\ untold' = IF runner[r].step = "completed" THEN untold \union {r} ELSE untold
    /\ UNCHANGED <<transcript, grade, archived, repair, grader, raced, unseen,
                   overlapped, ahead>>

CrashRepair(p) ==
    /\ repair[p].step \in {"read", "write", "append"}
    /\ repair' = [repair EXCEPT ![p] = Resting("over")]
    /\ Tear(repair[p].step = "append")
    /\ untold' = IF repair[p].step = "append" THEN untold \union {repair[p].run}
                 ELSE untold
    /\ UNCHANGED <<files, runner, grader, raced, unseen, overlapped, ahead>>

CrashGrader(g) ==
    /\ grader[g].step \in {"archive", "write", "append"}
    /\ grader' = [grader EXCEPT ![g] = NoGrading("over")]
    /\ \/ UNCHANGED grade
       \/ /\ grader[g].step = "write"
          /\ grade' = [grade EXCEPT ![grader[g].run] = "broken"]
    /\ Tear(grader[g].step = "append")
    /\ ahead' = IF grader[g].step = "append" THEN ahead \union {grader[g].run}
                ELSE ahead
    /\ UNCHANGED <<record, transcript, archived, runner, repair, raced, untold,
                   unseen, overlapped>>

Crash ==
    /\ crashes < MaxCrashes
    /\ crashes' = crashes + 1
    /\ \/ \E r \in Runs : CrashRunner(r)
       \/ \E p \in Repairs : CrashRepair(p)
       \/ \E g \in Graders : CrashGrader(g)
    /\ UNCHANGED journal

RunStep(r) ==
    \/ Begin(r) \/ Open(r) \/ Reset(r) \/ EndTurn(r) \/ SessionFails(r)
    \/ Finalize(r) \/ AppendRunEvent(r)
RepairStep(p) == BeginRepair(p) \/ Visit(p) \/ RepairRecord(p) \/ AppendRepaired(p)
GradeStep(g) ==
    BeginGrading(g) \/ ArchiveGrade(g) \/ WriteGrade(g) \/ AppendGraded(g)

Next ==
    \/ \E r \in Runs : RunStep(r)
    \/ \E p \in Repairs : RepairStep(p)
    \/ \E g \in Graders : GradeStep(g)
    \/ Crash

Spec == Init /\ [][Next]_vars
-----------------------------------------------------------------------------
\* "run.json is the immutable-once-finalized record": what a run came to is
\* never changed by its own process, by repairs that race each other or by
\* anyone, unless a repair took a run for stuck whose process was alive.
FinalizedForGood ==
    [][\A r \in Runs :
         record[r] \in Terminal /\ r \notin raced' =>
             record'[r] = record[r]]_vars

\* A verdict stands on a completed run whose agent ended its turn: no grading
\* door, no repair and no order of the three leaves a verdict on a run that
\* failed -- "repaired runs are never claimed to be more complete than their
\* transcript proves" -- except for a run repaired while alive.
VerdictRestsOnEndTurn ==
    \A r \in Runs \ raced :
        VerdictsOf(r) # {} =>
            /\ record[r] = "completed"
            /\ transcript[r] = "end_turn" \/ r \in unseen

\* The two records of a run agree once nobody is writing them: run.json is
\* final exactly when the journal holds an outcome, and it is the last one;
\* except where a writer ended between the two, or a live run was repaired.
JournalTellsOutcome ==
    \A r \in Runs :
        /\ ~Alive(r) /\ r \notin raced \union untold
        /\ \A p \in Repairs : repair[p].run # r
        => Said(r, Outcomes(r)) = IF record[r] \in Terminal THEN record[r] ELSE "none"

\* "The full history stays": unless two gradings of a run overlapped, every
\* verdict in the journal has its file, and between gradings the index shows
\* the last of them, also after a grading that died -- unless it died after
\* writing its file.
NoVerdictLost ==
    \A r \in Runs \ overlapped :
        /\ Cardinality(Kept(r)) >= Cardinality(VerdictsOf(r))
        /\ (\A g \in Graders : grader[g].run # r) /\ r \notin ahead =>
               Shown(r) = Said(r, VerdictsOf(r))

\* A verdict rests on a run that earned it, and once given it is neither lost
\* nor hidden by an older one.
VerdictsStand == VerdictRestsOnEndTurn /\ NoVerdictLost

\* Record, journal and grade of a run tell one story.
RecordsAreTrue == JournalTellsOutcome /\ VerdictsStand
=============================================================================
