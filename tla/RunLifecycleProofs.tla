------------------------- MODULE RunLifecycleProofs -------------------------
(***************************************************************************)
(* Proofs about RunLifecycle, for any number of runs, repairs and gradings *)
(* and any number of deaths: a final record stays, verdicts rest on runs   *)
(* that ended their turn and are not lost, and record and journal agree.   *)
(*                                                                         *)
(* Everything is said of one run at a time: who writes a run's files and   *)
(* lines never looks at another run's.                                     *)
(***************************************************************************)
EXTENDS RunLifecycle, FiniteSetTheorems, SequenceTheorems, TLAPS

\* A run that has begun to end knows what it came to, and whoever is about to
\* write a record or a grade knows of which run.
RequestsNameRuns ==
    /\ \A r \in Runs :
          /\ runner[r].step \in {"final", "completed", "review"} =>
                runner[r].status \in Terminal
          /\ runner[r].step = "review" => runner[r].status = "completed"
    /\ \A p \in Repairs : repair[p].step \in {"write", "append"} =>
          repair[p].run \in repair[p].left /\ repair[p].status # "none"
    /\ \A g \in Graders : grader[g].step \in {"archive", "write", "append"} =>
          grader[g].run \in Runs /\ grader[g].verdict \in Verdicts

Repairing(p, r) == repair[p].step \in {"write", "append"} /\ repair[p].run = r
Grading(g, r) ==
    grader[g].step \in {"archive", "write", "append"} /\ grader[g].run = r
Telling(r) == \E p \in Repairs : repair[p].step = "append" /\ repair[p].run = r
Recording(r) == \E g \in Graders : grader[g].step = "append" /\ grader[g].run = r

TurnEnded(r) == transcript[r] = "end_turn" \/ r \in unseen

\* The record of a run that was never repaired alive follows its process.
RecordFollowsRunner(r) ==
    /\ runner[r].step \in {"new", "open"} => record[r] = "absent"
    /\ runner[r].step \in {"station", "started", "reset", "session", "final"} =>
          record[r] = "running"
    /\ runner[r].step \in {"completed", "review"} => record[r] = runner[r].status
    /\ runner[r].step = "done" => record[r] \in Terminal
    /\ runner[r].step = "final" /\ runner[r].status = "completed" => TurnEnded(r)
    /\ record[r] = "completed" => TurnEnded(r)

\* A repair of such a run works on what a dead process has left, and all its
\* repairs come to the same result.
RepairsAgree(r) ==
    \A p \in Repairs : Repairing(p, r) =>
        /\ runner[r].step = "gone"
        /\ repair[p].status = RepairedStatus(r)
        /\ \/ record[r] = "running" /\ repair[p].step = "write"
           \/ record[r] = repair[p].status

\* Only a completed run has a verdict, or is about to have one.
GradedIsCompleted(r) ==
    VerdictsOf(r) # {} \/ (\E g \in Graders : Grading(g, r)) =>
        record[r] = "completed"

\* The outcome in the journal is the one in the record, and it is missing
\* only while its writer is on its way.
OutcomeIsRecorded(r) ==
    /\ Outcomes(r) # {} =>
          record[r] \in Terminal /\ Said(r, Outcomes(r)) = record[r]
    /\ Outcomes(r) = {} /\ record[r] \in Terminal =>
          runner[r].step = "completed" \/ Telling(r)

\* Gradings of a run that never overlap: the verdict on its way has its file
\* already, and otherwise the grade file holds the last verdict of the journal.
GradesAreKept(r) ==
    /\ \A g, h \in Graders : Grading(g, r) /\ Grading(h, r) => g = h
    /\ \A g \in Graders : Grading(g, r) =>
          /\ grader[g].step = "write" => grade[r] = "none"
          /\ grader[g].step = "append" => grade[r] = grader[g].verdict
    /\ Cardinality(Kept(r)) >=
          Cardinality(VerdictsOf(r)) + (IF Recording(r) THEN 1 ELSE 0)
    /\ grade[r] \in Verdicts /\ r \notin ahead /\ ~Recording(r) =>
          VerdictsOf(r) # {} /\ Said(r, VerdictsOf(r)) = grade[r]

TypeInv == TypeOK /\ RequestsNameRuns
RecordInv ==
    \A r \in Runs \ raced :
        RecordFollowsRunner(r) /\ RepairsAgree(r) /\ GradedIsCompleted(r)
OutcomeInv == \A r \in Runs \ (raced \union untold) : OutcomeIsRecorded(r)
GradeInv == \A r \in Runs \ overlapped : GradesAreKept(r)
-----------------------------------------------------------------------------
\* Each request is of the type its steps are taken from.
LEMMA RequestTypes ==
    /\ \A step \in RunnerSteps : Ended(step) \in Runner
    /\ \A step \in {"new", "read", "write", "append", "over"} : Resting(step) \in Repair
    /\ \A step \in {"new", "archive", "write", "append", "over"} :
          NoGrading(step) \in Grader
  BY DEF Ended, Runner, Kinds, Resting, Repair, NoGrading, Grader

LEMMA TypeInit == Init => TypeInv
<1> SUFFICES ASSUME Init PROVE TypeInv
  OBVIOUS
<1>1. runner \in [Runs -> Runner] /\ repair \in [Repairs -> Repair]
      /\ grader \in [Graders -> Grader]
  BY RequestTypes DEF Init, RunnerSteps
<1>2. RequestsNameRuns
  BY DEF Init, RequestsNameRuns, Ended, Resting, NoGrading
<1>3. /\ record \in [Runs -> Record]
      /\ transcript \in [Runs -> {"none", "open", "end_turn"}]
  BY DEF Init, Record
<1>4. /\ grade \in [Runs -> Verdicts \union {"none", "broken"}]
      /\ archived \in [Runs -> Seq(Verdicts \union {"broken"})]
      /\ journal \in [Runs -> Seq(Event)] /\ readable \in BOOLEAN
      /\ crashes \in 0..MaxCrashes
  BY ConstantsAssumption DEF Init
<1>5. \A p \in Repairs : repair[p].step \notin {"new", "over"} => repair[p].left # {}
  BY DEF Init, Resting
<1>6. TypeOK
  BY <1>1, <1>3, <1>4, <1>5 DEF Init, TypeOK
<1>7. QED
  BY <1>2, <1>6 DEF TypeInv

\* A process of a run keeps the types.
LEMMA TypeRunStep ==
    ASSUME TypeInv, NEW r \in Runs, RunStep(r)
    PROVE  TypeInv'
<1> USE DEF TypeInv, TypeOK, RequestsNameRuns, files, history, log
<1>1. CASE Begin(r)
  <2>1. PICK kind \in Kinds :
           runner' = [runner EXCEPT ![r] = [runner[r] EXCEPT !.step = "open", !.kind = kind]]
    BY <1>1 DEF Begin
  <2>2. [runner[r] EXCEPT !.step = "open", !.kind = kind] \in Runner
    BY DEF Runner, RunnerSteps
  <2>3. QED
    BY <1>1, <2>1, <2>2 DEF Begin, Runner
<1>2. CASE Open(r)
  BY <1>2 DEF Open, Runner, RunnerSteps, Record, Terminal, Kinds
<1>3. CASE Reset(r)
  BY <1>3 DEF Reset, Runner, RunnerSteps, Record, Terminal, Kinds
<1>4. CASE EndTurn(r)
  <2>1. [runner[r] EXCEPT !.step = "final", !.status = "completed"] \in Runner
    BY DEF Runner, RunnerSteps, Terminal
  <2>2. runner' = [runner EXCEPT ![r] =
                      [runner[r] EXCEPT !.step = "final", !.status = "completed"]]
    BY <1>4 DEF EndTurn
  <2>3. /\ transcript' \in [Runs -> {"none", "open", "end_turn"}]
        /\ unseen' \subseteq Runs
    BY <1>4 DEF EndTurn
  <2>4. crashes' \in 0..MaxCrashes
    BY <1>4, ConstantsAssumption DEF EndTurn
  <2>5. /\ runner' \in [Runs -> Runner]
        /\ \A q \in Runs : runner'[q] = runner[q] \/ runner'[q].status = "completed"
    BY <2>1, <2>2 DEF Runner
  <2>6. UNCHANGED <<record, grade, archived, log, repair, grader, raced, untold,
                    overlapped, ahead>>
    BY <1>4 DEF EndTurn
  <2>7. QED
    BY <2>3, <2>4, <2>5, <2>6 DEF Terminal
<1>5. CASE SessionFails(r)
  <2>1. PICK status \in Terminal \ {"completed"} :
           runner' = [runner EXCEPT ![r] =
                         [runner[r] EXCEPT !.step = "final", !.status = status]]
    BY <1>5 DEF SessionFails
  <2>2. [runner[r] EXCEPT !.step = "final", !.status = status] \in Runner
    BY DEF Runner, RunnerSteps
  <2>3. QED
    BY <1>5, <2>1, <2>2 DEF SessionFails, Runner
<1>6. CASE Finalize(r)
  BY <1>6 DEF Finalize, Runner, RunnerSteps, Record, Terminal, Kinds
<1>7. CASE AppendRunEvent(r)
  <2>1. Ended("gone") \in Runner /\ Ended("gone").step = "gone"
    BY RequestTypes DEF RunnerSteps, Ended
  <2>2. /\ After(r) \in Runner
        /\ After(r).step \notin {"final", "completed"}
        /\ After(r).step = "review" => After(r).status = "completed"
    <3>1. /\ runner[r] \in Runner /\ runner[r].step \in AppendSteps
          /\ Ended("done") \in Runner /\ Ended("done").step = "done"
      BY <1>7, RequestTypes DEF AppendRunEvent, RunnerSteps, Ended
    <3>2. \A step \in RunnerSteps : [runner[r] EXCEPT !.step = step] \in Runner
      BY <3>1 DEF Runner
    <3>3. CASE runner[r].step = "station"
      BY <3>1, <3>2, <3>3 DEF After, RunnerSteps, Runner
    <3>4. CASE runner[r].step = "started"
      BY <3>1, <3>2, <3>4 DEF After, RunnerSteps, Runner
    <3>5. CASE runner[r].step = "completed"
      BY <3>1, <3>2, <3>5 DEF After, RunnerSteps, Runner
    <3>6. CASE runner[r].step = "review"
      BY <3>1, <3>6 DEF After
    <3>7. QED
      BY <3>1, <3>3, <3>4, <3>5, <3>6 DEF AppendSteps
  <2>3. LinesOf(r) \in Seq(Event)
    <3>1. CASE runner[r].step = "completed"
      <4>1. Line("run.completed", runner[r].status) \in Event
        BY <3>1 DEF Line, Event
      <4>2. QED
        BY <3>1, <4>1 DEF LinesOf, Outcome
    <3>2. CASE runner[r].step # "completed"
      BY <3>2 DEF LinesOf
    <3>3. QED
      BY <3>1, <3>2
  <2>4. journal' \in [Runs -> Seq(Event)]
    <3>1. journal[r] \o LinesOf(r) \in Seq(Event)
      BY <2>3
    <3>2. QED
      BY <1>7, <3>1 DEF AppendRunEvent, AppendTo, AppendFails
  <2>5. runner' = [runner EXCEPT ![r] = After(r)] \/ runner' = [runner EXCEPT ![r] = Ended("gone")]
    BY <1>7 DEF AppendRunEvent
  <2>6. QED
    BY <1>7, <2>1, <2>2, <2>4, <2>5 DEF AppendRunEvent, Terminal
<1>8. QED
  BY <1>1, <1>2, <1>3, <1>4, <1>5, <1>6, <1>7 DEF RunStep

\* A repair that has dealt with a run rests, or has others to visit.
LEMMA OnToNextRests ==
    ASSUME TypeInv, NEW p \in Repairs, NEW r
    PROVE  /\ OnToNext(p, r) \in Repair
           /\ OnToNext(p, r).step \in {"read", "over"}
           /\ OnToNext(p, r).step = "read" => OnToNext(p, r).left # {}
<1> DEFINE left == repair[p].left \ {r}
<1>1. left \subseteq Runs
  BY DEF TypeInv, TypeOK, Repair
<1>2. CASE left = {}
  BY <1>2, RequestTypes DEF OnToNext, Resting
<1>3. CASE left # {}
  <2>1. OnToNext(p, r) = [Resting("read") EXCEPT !.left = left]
    BY <1>3 DEF OnToNext
  <2>2. QED
    BY <1>1, <1>3, <2>1 DEF Resting, Repair
<1>4. QED
  BY <1>2, <1>3

\* A repair keeps the types.
LEMMA TypeRepairStep ==
    ASSUME TypeInv, NEW p \in Repairs, RepairStep(p)
    PROVE  TypeInv'
<1> USE DEF TypeInv, TypeOK, RequestsNameRuns, files, history, log
\* What a repair may come to be without more ado.
<1> DEFINE Fit(x) ==
        /\ x \in Repair
        /\ x.step \notin {"new", "over"} => x.left # {}
        /\ x.step \in {"write", "append"} => x.run \in x.left /\ x.status # "none"
<1>1. ASSUME NEW x, Fit(x), repair' = [repair EXCEPT ![p] = x],
             UNCHANGED <<transcript, grade, archived, readable, runner, grader>>,
             record' \in [Runs -> Record], journal' \in [Runs -> Seq(Event)],
             raced' \subseteq Runs, untold' \subseteq Runs,
             UNCHANGED <<unseen, overlapped, ahead, crashes>>
      PROVE  TypeInv'
  <2>1. repair' \in [Repairs -> Repair] /\ \A q \in Repairs : Fit(repair[q])
    BY <1>1
  <2>2. \A q \in Repairs : Fit(repair'[q])
    BY <1>1, <2>1
  <2>3. QED
    BY <1>1, <2>1, <2>2
<1>2. Fit(Resting("over"))
  BY RequestTypes DEF Resting
<1>3. \A r : Fit(OnToNext(p, r))
  BY OnToNextRests
<1>4. CASE BeginRepair(p)
  <2> DEFINE found(asked) == {r \in asked : record[r] # "absent"}
  <2>1. PICK asked \in {{r} : r \in Runs} \union {Runs} :
           /\ found(asked) # {}
           /\ repair' = [repair EXCEPT ![p] = [Resting("read") EXCEPT !.left = found(asked)]]
    BY <1>4 DEF BeginRepair
  <2>2. Fit([Resting("read") EXCEPT !.left = found(asked)])
    <3>1. found(asked) \subseteq Runs
      OBVIOUS
    <3> HIDE DEF found
    <3>2. QED
      BY <2>1, <3>1 DEF Resting, Repair
  <2> HIDE DEF Fit
  <2>3. QED
    BY <1>1, <1>4, <2>1, <2>2 DEF BeginRepair
<1>5. CASE Visit(p)
  <2>1. PICK r \in repair[p].left :
          /\ repair' = [repair EXCEPT ![p] =
                IF record[r] = "broken" THEN Resting("over")
                ELSE IF ~Stuck(r) THEN OnToNext(p, r)
                ELSE [@ EXCEPT !.step = "write", !.run = r,
                               !.status = RepairedStatus(r)]]
          /\ raced' = IF Stuck(r) /\ Alive(r) THEN raced \union {r} ELSE raced
    BY <1>5 DEF Visit
  <2>2. r \in Runs
    BY DEF Repair
  <2>3. Fit([repair[p] EXCEPT !.step = "write", !.run = r, !.status = RepairedStatus(r)])
    <3>1. RepairedStatus(r) \in {"completed", "failed"}
      BY DEF RepairedStatus
    <3>2. repair[p] \in Repair /\ r \in Runs \union {None}
      BY <2>2
    <3>3. [repair[p] EXCEPT !.step = "write", !.run = r, !.status = RepairedStatus(r)]
            \in Repair
      BY <3>1, <3>2 DEF Repair
    <3>4. QED
      BY <3>1, <3>2, <3>3 DEF Repair
  <2>4. PICK x : Fit(x) /\ repair' = [repair EXCEPT ![p] = x]
    <3> HIDE DEF Fit
    <3>1. QED
      BY <1>2, <1>3, <2>1, <2>3
  <2>5. raced' \subseteq Runs
    BY <2>1, <2>2
  <2> HIDE DEF Fit
  <2>6. QED
    BY <1>1, <1>5, <2>4, <2>5 DEF Visit
<1>6. CASE RepairRecord(p)
  <2>1. repair' = [repair EXCEPT ![p] = [repair[p] EXCEPT !.step = "append"]]
    BY <1>6 DEF RepairRecord
  <2>2. Fit([repair[p] EXCEPT !.step = "append"])
    BY <1>6 DEF RepairRecord, Repair
  <2>3. record' \in [Runs -> Record]
    BY <1>6 DEF RepairRecord, Repair, Record, Terminal
  <2> HIDE DEF Fit
  <2>4. QED
    BY <1>1, <1>6, <2>1, <2>2, <2>3 DEF RepairRecord
<1>7. CASE AppendRepaired(p)
  <2> DEFINE r == repair[p].run
  <2>1. r \in Runs /\ repair[p].status \in {"completed", "failed"}
    BY <1>7 DEF AppendRepaired, Repair
  <2>2. Line("run.repaired", repair[p].status) \in Event
    BY <2>1 DEF Line, Event, Terminal
  <2>3. journal[r] \o <<Line("run.repaired", repair[p].status)>> \in Seq(Event)
    BY <2>1, <2>2
  <2>4. journal' \in [Runs -> Seq(Event)] /\ untold' \subseteq Runs
    BY <1>7, <2>1, <2>3 DEF AppendRepaired, AppendTo, AppendFails
  <2>5. PICK x : Fit(x) /\ repair' = [repair EXCEPT ![p] = x]
    <3> HIDE DEF Fit
    <3>1. QED
      BY <1>2, <1>3, <1>7 DEF AppendRepaired
  <2> HIDE DEF Fit
  <2>6. QED
    BY <1>1, <1>7, <2>4, <2>5 DEF AppendRepaired
<1>8. QED
  BY <1>4, <1>5, <1>6, <1>7 DEF RepairStep

\* Lines appended to the journal of one run keep the types of all.
LEMMA JournalGrows ==
    ASSUME TypeOK, NEW r \in Runs, NEW grown \in Seq(Event),
           journal' = [journal EXCEPT ![r] = grown] \/ journal' = journal
    PROVE  journal' \in [Runs -> Seq(Event)]
BY DEF TypeOK

\* A grading keeps the types.
LEMMA TypeGradeStep ==
    ASSUME TypeInv, NEW g \in Graders, GradeStep(g)
    PROVE  TypeInv'
<1> USE DEF TypeInv, TypeOK, RequestsNameRuns, files, history, log
<1> DEFINE Fit(x) ==
        /\ x \in Grader
        /\ x.step \in {"archive", "write", "append"} =>
               x.run \in Runs /\ x.verdict \in Verdicts
<1>1. ASSUME NEW x, Fit(x), grader' = [grader EXCEPT ![g] = x],
             UNCHANGED <<record, transcript, readable, runner, repair>>,
             grade' \in [Runs -> Verdicts \union {"none", "broken"}],
             archived' \in [Runs -> Seq(Verdicts \union {"broken"})],
             journal' \in [Runs -> Seq(Event)],
             overlapped' \subseteq Runs, ahead' \subseteq Runs,
             UNCHANGED <<raced, untold, unseen, crashes>>
      PROVE  TypeInv'
  <2>1. grader' \in [Graders -> Grader] /\ \A h \in Graders : Fit(grader[h])
    BY <1>1
  <2>2. \A h \in Graders : Fit(grader'[h])
    BY <1>1, <2>1
  <2>3. QED
    BY <1>1, <2>1, <2>2
<1>2. CASE BeginGrading(g)
  <2>1. PICK r \in Runs, v \in Verdicts :
          /\ grader' = [grader EXCEPT ![g] = [step |-> "archive", run |-> r, verdict |-> v]]
          /\ overlapped' \in {overlapped, overlapped \union {r}}
    BY <1>2 DEF BeginGrading
  <2>2. Fit([step |-> "archive", run |-> r, verdict |-> v])
    BY DEF Grader
  <2> HIDE DEF Fit
  <2>3. QED
    BY <1>1, <1>2, <2>1, <2>2 DEF BeginGrading
<1>3. CASE ArchiveGrade(g)
  <2> DEFINE r == grader[g].run
  <2>1. r \in Runs
    BY <1>3 DEF ArchiveGrade
  <2>2. ToArchive(r) \in Seq(Verdicts \union {"broken"})
    <3>1. CASE grade[r] = "none"
      BY <3>1 DEF ToArchive
    <3>2. CASE grade[r] # "none"
      <4>1. grade[r] \in Verdicts \union {"broken"}
        BY <2>1, <3>2
      <4>2. QED
        BY <3>2, <4>1 DEF ToArchive
    <3>3. QED
      BY <3>1, <3>2
  <2>3. archived[r] \o ToArchive(r) \in Seq(Verdicts \union {"broken"})
    BY <2>1, <2>2
  <2>4. /\ archived' \in [Runs -> Seq(Verdicts \union {"broken"})]
        /\ grade' \in [Runs -> Verdicts \union {"none", "broken"}]
    BY <1>3, <2>1, <2>3 DEF ArchiveGrade
  <2>5. grader' = [grader EXCEPT ![g] = [grader[g] EXCEPT !.step = "write"]]
    BY <1>3 DEF ArchiveGrade
  <2>6. Fit([grader[g] EXCEPT !.step = "write"])
    BY <1>3 DEF ArchiveGrade, Grader
  <2> HIDE DEF Fit
  <2>7. QED
    BY <1>1, <1>3, <2>4, <2>5, <2>6 DEF ArchiveGrade
<1>4. CASE WriteGrade(g)
  <2>1. grader' = [grader EXCEPT ![g] = [grader[g] EXCEPT !.step = "append"]]
    BY <1>4 DEF WriteGrade
  <2>2. Fit([grader[g] EXCEPT !.step = "append"])
    BY <1>4 DEF WriteGrade, Grader
  <2>3. grade' \in [Runs -> Verdicts \union {"none", "broken"}]
    BY <1>4 DEF WriteGrade
  <2> HIDE DEF Fit
  <2>4. QED
    BY <1>1, <1>4, <2>1, <2>2, <2>3 DEF WriteGrade
<1>5. CASE AppendGraded(g)
  <2> DEFINE r == grader[g].run
  <2>1. r \in Runs /\ grader[g].verdict \in Verdicts
    BY <1>5 DEF AppendGraded
  <2>2. Line("run.graded", grader[g].verdict) \in Event
    BY <2>1 DEF Line, Event
  <2>3. journal[r] \o <<Line("run.graded", grader[g].verdict)>> \in Seq(Event)
    BY <2>1, <2>2
  <2>4. journal' \in [Runs -> Seq(Event)] /\ ahead' \subseteq Runs
    <3>1. \/ /\ journal' = [journal EXCEPT ![r] =
                                 journal[r] \o <<Line("run.graded", grader[g].verdict)>>]
             /\ ahead' = ahead \ {r}
          \/ /\ journal' = journal
             /\ ahead' = ahead \union {r}
      BY <1>5 DEF AppendGraded, AppendTo, AppendFails
    <3>2. journal' \in [Runs -> Seq(Event)]
      BY <2>1, <2>3, <3>1, JournalGrows
    <3>3. ahead' \subseteq Runs
      BY <2>1, <3>1
    <3>4. QED
      BY <3>2, <3>3
  <2>5. Fit(NoGrading("over"))
    BY RequestTypes DEF NoGrading
  <2> HIDE DEF Fit
  <2>6. QED
    BY <1>1, <1>5, <2>4, <2>5 DEF AppendGraded
<1>6. QED
  BY <1>2, <1>3, <1>4, <1>5 DEF GradeStep

\* What dies leaves the types.
LEMMA TypeCrash ==
    ASSUME TypeInv, Crash
    PROVE  TypeInv'
<1> USE DEF TypeInv, TypeOK, RequestsNameRuns, files, history, log
<1>1. crashes' \in 0..MaxCrashes
  BY ConstantsAssumption DEF Crash
<1>2. CASE \E r \in Runs : CrashRunner(r)
  <2>1. PICK r \in Runs : CrashRunner(r)
    BY <1>2
  <2>2. Ended("gone") \in Runner /\ Ended("gone").step = "gone"
    BY RequestTypes DEF RunnerSteps, Ended
  <2>3. record' \in [Runs -> Record] /\ untold' \subseteq Runs /\ readable' \in BOOLEAN
    BY <2>1 DEF CrashRunner, Tear, Record
  <2>4. runner' = [runner EXCEPT ![r] = Ended("gone")]
    BY <2>1 DEF CrashRunner
  <2>5. UNCHANGED <<transcript, grade, archived, journal, repair, grader, raced, unseen,
                    overlapped, ahead>>
    BY <2>1 DEF CrashRunner, Crash
  <2>6. runner' \in [Runs -> Runner] /\ \A q \in Runs : runner'[q] = runner[q] \/ runner'[q].step = "gone"
    BY <2>2, <2>4
  <2>7. QED
    BY <1>1, <2>3, <2>5, <2>6
<1>3. CASE \E p \in Repairs : CrashRepair(p)
  <2>1. PICK p \in Repairs : CrashRepair(p)
    BY <1>3
  <2>2. Resting("over") \in Repair /\ Resting("over").step = "over"
    BY RequestTypes DEF Resting
  <2>3. untold' \subseteq Runs /\ readable' \in BOOLEAN
    BY <2>1 DEF CrashRepair, Tear, Repair
  <2>4. QED
    BY <1>1, <2>1, <2>2, <2>3 DEF CrashRepair, Crash
<1>4. CASE \E g \in Graders : CrashGrader(g)
  <2>1. PICK g \in Graders : CrashGrader(g)
    BY <1>4
  <2>2. NoGrading("over") \in Grader /\ NoGrading("over").step = "over"
    BY RequestTypes DEF NoGrading
  <2>3. /\ ahead' \subseteq Runs /\ readable' \in BOOLEAN
        /\ grade' \in [Runs -> Verdicts \union {"none", "broken"}]
    BY <2>1 DEF CrashGrader, Tear
  <2>4. QED
    BY <1>1, <2>1, <2>2, <2>3 DEF CrashGrader, Crash
<1>5. QED
  BY <1>2, <1>3, <1>4 DEF Crash

LEMMA TypePreserved == TypeInv /\ [Next]_vars => TypeInv'
<1>1. ASSUME TypeInv, UNCHANGED vars
      PROVE  TypeInv'
  BY <1>1 DEF TypeInv, TypeOK, RequestsNameRuns, vars, files, history, log
<1>2. QED
  BY <1>1, TypeRunStep, TypeRepairStep, TypeGradeStep, TypeCrash DEF Next

\* The files, lines and requests of a bundle's runs are of their types, and
\* whoever is about to write knows of which run and what.
THEOREM TypeCorrect == Spec => []TypeOK
<1>1. Spec => []TypeInv
  BY TypeInit, TypePreserved, PTL DEF Spec
<1>2. TypeInv => TypeOK
  BY DEF TypeInv
<1>3. QED
  BY <1>1, <1>2, PTL
-----------------------------------------------------------------------------
\* A nonempty set of positions has a last one. (The sets i..n are well-founded
\* under strict inclusion.)
LEMMA GreatestPosition ==
    ASSUME NEW n \in Nat, NEW S \in SUBSET (1..n), S # {}
    PROVE  \E i \in S : \A k \in S : k <= i
<1> DEFINE rest == {i..n : i \in S}
<1>1. rest \subseteq FiniteSubsetsOf(Nat)
  <2>1. \A i \in S : i..n \subseteq Nat /\ IsFiniteSet(i..n)
    BY FS_Interval
  <2>2. QED
    BY <2>1 DEF FiniteSubsetsOf
<1>2. rest # {}
  OBVIOUS
<1>3. PICK least \in rest :
         \A s \in rest : ~(<<s, least>> \in StrictSubsetOrdering(Nat))
  <2> HIDE DEF rest
  <2>1. IsWellFoundedOn(StrictSubsetOrdering(Nat), FiniteSubsetsOf(Nat))
    BY FS_StrictSubsetOrderingWellFounded
  <2>2. QED
    BY <1>1, <1>2, <2>1, WFMin
<1>4. PICK i \in S : least = i..n
  OBVIOUS
<1>5. ASSUME NEW k \in S, ~(k <= i)
      PROVE  FALSE
  <2>1. k..n \subseteq i..n /\ i \in i..n /\ i \notin k..n
    BY <1>5
  <2>2. <<k..n, least>> \in StrictSubsetOrdering(Nat)
    BY <1>4, <2>1 DEF StrictSubsetOrdering
  <2>3. QED
    BY <1>3, <2>2
<1>6. QED
  BY <1>5

\* The last of some lines is one of them, and a line more is the last.
LEMMA LastOfIs ==
    ASSUME NEW n \in Nat, NEW lines \in SUBSET (1..n)
    PROVE  /\ lines # {} => LastOf(lines) \in lines
           /\ LastOf(lines \union {n + 1}) = n + 1
<1>1. ASSUME lines # {} PROVE LastOf(lines) \in lines
  BY <1>1, GreatestPosition DEF LastOf
<1> DEFINE more == lines \union {n + 1}
           Greatest(i) == i \in more /\ \A k \in more : k <= i
<1>2. Greatest(n + 1) /\ \A i : Greatest(i) => i = n + 1
  <2>1. \A k \in more : k \in Nat /\ k <= n + 1
    OBVIOUS
  <2>2. n + 1 \in more
    OBVIOUS
  <2> HIDE DEF more
  <2>3. QED
    BY <2>1, <2>2
<1>3. LastOf(more) = n + 1
  BY <1>2 DEF LastOf
<1>4. QED
  BY <1>1, <1>3

\* A line more in the journal of a run is the last of its kind, and leaves
\* the lines of the other kind and the other runs alone.
LEMMA LineAppended ==
    ASSUME TypeOK, NEW r \in Runs, NEW e \in Event,
           journal' = [journal EXCEPT ![r] = @ \o <<e>>],
           NEW q \in Runs
    PROVE  /\ IF q = r /\ e.type = "run.graded"
              THEN /\ VerdictsOf(q)' = VerdictsOf(q) \union {Len(journal[q]) + 1}
                   /\ Said(q, VerdictsOf(q))' = e.what
              ELSE /\ VerdictsOf(q)' = VerdictsOf(q)
                   /\ Said(q, VerdictsOf(q))' = Said(q, VerdictsOf(q))
           /\ IF q = r /\ e.type # "run.graded"
              THEN /\ Outcomes(q)' = Outcomes(q) \union {Len(journal[q]) + 1}
                   /\ Said(q, Outcomes(q))' = e.what
              ELSE /\ Outcomes(q)' = Outcomes(q)
                   /\ Said(q, Outcomes(q))' = Said(q, Outcomes(q))
<1> DEFINE n == Len(journal[q])
<1>1. journal \in [Runs -> Seq(Event)]
  BY DEF TypeOK
<1>2. CASE q # r
  <2>1. journal'[q] = journal[q]
    BY <1>1, <1>2
  <2>2. VerdictsOf(q)' = VerdictsOf(q) /\ Outcomes(q)' = Outcomes(q)
    BY <2>1 DEF VerdictsOf, Outcomes
  <2>3. QED
    BY <1>2, <2>1, <2>2 DEF Said
<1>3. CASE q = r
  <2>1. /\ n \in Nat
        /\ Len(journal'[q]) = n + 1
        /\ journal'[q][n + 1] = e
        /\ \A i \in 1..n : journal'[q][i] = journal[q][i]
    BY <1>1, <1>3
  <2>2. ASSUME NEW lines \in SUBSET (1..n)
        PROVE  /\ LastOf(lines \union {n + 1}) = n + 1
               /\ lines # {} => /\ LastOf(lines) \in 1..n
                                /\ journal'[q][LastOf(lines)] = journal[q][LastOf(lines)]
    BY <2>1, LastOfIs
  <2>3. VerdictsOf(q) \in SUBSET (1..n) /\ Outcomes(q) \in SUBSET (1..n)
    BY DEF VerdictsOf, Outcomes
  <2>4. e.type \in {"run.completed", "run.repaired", "run.graded"}
    BY DEF Event
  <2>5. CASE e.type = "run.graded"
    <3>1. VerdictsOf(q)' = VerdictsOf(q) \union {n + 1} /\ Outcomes(q)' = Outcomes(q)
      BY <2>1, <2>5 DEF VerdictsOf, Outcomes
    <3>2. Said(q, VerdictsOf(q))' = e.what
      BY <2>1, <2>2, <2>3, <3>1 DEF Said
    <3>3. Said(q, Outcomes(q))' = Said(q, Outcomes(q))
      <4>1. CASE Outcomes(q) = {}
        BY <3>1, <4>1 DEF Said
      <4>2. CASE Outcomes(q) # {}
        <5>1. journal'[q][LastOf(Outcomes(q))] = journal[q][LastOf(Outcomes(q))]
          BY <2>2, <2>3, <4>2
        <5>2. Said(q, Outcomes(q))' = journal'[q][LastOf(Outcomes(q)')].what
          BY <3>1, <4>2 DEF Said
        <5>3. Said(q, Outcomes(q)) = journal[q][LastOf(Outcomes(q))].what
          BY <4>2 DEF Said
        <5>4. QED
          BY <3>1, <5>1, <5>2, <5>3
      <4>3. QED
        BY <4>1, <4>2
    <3>4. QED
      BY <1>3, <2>5, <3>1, <3>2, <3>3
  <2>6. CASE e.type # "run.graded"
    <3>1. VerdictsOf(q)' = VerdictsOf(q) /\ Outcomes(q)' = Outcomes(q) \union {n + 1}
      BY <2>1, <2>4, <2>6 DEF VerdictsOf, Outcomes
    <3>2. Said(q, Outcomes(q))' = e.what
      BY <2>1, <2>2, <2>3, <3>1 DEF Said
    <3>3. Said(q, VerdictsOf(q))' = Said(q, VerdictsOf(q))
      <4>1. CASE VerdictsOf(q) = {}
        BY <3>1, <4>1 DEF Said
      <4>2. CASE VerdictsOf(q) # {}
        <5>1. journal'[q][LastOf(VerdictsOf(q))] = journal[q][LastOf(VerdictsOf(q))]
          BY <2>2, <2>3, <4>2
        <5>2. Said(q, VerdictsOf(q))' = journal'[q][LastOf(VerdictsOf(q)')].what
          BY <3>1, <4>2 DEF Said
        <5>3. Said(q, VerdictsOf(q)) = journal[q][LastOf(VerdictsOf(q))].what
          BY <4>2 DEF Said
        <5>4. QED
          BY <3>1, <5>1, <5>2, <5>3
      <4>3. QED
        BY <4>1, <4>2
    <3>4. QED
      BY <1>3, <2>6, <3>1, <3>2, <3>3
  <2>7. QED
    BY <2>5, <2>6
<1>4. QED
  BY <1>2, <1>3

\* Lines that are not written tell nothing new.
LEMMA NoLine ==
    ASSUME NEW q \in Runs, journal'[q] = journal[q]
    PROVE  /\ VerdictsOf(q)' = VerdictsOf(q) /\ Outcomes(q)' = Outcomes(q)
           /\ Said(q, VerdictsOf(q))' = Said(q, VerdictsOf(q))
           /\ Said(q, Outcomes(q))' = Said(q, Outcomes(q))
<1>1. VerdictsOf(q)' = VerdictsOf(q) /\ Outcomes(q)' = Outcomes(q)
  BY DEF VerdictsOf, Outcomes
<1>2. QED
  BY <1>1 DEF Said

\* Only a grading journals a verdict: not the process of a run ...
LEMMA RunGivesNoVerdict ==
    ASSUME TypeInv, NEW r \in Runs, RunStep(r), NEW q \in Runs
    PROVE  /\ VerdictsOf(q)' = VerdictsOf(q)
           /\ Said(q, VerdictsOf(q))' = Said(q, VerdictsOf(q))
<1> USE DEF files, history, log
<1>1. CASE journal'[q] = journal[q]
  BY <1>1, NoLine
<1>2. CASE journal'[q] # journal[q]
  <2>1. AppendRunEvent(r) /\ journal' = [journal EXCEPT ![r] = @ \o LinesOf(r)]
    BY <1>2 DEF RunStep, Begin, Open, Reset, EndTurn, SessionFails, Finalize,
                AppendRunEvent, AppendTo, AppendFails
  <2>2. CASE runner[r].step = "completed"
    <3>1. Line("run.completed", runner[r].status) \in Event
      BY <2>2 DEF TypeInv, RequestsNameRuns, Line, Event
    <3>2. journal' = [journal EXCEPT ![r] = @ \o <<Line("run.completed", runner[r].status)>>]
      BY <2>1, <2>2 DEF LinesOf, Outcome
    <3>3. QED
      BY <3>1, <3>2, LineAppended DEF TypeInv, Line
  <2>3. CASE runner[r].step # "completed"
    <3>1. journal[r] \o LinesOf(r) = journal[r]
      BY <2>3 DEF LinesOf, TypeInv, TypeOK
    <3>2. QED
      BY <1>2, <2>1, <3>1 DEF TypeInv, TypeOK
  <2>4. QED
    BY <2>2, <2>3
<1>3. QED
  BY <1>1, <1>2

\* ... nor a repair.
LEMMA RepairGivesNoVerdict ==
    ASSUME TypeInv, NEW p \in Repairs, RepairStep(p), NEW q \in Runs
    PROVE  /\ VerdictsOf(q)' = VerdictsOf(q)
           /\ Said(q, VerdictsOf(q))' = Said(q, VerdictsOf(q))
<1> USE DEF files, history, log
<1>1. CASE journal'[q] = journal[q]
  BY <1>1, NoLine
<1>2. CASE journal'[q] # journal[q]
  <2> DEFINE r == repair[p].run
             line == Line("run.repaired", repair[p].status)
  <2>1. AppendRepaired(p) /\ journal' = [journal EXCEPT ![r] = @ \o <<line>>]
    BY <1>2 DEF RepairStep, BeginRepair, Visit, RepairRecord, AppendRepaired,
                AppendTo, AppendFails
  <2>2. r \in Runs /\ line \in Event /\ line.type = "run.repaired"
    BY <2>1 DEF TypeInv, TypeOK, RequestsNameRuns, AppendRepaired, Repair, Line, Event,
                Terminal
  <2> HIDE DEF r, line
  <2>3. QED
    BY <2>1, <2>2, LineAppended DEF TypeInv
<1>3. QED
  BY <1>1, <1>2
-----------------------------------------------------------------------------
\* What a step leaves alone of a run keeps what is known of its record.
LEMMA RecordUntouched ==
    ASSUME NEW q \in Runs,
           RecordFollowsRunner(q), RepairsAgree(q), GradedIsCompleted(q),
           record'[q] = record[q], transcript'[q] = transcript[q],
           runner'[q] = runner[q], q \in unseen => q \in unseen',
           VerdictsOf(q)' = VerdictsOf(q),
           \A p \in Repairs : Repairing(p, q)' => repair'[p] = repair[p],
           \A g \in Graders : Grading(g, q)' => Grading(g, q)
    PROVE  RecordFollowsRunner(q)' /\ RepairsAgree(q)' /\ GradedIsCompleted(q)'
<1>1. RecordFollowsRunner(q)'
  BY DEF RecordFollowsRunner, TurnEnded
<1>2. RepairsAgree(q)'
  BY DEF RepairsAgree, Repairing, RepairedStatus
<1>3. GradedIsCompleted(q)'
  BY DEF GradedIsCompleted
<1>4. QED
  BY <1>1, <1>2, <1>3

\* The process of a run writes its own record in order.
LEMMA RecordRunStep ==
    ASSUME TypeInv, RecordInv, NEW r \in Runs, RunStep(r)
    PROVE  RecordInv'
<1> USE DEF files, history, log
<1>1. /\ UNCHANGED <<repair, grader, raced>>
      /\ \A q \in Runs : VerdictsOf(q)' = VerdictsOf(q)
      /\ \A q \in Runs \ {r} : /\ record'[q] = record[q] /\ runner'[q] = runner[q]
                               /\ transcript'[q] = transcript[q]
                               /\ q \in unseen' <=> q \in unseen
  <2>1. UNCHANGED <<repair, grader, raced>>
    BY DEF RunStep, Begin, Open, Reset, EndTurn, SessionFails, Finalize, AppendRunEvent
  <2>2. \A q \in Runs \ {r} : /\ record'[q] = record[q] /\ runner'[q] = runner[q]
                              /\ transcript'[q] = transcript[q]
                              /\ q \in unseen' <=> q \in unseen
    BY DEF TypeInv, TypeOK, RunStep, Begin, Open, Reset, EndTurn, SessionFails,
           Finalize, AppendRunEvent
  <2>3. QED
    BY <2>1, <2>2, RunGivesNoVerdict
<1>2. SUFFICES ASSUME NEW q \in Runs \ raced
               PROVE  RecordFollowsRunner(q)' /\ RepairsAgree(q)' /\ GradedIsCompleted(q)'
  BY <1>1 DEF RecordInv
<1>3. RecordFollowsRunner(q) /\ RepairsAgree(q) /\ GradedIsCompleted(q)
  BY DEF RecordInv
<1>4. CASE q # r
  BY <1>1, <1>3, <1>4, RecordUntouched DEF Repairing, Grading
<1>5. CASE q = r
  <2>1. runner[r].step # "gone"
    BY DEF RunStep, Begin, Open, Reset, EndTurn, SessionFails, Finalize,
           AppendRunEvent, AppendSteps
  <2>2. RepairsAgree(q)'
    BY <1>1, <1>3, <1>5, <2>1 DEF RepairsAgree, Repairing
  <2>3. GradedIsCompleted(q)'
    <3>1. CASE record[r] = "completed"
      <4>1. runner[r].step \in {"completed", "review"}
        BY <1>3, <1>5, <2>1, <3>1 DEF RecordFollowsRunner, RunStep, Begin, Open, Reset,
           EndTurn, SessionFails, Finalize, AppendRunEvent, AppendSteps
      <4>2. record'[r] = record[r]
        BY <4>1 DEF RunStep, Begin, Open, Reset, EndTurn, SessionFails, Finalize,
                    AppendRunEvent
      <4>3. QED
        BY <1>5, <3>1, <4>2 DEF GradedIsCompleted
    <3>2. CASE record[r] # "completed"
      BY <1>1, <1>3, <1>5, <3>2 DEF GradedIsCompleted, Grading
    <3>3. QED
      BY <3>1, <3>2
  <2>4. RecordFollowsRunner(q)'
    <3> USE <1>3, <1>5 DEF TypeInv, TypeOK, RecordFollowsRunner, TurnEnded, Runner
    <3>1. CASE Begin(r)
      BY <3>1 DEF Begin
    <3>2. CASE Open(r)
      BY <3>2 DEF Open
    <3>3. CASE Reset(r)
      BY <3>3 DEF Reset
    <3>4. CASE EndTurn(r)
      BY <3>4 DEF EndTurn
    <3>5. CASE SessionFails(r)
      BY <3>5 DEF SessionFails
    <3>6. CASE Finalize(r)
      BY <3>6 DEF Finalize
    <3>7. CASE AppendRunEvent(r)
      BY <3>7 DEF AppendRunEvent, AppendSteps, After, Ended, RequestsNameRuns
    <3>8. QED
      BY <3>1, <3>2, <3>3, <3>4, <3>5, <3>6, <3>7 DEF RunStep
  <2>5. QED
    BY <2>2, <2>3, <2>4
<1>6. QED
  BY <1>4, <1>5

\* A repair takes up a run whose process is dead, or notes that it is not.
LEMMA RecordRepairStep ==
    ASSUME TypeInv, RecordInv, NEW p \in Repairs, RepairStep(p)
    PROVE  RecordInv'
<1> USE DEF files, history, log
<1>1. /\ UNCHANGED <<transcript, runner, grader, unseen>> /\ raced \subseteq raced'
      /\ \A q \in Runs : VerdictsOf(q)' = VerdictsOf(q)
      /\ \A o \in Repairs \ {p} : repair'[o] = repair[o]
      /\ \A q \in Runs : record'[q] # record[q] => Repairing(p, q)
  <2>1. UNCHANGED <<transcript, runner, grader, unseen>> /\ raced \subseteq raced'
    BY DEF RepairStep, BeginRepair, Visit, RepairRecord, AppendRepaired
  <2>2. \A o \in Repairs \ {p} : repair'[o] = repair[o]
    BY DEF TypeInv, TypeOK, RepairStep, BeginRepair, Visit, RepairRecord, AppendRepaired
  <2>3. \A q \in Runs : record'[q] # record[q] => Repairing(p, q)
    BY DEF TypeInv, TypeOK, RepairStep, BeginRepair, Visit, RepairRecord, AppendRepaired,
           Repairing
  <2>4. QED
    BY <2>1, <2>2, <2>3, RepairGivesNoVerdict
<1>2. SUFFICES ASSUME NEW q \in Runs \ raced'
               PROVE  RecordFollowsRunner(q)' /\ RepairsAgree(q)' /\ GradedIsCompleted(q)'
  BY DEF RecordInv
<1>3. RecordFollowsRunner(q) /\ RepairsAgree(q) /\ GradedIsCompleted(q)
  BY <1>1 DEF RecordInv
<1>4. CASE BeginRepair(p)
  <2>1. repair'[p].step = "read" /\ UNCHANGED record
    BY <1>4 DEF BeginRepair, TypeInv, TypeOK, Resting
  <2>2. \A o \in Repairs : Repairing(o, q)' => repair'[o] = repair[o]
    BY <1>1, <2>1 DEF Repairing
  <2>3. QED
    BY <1>1, <1>3, <2>1, <2>2, RecordUntouched DEF Grading
<1>5. CASE Visit(p)
  <2>1. UNCHANGED record
    BY <1>5 DEF Visit
  <2>2. PICK r \in repair[p].left :
          /\ repair' = [repair EXCEPT ![p] =
                IF record[r] = "broken" THEN Resting("over")
                ELSE IF ~Stuck(r) THEN OnToNext(p, r)
                ELSE [@ EXCEPT !.step = "write", !.run = r,
                               !.status = RepairedStatus(r)]]
          /\ raced' = IF Stuck(r) /\ Alive(r) THEN raced \union {r} ELSE raced
    BY <1>5 DEF Visit
  <2>3. CASE Stuck(r) /\ r = q
    <3>1. repair'[p].status = RepairedStatus(q) /\ record[q] = "running"
          /\ repair'[p].step = "write" /\ repair'[p].run = q
      BY <2>2, <2>3 DEF TypeInv, TypeOK, Repair, Stuck
    <3>2. runner[q].step = "gone"
      <4>1. ~Alive(q)
        BY <2>2, <2>3
      <4>2. runner[q].step \notin {"new", "done"}
        BY <1>3, <2>3 DEF RecordFollowsRunner, Stuck, Terminal
      <4>3. QED
        BY <4>1, <4>2 DEF Alive
    <3>3. RepairsAgree(q)'
      BY <1>1, <1>3, <2>1, <3>1, <3>2 DEF RepairsAgree, Repairing, RepairedStatus
    <3>4. RecordFollowsRunner(q)' /\ GradedIsCompleted(q)'
      BY <1>1, <1>3, <2>1 DEF RecordFollowsRunner, TurnEnded, GradedIsCompleted, Grading
    <3>5. QED
      BY <3>3, <3>4
  <2>4. CASE ~(Stuck(r) /\ r = q)
    <3>1. ~Repairing(p, q)'
      <4>1. CASE record[r] = "broken"
        BY <2>2, <4>1 DEF TypeInv, TypeOK, Repairing, Resting
      <4>2. CASE record[r] # "broken" /\ ~Stuck(r)
        BY <2>2, <4>2, OnToNextRests DEF TypeInv, TypeOK, Repairing
      <4>3. CASE record[r] # "broken" /\ Stuck(r)
        BY <2>2, <2>4, <4>3 DEF TypeInv, TypeOK, Repairing, Repair
      <4>4. QED
        BY <4>1, <4>2, <4>3
    <3>2. \A o \in Repairs : Repairing(o, q)' => repair'[o] = repair[o]
      BY <1>1, <3>1
    <3>3. QED
      BY <1>1, <1>3, <2>1, <3>2, RecordUntouched DEF Grading
  <2>5. QED
    BY <2>3, <2>4
<1>6. CASE RepairRecord(p)
  <2>1. /\ repair[p].step = "write"
        /\ repair'[p].step = "append" /\ repair'[p].run = repair[p].run
        /\ repair'[p].status = repair[p].status
        /\ record' = [record EXCEPT ![repair[p].run] = repair[p].status]
    BY <1>6 DEF RepairRecord, TypeInv, TypeOK, Repair
  <2>2. CASE repair[p].run = q
    <3>1. Repairing(p, q) /\ record'[q] = repair[p].status
      BY <2>1, <2>2 DEF Repairing, TypeInv, TypeOK
    <3>2. /\ runner[q].step = "gone"
          /\ repair[p].status = RepairedStatus(q)
          /\ record[q] = "running" \/ record[q] = RepairedStatus(q)
      BY <1>3, <3>1 DEF RepairsAgree
    <3>3. RepairsAgree(q)'
      BY <1>1, <1>3, <2>1, <3>1, <3>2 DEF RepairsAgree, Repairing, RepairedStatus
    <3>4. RecordFollowsRunner(q)'
      BY <1>1, <1>3, <3>1, <3>2 DEF RecordFollowsRunner, TurnEnded, RepairedStatus
    <3>5. GradedIsCompleted(q)'
      <4>1. CASE record[q] = "completed"
        BY <3>1, <3>2, <4>1 DEF GradedIsCompleted
      <4>2. CASE record[q] # "completed"
        BY <1>1, <1>3, <4>2 DEF GradedIsCompleted, Grading
      <4>3. QED
        BY <4>1, <4>2
    <3>6. QED
      BY <3>3, <3>4, <3>5
  <2>3. CASE repair[p].run # q
    <3>1. record'[q] = record[q] /\ ~Repairing(p, q)'
      BY <2>1, <2>3 DEF Repairing, TypeInv, TypeOK
    <3>2. QED
      BY <1>1, <1>3, <3>1, RecordUntouched DEF Grading
  <2>4. QED
    BY <2>2, <2>3
<1>7. CASE AppendRepaired(p)
  <2>1. UNCHANGED record
    BY <1>7 DEF AppendRepaired
  <2>2. repair'[p].step \in {"read", "over"}
    BY <1>7, OnToNextRests DEF AppendRepaired, TypeInv, TypeOK, Resting
  <2>3. QED
    BY <1>1, <1>3, <2>1, <2>2, RecordUntouched DEF Repairing, Grading
<1>8. QED
  BY <1>4, <1>5, <1>6, <1>7 DEF RepairStep

\* Only a completed run is taken up for grading, and its record stays.
LEMMA RecordGradeStep ==
    ASSUME TypeInv, RecordInv, NEW g \in Graders, GradeStep(g)
    PROVE  RecordInv'
<1> USE DEF files, history, log
<1>1. UNCHANGED <<record, transcript, runner, repair, raced, unseen>>
  BY DEF GradeStep, BeginGrading, ArchiveGrade, WriteGrade, AppendGraded
<1>2. SUFFICES ASSUME NEW q \in Runs \ raced
               PROVE  RecordFollowsRunner(q)' /\ RepairsAgree(q)' /\ GradedIsCompleted(q)'
  BY <1>1 DEF RecordInv
<1>3. RecordFollowsRunner(q) /\ RepairsAgree(q) /\ GradedIsCompleted(q)
  BY DEF RecordInv
<1>4. RecordFollowsRunner(q)' /\ RepairsAgree(q)'
  BY <1>1, <1>3 DEF RecordFollowsRunner, TurnEnded, RepairsAgree, Repairing, RepairedStatus
<1>5. \A h \in Graders \ {g} : grader'[h] = grader[h]
  BY DEF GradeStep, BeginGrading, ArchiveGrade, WriteGrade, AppendGraded, TypeInv, TypeOK
<1>6. GradedIsCompleted(q)'
  <2>1. CASE record[q] = "completed"
    BY <1>1, <2>1 DEF GradedIsCompleted
  <2>2. CASE record[q] # "completed"
    <3>1. \A h \in Graders : ~Grading(h, q)
      BY <1>3, <2>2 DEF GradedIsCompleted
    <3>2. VerdictsOf(q) = {}
      BY <1>3, <2>2 DEF GradedIsCompleted
    <3>3. ~Grading(g, q)'
      <4>1. CASE BeginGrading(g)
        <5>1. PICK r \in Runs : Gradable(r) /\ grader'[g].run = r
          BY <4>1 DEF BeginGrading, TypeInv, TypeOK
        <5>2. QED
          BY <2>2, <5>1 DEF Gradable, Grading
      <4>2. CASE ArchiveGrade(g) \/ WriteGrade(g)
        <5>1. /\ grader[g].step \in {"archive", "write"}
              /\ \E step : grader' = [grader EXCEPT ![g] = [grader[g] EXCEPT !.step = step]]
          BY <4>2 DEF ArchiveGrade, WriteGrade
        <5>2. grader'[g].run = grader[g].run
          BY <5>1 DEF TypeInv, TypeOK, Grader
        <5>3. QED
          BY <3>1, <5>1, <5>2 DEF Grading
      <4>3. CASE AppendGraded(g)
        BY <4>3 DEF AppendGraded, Grading, NoGrading, TypeInv, TypeOK
      <4>4. QED
        BY <4>1, <4>2, <4>3 DEF GradeStep
    <3>4. VerdictsOf(q)' = {}
      <4>1. CASE UNCHANGED journal
        BY <3>2, <4>1 DEF VerdictsOf
      <4>2. CASE journal' # journal
        <5> DEFINE r == grader[g].run
                   line == Line("run.graded", grader[g].verdict)
        <5>1. AppendGraded(g) /\ journal' = [journal EXCEPT ![r] = @ \o <<line>>]
          BY <4>2 DEF GradeStep, BeginGrading, ArchiveGrade, WriteGrade, AppendGraded,
                      AppendTo, AppendFails
        <5>2. Grading(g, r) /\ r \in Runs
          BY <5>1 DEF AppendGraded, Grading, TypeInv, RequestsNameRuns
        <5>3. q # r
          BY <3>1, <5>2
        <5>4. journal'[q] = journal[q]
          BY <5>1, <5>3 DEF TypeInv, TypeOK
        <5>5. QED
          BY <3>2, <5>4 DEF VerdictsOf
      <4>3. QED
        BY <4>1, <4>2
    <3>5. QED
      BY <1>5, <3>1, <3>3, <3>4 DEF GradedIsCompleted, Grading
  <2>3. QED
    BY <2>1, <2>2
<1>7. QED
  BY <1>4, <1>6

\* Whoever dies leaves no record but one of a run that was being written.
LEMMA RecordCrash ==
    ASSUME TypeInv, RecordInv, Crash
    PROVE  RecordInv'
<1> USE DEF files, history, log
<1>1. /\ UNCHANGED <<journal, transcript, raced, unseen>>
      /\ \A q \in Runs : VerdictsOf(q)' = VerdictsOf(q)
  BY DEF Crash, CrashRunner, CrashRepair, CrashGrader, VerdictsOf
<1>2. SUFFICES ASSUME NEW q \in Runs \ raced
               PROVE  RecordFollowsRunner(q)' /\ RepairsAgree(q)' /\ GradedIsCompleted(q)'
  BY <1>1 DEF RecordInv
<1>3. RecordFollowsRunner(q) /\ RepairsAgree(q) /\ GradedIsCompleted(q)
  BY DEF RecordInv
<1>4. ASSUME NEW r \in Runs, CrashRunner(r)
      PROVE  RecordFollowsRunner(q)' /\ RepairsAgree(q)' /\ GradedIsCompleted(q)'
  <2>1. UNCHANGED <<repair, grader>>
    BY <1>4 DEF CrashRunner
  <2>2. CASE q = r
    <3>1. runner'[q].step = "gone" /\ Alive(q)
      BY <1>4, <2>2 DEF CrashRunner, Ended, TypeInv, TypeOK
    <3>2. \/ record'[q] = record[q]
          \/ record'[q] = "broken" /\ record[q] # "completed"
      <4>1. CASE record' = record
        BY <4>1
      <4>2. CASE record' # record
        <5>1. runner[q].step \in {"open", "reset", "final"} /\ record'[q] = "broken"
          BY <1>4, <2>2, <4>2 DEF CrashRunner, TypeInv, TypeOK
        <5>2. record[q] \in {"absent", "running"}
          BY <1>3, <5>1 DEF RecordFollowsRunner
        <5>3. QED
          BY <5>1, <5>2
      <4>3. QED
        BY <4>1, <4>2
    <3>3. RecordFollowsRunner(q)'
      BY <1>1, <1>3, <3>1, <3>2 DEF RecordFollowsRunner, TurnEnded
    <3>4. RepairsAgree(q)'
      BY <1>3, <2>1, <3>1 DEF RepairsAgree, Repairing, Alive
    <3>5. GradedIsCompleted(q)'
      BY <1>1, <1>3, <2>1, <3>2 DEF GradedIsCompleted, Grading
    <3>6. QED
      BY <3>3, <3>4, <3>5
  <2>3. CASE q # r
    <3>1. record'[q] = record[q] /\ runner'[q] = runner[q]
      BY <1>4, <2>3 DEF CrashRunner, TypeInv, TypeOK
    <3>2. QED
      BY <1>1, <1>3, <2>1, <3>1, RecordUntouched DEF Grading
  <2>4. QED
    BY <2>2, <2>3
<1>5. ASSUME NEW p \in Repairs, CrashRepair(p)
      PROVE  RecordFollowsRunner(q)' /\ RepairsAgree(q)' /\ GradedIsCompleted(q)'
  <2>1. /\ UNCHANGED <<record, runner, grader>>
        /\ \A o \in Repairs : Repairing(o, q)' => repair'[o] = repair[o]
    BY <1>5 DEF CrashRepair, Repairing, Resting, TypeInv, TypeOK
  <2>2. QED
    BY <1>1, <1>3, <2>1, RecordUntouched DEF Grading
<1>6. ASSUME NEW g \in Graders, CrashGrader(g)
      PROVE  RecordFollowsRunner(q)' /\ RepairsAgree(q)' /\ GradedIsCompleted(q)'
  <2>1. /\ UNCHANGED <<record, runner, repair>>
        /\ \A h \in Graders : Grading(h, q)' => Grading(h, q)
    BY <1>6 DEF CrashGrader, Grading, NoGrading, TypeInv, TypeOK
  <2>2. QED
    BY <1>1, <1>3, <2>1, RecordUntouched
<1>7. QED
  BY <1>4, <1>5, <1>6 DEF Crash

LEMMA RecordInit == Init => RecordInv
<1> SUFFICES ASSUME Init, NEW q \in Runs
             PROVE  RecordFollowsRunner(q) /\ RepairsAgree(q) /\ GradedIsCompleted(q)
  BY DEF RecordInv
<1>1. record[q] \in {"absent", "broken", "running"}
      /\ (record[q] = "absent" <=> q \notin OldRuns)
      /\ runner[q] = Ended(IF q \in OldRuns THEN "gone" ELSE "new")
  BY DEF Init
<1>2. RecordFollowsRunner(q)
  BY <1>1 DEF RecordFollowsRunner, Ended
<1>3. RepairsAgree(q)
  BY DEF Init, RepairsAgree, Repairing, Resting
<1>4. VerdictsOf(q) = {}
  BY DEF Init, VerdictsOf
<1>5. GradedIsCompleted(q)
  BY <1>4 DEF Init, GradedIsCompleted, Grading, NoGrading
<1>6. QED
  BY <1>2, <1>3, <1>5

LEMMA RecordPreserved == TypeInv /\ RecordInv /\ [Next]_vars => RecordInv'
<1>1. ASSUME RecordInv, UNCHANGED vars
      PROVE  RecordInv'
  BY <1>1 DEF RecordInv, RecordFollowsRunner, TurnEnded, RepairsAgree, Repairing,
              RepairedStatus, GradedIsCompleted, Grading, VerdictsOf, vars, files,
              history, log
<1>2. QED
  BY <1>1, RecordRunStep, RecordRepairStep, RecordGradeStep, RecordCrash DEF Next
-----------------------------------------------------------------------------
\* What a step leaves alone of a run keeps what is known of its outcome.
LEMMA OutcomeUntouched ==
    ASSUME NEW q \in Runs, OutcomeIsRecorded(q),
           record'[q] = record[q],
           Outcomes(q)' = Outcomes(q), Said(q, Outcomes(q))' = Said(q, Outcomes(q)),
           runner[q].step = "completed" => runner'[q].step = "completed",
           Telling(q) => Telling(q)'
    PROVE  OutcomeIsRecorded(q)'
BY DEF OutcomeIsRecorded

\* The process of a run journals the status it has just written.
LEMMA OutcomeRunStep ==
    ASSUME TypeInv, RecordInv, OutcomeInv, NEW r \in Runs, RunStep(r)
    PROVE  OutcomeInv'
<1> USE DEF files, history, log
<1>1. UNCHANGED <<repair, raced>> /\ untold \subseteq untold'
  BY DEF RunStep, Begin, Open, Reset, EndTurn, SessionFails, Finalize, AppendRunEvent
<1>2. SUFFICES ASSUME NEW q \in Runs \ (raced \union untold')
               PROVE  OutcomeIsRecorded(q)'
  BY <1>1 DEF OutcomeInv
<1>3. OutcomeIsRecorded(q) /\ RecordFollowsRunner(q)
  BY <1>1 DEF OutcomeInv, RecordInv
<1>4. Telling(q) => Telling(q)'
  BY <1>1 DEF Telling
<1>5. CASE Begin(r) \/ EndTurn(r) \/ SessionFails(r)
  <2>1. /\ UNCHANGED <<record, journal>>
        /\ runner[q].step = "completed" => runner'[q].step = "completed"
    BY <1>5 DEF Begin, EndTurn, SessionFails, TypeInv, TypeOK
  <2>2. QED
    BY <1>3, <1>4, <2>1, NoLine, OutcomeUntouched
<1>6. CASE Open(r) \/ Reset(r) \/ Finalize(r)
  <2>1. UNCHANGED journal
    BY <1>6 DEF Open, Reset, Finalize
  <2>2. CASE q = r
    <3>1. record[q] \in {"absent", "running"}
      BY <1>3, <1>6, <2>2 DEF RecordFollowsRunner, Open, Reset, Finalize
    <3>2. Outcomes(q) = {}
      BY <1>3, <3>1 DEF OutcomeIsRecorded, Terminal
    <3>3. \/ record'[q] = "running"
          \/ record'[q] = record[q]
          \/ runner'[q].step = "completed"
      <4>1. CASE Open(r) \/ Reset(r)
        BY <2>2, <4>1 DEF Open, Reset, TypeInv, TypeOK
      <4>2. CASE Finalize(r)
        BY <2>2, <4>2 DEF Finalize, TypeInv, TypeOK, Runner
      <4>3. QED
        BY <1>6, <4>1, <4>2
    <3>4. QED
      BY <2>1, <3>1, <3>2, <3>3, NoLine DEF OutcomeIsRecorded, Terminal
  <2>3. CASE q # r
    <3>1. record'[q] = record[q] /\ runner'[q] = runner[q]
      BY <1>6, <2>3 DEF Open, Reset, Finalize, TypeInv, TypeOK
    <3>2. QED
      BY <1>3, <1>4, <2>1, <3>1, NoLine, OutcomeUntouched
  <2>4. QED
    BY <2>2, <2>3
<1>7. CASE AppendRunEvent(r)
  <2>1. UNCHANGED record
    BY <1>7 DEF AppendRunEvent
  <2>2. CASE q # r
    <3>1. journal'[q] = journal[q] /\ runner'[q] = runner[q]
      BY <1>7, <2>2 DEF AppendRunEvent, AppendTo, AppendFails, TypeInv, TypeOK
    <3>2. QED
      BY <1>3, <1>4, <2>1, <3>1, NoLine, OutcomeUntouched
  <2>3. CASE q = r
    <3>1. journal' = [journal EXCEPT ![r] = @ \o LinesOf(r)]
      BY <1>7, <2>3 DEF AppendRunEvent, AppendTo
    <3>2. CASE runner[r].step = "completed"
      <4> DEFINE line == Line("run.completed", runner[r].status)
      <4>1. line \in Event /\ line.type = "run.completed" /\ line.what = runner[r].status
        BY <3>2 DEF TypeInv, RequestsNameRuns, Line, Event
      <4>2. journal' = [journal EXCEPT ![r] = @ \o <<line>>]
        BY <3>1, <3>2 DEF LinesOf, Outcome
      <4> HIDE DEF line
      <4>3. /\ Outcomes(q)' = Outcomes(q) \union {Len(journal[q]) + 1}
            /\ Said(q, Outcomes(q))' = line.what
        BY <2>3, <4>1, <4>2, LineAppended DEF TypeInv
      <4>4. record[q] = line.what /\ record[q] \in Terminal
        BY <1>3, <2>3, <3>2, <4>1 DEF RecordFollowsRunner, TypeInv, RequestsNameRuns
      <4>5. QED
        BY <2>1, <4>3, <4>4 DEF OutcomeIsRecorded
    <3>3. CASE runner[r].step # "completed"
      <4>1. journal'[q] = journal[q]
        BY <2>3, <3>1, <3>3 DEF LinesOf, TypeInv, TypeOK
      <4>2. QED
        BY <1>3, <1>4, <2>1, <2>3, <3>3, <4>1, NoLine, OutcomeUntouched
    <3>4. QED
      BY <3>2, <3>3
  <2>4. QED
    BY <2>2, <2>3
<1>8. QED
  BY <1>5, <1>6, <1>7 DEF RunStep

\* A repair journals the status it has just written, and every repair of a
\* run that was dead writes the same.
LEMMA OutcomeRepairStep ==
    ASSUME TypeInv, RecordInv, OutcomeInv, NEW p \in Repairs, RepairStep(p)
    PROVE  OutcomeInv'
<1> USE DEF files, history, log
<1>1. UNCHANGED runner /\ raced \subseteq raced' /\ untold \subseteq untold'
  BY DEF RepairStep, BeginRepair, Visit, RepairRecord, AppendRepaired
<1>2. SUFFICES ASSUME NEW q \in Runs \ (raced' \union untold')
               PROVE  OutcomeIsRecorded(q)'
  BY DEF OutcomeInv
<1>3. OutcomeIsRecorded(q) /\ RepairsAgree(q)
  BY <1>1 DEF OutcomeInv, RecordInv
<1>4. \A o \in Repairs \ {p} : repair'[o] = repair[o]
  BY DEF TypeInv, TypeOK, RepairStep, BeginRepair, Visit, RepairRecord, AppendRepaired
<1>5. CASE BeginRepair(p) \/ Visit(p)
  <2>1. UNCHANGED <<record, journal>> /\ repair[p].step \in {"new", "read"}
    BY <1>5 DEF BeginRepair, Visit
  <2>2. Telling(q) => Telling(q)'
    BY <1>4, <2>1 DEF Telling
  <2>3. QED
    BY <1>1, <1>3, <2>1, <2>2, NoLine, OutcomeUntouched
<1>6. CASE RepairRecord(p)
  <2>1. /\ UNCHANGED journal
        /\ repair[p].step = "write" /\ repair'[p].step = "append"
        /\ repair'[p].run = repair[p].run
        /\ record' = [record EXCEPT ![repair[p].run] = repair[p].status]
    BY <1>6 DEF RepairRecord, TypeInv, TypeOK, Repair
  <2>2. CASE repair[p].run = q
    <3>1. record'[q] = repair[p].status /\ Repairing(p, q)
      BY <2>1, <2>2 DEF Repairing, TypeInv, TypeOK
    <3>2. Telling(q)'
      BY <2>1, <2>2 DEF Telling
    <3>3. record'[q] \in Terminal
      BY <1>3, <3>1 DEF RepairsAgree, RepairedStatus, Terminal
    <3>4. Outcomes(q) # {} => record[q] = repair[p].status
      BY <1>3, <3>1 DEF OutcomeIsRecorded, RepairsAgree, Terminal
    <3>5. QED
      BY <1>3, <2>1, <3>1, <3>2, <3>3, <3>4, NoLine DEF OutcomeIsRecorded
  <2>3. CASE repair[p].run # q
    <3>1. record'[q] = record[q]
      BY <2>1, <2>3 DEF TypeInv, TypeOK
    <3>2. Telling(q) => Telling(q)'
      BY <1>4, <2>1 DEF Telling
    <3>3. QED
      BY <1>1, <1>3, <2>1, <3>1, <3>2, NoLine, OutcomeUntouched
  <2>4. QED
    BY <2>2, <2>3
<1>7. CASE AppendRepaired(p)
  <2>1. UNCHANGED record /\ repair[p].step = "append"
    BY <1>7 DEF AppendRepaired
  <2>2. CASE repair[p].run = q
    <3> DEFINE line == Line("run.repaired", repair[p].status)
    <3>1. journal' = [journal EXCEPT ![q] = @ \o <<line>>]
      BY <1>7, <2>2 DEF AppendRepaired, AppendTo
    <3>2. repair[p].status = record[q] /\ record[q] \in {"completed", "failed"}
      BY <1>3, <2>1, <2>2 DEF RepairsAgree, Repairing, RepairedStatus
    <3>3. line \in Event /\ line.type = "run.repaired" /\ line.what = record[q]
      BY <3>2 DEF Line, Event, Terminal
    <3> HIDE DEF line
    <3>4. /\ Outcomes(q)' = Outcomes(q) \union {Len(journal[q]) + 1}
          /\ Said(q, Outcomes(q))' = line.what
      BY <3>1, <3>3, LineAppended DEF TypeInv
    <3>5. QED
      BY <2>1, <3>2, <3>3, <3>4 DEF OutcomeIsRecorded, Terminal
  <2>3. CASE repair[p].run # q
    <3>1. journal'[q] = journal[q]
      BY <1>7, <2>3 DEF AppendRepaired, AppendTo, AppendFails, TypeInv, TypeOK
    <3>2. Telling(q) => Telling(q)'
      BY <1>4, <2>3 DEF Telling
    <3>3. QED
      BY <1>1, <1>3, <2>1, <3>1, <3>2, NoLine, OutcomeUntouched
  <2>4. QED
    BY <2>2, <2>3
<1>8. QED
  BY <1>5, <1>6, <1>7 DEF RepairStep

\* A grading journals nothing but verdicts.
LEMMA OutcomeGradeStep ==
    ASSUME TypeInv, OutcomeInv, NEW g \in Graders, GradeStep(g)
    PROVE  OutcomeInv'
<1> USE DEF files, history, log
<1>1. UNCHANGED <<record, runner, repair, raced, untold>>
  BY DEF GradeStep, BeginGrading, ArchiveGrade, WriteGrade, AppendGraded
<1>2. ASSUME NEW q \in Runs
      PROVE  Outcomes(q)' = Outcomes(q) /\ Said(q, Outcomes(q))' = Said(q, Outcomes(q))
  <2>1. CASE UNCHANGED journal
    BY <2>1, NoLine
  <2>2. CASE journal' # journal
    <3> DEFINE r == grader[g].run
               line == Line("run.graded", grader[g].verdict)
    <3>1. AppendGraded(g) /\ journal' = [journal EXCEPT ![r] = @ \o <<line>>]
      BY <2>2 DEF GradeStep, BeginGrading, ArchiveGrade, WriteGrade, AppendGraded,
                  AppendTo, AppendFails
    <3>2. r \in Runs /\ line \in Event /\ line.type = "run.graded"
      BY <3>1 DEF AppendGraded, TypeInv, RequestsNameRuns, Line, Event
    <3> HIDE DEF r, line
    <3>3. QED
      BY <3>1, <3>2, LineAppended DEF TypeInv
  <2>3. QED
    BY <2>1, <2>2
<1>3. QED
  BY <1>1, <1>2, OutcomeUntouched DEF OutcomeInv, Telling

\* Who dies between record and event leaves a run untold; others leave none
\* without its writer.
LEMMA OutcomeCrash ==
    ASSUME TypeInv, RecordInv, OutcomeInv, Crash
    PROVE  OutcomeInv'
<1> USE DEF files, history, log
<1>1. UNCHANGED <<journal, raced>> /\ untold \subseteq untold'
  BY DEF Crash, CrashRunner, CrashRepair, CrashGrader
<1>2. SUFFICES ASSUME NEW q \in Runs \ (raced \union untold')
               PROVE  OutcomeIsRecorded(q)'
  BY <1>1 DEF OutcomeInv
<1>3. OutcomeIsRecorded(q) /\ RecordFollowsRunner(q)
  BY <1>1 DEF OutcomeInv, RecordInv
<1>4. ASSUME NEW r \in Runs, CrashRunner(r)
      PROVE  OutcomeIsRecorded(q)'
  <2>1. Telling(q) => Telling(q)'
    BY <1>4 DEF CrashRunner, Telling
  <2>2. runner[q].step = "completed" => runner'[q].step = "completed"
    BY <1>4 DEF CrashRunner, TypeInv, TypeOK
  <2>3. CASE record'[q] = record[q]
    BY <1>1, <1>3, <2>1, <2>2, <2>3, NoLine, OutcomeUntouched
  <2>4. CASE record'[q] # record[q]
    <3>1. runner[q].step \in {"open", "reset", "final"} /\ record'[q] = "broken"
      BY <1>4, <2>4 DEF CrashRunner, TypeInv, TypeOK
    <3>2. record[q] \notin Terminal
      BY <1>3, <3>1 DEF RecordFollowsRunner, Terminal
    <3>3. QED
      BY <1>1, <1>3, <3>1, <3>2, NoLine DEF OutcomeIsRecorded, Terminal
  <2>5. QED
    BY <2>3, <2>4
<1>5. ASSUME NEW p \in Repairs, CrashRepair(p)
      PROVE  OutcomeIsRecorded(q)'
  <2>1. UNCHANGED <<record, runner>>
    BY <1>5 DEF CrashRepair
  <2>2. Telling(q) => Telling(q)'
    <3>1. \A o \in Repairs \ {p} : repair'[o] = repair[o]
      BY <1>5 DEF CrashRepair, TypeInv, TypeOK
    <3>2. ~(repair[p].step = "append" /\ repair[p].run = q)
      BY <1>5 DEF CrashRepair
    <3>3. QED
      BY <3>1, <3>2 DEF Telling
  <2>3. QED
    BY <1>1, <1>3, <2>1, <2>2, NoLine, OutcomeUntouched
<1>6. ASSUME NEW g \in Graders, CrashGrader(g)
      PROVE  OutcomeIsRecorded(q)'
  <2>1. UNCHANGED <<record, runner, repair>>
    BY <1>6 DEF CrashGrader
  <2>2. QED
    BY <1>1, <1>3, <2>1, NoLine, OutcomeUntouched DEF Telling
<1>7. QED
  BY <1>4, <1>5, <1>6 DEF Crash

LEMMA OutcomeInit == Init => OutcomeInv
<1> SUFFICES ASSUME Init, NEW q \in Runs PROVE OutcomeIsRecorded(q)
  BY DEF OutcomeInv
<1>1. Outcomes(q) = {}
  BY DEF Init, Outcomes
<1>2. record[q] \notin Terminal
  BY DEF Init, Terminal
<1>3. QED
  BY <1>1, <1>2 DEF OutcomeIsRecorded

LEMMA OutcomePreserved == TypeInv /\ RecordInv /\ OutcomeInv /\ [Next]_vars => OutcomeInv'
<1>1. ASSUME OutcomeInv, UNCHANGED vars
      PROVE  OutcomeInv'
  <2>1. UNCHANGED <<record, journal, runner, repair, raced, untold>>
    BY <1>1 DEF vars, files, history, log
  <2>2. QED
    BY <1>1, <2>1, NoLine, OutcomeUntouched DEF OutcomeInv, Telling
<1>2. QED
  BY <1>1, OutcomeRunStep, OutcomeRepairStep, OutcomeGradeStep, OutcomeCrash DEF Next
-----------------------------------------------------------------------------
\* The verdicts with a file and those in the journal can be counted; the next
\* slot of the archive and the next line are new.
LEMMA KeptAndGiven ==
    ASSUME TypeOK, NEW q \in Runs
    PROVE  /\ IsFiniteSet(Kept(q)) /\ Cardinality(Kept(q)) \in Nat
           /\ IsFiniteSet(VerdictsOf(q)) /\ Cardinality(VerdictsOf(q)) \in Nat
           /\ Len(archived[q]) \in Nat /\ Len(archived[q]) + 1 \notin Kept(q)
           /\ Len(journal[q]) + 1 \notin VerdictsOf(q)
           /\ 0 \in Kept(q) <=> grade[q] \in Verdicts
<1>1. Len(archived[q]) \in Nat /\ Len(journal[q]) \in Nat
  BY DEF TypeOK
<1>2. Kept(q) \subseteq 0..Len(archived[q]) /\ VerdictsOf(q) \subseteq 1..Len(journal[q])
  BY <1>1 DEF Kept, VerdictsOf
<1>3. IsFiniteSet(Kept(q)) /\ IsFiniteSet(VerdictsOf(q))
  <2>1. \A n \in Nat : IsFiniteSet(0..n) /\ IsFiniteSet(1..n)
    BY FS_Interval
  <2>2. IsFiniteSet(0..Len(archived[q])) /\ IsFiniteSet(1..Len(journal[q]))
    BY <1>1, <2>1
  <2>3. QED
    BY <1>2, <2>2, FS_Subset
<1>4. Cardinality(Kept(q)) \in Nat /\ Cardinality(VerdictsOf(q)) \in Nat
  BY <1>3, FS_CardinalityType
<1>5. Len(archived[q]) + 1 \notin Kept(q) /\ Len(journal[q]) + 1 \notin VerdictsOf(q)
  BY <1>1, <1>2
<1>6. 0 \in Kept(q) <=> grade[q] \in Verdicts
  BY <1>1 DEF Kept
<1>7. QED
  BY <1>1, <1>3, <1>4, <1>5, <1>6

\* What a step leaves alone of a run keeps what is known of its grades.
LEMMA GradeUntouched ==
    ASSUME NEW q \in Runs, GradesAreKept(q),
           grade'[q] = grade[q], archived'[q] = archived[q],
           VerdictsOf(q)' = VerdictsOf(q),
           Said(q, VerdictsOf(q))' = Said(q, VerdictsOf(q)),
           q \in ahead' <=> q \in ahead,
           Recording(q)' <=> Recording(q),
           \A g \in Graders : Grading(g, q)' => Grading(g, q) /\ grader'[g] = grader[g]
    PROVE  GradesAreKept(q)'
<1>1. Kept(q)' = Kept(q)
  BY DEF Kept
<1>2. QED
  BY <1>1 DEF GradesAreKept

\* The current grade moves to the next slot: as many verdicts have a file.
LEMMA ArchivingKeeps ==
    ASSUME TypeOK, NEW r \in Runs,
           archived' = [archived EXCEPT ![r] = @ \o ToArchive(r)],
           grade' = [grade EXCEPT ![r] = "none"]
    PROVE  Cardinality(Kept(r)') = Cardinality(Kept(r))
<1> DEFINE n == Len(archived[r])
           graded(s) == {i \in 1..Len(s) : s[i] \in Verdicts}
<1>1. /\ archived[r] \in Seq(Verdicts \union {"broken"}) /\ n \in Nat
      /\ archived'[r] = archived[r] \o ToArchive(r)
      /\ grade'[r] = "none" /\ grade[r] \in Verdicts \union {"none", "broken"}
  BY DEF TypeOK
<1>2. Kept(r) = graded(archived[r]) \union (IF grade[r] \in Verdicts THEN {0} ELSE {})
  BY DEF Kept
<1>3. Kept(r)' = graded(archived'[r])
  BY <1>1, ConstantsAssumption DEF Kept
<1>4. CASE grade[r] = "none"
  <2>1. archived'[r] = archived[r]
    BY <1>1, <1>4 DEF ToArchive
  <2>2. grade[r] \notin Verdicts
    BY <1>4, ConstantsAssumption
  <2>3. QED
    BY <1>2, <1>3, <2>1, <2>2
<1>5. CASE grade[r] # "none"
  <2>1. archived'[r] = Append(archived[r], grade[r])
    BY <1>1, <1>5 DEF ToArchive
  <2>2. Len(archived'[r]) = n + 1 /\ archived'[r][n + 1] = grade[r]
        /\ \A i \in 1..n : archived'[r][i] = archived[r][i]
    BY <1>1, <1>5, <2>1
  <2>3. CASE grade[r] \in Verdicts
    <3>1. Kept(r)' = (Kept(r) \ {0}) \union {n + 1}
      BY <1>1, <1>2, <1>3, <2>2, <2>3
    <3>2. /\ IsFiniteSet(Kept(r)) /\ Cardinality(Kept(r)) \in Nat
          /\ 0 \in Kept(r) /\ n + 1 \notin Kept(r)
      BY <2>3, KeptAndGiven
    <3>3. /\ IsFiniteSet(Kept(r) \ {0})
          /\ Cardinality(Kept(r) \ {0}) = Cardinality(Kept(r)) - 1
      BY <3>2, FS_RemoveElement
    <3>4. Cardinality((Kept(r) \ {0}) \union {n + 1}) = Cardinality(Kept(r) \ {0}) + 1
      BY <3>2, <3>3, FS_AddElement
    <3>5. QED
      BY <3>1, <3>2, <3>3, <3>4
  <2>4. CASE grade[r] \notin Verdicts
    <3>1. Kept(r)' = Kept(r)
      BY <1>1, <1>2, <1>3, <2>2, <2>4
    <3>2. QED
      BY <3>1
  <2>5. QED
    BY <2>3, <2>4
<1>6. QED
  BY <1>4, <1>5

\* Each step of a grading keeps the verdict it carries and those before it.
LEMMA GradeGradeStep ==
    ASSUME TypeInv, GradeInv, NEW g \in Graders, GradeStep(g)
    PROVE  GradeInv'
<1> USE DEF files, history, log
<1>1. overlapped \subseteq overlapped'
  BY DEF GradeStep, BeginGrading, ArchiveGrade, WriteGrade, AppendGraded
<1>2. SUFFICES ASSUME NEW q \in Runs \ overlapped'
               PROVE  GradesAreKept(q)'
  BY DEF GradeInv
<1>3. GradesAreKept(q)
  BY <1>1 DEF GradeInv
<1>4. \A h \in Graders \ {g} : grader'[h] = grader[h]
  BY DEF GradeStep, BeginGrading, ArchiveGrade, WriteGrade, AppendGraded, TypeInv, TypeOK
\* A grading of another run does not touch this one.
<1>5. ASSUME ~Grading(g, q), ~Grading(g, q)',
             grade'[q] = grade[q], archived'[q] = archived[q], journal'[q] = journal[q],
             q \in ahead' <=> q \in ahead
      PROVE  GradesAreKept(q)'
  <2>1. Recording(q)' <=> Recording(q)
    BY <1>4, <1>5 DEF Recording, Grading
  <2>2. \A h \in Graders : Grading(h, q)' => Grading(h, q) /\ grader'[h] = grader[h]
    BY <1>4, <1>5 DEF Grading
  <2>3. QED
    BY <1>3, <1>5, <2>1, <2>2, NoLine, GradeUntouched
\* Nobody else grades the run this one grades.
<1>6. ASSUME Grading(g, q), NEW h \in Graders, Grading(h, q) \/ Grading(h, q)'
      PROVE  h = g
  BY <1>3, <1>4, <1>6 DEF GradesAreKept, Grading
<1>7. CASE BeginGrading(g)
  <2>1. PICK r \in Runs, v \in Verdicts :
          /\ grader' = [grader EXCEPT ![g] = [step |-> "archive", run |-> r, verdict |-> v]]
          /\ overlapped' = IF \E h \in Graders : grader[h].run = r
                           THEN overlapped \union {r} ELSE overlapped
    BY <1>7 DEF BeginGrading
  <2>2. UNCHANGED <<grade, archived, journal, ahead>> /\ ~Grading(g, q)
    BY <1>7 DEF BeginGrading, Grading
  <2>3. grader'[g].step = "archive" /\ grader'[g].run = r
    BY <2>1 DEF TypeInv, TypeOK
  <2>4. CASE r = q
    <3>1. \A h \in Graders : ~Grading(h, q)
      BY <2>1, <2>4 DEF Grading
    <3>2. \A h \in Graders : Grading(h, q)' => h = g
      BY <1>4, <3>1 DEF Grading
    <3>3. ~Recording(q) /\ ~Recording(q)'
      BY <1>4, <2>3, <3>1 DEF Recording, Grading
    <3>4. VerdictsOf(q)' = VerdictsOf(q) /\ Kept(q)' = Kept(q)
          /\ Said(q, VerdictsOf(q))' = Said(q, VerdictsOf(q))
      BY <2>2, NoLine DEF Kept
    <3>5. QED
      BY <1>3, <2>2, <2>3, <3>2, <3>3, <3>4 DEF GradesAreKept
  <2>5. CASE r # q
    BY <1>5, <2>2, <2>3, <2>5 DEF Grading
  <2>6. QED
    BY <2>4, <2>5
<1>8. CASE ArchiveGrade(g)
  <2> DEFINE r == grader[g].run
  <2>1. /\ UNCHANGED <<journal, ahead>>
        /\ grader[g].step = "archive" /\ r \in Runs
        /\ grader'[g].step = "write" /\ grader'[g].run = r
        /\ archived' = [archived EXCEPT ![r] = @ \o ToArchive(r)]
        /\ grade' = [grade EXCEPT ![r] = "none"]
    BY <1>8 DEF ArchiveGrade, TypeInv, TypeOK, RequestsNameRuns, Grader
  <2>2. CASE r = q
    <3>1. Grading(g, q) /\ grade'[q] = "none" /\ grade'[q] \notin Verdicts
      BY <2>1, <2>2, ConstantsAssumption DEF Grading, TypeInv, TypeOK
    <3>2. \A h \in Graders : Grading(h, q)' => h = g
      BY <1>6, <3>1
    <3>3. ~Recording(q) /\ ~Recording(q)'
      BY <1>6, <2>1, <3>1 DEF Recording, Grading
    <3>4. Cardinality(Kept(q)') = Cardinality(Kept(q))
      BY <2>1, <2>2, ArchivingKeeps DEF TypeInv
    <3>5. Cardinality(Kept(q)') >= Cardinality(VerdictsOf(q)') + 0
      BY <1>3, <2>1, <3>3, <3>4, NoLine DEF GradesAreKept
    <3>6. QED
      BY <2>1, <3>1, <3>2, <3>3, <3>5 DEF GradesAreKept
  <2>3. CASE r # q
    BY <1>5, <2>1, <2>3 DEF Grading, TypeInv, TypeOK
  <2>4. QED
    BY <2>2, <2>3
<1>9. CASE WriteGrade(g)
  <2> DEFINE r == grader[g].run
  <2>1. /\ UNCHANGED <<journal, archived, ahead>>
        /\ grader[g].step = "write" /\ r \in Runs /\ grader[g].verdict \in Verdicts
        /\ grader'[g].step = "append" /\ grader'[g].run = r
        /\ grader'[g].verdict = grader[g].verdict
        /\ grade' = [grade EXCEPT ![r] = grader[g].verdict]
    BY <1>9 DEF WriteGrade, TypeInv, TypeOK, RequestsNameRuns, Grader
  <2>2. CASE r = q
    <3>1. Grading(g, q) /\ grade'[q] = grader[g].verdict
      BY <2>1, <2>2 DEF Grading, TypeInv, TypeOK
    <3>2. \A h \in Graders : Grading(h, q)' => h = g
      BY <1>6, <3>1
    <3>3. ~Recording(q) /\ Recording(q)'
      BY <1>6, <2>1, <2>2, <3>1 DEF Recording, Grading
    <3>4. grade[q] = "none" /\ grade[q] \notin Verdicts
      BY <1>3, <2>1, <3>1, ConstantsAssumption DEF GradesAreKept
    <3>5. Kept(q)' = Kept(q) \union {0}
      BY <2>1, <3>1, <3>4 DEF Kept
    <3>6. Cardinality(Kept(q)') = Cardinality(Kept(q)) + 1
      BY <3>4, <3>5, KeptAndGiven, FS_AddElement DEF TypeInv
    <3>7. Cardinality(Kept(q)') >= Cardinality(VerdictsOf(q)') + 1
      <4>1. VerdictsOf(q)' = VerdictsOf(q)
        BY <2>1, NoLine
      <4>2. Cardinality(Kept(q)) >= Cardinality(VerdictsOf(q)) + 0
        BY <1>3, <3>3 DEF GradesAreKept
      <4>3. Cardinality(Kept(q)) \in Nat /\ Cardinality(VerdictsOf(q)) \in Nat
        BY KeptAndGiven DEF TypeInv
      <4>4. QED
        BY <3>6, <4>1, <4>2, <4>3
    <3>8. QED
      BY <2>1, <3>1, <3>2, <3>3, <3>7 DEF GradesAreKept
  <2>3. CASE r # q
    BY <1>5, <2>1, <2>3 DEF Grading, TypeInv, TypeOK
  <2>4. QED
    BY <2>2, <2>3
<1>10. CASE AppendGraded(g)
  <2> DEFINE r == grader[g].run
             line == Line("run.graded", grader[g].verdict)
  <2>1. /\ UNCHANGED <<grade, archived>>
        /\ grader[g].step = "append" /\ r \in Runs /\ grader[g].verdict \in Verdicts
        /\ grader'[g].step = "over"
        /\ \/ journal' = [journal EXCEPT ![r] = @ \o <<line>>] /\ ahead' = ahead \ {r}
           \/ UNCHANGED journal /\ ahead' = ahead \union {r}
    BY <1>10 DEF AppendGraded, AppendTo, AppendFails, NoGrading, TypeInv, TypeOK,
                 RequestsNameRuns
  <2>2. line \in Event /\ line.type = "run.graded" /\ line.what = grader[g].verdict
    BY <2>1 DEF Line, Event
  <2> HIDE DEF line
  <2>3. CASE r = q
    <3>1. Grading(g, q) /\ Recording(q) /\ grade[q] = grader[g].verdict
      BY <1>3, <2>1, <2>3 DEF Grading, Recording, GradesAreKept
    <3>2. \A h \in Graders : ~Grading(h, q)'
      BY <1>6, <2>1, <3>1 DEF Grading
    <3>3. ~Recording(q)'
      BY <3>2 DEF Recording, Grading
    <3>4. Kept(q)' = Kept(q)
      BY <2>1 DEF Kept
    <3>5. /\ Cardinality(Kept(q)) >= Cardinality(VerdictsOf(q)) + 1
          /\ Cardinality(Kept(q)) \in Nat /\ Cardinality(VerdictsOf(q)) \in Nat
      BY <1>3, <3>1, KeptAndGiven DEF GradesAreKept, TypeInv
    <3>6. CASE journal' = [journal EXCEPT ![r] = @ \o <<line>>]
      <4>1. /\ VerdictsOf(q)' = VerdictsOf(q) \union {Len(journal[q]) + 1}
            /\ Said(q, VerdictsOf(q))' = grade'[q]
        BY <2>1, <2>2, <2>3, <3>1, <3>6, LineAppended DEF TypeInv
      <4>2. Cardinality(VerdictsOf(q)') = Cardinality(VerdictsOf(q)) + 1
        BY <4>1, KeptAndGiven, FS_AddElement DEF TypeInv
      <4>3. Cardinality(Kept(q)') >= Cardinality(VerdictsOf(q)') + 0
        BY <3>4, <3>5, <4>2
      <4>4. QED
        BY <3>2, <3>3, <4>1, <4>3 DEF GradesAreKept
    <3>7. CASE UNCHANGED journal /\ ahead' = ahead \union {r}
      <4>1. VerdictsOf(q)' = VerdictsOf(q) /\ q \in ahead'
        BY <2>3, <3>7, NoLine
      <4>2. Cardinality(Kept(q)') >= Cardinality(VerdictsOf(q)') + 0
        BY <3>4, <3>5, <4>1
      <4>3. QED
        BY <3>2, <3>3, <4>1, <4>2 DEF GradesAreKept
    <3>8. QED
      BY <2>1, <3>6, <3>7
  <2>4. CASE r # q
    <3>1. journal'[q] = journal[q] /\ (q \in ahead' <=> q \in ahead)
      BY <2>1, <2>4 DEF TypeInv, TypeOK
    <3>2. QED
      BY <1>5, <2>1, <2>4, <3>1 DEF Grading
  <2>5. QED
    BY <2>3, <2>4
<1>11. QED
  BY <1>7, <1>8, <1>9, <1>10 DEF GradeStep

\* A grading that dies leaves its verdict out of the files or ahead of the
\* journal; other deaths touch no grade.
LEMMA GradeCrash ==
    ASSUME TypeInv, GradeInv, Crash
    PROVE  GradeInv'
<1> USE DEF files, history, log
<1>1. UNCHANGED <<journal, archived, overlapped>>
  BY DEF Crash, CrashRunner, CrashRepair, CrashGrader
<1>2. SUFFICES ASSUME NEW q \in Runs \ overlapped
               PROVE  GradesAreKept(q)'
  BY <1>1 DEF GradeInv
<1>3. GradesAreKept(q)
  BY DEF GradeInv
<1>4. /\ VerdictsOf(q)' = VerdictsOf(q)
      /\ Said(q, VerdictsOf(q))' = Said(q, VerdictsOf(q))
  BY <1>1, NoLine
<1>5. CASE UNCHANGED <<grade, grader, ahead>>
  <2>1. /\ Recording(q)' <=> Recording(q)
        /\ \A g \in Graders : Grading(g, q)' => Grading(g, q) /\ grader'[g] = grader[g]
    BY <1>5 DEF Recording, Grading
  <2>2. QED
    BY <1>1, <1>3, <1>4, <1>5, <2>1, GradeUntouched
<1>6. ASSUME NEW g \in Graders, CrashGrader(g)
      PROVE  GradesAreKept(q)'
  <2>1. /\ \A h \in Graders \ {g} : grader'[h] = grader[h]
        /\ ~Grading(g, q)'
        /\ grader[g].step \in {"archive", "write", "append"}
    BY <1>6 DEF CrashGrader, Grading, NoGrading, TypeInv, TypeOK
  <2>2. \A h \in Graders : Grading(h, q)' => Grading(h, q) /\ grader'[h] = grader[h]
    BY <2>1 DEF Grading
  <2>3. CASE grader[g].run = q /\ grader[g].step = "append"
    <3>1. Grading(g, q) /\ Recording(q) /\ q \in ahead' /\ grade' = grade
      BY <1>6, <2>3 DEF CrashGrader, Grading, Recording
    <3>2. ~Recording(q)'
      BY <1>3, <2>1, <3>1 DEF GradesAreKept, Recording, Grading
    <3>3. Kept(q)' = Kept(q)
      BY <1>1, <3>1 DEF Kept
    <3>4. Cardinality(Kept(q)') >= Cardinality(VerdictsOf(q)') + 0
      <4>1. Cardinality(Kept(q)) >= Cardinality(VerdictsOf(q)) + 1
        BY <1>3, <3>1 DEF GradesAreKept
      <4>2. Cardinality(Kept(q)) \in Nat /\ Cardinality(VerdictsOf(q)) \in Nat
        BY KeptAndGiven DEF TypeInv
      <4>3. QED
        BY <1>4, <3>3, <4>1, <4>2
    <3>5. QED
      BY <1>3, <2>2, <3>1, <3>2, <3>4 DEF GradesAreKept
  <2>4. CASE ~(grader[g].run = q /\ grader[g].step = "append")
    <3>1. Recording(q)' <=> Recording(q)
      BY <2>1, <2>4 DEF Recording, Grading
    <3>2. q \in ahead' <=> q \in ahead
      BY <1>6, <2>4 DEF CrashGrader
    <3>3. CASE grade'[q] = grade[q]
      BY <1>1, <1>3, <1>4, <2>2, <3>1, <3>2, <3>3, GradeUntouched
    <3>4. CASE grade'[q] # grade[q]
      <4>1. /\ grader[g].step = "write" /\ grader[g].run = q
            /\ grade'[q] = "broken"
        BY <1>6, <3>4 DEF CrashGrader, TypeInv, TypeOK
      <4>2. grade[q] = "none"
        BY <1>3, <4>1 DEF GradesAreKept, Grading
      <4>3. Kept(q)' = Kept(q) /\ grade'[q] \notin Verdicts
        BY <1>1, <4>1, <4>2, ConstantsAssumption DEF Kept
      <4>4. \A h \in Graders : ~Grading(h, q)'
        BY <1>3, <2>1, <2>2, <4>1 DEF GradesAreKept, Grading
      <4>5. QED
        BY <1>3, <1>4, <3>1, <4>3, <4>4 DEF GradesAreKept
    <3>5. QED
      BY <3>3, <3>4
  <2>5. QED
    BY <2>3, <2>4
<1>7. QED
  BY <1>5, <1>6 DEF Crash, CrashRunner, CrashRepair

LEMMA GradeInit == Init => GradeInv
<1> SUFFICES ASSUME Init, NEW q \in Runs PROVE GradesAreKept(q)
  BY DEF GradeInv
<1>1. \A g \in Graders : grader[g].step = "new"
  BY DEF Init, NoGrading
<1>2. grade[q] \notin Verdicts
  BY ConstantsAssumption DEF Init
<1>3. Kept(q) = {} /\ VerdictsOf(q) = {}
  BY <1>2 DEF Init, Kept, VerdictsOf
<1>4. Cardinality(Kept(q)) >= Cardinality(VerdictsOf(q)) + 0
  BY <1>3, FS_EmptySet
<1>5. QED
  BY <1>1, <1>2, <1>4 DEF GradesAreKept, Grading, Recording

LEMMA GradePreserved == TypeInv /\ GradeInv /\ [Next]_vars => GradeInv'
<1>1. ASSUME GradeInv,
             UNCHANGED <<grade, archived, grader, overlapped, ahead>>,
             \A q \in Runs : /\ VerdictsOf(q)' = VerdictsOf(q)
                             /\ Said(q, VerdictsOf(q))' = Said(q, VerdictsOf(q))
      PROVE  GradeInv'
  BY <1>1, GradeUntouched DEF GradeInv, Recording, Grading
<1>2. ASSUME TypeInv, GradeInv, NEW r \in Runs, RunStep(r)
      PROVE  GradeInv'
  <2>1. UNCHANGED <<grade, archived, grader, overlapped, ahead>>
    BY <1>2 DEF RunStep, Begin, Open, Reset, EndTurn, SessionFails, Finalize,
                AppendRunEvent, files, history
  <2>2. QED
    BY <1>1, <1>2, <2>1, RunGivesNoVerdict
<1>3. ASSUME TypeInv, GradeInv, NEW p \in Repairs, RepairStep(p)
      PROVE  GradeInv'
  <2>1. UNCHANGED <<grade, archived, grader, overlapped, ahead>>
    BY <1>3 DEF RepairStep, BeginRepair, Visit, RepairRecord, AppendRepaired, files, history
  <2>2. QED
    BY <1>1, <1>3, <2>1, RepairGivesNoVerdict
<1>4. ASSUME GradeInv, UNCHANGED vars
      PROVE  GradeInv'
  <2>1. UNCHANGED <<grade, archived, grader, overlapped, ahead, journal>>
    BY <1>4 DEF vars, files, history, log
  <2>2. QED
    BY <1>1, <1>4, <2>1, NoLine
<1>5. QED
  BY <1>2, <1>3, <1>4, GradeGradeStep, GradeCrash DEF Next
-----------------------------------------------------------------------------
LifecycleInv == TypeInv /\ RecordInv /\ OutcomeInv /\ GradeInv

LEMMA LifecycleHolds == Spec => []LifecycleInv
<1>1. Init => LifecycleInv
  BY TypeInit, RecordInit, OutcomeInit, GradeInit DEF LifecycleInv
<1>2. LifecycleInv /\ [Next]_vars => LifecycleInv'
  BY TypePreserved, RecordPreserved, OutcomePreserved, GradePreserved DEF LifecycleInv
<1>3. QED
  BY <1>1, <1>2, PTL DEF Spec

\* A record once final stays what it is, whatever dies and however repairs of
\* the run race each other, unless one took its live process for dead.
THEOREM FinalizedStays == Spec => FinalizedForGood
<1> DEFINE Stays == \A r \in Runs :
                       record[r] \in Terminal /\ r \notin raced' => record'[r] = record[r]
<1>1. LifecycleInv /\ [Next]_vars => Stays
  <2> SUFFICES ASSUME LifecycleInv, [Next]_vars, NEW q \in Runs,
                      record[q] \in Terminal, q \notin raced', record'[q] # record[q]
               PROVE  FALSE
    OBVIOUS
  <2> USE DEF files, history, log
  <2>1. raced \subseteq raced'
    BY DEF Next, RunStep, Begin, Open, Reset, EndTurn, SessionFails, Finalize,
           AppendRunEvent, RepairStep, BeginRepair, Visit, RepairRecord, AppendRepaired,
           GradeStep, BeginGrading, ArchiveGrade, WriteGrade, AppendGraded, Crash,
           CrashRunner, CrashRepair, CrashGrader, vars
  <2>2. RecordFollowsRunner(q) /\ RepairsAgree(q)
    BY <2>1 DEF LifecycleInv, RecordInv
  <2>3. record[q] \notin {"absent", "running"}
    BY DEF Terminal
  <2>4. ASSUME NEW r \in Runs, RunStep(r)
        PROVE  FALSE
    <3>1. /\ r = q
          /\ runner[q].step \in {"open", "reset", "final"}
      BY <2>4 DEF RunStep, Begin, Open, Reset, EndTurn, SessionFails, Finalize,
                  AppendRunEvent, LifecycleInv, TypeInv, TypeOK
    <3>2. QED
      BY <2>2, <2>3, <3>1 DEF RecordFollowsRunner
  <2>5. ASSUME NEW p \in Repairs, RepairStep(p)
        PROVE  FALSE
    <3>1. Repairing(p, q) /\ record'[q] = repair[p].status
      BY <2>5 DEF RepairStep, BeginRepair, Visit, RepairRecord, AppendRepaired,
                  Repairing, LifecycleInv, TypeInv, TypeOK
    <3>2. QED
      BY <2>2, <2>3, <3>1 DEF RepairsAgree
  <2>6. ASSUME NEW g \in Graders, GradeStep(g)
        PROVE  FALSE
    BY <2>6 DEF GradeStep, BeginGrading, ArchiveGrade, WriteGrade, AppendGraded
  <2>7. ASSUME Crash
        PROVE  FALSE
    <3>1. PICK r \in Runs : CrashRunner(r)
      BY <2>7 DEF Crash, CrashRepair, CrashGrader
    <3>2. r = q /\ runner[q].step \in {"open", "reset", "final"}
      BY <3>1 DEF CrashRunner, LifecycleInv, TypeInv, TypeOK
    <3>3. QED
      BY <2>2, <2>3, <3>2 DEF RecordFollowsRunner
  <2>8. QED
    BY <2>4, <2>5, <2>6, <2>7 DEF Next, vars
<1>2. QED
  BY <1>1, LifecycleHolds, PTL DEF Spec, FinalizedForGood

\* Record, journal and grade of a run tell one story: the outcome journalled
\* is the recorded one, a verdict rests on a completed run whose agent ended
\* its turn, and every verdict keeps its file and is shown while it is the last.
THEOREM RecordsTrue == Spec => []RecordsAreTrue
<1>1. LifecycleInv => RecordsAreTrue
  <2> SUFFICES ASSUME LifecycleInv PROVE RecordsAreTrue
    OBVIOUS
  <2> USE DEF LifecycleInv
  <2>1. JournalTellsOutcome
    <3> SUFFICES ASSUME NEW r \in Runs \ (raced \union untold), ~Alive(r),
                        \A p \in Repairs : repair[p].run # r
                 PROVE  Said(r, Outcomes(r)) =
                            IF record[r] \in Terminal THEN record[r] ELSE "none"
      BY DEF JournalTellsOutcome
    <3>1. OutcomeIsRecorded(r)
      BY DEF OutcomeInv
    <3>2. runner[r].step # "completed" /\ ~Telling(r)
      BY DEF Alive, Telling
    <3>3. CASE Outcomes(r) = {}
      BY <3>1, <3>2, <3>3 DEF OutcomeIsRecorded, Said
    <3>4. CASE Outcomes(r) # {}
      BY <3>1, <3>4 DEF OutcomeIsRecorded
    <3>5. QED
      BY <3>3, <3>4
  <2>2. VerdictRestsOnEndTurn
    BY DEF RecordInv, GradedIsCompleted, RecordFollowsRunner, TurnEnded,
           VerdictRestsOnEndTurn
  <2>3. NoVerdictLost
    <3> SUFFICES ASSUME NEW r \in Runs \ overlapped
                 PROVE  /\ Cardinality(Kept(r)) >= Cardinality(VerdictsOf(r))
                        /\ (\A g \in Graders : grader[g].run # r) /\ r \notin ahead =>
                               Shown(r) = Said(r, VerdictsOf(r))
      BY DEF NoVerdictLost
    <3>1. GradesAreKept(r)
      BY DEF GradeInv
    <3>2. Cardinality(Kept(r)) \in Nat /\ Cardinality(VerdictsOf(r)) \in Nat
      BY KeptAndGiven DEF TypeInv
    <3>3. Cardinality(Kept(r)) >= Cardinality(VerdictsOf(r))
      <4>1. CASE Recording(r)
        BY <3>1, <3>2, <4>1 DEF GradesAreKept
      <4>2. CASE ~Recording(r)
        BY <3>1, <3>2, <4>2 DEF GradesAreKept
      <4>3. QED
        BY <4>1, <4>2
    <3>4. (\A g \in Graders : grader[g].run # r) => ~Recording(r)
      BY DEF Recording
    <3>5. QED
      BY <3>1, <3>3, <3>4 DEF GradesAreKept, Shown
  <2>4. QED
    BY <2>1, <2>2, <2>3 DEF RecordsAreTrue, VerdictsStand
<1>2. QED
  BY <1>1, LifecycleHolds, PTL
=============================================================================
