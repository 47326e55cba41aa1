---------------------------- MODULE SharedJournal ----------------------------
(***************************************************************************)
(* One journal in several clones of a workspace. `skillmaker init` has git *)
(* join .skillmaker/events.jsonl with the union driver                     *)
(* (packages/cli/src/GitFiles.ts); what the journal then says of a todo    *)
(* (packages/core/src/FoldTodos.ts), and what the doors decide on it       *)
(* (packages/cli/src/commands/Todo.ts, packages/core/src/                  *)
(* TodoFromReport.ts, handlePostEvent of packages/cli/src/server/          *)
(* Server.ts, over packages/core/src/JournalService.ts), depends on the    *)
(* order of lines written in different places.                             *)
(*                                                                         *)
(* A door reads the journal of its clone, decides, and appends later;      *)
(* nothing is locked. A clone commits before it pulls or pushes, and all   *)
(* go through one origin. Todos are folded each by itself, so one is       *)
(* enough; a field report, a received crate and a run from which it may be *)
(* opened are all signals; versions stand for whatever has an idempotency  *)
(* key. Machines agree on the day. Left out: a git that joins two          *)
(* neighbouring conflicts and repeats the lines between them, which takes  *)
(* a third clone; todo fields that do not decide anything.                 *)
(***************************************************************************)
EXTENDS Integers, Sequences, FiniteSets

CONSTANTS
    Clones,
    CloneDoors,  \* command lines and servers
    At,          \* the clone each door works in
    SweepDays,   \* SWEEP_WINDOW_DAYS
    Goals,       \* bound: the statuses asked for
    MaxLines,    \* bound: lines written
    MaxDay       \* bound: the last day

Terminal == {"done", "wont-do"}
Status == {"open", "in-progress"} \union Terminal

ASSUME CloneConstants ==
    /\ At \in [CloneDoors -> Clones]
    /\ SweepDays \in Nat \ {0}
    /\ Goals \subseteq Status
    /\ MaxLines \in Nat /\ MaxDay \in Nat

Unknown == "unknown"   \* no todo.opened yet
Ids == 1..MaxLines
Day == 0..MaxDay

\* What a line says, and (history) the lines its door decided it upon.
Decision ==
    {e \in [type : {"none", "signal", "opened", "status", "updated", "version"},
            from : Status \union {Unknown}, to : Status \union {Unknown},
            pinned : BOOLEAN, origin : Ids \union {0}, seen : SUBSET Ids] :
        e.type = "status" => {e.from, e.to} \subseteq Status}
Entry == [said : Decision, id : Ids, at : Day]

VARIABLES
    copies,   \* events.jsonl of each clone
    origin,   \* ... and of the repository they share
    base,     \* what each clone and the origin last had in common
    pending,  \* what each door has decided and not yet appended
    day,
    written   \* how many lines were written so far

cloneVars == <<copies, origin, base, pending, day, written>>

Blank == [type |-> "none", from |-> Unknown, to |-> Unknown, pinned |-> FALSE,
          origin |-> 0, seen |-> {}]

CloneTypeOK ==
    /\ copies \in [Clones -> Seq(Entry)]
    /\ origin \in Seq(Entry)
    /\ base \in [Clones -> Seq(Entry)]
    /\ pending \in [CloneDoors -> Decision]
    /\ day \in Day
    /\ written \in 0..MaxLines

-----------------------------------------------------------------------------
\* What a journal says of the todo.

\* terminalAt of a todo that goes to `to`: the day it became terminal.
FaultStampOnce(todo, to, at) == IF to \in Terminal /\ todo.terminalAt = -1 THEN at
                                ELSE todo.terminalAt
TerminalAt(todo, to, at) ==
    IF to \notin Terminal THEN -1
    ELSE IF todo.status \in Terminal THEN todo.terminalAt ELSE at

Apply(todo, e) ==
    CASE e.said.type = "opened" ->
           [status |-> "open", terminalAt |-> -1, pinned |-> e.said.pinned]
      [] e.said.type = "updated" /\ todo.status # Unknown ->
           [todo EXCEPT !.pinned = e.said.pinned]
      [] e.said.type = "status" /\ todo.status # Unknown ->
           [todo EXCEPT !.status = e.said.to,
                        !.terminalAt = TerminalAt(todo, e.said.to, e.at)]
      [] OTHER -> todo

foldTodos(events) ==
    LET after[n \in 0..Len(events)] ==
          IF n = 0 THEN [status |-> Unknown, terminalAt |-> -1, pinned |-> FALSE]
          ELSE Apply(after[n - 1], events[n])
    IN  after[Len(events)]

isSwept(todo, now) == /\ todo.status \in Terminal
                      /\ ~todo.pinned
                      /\ now - todo.terminalAt >= SweepDays

-----------------------------------------------------------------------------
\* The doors. A request that a guard refuses changes nothing and is no step.

Lines(events) == {events[i] : i \in 1..Len(events)}
Order(events) == UNION {{<<events[i], events[j]>> : i \in 1..(j - 1)} : j \in 1..Len(events)}
IdsOf(events) == {events[i].id : i \in 1..Len(events)}
LinesAt(d, type) == {e \in Lines(copies[At[d]]) : e.said.type = type}
TodoAt(d) == foldTodos(copies[At[d]])
Room == written + Cardinality({d \in CloneDoors : pending[d] # Blank}) < MaxLines
\* A door does one thing at a time.
Free(d) == pending[d] = Blank /\ Room

\* The line gets its id and its time when it is written.
Line(decision) == [said |-> decision, id |-> written + 1, at |-> day]

\* A decision that rests on no reading: nothing comes between it and its append.
WriteAtOnce(d, decision) ==
    /\ copies' = [copies EXCEPT ![At[d]] = Append(@, Line(decision))]
    /\ written' = written + 1
    /\ UNCHANGED <<origin, base, pending, day>>

\* One that does.
Decide(d, decision) ==
    /\ pending' = [pending EXCEPT ![d] = [decision EXCEPT !.seen = IdsOf(copies[At[d]])]]
    /\ UNCHANGED <<copies, origin, base, day, written>>

\* A field report, a crate or a run. One is enough (a bound).
Signal(d) ==
    /\ Free(d)
    /\ \A c \in Clones : \A i \in 1..Len(copies[c]) : copies[c][i].said.type # "signal"
    /\ WriteAtOnce(d, [Blank EXCEPT !.type = "signal"])

\* The todo was opened somewhere: it has one id.
Opened == \/ \E d \in CloneDoors : pending[d].type = "opened"
          \/ \E c \in Clones : foldTodos(copies[c]).status # Unknown

\* todo add, with or without --pin.
OpenTodo(d) ==
    /\ Free(d)
    /\ ~Opened
    /\ \E pin \in BOOLEAN :
         WriteAtOnce(d, [Blank EXCEPT !.type = "opened", !.to = "open", !.pinned = pin])

\* todo add --from-report, --from-intake, --from-run, again with or without --pin.
OpenTodoFrom(d) ==
    /\ Free(d)
    /\ ~Opened
    /\ \E e \in LinesAt(d, "signal"), pin \in BOOLEAN :
         Decide(d, [Blank EXCEPT !.type = "opened", !.to = "open", !.pinned = pin,
                                 !.origin = e.id])

\* todo done, start, drop and reopen; the viewer's toggle, whose `from` is
\* refused unless it is what the journal says.
FaultAnyTodo(d) == TRUE
Known(d) == TodoAt(d).status # Unknown

ChangeStatus(d) ==
    /\ Free(d)
    /\ Known(d)
    /\ \E to \in Goals \ {TodoAt(d).status} :
         Decide(d, [Blank EXCEPT !.type = "status", !.from = TodoAt(d).status, !.to = to])

UpdateTodo(d) ==
    /\ Free(d)
    /\ Known(d)
    /\ \E pin \in BOOLEAN :
         Decide(d, [Blank EXCEPT !.type = "updated", !.pinned = pin])

\* The look for the key: a version that is recorded already is not recorded
\* again, nor is one that another actor recorded under the key.
FaultNoKey(d) == TRUE
KeyIsNew(d) == LinesAt(d, "version") = {}

RecordVersion(d) ==
    /\ Free(d)
    /\ KeyIsNew(d)
    /\ Decide(d, [Blank EXCEPT !.type = "version"])

\* The append of what was decided upon a reading; nothing looks again.
FaultRewrite(d, line) ==
    Append(SelectSeq(copies[At[d]], LAMBDA e : e.id \in pending[d].seen), line)
Extended(d, line) == Append(copies[At[d]], line)

WriteEvent(d) ==
    /\ pending[d] # Blank
    /\ copies' = [copies EXCEPT ![At[d]] = Extended(d, Line(pending[d]))]
    /\ written' = written + 1
    /\ pending' = [pending EXCEPT ![d] = Blank]
    /\ UNCHANGED <<origin, base, day>>

-----------------------------------------------------------------------------
\* Git, with merge=union.

\* Each line of both sides once. A side keeps its order; of lines that both have
\* gained between two of their ancestor's, ours come first.
Union(old, ours, theirs) ==
    LET lines == Lines(ours) \union Lines(theirs)
        gained(side) == Lines(side) \ Lines(old)
        between == {p \in gained(ours) \X gained(theirs) :
                      ~\E b \in Lines(old) : /\ <<p[2], b>> \in Order(theirs)
                                            /\ <<b, p[1]>> \in Order(ours)}
        sooner == Order(ours) \union Order(theirs) \union between
    IN  {joined \in [1..Cardinality(lines) -> lines] :
            Lines(joined) = lines /\ sooner \subseteq Order(joined)}

Push(c) ==
    /\ base[c] = origin
    /\ copies[c] # origin
    /\ origin' = copies[c]
    /\ base' = [base EXCEPT ![c] = copies[c]]
    /\ UNCHANGED <<copies, pending, day, written>>

\* Nothing is joined in a clone that has nothing of its own.
Pull(c) ==
    /\ base[c] # origin
    /\ IF copies[c] = base[c] THEN copies' = [copies EXCEPT ![c] = origin]
       ELSE \E joined \in Union(base[c], copies[c], origin) :
               copies' = [copies EXCEPT ![c] = joined]
    /\ base' = [base EXCEPT ![c] = origin]
    /\ UNCHANGED <<origin, pending, day, written>>

NextDay == /\ day < MaxDay
           /\ day' = day + 1
           /\ UNCHANGED <<copies, origin, base, pending, written>>

-----------------------------------------------------------------------------
CloneInit ==
    /\ copies = [c \in Clones |-> <<>>]
    /\ origin = <<>>
    /\ base = [c \in Clones |-> <<>>]
    /\ pending = [d \in CloneDoors |-> Blank]
    /\ day = 0
    /\ written = 0

Door(d) == \/ Signal(d) \/ OpenTodo(d) \/ OpenTodoFrom(d) \/ ChangeStatus(d)
           \/ UpdateTodo(d) \/ RecordVersion(d) \/ WriteEvent(d)

CloneNext == \/ \E d \in CloneDoors : Door(d)
             \/ \E c \in Clones : Push(c) \/ Pull(c)
             \/ NextDay

CloneSpec == CloneInit /\ [][CloneNext]_cloneVars

-----------------------------------------------------------------------------
(***************************************************************************)
(* Properties                                                              *)
(***************************************************************************)

\* The journal is append-only shared history: whatever is appended or pulled,
\* a clone loses no line it had and keeps their order, and any two clones have
\* the lines they share in one order, so that no two of them replay the same
\* decisions differently.
OneHistory ==
    \A c, d \in Clones :
        LET turned == {<<p[2], p[1]>> : p \in Order(copies[c])}
        IN  turned \intersect Order(copies[d]) = {}
HistoriesGrow ==
    /\ [][\A c \in Clones : /\ Lines(copies[c]) \subseteq Lines(copies'[c])
                            /\ Order(copies[c]) \subseteq Order(copies'[c])]_cloneVars
    /\ []OneHistory

\* However the lines of several clones are joined, each still follows all that
\* it was decided upon: no change of a todo comes to lie before its opening,
\* where the fold would ignore it, and no todo before its signal; a change whose
\* `from` is not the status it meets follows a change its door had not seen; and
\* the second line of one key was written where the first had not been seen.
Before(c, i) == SubSeq(copies[c], 1, i - 1)
Stands(c, i) ==
    LET e == copies[c][i].said
        unseen(type) == {f \in Lines(Before(c, i)) : f.said.type = type /\ f.id \notin e.seen}
        status == foldTodos(Before(c, i)).status
    IN  /\ e.seen \subseteq IdsOf(Before(c, i))
        /\ e.type \in {"status", "updated"} => status # Unknown
        /\ e.type = "status" /\ status # e.from => unseen("status") # {}
        /\ e.origin # 0 => \E f \in Lines(Before(c, i)) :
                              f.id = e.origin /\ f.said.type = "signal"
        /\ e.type = "version" => \A f \in Lines(Before(c, i)) :
                              f.said.type = "version" => f \in unseen("version")
DecisionsStand == \A c \in Clones : \A i \in 1..Len(copies[c]) : Stands(c, i)

\* A todo that is swept, and so no longer listed, was not reopened within the
\* sweep window, unless it was finished once more by a door that had not seen
\* the reopening: then the day of that finishing, which may be earlier, counts.
Reopens(e) == e.said.type = "status" /\ e.said.to \notin Terminal
Finishes(e) == e.said.type = "status" /\ e.said.to \in Terminal
SweptIsSettled ==
    \A c \in Clones : isSwept(foldTodos(copies[c]), day) =>
        \A i \in 1..Len(copies[c]) :
            Reopens(copies[c][i]) /\ day - copies[c][i].at < SweepDays =>
                \E k \in i + 1..Len(copies[c]) :
                    Finishes(copies[c][k]) /\ copies[c][i].id \notin copies[c][k].said.seen

\* In no clone, and in no order of the lines that git may leave, does a todo
\* lose what was decided about it.
TodosStand == DecisionsStand /\ SweptIsSettled
=============================================================================
