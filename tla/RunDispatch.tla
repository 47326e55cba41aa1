---------------------------- MODULE RunDispatch ----------------------------
(***************************************************************************)
(* The server's dispatcher of fixture runs and the "run all" sweep over it *)
(* (packages/cli/src/server/RunDispatch.ts): a guard of one active run per *)
(* (skill, fixture), a FIFO queue behind a fixed number of slots, and a    *)
(* staleness timer that takes a slot back from a run that does not settle. *)
(*                                                                         *)
(* RunDispatcher has no await inside, so dispatch and release, with the    *)
(* pump they end in, are single steps; what interleaves is requests, runs  *)
(* settling, timers firing and sweeps going on. Runs are numbered in the   *)
(* order they are accepted, and the number stands for the random run id.   *)
(***************************************************************************)
EXTENDS Integers, Sequences, FiniteSets

CONSTANTS
    MaxConcurrent,  \* options.maxConcurrent
    Skills,         \* the skills (slugs) of the workspace
    Cases,          \* how many runnable fixtures a skill has
    MaxRuns         \* bound: no request is taken once so many were accepted

ASSUME ConstantsAssumption ==
    /\ MaxConcurrent \in Nat \ {0}
    /\ Cases \in [Skills -> Nat \ {0}]
    /\ MaxRuns \in Nat

Fixture(s) == 1..Cases[s]
Key == UNION {{s} \X Fixture(s) : s \in Skills}

VARIABLES
    keys,       \* history: the (skill, fixture) of every accepted run
    entries,    \* the runs in this.entries
    started,    \* the runs whose TrackedRun.state is "running"
    queue,      \* this.queue
    running,    \* this.running
    executing,  \* the runs whose start() promise has not settled
    awaits,     \* the run each skill's sweep awaits, 0 where there is no sweep
    completed,  \* runAllProgress.get(skill).completed; kept after the sweep
    sweptFrom   \* history: the runs accepted before the skill's last sweep

dispatcher == <<keys, entries, started, queue, running, executing>>
sweeps == <<awaits, completed, sweptFrom>>
vars == <<keys, entries, started, queue, running, executing, awaits,
          completed, sweptFrom>>

Accepted == 1..Len(keys)
NoSweep == 0

TypeOK ==
    /\ keys \in Seq(Key)
    /\ entries \in SUBSET Accepted
    /\ started \in SUBSET Accepted
    /\ queue \in Seq(Accepted)
    /\ running \in 0..MaxConcurrent
    /\ executing \in SUBSET started
    /\ awaits \in [Skills -> Accepted \union {NoSweep}]
    /\ completed \in [Skills -> Nat]
    /\ sweptFrom \in [Skills -> 0..Len(keys)]

Init ==
    /\ keys = <<>>
    /\ entries = {}
    /\ started = {}
    /\ queue = <<>>
    /\ running = 0
    /\ executing = {}
    /\ awaits = [s \in Skills |-> NoSweep]
    /\ completed = [s \in Skills |-> 0]
    /\ sweptFrom = [s \in Skills |-> 0]
-----------------------------------------------------------------------------
FaultRunningOnly(k) == \E r \in entries \intersect started : keys[r] = k
IsActive(k) == \E r \in entries : keys[r] = k

\* pump, over queue q with `taken` slots in use: the first runs of the queue
\* start, as many as there are free slots. (The loop also skips runs that have
\* left `entries`; none is ever queued, see EntriesAccounted.)
FaultLastOneOut(taken) == MaxConcurrent - taken - 1
FaultOneMore(taken) == MaxConcurrent - taken + 1
Free(taken) == MaxConcurrent - taken

FaultFromTheBack(q, n) == {q[i] : i \in (Len(q) - n + 1)..Len(q)}
First(q, n) == {q[i] : i \in 1..n}

Pump(q, taken, unsettled) ==
    LET free == Free(taken)
        n == IF Len(q) <= free THEN Len(q) ELSE free
    IN  /\ queue' = SubSeq(q, n + 1, Len(q))
        /\ running' = taken + n
        /\ started' = started \union First(q, n)
        /\ executing' = unsettled \union First(q, n)

\* dispatch of a fixture that has no active run; a duplicate changes nothing.
Dispatch(k) ==
    LET r == Len(keys) + 1
    IN  /\ ~IsActive(k)
        /\ keys' = Append(keys, k)
        /\ entries' = entries \union {r}
        /\ Pump(Append(queue, r), running, executing)

\* release of r, leaving `unsettled` start() promises. It is called for a run
\* that settled and by its timer, and only the first of the two has an effect.
FaultTwice(r) == r \in started
Releasable(r) == r \in entries /\ r \in started

Release(r, unsettled) ==
    \/ /\ Releasable(r)
       /\ entries' = entries \ {r}
       /\ Pump(queue, running - 1, unsettled)
    \/ /\ ~Releasable(r)
       /\ executing' = unsettled
       /\ UNCHANGED <<entries, queue, running, started>>

\* The sweep's loop for skill s, from the point where fixtures up to `from`
\* have been counted: fixtures that already have an active run are counted
\* too, and the first one that has none is dispatched and awaited. A loop that
\* finds none is over.
Dispatchable(s, from) == {f \in Fixture(s) : f > from /\ ~IsActive(<<s, f>>)}

SweepLoop(s, from) ==
    \/ \E f \in Dispatchable(s, from) :
          /\ \A g \in Dispatchable(s, from) : f <= g
          /\ Dispatch(<<s, f>>)
          /\ awaits' = [awaits EXCEPT ![s] = Len(keys) + 1]
          /\ completed' = [completed EXCEPT ![s] = f - 1]
    \/ /\ Dispatchable(s, from) = {}
       /\ awaits' = [awaits EXCEPT ![s] = NoSweep]
       /\ completed' = [completed EXCEPT ![s] = Cases[s]]
       /\ UNCHANGED dispatcher
-----------------------------------------------------------------------------
\* POST /run from a user: 202, or 409 and nothing happens.
HandleRun(k) ==
    /\ Len(keys) < MaxRuns
    /\ Dispatch(k)
    /\ UNCHANGED sweeps

\* POST /run-all: refused while a sweep or any run of the skill is active.
FaultOneSweep(s) == awaits[s] = NoSweep
SweepAllowed(s) ==
    awaits[s] = NoSweep /\ \A r \in entries : keys[r][1] # s

HandleRunAll(s) ==
    /\ Len(keys) < MaxRuns
    /\ SweepAllowed(s)
    /\ sweptFrom' = [sweptFrom EXCEPT ![s] = Len(keys)]
    /\ SweepLoop(s, 0)

\* The awaited run's `done` resolved, at whatever release of it came first.
FaultReallyOver(r) == r \notin entries /\ r \notin executing
DoneSettled(r) == r \notin entries

SweepGoesOn(s) ==
    /\ awaits[s] # NoSweep
    /\ DoneSettled(awaits[s])
    /\ SweepLoop(s, completed[s] + 1)
    /\ UNCHANGED sweptFrom

\* start() settled, either way.
RunSettles(r) ==
    /\ r \in executing
    /\ Release(r, executing \ {r})
    /\ UNCHANGED <<keys, sweeps>>

\* The staleness timer of a run that has not settled.
FaultNeverDue(r) == Releasable(r) /\ r \notin executing
TimerDue(r) == Releasable(r)

GoesStale(r) ==
    /\ TimerDue(r)
    /\ Release(r, executing)
    /\ UNCHANGED <<keys, sweeps>>

Next ==
    \/ \E k \in Key : HandleRun(k)
    \/ \E s \in Skills : HandleRunAll(s) \/ SweepGoesOn(s)
    \/ \E r \in Accepted : RunSettles(r) \/ GoesStale(r)

Spec == Init /\ [][Next]_vars

\* Timers fire and continuations of settled promises run. A run itself may
\* hang for ever.
Run == 1..(MaxRuns + Cardinality(Key))

Fairness ==
    /\ \A r \in Run : WF_vars(r \in Accepted /\ GoesStale(r))
    /\ \A s \in Skills : WF_vars(SweepGoesOn(s))

FairSpec == Spec /\ Fairness
-----------------------------------------------------------------------------
\* The slot counter is the number of runs that hold a slot and never exceeds
\* maxConcurrent, though a run is released both by settling and by its timer.
SlotsAccounted ==
    /\ running = Cardinality(entries \intersect started)
    /\ running <= MaxConcurrent

\* The queue holds exactly the accepted runs that have not started, each
\* once: a release never leaves a ghost behind in it.
EntriesAccounted ==
    /\ {queue[i] : i \in 1..Len(queue)} = entries \ started
    /\ \A i, j \in 1..Len(queue) : queue[i] = queue[j] => i = j

\* The duplicate guard: never two active runs of one fixture, however user
\* requests and a sweep of the skill mix.
OneActivePerFixture ==
    \A r, q \in entries : keys[r] = keys[q] => r = q

\* Nothing waits while a slot is free.
NoIdleSlot == queue # <<>> => running = MaxConcurrent

\* First come, first started: no run has started before an older one.
StartsInOrder ==
    \A r, q \in Accepted : r < q /\ q \in started => r \in started

\* A fixture the sweep counts as completed was accepted as a run during this
\* very sweep, be it the sweep's own or a user's.
SweepCountsRealRuns ==
    \A s \in Skills :
        \A f \in 1..completed[s] :
            \E r \in (sweptFrom[s] + 1)..Len(keys) : keys[r] = <<s, f>>

\* The dispatcher's promises together: slots and queue account for every run,
\* no fixture runs twice at once, no slot is idle, nobody is overtaken, and no
\* sweep counts what never ran.
DispatchIsSound ==
    /\ SlotsAccounted
    /\ EntriesAccounted
    /\ OneActivePerFixture
    /\ NoIdleSlot
    /\ StartsInOrder
    /\ SweepCountsRealRuns

\* The pool promise: a run is active once it has started, until it loses its
\* entry. That it is released by its timer, by settling or by both, and that
\* sweeps dispatch runs among the users', is not to be told from outside.
Pool == INSTANCE RunPool WITH
    Slots <- MaxConcurrent,
    Fixtures <- Key,
    runs <- keys,
    waiting <- {queue[i] : i \in 1..Len(queue)},
    active <- entries \intersect started

PoolSpec == Pool!Spec

\* Whatever hangs, the guard frees itself: every accepted run loses its entry.
EveryRunReleased == \A r \in Run : r \in entries ~> r \notin entries

\* Every sweep comes to its end, stale runs and user's runs notwithstanding.
EverySweepEnds == \A s \in Skills : awaits[s] # NoSweep ~> awaits[s] = NoSweep

\* Nobody is turned away for ever: neither by a run of the same fixture nor by
\* a sweep of the same skill.
RunsAndSweepsEnd == EveryRunReleased /\ EverySweepEnds
=============================================================================
