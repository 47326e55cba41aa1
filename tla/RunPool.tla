------------------------------ MODULE RunPool ------------------------------
(***************************************************************************)
(* What the dispatcher of fixture runs promises (the CONCURRENCY comment   *)
(* of packages/cli/src/server/RunDispatch.ts), with no mention of timers,  *)
(* promises, sweeps or a slot counter: a pool.                             *)
(*                                                                         *)
(*   - a run of a fixture is accepted unless one is waiting or active;     *)
(*   - it is active at once if there is a slot for it, and otherwise waits *)
(*     behind those that came before;                                      *)
(*   - a slot that becomes free goes at once to the oldest run that waits, *)
(*     and a run that has given its slot back never has one again.         *)
(***************************************************************************)
EXTENDS Integers, Sequences, FiniteSets

CONSTANTS Slots,    \* how many runs may be active
          Fixtures

VARIABLES runs,     \* the fixture of every accepted run, in order
          waiting,
          active

vars == <<runs, waiting, active>>

Init == /\ runs = <<>>
        /\ waiting = {}
        /\ active = {}

Accept(f) ==
    /\ \A r \in waiting \union active : runs[r] # f
    /\ runs' = Append(runs, f)
    /\ \/ /\ waiting = {}
          /\ Cardinality(active) < Slots
          /\ active' = active \union {Len(runs) + 1}
          /\ UNCHANGED waiting
       \/ /\ Cardinality(active) = Slots
          /\ waiting' = waiting \union {Len(runs) + 1}
          /\ UNCHANGED active

\* Who takes over the slot of run r: nobody, or the oldest that waits.
Finish(r) ==
    /\ r \in active
    /\ \/ /\ waiting = {}
          /\ active' = active \ {r}
          /\ UNCHANGED waiting
       \/ \E next \in waiting :
             /\ \A w \in waiting : next <= w
             /\ active' = (active \ {r}) \union {next}
             /\ waiting' = waiting \ {next}
    /\ UNCHANGED runs

Next == \/ \E f \in Fixtures : Accept(f)
        \/ \E r \in active : Finish(r)

Spec == Init /\ [][Next]_vars
=============================================================================
