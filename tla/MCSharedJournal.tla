--------------------------- MODULE MCSharedJournal ---------------------------
EXTENDS SharedJournal, TLC
CONSTANTS a, b, d1, d2, d3

\* Two doors in one clone, one in the other.
MCAt == d1 :> a @@ d2 :> a @@ d3 :> b
Symmetry == Permutations({d1, d2})
=============================================================================
