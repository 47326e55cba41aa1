-------------------------- MODULE MCProjectServer --------------------------
\* Model-checking instance of ProjectServer; the other constants are in the
\* .cfg file.
EXTENDS ProjectServer

CONSTANTS s1, s2, t1, p1, p2

\* Two projects whose directories have the same last name.
MCBase == [p \in {p1, p2} |-> "name"]
=============================================================================
