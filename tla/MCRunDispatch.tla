--------------------------- MODULE MCRunDispatch ---------------------------
\* Model-checking instance of RunDispatch; the other constants are in the .cfg
\* files.
EXTENDS RunDispatch

\* One skill with three runnable fixtures, the others with one.
MCCases == [s \in Skills |-> IF s = "design" THEN 3 ELSE 1]
=============================================================================
