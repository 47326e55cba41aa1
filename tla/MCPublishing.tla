---------------------------- MODULE MCPublishing ----------------------------
\* Model-checking instance of Publishing; the other constants are in the .cfg
\* file.
EXTENDS Publishing, TLC

CONSTANTS d1, d2, m1, m2, o1, o2, e1, e2

MCMarkets == <<"market">>

\* Nothing tells the members of these sets apart.
Symmetry == Permutations({d1, d2}) \union Permutations({m1, m2})
            \union Permutations({o1, o2}) \union Permutations({e1, e2})
=============================================================================
