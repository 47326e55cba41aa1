--------------------------- MODULE MCRunLifecycle ---------------------------
\* Model-checking instance of RunLifecycle; the other constants are in the
\* .cfg file.
EXTENDS RunLifecycle, TLC

CONSTANTS r1, r2, p1, p2, g1, g2, pass, fail

\* Nothing tells the members of these sets apart.
Symmetry == Permutations({p1, p2}) \union Permutations({g1, g2}) \union Permutations({pass, fail})
=============================================================================
