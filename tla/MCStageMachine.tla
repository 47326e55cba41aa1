--------------------------- MODULE MCStageMachine ---------------------------
\* Model-checking instance of StageMachine; the other constants are in the
\* .cfg files.
EXTENDS StageMachine

\* The three rungs that differ: where bundles begin, one that is reached only
\* by its own guard, and one that adopted bundles may be placed on.
MCStages == <<"idea", "researching", "drafting">>
=============================================================================
