----------------------------- MODULE MCAgentRun -----------------------------
\* Model-checking instance of AgentRun; the other constants are in the .cfg
\* file.
EXTENDS AgentRun

CONSTANT r1
=============================================================================
