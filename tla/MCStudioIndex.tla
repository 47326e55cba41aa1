---------------------------- MODULE MCStudioIndex ----------------------------
EXTENDS StudioIndex, TLC

\* Two requests of the server and one of a command line.
CONSTANTS r1, r2, r3, server, cli
MCOf == r1 :> server @@ r2 :> server @@ r3 :> cli
=============================================================================
