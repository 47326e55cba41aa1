---------------------------- MODULE MCChatTurns ----------------------------
\* Model-checking instance of ChatTurns; the constants are in the .cfg files.
EXTENDS ChatTurns
=============================================================================
