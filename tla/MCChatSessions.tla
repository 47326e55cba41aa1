--------------------------- MODULE MCChatSessions ---------------------------
\* Model-checking instance of ChatSessions; the constants are in the .cfg files.
EXTENDS ChatSessions
=============================================================================
