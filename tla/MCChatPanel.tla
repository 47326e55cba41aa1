---------------------------- MODULE MCChatPanel ----------------------------
EXTENDS ChatPanel, TLC
CONSTANTS p1
=============================================================================
