---------------------------- MODULE ChatDelivery ----------------------------
(***************************************************************************)
(* What one chat session promises about the messages typed into it, with   *)
(* no mention of turns, steering or adapters: a mailbox.                   *)
(*                                                                         *)
(*   - an accepted message is waiting or handed over to the agent, never   *)
(*     lost, until the session closes;                                     *)
(*   - a message is handed over only when no older message is waiting;     *)
(*   - the agent may hand a message back, and it then waits again in the   *)
(*     place its age gives it;                                             *)
(*   - a closed session hands nothing over any more.                       *)
(***************************************************************************)
EXTENDS Integers

VARIABLES open,      \* the session can still receive and deliver
          accepted,  \* number of messages accepted, which are 1..accepted
          waiting,   \* accepted messages held back
          handed     \* accepted messages the agent has, not handed back

vars == <<open, accepted, waiting, handed>>

Init == /\ open = TRUE
        /\ accepted = 0
        /\ waiting = {}
        /\ handed = {}

\* A new message is held back, or goes straight to the agent if none waits.
Accept ==
    /\ open
    /\ accepted' = accepted + 1
    /\ \/ /\ waiting' = waiting \union {accepted + 1}
          /\ UNCHANGED handed
       \/ /\ waiting = {}
          /\ handed' = handed \union {accepted + 1}
          /\ UNCHANGED waiting
    /\ UNCHANGED open

HandOver(m) ==
    /\ open
    /\ m \in waiting
    /\ \A w \in waiting : m <= w
    /\ waiting' = waiting \ {m}
    /\ handed' = handed \union {m}
    /\ UNCHANGED <<open, accepted>>

HandBack(m) ==
    /\ open
    /\ m \in handed
    /\ waiting' = waiting \union {m}
    /\ handed' = handed \ {m}
    /\ UNCHANGED <<open, accepted>>

Close ==
    /\ open
    /\ open' = FALSE
    /\ UNCHANGED <<accepted, waiting, handed>>

Next == \/ Accept
        \/ \E m \in 1..accepted : HandOver(m) \/ HandBack(m)
        \/ Close

Spec == Init /\ [][Next]_vars
=============================================================================
