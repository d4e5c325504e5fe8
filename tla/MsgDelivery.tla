---------------------------- MODULE MsgDelivery ----------------------------
(***************************************************************************)
(* What the client and the server of application/gssapi do for their user, *)
(* as gssapi/README.md describes it: the client sends one message, the     *)
(* server gets it exactly as it was sent, and the client hears of it.      *)
(***************************************************************************)
CONSTANTS Messages, NoMessage

VARIABLES
    message,    \* what the client was asked to send
    delivered,  \* what the server has received
    confirmed   \* the client has reported success

vars == <<message, delivered, confirmed>>

Init == message \in Messages /\ delivered = NoMessage /\ confirmed = FALSE

\* At most once, and only the message.
Deliver ==
    /\ delivered = NoMessage
    /\ delivered' = message
    /\ UNCHANGED <<message, confirmed>>

\* Only after the delivery.
Confirm ==
    /\ delivered = message /\ ~confirmed
    /\ confirmed' = TRUE
    /\ UNCHANGED <<message, delivered>>

Next == Deliver \/ Confirm

Spec == Init /\ [][Next]_vars
=============================================================================
