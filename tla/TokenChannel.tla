---------------------------- MODULE TokenChannel ----------------------------
(***************************************************************************)
(* What send_token and recv_token promise their callers, as the comments   *)
(* of application/gssapi/utils.c state it: a FIFO channel of whole tokens. *)
(* A token is sent when send_token returns 0 and delivered when recv_token *)
(* returns it.                                                             *)
(***************************************************************************)
EXTENDS Integers, Sequences

CONSTANT Tokens   \* the tokens the sender has to send, in order

VARIABLES
    sent,      \* how many of them it has sent
    delivered  \* what the receiver was given

vars == <<sent, delivered>>

Init == sent = 0 /\ delivered = <<>>

Send ==
    /\ sent < Len(Tokens)
    /\ sent' = sent + 1
    /\ UNCHANGED delivered

Deliver ==
    /\ Len(delivered) < sent
    /\ delivered' = Append(delivered, Tokens[Len(delivered) + 1])
    /\ UNCHANGED sent

Next == Send \/ Deliver

Spec == Init /\ [][Next]_vars

\* No token is withheld and none that was sent is kept back.
FairSpec == Spec /\ WF_vars(Send) /\ WF_vars(Deliver)
=============================================================================
