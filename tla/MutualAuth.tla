----------------------------- MODULE MutualAuth -----------------------------
(***************************************************************************)
(* What one exchange of krb5_sendauth and krb5_recvauth with               *)
(* AP_OPTS_MUTUAL_REQUIRED does for the two users: the server accepts a    *)
(* client only if the client's ticket is under one of the server's keys,   *)
(* and the client believes to be authenticated only after that.            *)
(***************************************************************************)
CONSTANTS Keys

VARIABLES
    known,          \* the keys of the server
    accepted,       \* the key under which the server accepted the client
    authenticated   \* the client has reported that it is authenticated

vars == <<known, accepted, authenticated>>

Init == known \subseteq Keys /\ accepted = {} /\ authenticated = FALSE

Accept ==
    /\ accepted = {}
    /\ \E key \in known : accepted' = {key}
    /\ UNCHANGED <<known, authenticated>>

Believe ==
    /\ accepted # {} /\ ~authenticated
    /\ authenticated' = TRUE
    /\ UNCHANGED <<known, accepted>>

Next == Accept \/ Believe

Spec == Init /\ [][Next]_vars
=============================================================================
