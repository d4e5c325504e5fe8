------------------------- MODULE MCTokenInspection -------------------------
(***************************************************************************)
(* TokenInspection on small instances: a buffer of four bytes and lines of *)
(* two stand for 2048 and 16.                                              *)
(***************************************************************************)
EXTENDS TokenInspection

\* The second session fills the buffer or has a byte more; short files have every
\* size below.  What print_bytes is given ends within a line and at the end of one.
MCTokens == <<
    {[mech |-> "kerberos", size |-> 4]},
    {[mech |-> "spnego", size |-> 4], [mech |-> "spnego", size |-> 5]}
>>
=============================================================================
