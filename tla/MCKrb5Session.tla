---------------------------- MODULE MCKrb5Session ----------------------------
(***************************************************************************)
(* Krb5Session on small instances.                                         *)
(***************************************************************************)
EXTENDS Krb5Session

\* The server alone, nothing that listens, or an address that refuses first.
MCResolutions == {<<"server">>, <<"elsewhere">>, <<"elsewhere", "server">>}
=============================================================================
