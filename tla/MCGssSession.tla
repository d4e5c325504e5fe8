---------------------------- MODULE MCGssSession ----------------------------
(***************************************************************************)
(* GssSession on small instances.                                          *)
(***************************************************************************)
EXTENDS GssSession

\* The host may resolve to nothing that listens, to the server alone, or to an
\* address that refuses first.
MCResolutions == {<<"elsewhere">>, <<"server">>, <<"elsewhere", "server">>}

OnlyServer == {<<"server">>}
=============================================================================
