---------------------------- MODULE MCTestScript ----------------------------
(***************************************************************************)
(* TestScript on small instances.                                          *)
(***************************************************************************)
EXTENDS TestScript
=============================================================================
