--------------------------- MODULE MCTokenFraming ---------------------------
(***************************************************************************)
(* TokenFraming on small instances.  With bytes of four values a token of  *)
(* 5 bytes needs two digits for its length; neighbouring bytes differ, so  *)
(* that a piece at the wrong offset shows.                                 *)
(***************************************************************************)
EXTENDS TokenFraming

\* A value with two digits of length, an empty token (which the server sends
\* when gss_get_mic failed) and a last one that shows the stream's alignment.
MCTokens == <<<<1, 2, 3, 0, 1>>, <<>>, <<3, 2>>>>

\* One token, for the runs in which the length itself may be garbled.
MCOneToken == <<<<1, 2, 3, 0, 2>>>>
=============================================================================
