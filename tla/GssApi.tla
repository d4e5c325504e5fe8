------------------------------- MODULE GssApi -------------------------------
(***************************************************************************)
(* The GSS-API library as client.c and server.c of application/gssapi use  *)
(* it: what the context, wrap and MIC tokens carry, which token a step of  *)
(* the context establishment answers with, and when a call fails.  The     *)
(* library is not part of the repository; cryptography is abstracted to    *)
(* the token that a call accepts.                                          *)
(*                                                                         *)
(* The mechanism of a context takes legs context tokens: the client sends  *)
(* 1, 3, ... and the server 2, 4, ...  Kerberos takes two with mutual      *)
(* authentication and one without, SPNEGO up to four.  A side completes    *)
(* when it has no token left to receive.                                   *)
(***************************************************************************)
EXTENDS Naturals

CONSTANTS
    LegCounts,  \* context tokens the mechanisms exchange
    Messages,   \* messages the client can be asked to send
    NoMessage,  \* the content of a buffer that holds no message
    Recording,  \* whether both programs are started with -r
    Faults      \* what the environment may do, see FaultKinds

\* "lib": a library call fails; "sys": a socket call fails though the link is
\* up; "kill": a process is killed; "pieces": the kernel cuts a token into more
\* than two pieces, so that write_all or read_all garbles it.
FaultKinds == {"lib", "sys", "kill", "pieces"}

ASSUME GssAssumption ==
    /\ LegCounts \subseteq Nat \ {0}
    /\ NoMessage \notin Messages
    /\ Recording \in BOOLEAN
    /\ Faults \subseteq FaultKinds

VARIABLE legs  \* the context tokens of the mechanism in use

LibFails == "lib" \in Faults
SysFails == "sys" \in Faults

-----------------------------------------------------------------------------
\* A token: leg counts the context tokens; body is the message that a wrap
\* token carries or a MIC was made for; whole says that it came through as it
\* was sent.
Token ==
    [kind : {"ctx", "wrap", "mic", "empty"}, leg : Nat,
     body : Messages \cup {NoMessage}, whole : BOOLEAN]

CtxToken(n)  == [kind |-> "ctx", leg |-> n, body |-> NoMessage, whole |-> TRUE]
WrapToken(m) == [kind |-> "wrap", leg |-> 0, body |-> m, whole |-> TRUE]
MicToken(m)  == [kind |-> "mic", leg |-> 0, body |-> m, whole |-> TRUE]
\* A buffer of length 0; send_token sends its length alone.
EmptyToken   == [kind |-> "empty", leg |-> 0, body |-> NoMessage, whole |-> TRUE]

\* What recv_token may make of a token that was sent.
Arrivals(token) ==
    {token} \cup IF "pieces" \in Faults THEN {[token EXCEPT !.whole = FALSE]} ELSE {}

\* One step of gss_init_sec_context or gss_accept_sec_context in a context
\* that waits for leg n.  The step can succeed if the token is that leg,
Acceptable(token, n) == token.kind = "ctx" /\ token.leg = n /\ token.whole

\* completes the context if no leg is left for this side to receive,
Completes(n) == n + 1 >= legs

\* and then answers with leg n + 1, or with an empty token after the last leg.
Answers(n) == n < legs

\* States of a gss_ctx_id_t and of the object it points to.
Context == {"none", "partial", "open"}
ContextAfter(n) == IF Completes(n) THEN "open" ELSE "partial"

\* gss_unwrap and gss_verify_mic.
Unwraps(ctx, token) == ctx = "open" /\ token.kind = "wrap" /\ token.whole
VerifiesMic(ctx, token, m) ==
    ctx = "open" /\ token.kind = "mic" /\ token.body = m /\ token.whole
=============================================================================
