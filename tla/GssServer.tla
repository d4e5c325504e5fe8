----------------------------- MODULE GssServer -----------------------------
(***************************************************************************)
(* application/gssapi/server.c: one run of the server, which serves one    *)
(* connection and exits.  spc names the next call of talk_to_client or of  *)
(* the functions it calls; an action is that call and the code up to the   *)
(* next one.                                                               *)
(*                                                                         *)
(* sign_message gets the context handle BY VALUE.  shandle is the handle   *)
(* of talk_to_client, slocal the copy; deleting the context through the    *)
(* copy leaves shandle "dangling", and to delete a dangling handle is      *)
(* undefined behaviour.                                                    *)
(***************************************************************************)
EXTENDS GssApi, TcpLink

VARIABLES
    spc,      \* the next call
    smaj,     \* maj_stat of the last gss_accept_sec_context
    shandle,  \* context, in talk_to_client
    slocal,   \* context, in sign_message
    sleg,     \* the context token last accepted
    stok,     \* recv_tok, which sign_message also uses for the MIC
    smsg,     \* message, as gss_unwrap left it
    sheld,    \* library resources that are held
    srec,     \* the token files, server_token_<dir>_<i> at i + 1
    sret      \* how main ended

serverVars ==
    <<spc, smaj, shandle, slocal, sleg, stok, smsg, sheld, srec, sret>>

ServerResource == {"creds", "context", "client_name", "recv_tok", "send_tok", "message"}

ServerPC ==
    {"acquire", "bind", "listen", "accept", "recv", "accept_ctx", "send",
     "display", "recv_msg", "unwrap", "get_mic", "send_mic", "delete",
     "spin", "done"}

ServerInit ==
    /\ spc = "acquire" /\ smaj = "continue"
    /\ shandle = "none" /\ slocal = "none" /\ sleg = 0
    /\ stok = EmptyToken /\ smsg = NoMessage
    /\ sheld = {} /\ srec = <<>> /\ sret = "running"

-----------------------------------------------------------------------------
Accepted == spc \notin {"acquire", "bind", "listen", "accept"}

\* The process ends and the kernel closes its sockets.
SExit(ret, resources) ==
    /\ spc' = "done" /\ sret' = ret /\ sheld' = sheld \ resources
    /\ IF Accepted THEN Close("server") ELSE CloseUnaccepted
    /\ UNCHANGED <<smaj, sleg, stok, smsg, srec>>

\* exit(1), or -1 returned from function to function up to main.
SFail(resources) == SExit("error", resources) /\ UNCHANGED <<shandle, slocal>>

SKilled == SExit("killed", {}) /\ UNCHANGED <<shandle, slocal>>

\* read(2) keeps returning 0 and read_all keeps calling it.
SSpin ==
    /\ AtEof("server")
    /\ spc' = "spin"
    /\ UNCHANGED <<linkVars, smaj, shandle, slocal, sleg, stok, smsg,
                   sheld, srec, sret>>

\* Faulty variant of DeleteLocal: the copy is not reset.
DeleteLocalDangling ==
    /\ slocal' = "dangling"
    /\ shandle' = shandle

\* gss_delete_sec_context(&context) in sign_message.
DeleteLocal ==
    /\ slocal' = "none"
    /\ shandle' = IF slocal = "none" THEN shandle ELSE "dangling"

SRecord(dir, leg) ==
    srec' = IF Recording THEN Append(srec, [dir |-> dir, leg |-> leg]) ELSE srec

-----------------------------------------------------------------------------
\* Setting up: the credentials, the socket and its address, listen and accept.
SAcquireCreds ==
    /\ spc = "acquire"
    /\ \/ /\ spc' = "bind" /\ sheld' = sheld \cup {"creds"}
          /\ UNCHANGED <<linkVars, smaj, shandle, slocal, sleg, stok, smsg,
                         srec, sret>>
       \/ LibFails /\ SFail({})

SBind ==
    /\ spc = "bind"
    /\ \/ /\ spc' = "listen"
          /\ UNCHANGED <<linkVars, smaj, shandle, slocal, sleg, stok, smsg,
                         sheld, srec, sret>>
       \/ SysFails /\ SFail({})

SListen ==
    /\ spc = "listen"
    /\ \/ /\ Listen /\ spc' = "accept"
          /\ UNCHANGED <<smaj, shandle, slocal, sleg, stok, smsg, sheld,
                         srec, sret>>
       \/ SysFails /\ SFail({})

SAccept ==
    /\ spc = "accept"
    /\ \/ /\ linked /\ spc' = "recv"
          /\ UNCHANGED <<linkVars, smaj, shandle, slocal, sleg, stok, smsg,
                         sheld, srec, sret>>
       \/ SysFails /\ SFail({})

-----------------------------------------------------------------------------
\* establish_context: receive, and record what came.
SRecvToken ==
    /\ spc = "recv"
    /\ \/ /\ Take("server")
          /\ stok' \in Arrivals(Head(rx["server"]))
          /\ SRecord("recv", stok'.leg)
          /\ spc' = "accept_ctx" /\ sheld' = sheld \cup {"recv_tok"}
          /\ UNCHANGED <<smaj, shandle, slocal, sleg, smsg, sret>>
       \/ RecvBroken("server") /\ SFail({})
       \/ SSpin

\* *context = GSS_C_NO_CONTEXT, in every round of the loop.
HandleGiven == "none"

\* The context token a context waits for that is given as a handle.
LegOf(handle) == IF handle = "none" THEN 1 ELSE sleg + 2

\* Faulty variant of SAcceptSecContext: it sends its token after an error too.
SAcceptSecContextSendingAlways ==
    /\ spc = "accept_ctx"
    /\ LET n == LegOf(HandleGiven) IN
          /\ smaj' = IF Acceptable(stok, n) /\ Completes(n) THEN "complete" ELSE "continue"
          /\ shandle' = ContextAfter(n) /\ sleg' = n
          /\ spc' = "send" /\ SRecord("send", n + 1)
          /\ sheld' = (sheld \cup {"context", "client_name", "send_tok"}) \ {"recv_tok"}
    /\ UNCHANGED <<linkVars, slocal, stok, smsg, sret>>

\* gss_accept_sec_context; on an error its token is not sent.
SAcceptSecContext ==
    /\ spc = "accept_ctx"
    /\ LET n == LegOf(HandleGiven) IN
       \/ /\ Acceptable(stok, n)
          /\ shandle' = ContextAfter(n) /\ sleg' = n
          /\ smaj' = IF Completes(n) THEN "complete" ELSE "continue"
          /\ \/ /\ Answers(n)
                /\ spc' = "send"
                /\ SRecord("send", n + 1)
                /\ sheld' = (sheld \cup {"context", "client_name", "send_tok"}) \ {"recv_tok"}
             \/ /\ ~Answers(n)
                /\ spc' = "display" /\ UNCHANGED srec
                /\ sheld' = (sheld \cup {"context", "client_name"}) \ {"recv_tok"}
          /\ UNCHANGED <<linkVars, slocal, stok, smsg, sret>>
       \/ /\ LibFails \/ ~Acceptable(stok, n)
          /\ SExit("error", {"recv_tok"})
          /\ shandle' = HandleGiven /\ UNCHANGED slocal

\* Faulty variant of AfterRound: the loop tests GSS_S_CONTINUE_NEEDED, a
\* constant, as the branch above the sending does.
AfterRoundContinuing == "recv"

AfterRound == IF smaj = "complete" THEN "display" ELSE "recv"

\* Faulty variant of SSendToken: the token of the last round is not sent.
SSendTokenToContinue ==
    /\ spc = "send"
    /\ IF smaj = "continue" THEN Put("server", CtxToken(sleg + 1)) ELSE UNCHANGED linkVars
    /\ spc' = AfterRound /\ sheld' = sheld \ {"send_tok"}
    /\ UNCHANGED <<smaj, shandle, slocal, sleg, stok, smsg, srec, sret>>

\* send_token.  If it fails the context is deleted and the loop goes on.
SSendToken ==
    /\ spc = "send"
    /\ \/ /\ Put("server", CtxToken(sleg + 1))
          /\ spc' = AfterRound /\ sheld' = sheld \ {"send_tok"}
          /\ UNCHANGED <<smaj, shandle, slocal, sleg, stok, smsg, srec, sret>>
       \/ /\ SendBroken("server") /\ ErrorReported("server")
          /\ shandle' = "none"
          /\ spc' = AfterRound /\ sheld' = sheld \ {"send_tok", "context"}
          /\ UNCHANGED <<smaj, slocal, sleg, stok, smsg, srec, sret>>
       \/ Sigpipe("server") /\ SKilled

\* gss_display_name, whose failure only shows; sign_message gets its copy.
SDisplayName ==
    /\ spc = "display"
    /\ spc' = "recv_msg" /\ slocal' = shandle
    /\ sheld' = sheld \ {"client_name", "creds"}
    /\ UNCHANGED <<linkVars, smaj, shandle, sleg, stok, smsg, srec, sret>>

-----------------------------------------------------------------------------
\* sign_message: receive the wrapped message.
SRecvMessage ==
    /\ spc = "recv_msg"
    /\ \/ /\ Take("server")
          /\ stok' \in Arrivals(Head(rx["server"]))
          /\ spc' = "unwrap" /\ sheld' = sheld \cup {"recv_tok"}
          /\ UNCHANGED <<smaj, shandle, slocal, sleg, smsg, srec, sret>>
       \/ /\ RecvBroken("server") /\ DeleteLocal
          /\ SExit("error", {"context"})
       \/ SSpin

\* gss_unwrap.  If it fails the function goes on with a null message, which it
\* prints: undefined behaviour, which the process may not survive.
SUnwrap ==
    /\ spc = "unwrap"
    /\ \/ /\ Unwraps(slocal, stok)
          /\ smsg' = stok.body
          /\ spc' = "get_mic" /\ sheld' = (sheld \cup {"message"}) \ {"recv_tok"}
          /\ UNCHANGED <<linkVars, smaj, shandle, slocal, sleg, stok, srec, sret>>
       \/ /\ LibFails \/ ~Unwraps(slocal, stok)
          /\ DeleteLocal
          /\ \/ /\ spc' = "get_mic" /\ sheld' = sheld \ {"recv_tok", "context"}
                /\ UNCHANGED <<linkVars, smaj, sleg, stok, smsg, srec, sret>>
             \/ SExit("killed", {})

\* Faulty variant of SGetMic: without a MIC nothing is sent.
SGetMicSilent ==
    /\ spc = "get_mic"
    /\ IF slocal = "open"
       THEN spc' = "send_mic" /\ stok' = MicToken(smsg)
       ELSE spc' = "delete" /\ stok' = EmptyToken
    /\ UNCHANGED <<linkVars, smaj, shandle, slocal, sleg, smsg, sheld, srec, sret>>

\* gss_get_mic.  If it fails, recv_tok is empty and is sent all the same.
SGetMic ==
    /\ spc = "get_mic"
    /\ spc' = "send_mic"
    /\ \/ /\ slocal = "open" /\ stok' = MicToken(smsg)
          /\ sheld' = (sheld \cup {"recv_tok"}) \ {"message"}
          /\ UNCHANGED <<slocal, shandle>>
       \/ /\ LibFails \/ slocal # "open"
          /\ stok' = EmptyToken /\ DeleteLocal
          /\ sheld' = sheld \ {"message", "context"}
    /\ UNCHANGED <<linkVars, smaj, sleg, smsg, srec, sret>>

\* Faulty variant of SSendMic: sign_message deletes its context when it is done.
SSendMicDeleting ==
    /\ spc = "send_mic"
    /\ Put("server", stok) /\ DeleteLocal
    /\ spc' = "delete" /\ sheld' = sheld \ {"recv_tok", "context"}
    /\ UNCHANGED <<smaj, sleg, stok, smsg, srec, sret>>

SSendMic ==
    /\ spc = "send_mic"
    /\ \/ /\ Put("server", stok)
          /\ spc' = "delete" /\ sheld' = sheld \ {"recv_tok"}
          /\ UNCHANGED <<smaj, shandle, slocal, sleg, stok, smsg, srec, sret>>
       \/ /\ SendBroken("server") /\ ErrorReported("server")
          /\ spc' = "delete" /\ DeleteLocal
          /\ sheld' = sheld \ {"recv_tok", "context"}
          /\ UNCHANGED <<smaj, sleg, stok, smsg, srec, sret>>
       \/ Sigpipe("server") /\ SKilled

\* talk_to_client deletes the context through its own handle and returns 0.
SDeleteContext ==
    /\ spc = "delete"
    /\ \/ SExit("ok", {"context"}) /\ shandle' = "none" /\ UNCHANGED slocal
       \/ shandle = "dangling" /\ SKilled

-----------------------------------------------------------------------------
ServerStep ==
    \/ SAcquireCreds \/ SBind \/ SListen \/ SAccept
    \/ SRecvToken \/ SAcceptSecContext \/ SSendToken \/ SDisplayName
    \/ SRecvMessage \/ SUnwrap \/ SGetMic \/ SSendMic \/ SDeleteContext

\* The process is stopped from outside.
ServerKill == "kill" \in Faults /\ spc # "done" /\ SKilled

ServerTypeOK ==
    /\ spc \in ServerPC /\ smaj \in {"complete", "continue"}
    /\ shandle \in Context \cup {"dangling"} /\ slocal \in Context
    /\ sleg \in Nat
    /\ stok \in Token /\ smsg \in Messages \cup {NoMessage}
    /\ sheld \subseteq ServerResource
    /\ srec \in Seq([dir : {"send", "recv"}, leg : Nat])
    /\ sret \in {"running", "ok", "error", "killed"}
=============================================================================
