----------------------------- MODULE GssClient -----------------------------
(***************************************************************************)
(* application/gssapi/client.c: one run of the client, from the parsed     *)
(* arguments to the exit of the process.  cpc names the next call of       *)
(* call_server, or of establish_context which it calls; an action is that  *)
(* call and the code up to the next one.                                   *)
(***************************************************************************)
EXTENDS GssApi, TcpLink

CONSTANTS
    DefaultMech,  \* no -m argument: GSS_C_NULL_OID
    KnownMechs,   \* available_mechs of utils.h
    Supported,    \* the mechanisms gss_indicate_mechs lists
    MechArgs,     \* the -m arguments the client is started with
    Resolutions   \* the address lists getaddrinfo can return

ASSUME ClientAssumption ==
    /\ DefaultMech \notin KnownMechs
    /\ Supported \subseteq KnownMechs
    /\ Resolutions \subseteq Seq({"server", "elsewhere"})

VARIABLES
    cpc,     \* the next call
    cmsg,    \* the message argument
    cmech,   \* the mechanism argument, then requested_mech_oid
    caddrs,  \* the addresses connect has not been tried on
    cctx,    \* context
    cleg,    \* the context token last sent
    ctok,    \* recv_tok, or out_buffer
    cheld,   \* library resources that are held
    crec,    \* the token files, client_token_<dir>_<i> at i + 1
    cret     \* how main ended

clientVars == <<cpc, cmsg, cmech, caddrs, cctx, cleg, ctok, cheld, crec, cret>>

\* The names and buffers the client has to release, and the context.
ClientResource ==
    {"context", "target_name", "src_name", "ctx_target_name", "sname", "tname",
     "send_tok", "recv_tok", "out_buffer"}

ClientPC ==
    {"translate", "connect", "import", "init", "send", "recv",
     "inquire", "size_integ", "size_conf", "display_src", "display_target",
     "wrap", "send_msg", "recv_mic", "verify", "delete", "spin", "done"}

ClientInit ==
    /\ cpc = "translate" /\ cmsg \in Messages /\ cmech \in MechArgs
    /\ caddrs = <<>> /\ cctx = "none" /\ cleg = 0 /\ ctok = EmptyToken
    /\ cheld = {} /\ crec = <<>> /\ cret = "running"

-----------------------------------------------------------------------------
\* main returns, the process exits and the kernel closes its socket.
CExit(ret, resources) ==
    /\ cpc' = "done" /\ cret' = ret
    /\ cheld' = cheld \ resources
    /\ IF linked THEN Close("client") ELSE UNCHANGED linkVars
    /\ UNCHANGED <<cmsg, cmech, caddrs, cleg, ctok, crec>>

\* A function returns -1 after it released resources, and so do its callers up
\* to main, which returns 1.
CFail(resources) ==
    /\ CExit("error", resources)
    /\ cctx' = IF "context" \in resources THEN "none" ELSE cctx

CKilled == CExit("killed", {}) /\ UNCHANGED cctx

\* read(2) keeps returning 0 and read_all keeps calling it.
CSpin ==
    /\ AtEof("client")
    /\ cpc' = "spin"
    /\ UNCHANGED <<linkVars, cmsg, cmech, caddrs, cctx, cleg, ctok, cheld, crec, cret>>

\* Faulty variant of CRecord: token_count starts over for every token.
CRecordOverwriting(dir, leg) ==
    crec' = IF Recording THEN <<[dir |-> dir, leg |-> leg]>> ELSE crec

CRecord(dir, leg) ==
    crec' = IF Recording THEN Append(crec, [dir |-> dir, leg |-> leg]) ELSE crec

\* Library calls of call_server that concern only this process.
CLocalCall(at, then, acquired, releasedOnFailure) ==
    /\ cpc = at
    /\ \/ /\ cpc' = then
          /\ cheld' = cheld \cup acquired
          /\ UNCHANGED <<linkVars, cmsg, cmech, caddrs, cctx, cleg, ctok, crec, cret>>
       \/ LibFails /\ CFail(releasedOnFailure)

-----------------------------------------------------------------------------
TestMechStr(mech) == mech \in KnownMechs

\* "no" and, from gss_indicate_mechs or gss_test_oid_set_member, "error".
TestMechOid(mech) ==
    {IF mech \in Supported THEN "yes" ELSE "no"} \cup IF LibFails THEN {"error"} ELSE {}

\* translate_mech_to_oid, with a -m argument: an error of test_mech_oid (-1)
\* passes for a yes.  Then getaddrinfo and socket.
CTranslate ==
    /\ cpc = "translate"
    /\ \/ /\ \/ cmech = DefaultMech
             \/ TestMechStr(cmech) /\ TestMechOid(cmech) # {"no"}
          /\ caddrs' \in Resolutions
          /\ cpc' = "connect"
          /\ UNCHANGED <<linkVars, cmsg, cmech, cctx, cleg, ctok, cheld, crec, cret>>
       \/ /\ cmech # DefaultMech
          /\ TestMechStr(cmech) => "no" \in TestMechOid(cmech)
          /\ CFail({})
       \/ SysFails /\ CFail({})

\* One round of connect_to_server's loop over the addresses.
CConnect ==
    /\ cpc = "connect" /\ caddrs # <<>>
    /\ caddrs' = Tail(caddrs)
    /\ \/ Head(caddrs) = "server" /\ Connectable /\ Connect /\ cpc' = "import"
       \/ /\ Head(caddrs) = "server" => ~Connectable \/ SysFails
          /\ UNCHANGED <<linkVars, cpc>>
    /\ UNCHANGED <<cmsg, cmech, cctx, cleg, ctok, cheld, crec, cret>>

CNoAddressLeft == cpc = "connect" /\ caddrs = <<>> /\ CFail({})

\* establish_context: the name of the service.
CImportName == CLocalCall("import", "init", {"target_name"}, {})

\* gss_init_sec_context.  On success the token is recorded, if there is one to
\* send, and otherwise the context is complete.
CInitSecContext ==
    /\ cpc = "init"
    /\ \/ LET n == IF cleg = 0 THEN 0 ELSE cleg + 1 IN
          /\ cleg # 0 => Acceptable(ctok, n)
          /\ cmech \in {DefaultMech} \cup Supported
          /\ cctx' = ContextAfter(n)
          /\ \/ /\ Answers(n)
                /\ cpc' = "send" /\ cleg' = n + 1
                /\ CRecord("send", n + 1)
                /\ cheld' = (cheld \cup {"context", "send_tok"}) \ {"recv_tok"}
             \/ /\ ~Answers(n)
                /\ cpc' = "inquire" /\ UNCHANGED <<cleg, crec>>
                /\ cheld' = (cheld \cup {"context"}) \ {"recv_tok", "target_name"}
          /\ ctok' = EmptyToken
          /\ UNCHANGED <<linkVars, cmsg, cmech, caddrs, cret>>
       \/ /\ \/ LibFails
             \/ cleg # 0 /\ ~Acceptable(ctok, cleg + 1)
             \/ cmech \notin {DefaultMech} \cup Supported
          /\ CFail({"recv_tok", "target_name"})

\* send_token, and the end of the loop's body.
CSendToken ==
    /\ cpc = "send"
    /\ \/ /\ Put("client", CtxToken(cleg))
          /\ \/ /\ cctx = "open" /\ cpc' = "inquire"
                /\ cheld' = cheld \ {"send_tok", "target_name"}
             \/ /\ cctx # "open" /\ cpc' = "recv"
                /\ cheld' = cheld \ {"send_tok"}
          /\ UNCHANGED <<cmsg, cmech, caddrs, cctx, cleg, ctok, crec, cret>>
       \/ SendBroken("client") /\ CFail({"target_name", "send_tok", "context"})
       \/ Sigpipe("client") /\ CKilled

CRecvToken ==
    /\ cpc = "recv"
    /\ \/ /\ Take("client")
          /\ ctok' \in Arrivals(Head(rx["client"]))
          /\ CRecord("recv", ctok'.leg)
          /\ cpc' = "init" /\ cheld' = cheld \cup {"recv_tok"}
          /\ UNCHANGED <<cmsg, cmech, caddrs, cctx, cleg, cret>>
       \/ RecvBroken("client") /\ CFail({"target_name"})
       \/ CSpin

-----------------------------------------------------------------------------
\* call_server goes on: what the context is, and the limits of gss_wrap.
CInquireContext ==
    CLocalCall("inquire", "size_integ", {"src_name", "ctx_target_name"}, {"context"})

ContextAndNames == {"context", "src_name", "ctx_target_name"}

CWrapSizeLimitIntegrity ==
    CLocalCall("size_integ", "size_conf", {}, ContextAndNames)
CWrapSizeLimitConfidentiality ==
    CLocalCall("size_conf", "display_src", {}, ContextAndNames)
CDisplaySourceName ==
    CLocalCall("display_src", "display_target", {"sname"}, ContextAndNames)

\* Faulty variant of CDisplayTargetName: src_name is not released.
CDisplayTargetNameLeaking ==
    /\ cpc = "display_target"
    /\ cpc' = "wrap"
    /\ cheld' = cheld \ {"ctx_target_name", "sname", "tname"}
    /\ UNCHANGED <<linkVars, cmsg, cmech, caddrs, cctx, cleg, ctok, crec, cret>>

\* gss_display_name of the target; then all four names are released.
CDisplayTargetName ==
    /\ cpc = "display_target"
    /\ \/ /\ cpc' = "wrap"
          /\ cheld' = cheld \ {"src_name", "ctx_target_name", "sname", "tname"}
          /\ UNCHANGED <<linkVars, cmsg, cmech, caddrs, cctx, cleg, ctok, crec, cret>>
       \/ LibFails /\ CFail(ContextAndNames \cup {"sname"})

\* The message is wrapped; nothing is released if that fails.
CWrap == CLocalCall("wrap", "send_msg", {"out_buffer"}, {})

CSendMessage ==
    /\ cpc = "send_msg"
    /\ \/ /\ Put("client", WrapToken(cmsg))
          /\ cpc' = "recv_mic" /\ cheld' = cheld \ {"out_buffer"}
          /\ UNCHANGED <<cmsg, cmech, caddrs, cctx, cleg, ctok, crec, cret>>
       \/ SendBroken("client") /\ CFail({"out_buffer"})
       \/ Sigpipe("client") /\ CKilled

\* Faulty variant of CRecvMic: any answer of the server will do.
CRecvMicUnverified ==
    /\ cpc = "recv_mic"
    /\ Take("client")
    /\ cpc' = "delete"
    /\ UNCHANGED <<cmsg, cmech, caddrs, cctx, cleg, ctok, cheld, crec, cret>>

CRecvMic ==
    /\ cpc = "recv_mic"
    /\ \/ /\ Take("client")
          /\ ctok' \in Arrivals(Head(rx["client"]))
          /\ cpc' = "verify" /\ cheld' = cheld \cup {"out_buffer"}
          /\ UNCHANGED <<cmsg, cmech, caddrs, cctx, cleg, crec, cret>>
       \/ RecvBroken("client") /\ CFail({"context"})
       \/ CSpin

\* Faulty variant of CVerifyMic: maj_stat is only displayed.
CVerifyMicUnchecked ==
    /\ cpc = "verify"
    /\ cpc' = "delete" /\ cheld' = cheld \ {"out_buffer"}
    /\ UNCHANGED <<linkVars, cmsg, cmech, caddrs, cctx, cleg, ctok, crec, cret>>

\* gss_verify_mic against the message as it was given to the client.
CVerifyMic ==
    /\ cpc = "verify"
    /\ \/ /\ VerifiesMic(cctx, ctok, cmsg)
          /\ cpc' = "delete" /\ cheld' = cheld \ {"out_buffer"}
          /\ UNCHANGED <<linkVars, cmsg, cmech, caddrs, cctx, cleg, ctok, crec, cret>>
       \/ (LibFails \/ ~VerifiesMic(cctx, ctok, cmsg)) /\ CFail({})

\* gss_delete_sec_context, close, and call_server returns 0.
CDeleteContext ==
    /\ cpc = "delete"
    /\ \/ CExit("ok", {"context"}) /\ cctx' = "none"
       \/ LibFails /\ CFail({})

-----------------------------------------------------------------------------
ClientStep ==
    \/ CTranslate \/ CConnect \/ CNoAddressLeft \/ CImportName
    \/ CInitSecContext \/ CSendToken \/ CRecvToken
    \/ CInquireContext \/ CWrapSizeLimitIntegrity \/ CWrapSizeLimitConfidentiality
    \/ CDisplaySourceName \/ CDisplayTargetName
    \/ CWrap \/ CSendMessage \/ CRecvMic \/ CVerifyMic \/ CDeleteContext

\* The process is stopped from outside.
ClientKill == "kill" \in Faults /\ cpc # "done" /\ CKilled

ClientTypeOK ==
    /\ cpc \in ClientPC /\ cmsg \in Messages /\ cmech \in MechArgs
    /\ caddrs \in Seq({"server", "elsewhere"})
    /\ cctx \in Context /\ cleg \in Nat /\ ctok \in Token
    /\ cheld \subseteq ClientResource
    /\ crec \in Seq([dir : {"send", "recv"}, leg : Nat])
    /\ cret \in {"running", "ok", "error", "killed"}
=============================================================================
