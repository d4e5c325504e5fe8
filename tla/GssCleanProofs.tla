--------------------------- MODULE GssCleanProofs ---------------------------
(***************************************************************************)
(* What the two programs of application/gssapi hold and leave behind, for  *)
(* every mechanism, every set of messages and addresses, and every fault:  *)
(* a process that returns 0 has released all it got from the library, and  *)
(* the server's dangling handle never occurs in a confirmed exchange.      *)
(***************************************************************************)
EXTENDS GssSessionProofs

\* What the client may hold at each call: what the calls before it acquired,
\* less what call_server and establish_context released on the way.
ClientMayHold ==
    /\ cpc \in {"translate", "connect", "import"} => cheld = {}
    /\ cpc = "init" => cheld \subseteq {"context", "target_name", "recv_tok"}
    /\ cpc = "send" => cheld \subseteq {"context", "target_name", "send_tok"}
    /\ cpc = "recv" => cheld \subseteq {"context", "target_name"}
    /\ cpc \in {"size_integ", "size_conf", "display_src"} => cheld \subseteq ContextAndNames
    /\ cpc = "display_target" => cheld \subseteq ContextAndNames \cup {"sname"}
    /\ cpc \in {"inquire", "wrap", "recv_mic", "delete"} => cheld \subseteq {"context"}
    /\ cpc \in {"send_msg", "verify"} => cheld \subseteq {"context", "out_buffer"}
    /\ cret = "ok" => cheld = {}

\* What the server may hold at each call.
ServerMayHold ==
    /\ spc = "acquire" => sheld = {}
    /\ spc \in {"bind", "listen", "accept", "recv", "display"} =>
          sheld \subseteq {"creds", "context", "client_name"}
    /\ spc = "accept_ctx" => sheld \subseteq {"creds", "context", "client_name", "recv_tok"}
    /\ spc = "send" => sheld \subseteq {"creds", "context", "client_name", "send_tok"}
    /\ spc \in {"recv_msg", "delete"} => sheld \subseteq {"context"}
    /\ spc \in {"unwrap", "send_mic"} => sheld \subseteq {"context", "recv_tok"}
    /\ spc = "get_mic" => sheld \subseteq {"context", "message"}
    /\ sret = "ok" => sheld = {}

\* main of server.c has returned exactly if its process has ended.
ServerEndedWhenDone == sret = "running" <=> spc # "done"

\* Only DeleteLocal frees the context behind shandle, and it forgets slocal.
CopyKeepsHandle == slocal # "none" => shandle # "dangling"

\* sign_message has sent its MIC, and its copy of the handle was not deleted.
SentUndeleted == spc \in {"delete", "done"} /\ shandle # "dangling"

\* A MIC about to be sent was made in the context, which is still there ...
MicKeepsHandle == spc = "send_mic" /\ stok.kind = "mic" => slocal # "none"

\* ... so that a MIC on the way, in the client's hands or verified by it tells
\* that the server's handle is good.
MicsMeanUndeleted == \A t \in Held("client") \cup {ctok} : t.kind = "mic" => SentUndeleted
VerifiedMeansUndeleted == cpc = "delete" \/ cret = "ok" => SentUndeleted

HandleInv ==
    /\ CopyKeepsHandle
    /\ MicKeepsHandle
    /\ MicsMeanUndeleted
    /\ VerifiedMeansUndeleted

\* The inductive invariant, beside the one of GssSessionProofs.
CleanInv ==
    /\ ClientMayHold
    /\ ServerMayHold
    /\ ServerEndedWhenDone
    /\ HandleInv

-----------------------------------------------------------------------------
\* An error or a signal ends the client, not success.
LEMMA ClientGivesUp ==
    ASSUME NEW resources, CFail(resources) \/ CKilled
    PROVE  cpc' = "done" /\ cret' \in {"error", "killed"}
BY DEF CFail, CKilled, CExit

\* A client that has ended other than by success may hold anything.
LEMMA GivenUpMayHold ==
    ASSUME cpc' = "done", cret' \in {"error", "killed"}
    PROVE  ClientMayHold'
BY DEF ClientMayHold

\* Up to the imported name of the service.
LEMMA ClientHoldsSetUp ==
    ASSUME ClientMayHold, cret = "running",
           CTranslate \/ CConnect \/ CNoAddressLeft \/ CImportName
    PROVE  ClientMayHold'
<1>1. CASE CFail({})
  BY <1>1, ClientGivesUp, GivenUpMayHold
<1>2. CASE ~CFail({}) /\ CTranslate
  BY <1>2 DEF CTranslate, ClientMayHold
<1>3. CASE ~CFail({}) /\ CConnect
  BY <1>3 DEF CConnect, ClientMayHold
<1>4. CASE ~CFail({}) /\ CNoAddressLeft
  BY <1>4 DEF CNoAddressLeft
<1>5. CASE ~CFail({}) /\ CImportName
  BY <1>5 DEF CImportName, CLocalCall, ClientMayHold
<1> QED
  BY <1>1, <1>2, <1>3, <1>4, <1>5

\* In the rounds of establish_context.
LEMMA ClientHoldsEstablishing ==
    ASSUME ClientMayHold, cret = "running", CInitSecContext \/ CSendToken \/ CRecvToken
    PROVE  ClientMayHold'
<1>1. CASE \/ CFail({"recv_tok", "target_name"})
           \/ CFail({"target_name", "send_tok", "context"})
           \/ CFail({"target_name"}) \/ CKilled
  BY <1>1, ClientGivesUp, GivenUpMayHold
<1>2. CASE CInitSecContext /\ ~CFail({"recv_tok", "target_name"})
  BY <1>2 DEF CInitSecContext, ClientMayHold
<1>3. CASE CSendToken /\ ~CKilled /\ ~CFail({"target_name", "send_tok", "context"})
  BY <1>3 DEF CSendToken, ClientMayHold
<1>4. CASE CRecvToken /\ ~CFail({"target_name"})
  BY <1>4 DEF CRecvToken, CSpin, ClientMayHold
<1> QED
  BY <1>1, <1>2, <1>3, <1>4

\* While call_server inspects the context.
LEMMA ClientHoldsInspecting ==
    ASSUME ClientMayHold, cret = "running",
           \/ CInquireContext \/ CWrapSizeLimitIntegrity \/ CWrapSizeLimitConfidentiality
           \/ CDisplaySourceName \/ CDisplayTargetName
    PROVE  ClientMayHold'
<1>1. CASE \E resources : CFail(resources)
  BY <1>1, ClientGivesUp, GivenUpMayHold
<1>2. CASE ~\E resources : CFail(resources)
  <2>1. CASE CInquireContext
    BY <1>2, <2>1 DEF CInquireContext, CLocalCall, ClientMayHold, ContextAndNames
  <2>2. CASE CWrapSizeLimitIntegrity \/ CWrapSizeLimitConfidentiality
    BY <1>2, <2>2
    DEF CWrapSizeLimitIntegrity, CWrapSizeLimitConfidentiality, CLocalCall, ClientMayHold
  <2>3. CASE CDisplaySourceName
    BY <1>2, <2>3 DEF CDisplaySourceName, CLocalCall, ClientMayHold
  <2>4. CASE CDisplayTargetName
    BY <1>2, <2>4 DEF CDisplayTargetName, ClientMayHold, ContextAndNames
  <2> QED
    BY <2>1, <2>2, <2>3, <2>4
<1> QED
  BY <1>1, <1>2

\* From the wrapped message to the end.
LEMMA ClientHoldsExchanging ==
    ASSUME ClientMayHold, cret = "running",
           CWrap \/ CSendMessage \/ CRecvMic \/ CVerifyMic \/ CDeleteContext
    PROVE  ClientMayHold'
<1>1. CASE CKilled \/ \E resources : CFail(resources)
  BY <1>1, ClientGivesUp, GivenUpMayHold
<1>2. CASE ~CKilled /\ ~\E resources : CFail(resources)
  <2>1. CASE CWrap
    BY <1>2, <2>1 DEF CWrap, CLocalCall, ClientMayHold
  <2>2. CASE CSendMessage
    BY <1>2, <2>2 DEF CSendMessage, ClientMayHold
  <2>3. CASE CRecvMic
    BY <1>2, <2>3 DEF CRecvMic, CSpin, ClientMayHold
  <2>4. CASE CVerifyMic
    BY <1>2, <2>4 DEF CVerifyMic, ClientMayHold
  <2>5. CASE CDeleteContext
    BY <1>2, <2>5 DEF CDeleteContext, CExit, ClientMayHold
  <2> QED
    BY <2>1, <2>2, <2>3, <2>4, <2>5
<1> QED
  BY <1>1, <1>2

\* No step of the client holds more than the next call accounts for.
LEMMA ClientHolds ==
    ASSUME ClientMayHold, EndedWhenDone, ClientStep \/ ClientKill
    PROVE  ClientMayHold'
<1>1. CASE ClientKill
  BY <1>1, ClientGivesUp, GivenUpMayHold DEF ClientKill
<1>2. CASE ClientStep
  <2>1. cret = "running"
    BY <1>2
    DEF ClientStep, EndedWhenDone, CTranslate, CConnect, CNoAddressLeft, CImportName,
        CInitSecContext, CSendToken, CRecvToken, CInquireContext,
        CWrapSizeLimitIntegrity, CWrapSizeLimitConfidentiality, CDisplaySourceName,
        CDisplayTargetName, CWrap, CSendMessage, CRecvMic, CVerifyMic, CDeleteContext,
        CLocalCall
  <2> QED
    BY <1>2, <2>1, ClientHoldsSetUp, ClientHoldsEstablishing, ClientHoldsInspecting,
       ClientHoldsExchanging
    DEF ClientStep
<1> QED
  BY <1>1, <1>2

-----------------------------------------------------------------------------
\* An error or a signal ends the server, not success.
LEMMA ServerGivesUp ==
    ASSUME ServerMayHold, NEW ret \in {"error", "killed"}, NEW resources,
           SExit(ret, resources)
    PROVE  ServerMayHold' /\ ServerEndedWhenDone'
BY DEF SExit, ServerMayHold, ServerEndedWhenDone

\* Setting up, and gss_display_name, which ends the need for credentials.
LEMMA ServerHoldsSetUp ==
    ASSUME ServerMayHold, ServerEndedWhenDone,
           SAcquireCreds \/ SBind \/ SListen \/ SAccept \/ SDisplayName
    PROVE  ServerMayHold' /\ ServerEndedWhenDone'
<1>1. CASE SFail({})
  BY <1>1, ServerGivesUp DEF SFail
<1>2. CASE ~SFail({}) /\ (SAcquireCreds \/ SBind \/ SListen \/ SAccept)
  BY <1>2
  DEF SAcquireCreds, SBind, SListen, SAccept, ServerMayHold, ServerEndedWhenDone
<1>3. CASE SDisplayName
  BY <1>3 DEF SDisplayName, ServerMayHold, ServerEndedWhenDone
<1> QED
  BY <1>1, <1>2, <1>3

\* The rounds of establish_context.
LEMMA ServerHoldsEstablishing ==
    ASSUME ServerMayHold, ServerEndedWhenDone,
           SRecvToken \/ SAcceptSecContext \/ SSendToken
    PROVE  ServerMayHold' /\ ServerEndedWhenDone'
<1>1. CASE SKilled \/ \E resources : SExit("error", resources)
  BY <1>1, ServerGivesUp DEF SKilled
<1>2. CASE ~SKilled /\ ~\E resources : SExit("error", resources)
  <2>1. CASE SRecvToken
    BY <1>2, <2>1 DEF SRecvToken, SFail, SSpin, ServerMayHold, ServerEndedWhenDone
  <2>2. CASE SAcceptSecContext
    BY <1>2, <2>2 DEF SAcceptSecContext, ServerMayHold, ServerEndedWhenDone
  <2>3. CASE SSendToken
    BY <1>2, <2>3 DEF SSendToken, AfterRound, ServerMayHold, ServerEndedWhenDone
  <2> QED
    BY <2>1, <2>2, <2>3
<1> QED
  BY <1>1, <1>2

\* sign_message, and the end of talk_to_client.
LEMMA ServerHoldsSigning ==
    ASSUME ServerMayHold, ServerEndedWhenDone,
           SRecvMessage \/ SUnwrap \/ SGetMic \/ SSendMic \/ SDeleteContext
    PROVE  ServerMayHold' /\ ServerEndedWhenDone'
<1>1. CASE SKilled \/ \E ret \in {"error", "killed"} : \E resources : SExit(ret, resources)
  BY <1>1, ServerGivesUp DEF SKilled
<1>2. CASE /\ ~SKilled
           /\ ~\E ret \in {"error", "killed"} : \E resources : SExit(ret, resources)
  <2>1. CASE SRecvMessage
    BY <1>2, <2>1 DEF SRecvMessage, SSpin, ServerMayHold, ServerEndedWhenDone
  <2>2. CASE SUnwrap
    BY <1>2, <2>2 DEF SUnwrap, ServerMayHold, ServerEndedWhenDone
  <2>3. CASE SGetMic
    BY <1>2, <2>3 DEF SGetMic, ServerMayHold, ServerEndedWhenDone
  <2>4. CASE SSendMic
    BY <1>2, <2>4 DEF SSendMic, ServerMayHold, ServerEndedWhenDone
  <2>5. CASE SDeleteContext
    BY <1>2, <2>5 DEF SDeleteContext, SExit, ServerMayHold, ServerEndedWhenDone
  <2> QED
    BY <2>1, <2>2, <2>3, <2>4, <2>5
<1> QED
  BY <1>1, <1>2

\* No step of the server holds more than the next call accounts for.
LEMMA ServerHolds ==
    ASSUME ServerMayHold, ServerEndedWhenDone, ServerStep \/ ServerKill
    PROVE  ServerMayHold' /\ ServerEndedWhenDone'
<1>1. CASE ServerKill
  BY <1>1, ServerGivesUp DEF ServerKill, SKilled
<1>2. CASE ServerStep
  BY <1>2, ServerHoldsSetUp, ServerHoldsEstablishing, ServerHoldsSigning DEF ServerStep
<1> QED
  BY <1>1, <1>2

-----------------------------------------------------------------------------
\* What a step of the server does to its handles, and what it lets the client
\* have: only a MIC that was made in a context that is still there.
HandleEffect ==
    /\ CopyKeepsHandle' /\ MicKeepsHandle'
    /\ SentUndeleted => SentUndeleted'
    /\ \A t \in Held("client")' :
          t.kind = "mic" => t \in Held("client") \/ SentUndeleted'

\* The server before it sends its MIC.
LEMMA ServerKeepsHandle ==
    ASSUME ServerRuns, CopyKeepsHandle, spc \notin {"send_mic", "delete", "done"},
           ServerStep \/ ServerKill
    PROVE  HandleEffect
<1>1. \A t \in Held("client")' : t.kind = "mic" => t \in Held("client")
  BY ServerEffects DEF ServerEffect, ServerRuns
<1>2. ~SentUndeleted
  BY DEF SentUndeleted
<1>3. CopyKeepsHandle' /\ MicKeepsHandle'
  <2>1. CASE SAcquireCreds \/ SBind \/ SListen \/ SAccept
    BY <2>1
    DEF SAcquireCreds, SBind, SListen, SAccept, SFail, SExit, CopyKeepsHandle,
        MicKeepsHandle
  <2>2. CASE SRecvToken
    BY <2>2 DEF SRecvToken, SFail, SExit, SSpin, CopyKeepsHandle, MicKeepsHandle
  <2>3. CASE SAcceptSecContext
    BY <2>3
    DEF SAcceptSecContext, SExit, ContextAfter, HandleGiven, CopyKeepsHandle, MicKeepsHandle
  <2>4. CASE SSendToken
    BY <2>4
    DEF SSendToken, AfterRound, SKilled, SExit, CopyKeepsHandle, MicKeepsHandle
  <2>5. CASE SDisplayName
    BY <2>5
    DEF SDisplayName, ServerRuns, HandleValid, UnwrapDone, MicMade, CopyKeepsHandle,
        MicKeepsHandle
  <2>6. CASE SRecvMessage
    BY <2>6 DEF SRecvMessage, SExit, SSpin, DeleteLocal, CopyKeepsHandle, MicKeepsHandle
  <2>7. CASE SUnwrap
    BY <2>7 DEF SUnwrap, SExit, DeleteLocal, CopyKeepsHandle, MicKeepsHandle
  <2>8. CASE SGetMic
    BY <2>8 DEF SGetMic, EmptyToken, DeleteLocal, CopyKeepsHandle, MicKeepsHandle
  <2>9. CASE ServerKill
    BY <2>9 DEF ServerKill, SKilled, SExit, CopyKeepsHandle, MicKeepsHandle
  <2> QED
    BY <2>1, <2>2, <2>3, <2>4, <2>5, <2>6, <2>7, <2>8, <2>9
    DEF ServerStep, SSendMic, SDeleteContext
<1> QED
  BY <1>1, <1>2, <1>3 DEF HandleEffect

\* Sending the MIC: the handle is deleted only if the MIC does not go out.
LEMMA SendingKeepsHandle ==
    ASSUME ServerRuns, CopyKeepsHandle, MicKeepsHandle, SSendMic
    PROVE  HandleEffect
<1>1. spc = "send_mic" /\ ~SentUndeleted /\ stok \in Token
  BY DEF SSendMic, SentUndeleted, ServerRuns, ServerTypeOK
<1>2. CASE SKilled
  <2>1. \A t \in Held("client")' : t \in Held("client")
    BY <1>2, LinkRemoves DEF SKilled, SExit, LinkQuiet, ServerRuns, Side
  <2> QED
    BY <1>1, <1>2, <2>1
    DEF SKilled, SExit, HandleEffect, CopyKeepsHandle, MicKeepsHandle
<1>3. CASE ErrorReported("server") /\ spc' = "delete" /\ DeleteLocal
  <2>1. \A t \in Held("client")' : t \in Held("client")
    BY <1>3, LinkRemoves DEF LinkQuiet, ServerRuns, Side
  <2> QED
    BY <1>1, <1>3, <2>1 DEF DeleteLocal, HandleEffect, CopyKeepsHandle, MicKeepsHandle
<1>4. CASE /\ Put("server", stok) /\ spc' = "delete"
           /\ UNCHANGED <<shandle, slocal>>
  <2>1. \A t \in Held("client")' : t \in Held("client") \/ t = stok
    BY <1>1, <1>4, PutAdds DEF ServerRuns, Side, Peer
  <2>2. stok.kind = "mic" => SentUndeleted'
    BY <1>1, <1>4 DEF CopyKeepsHandle, MicKeepsHandle, SentUndeleted
  <2> QED
    BY <1>1, <1>4, <2>1, <2>2 DEF HandleEffect, CopyKeepsHandle, MicKeepsHandle
<1> QED
  BY <1>2, <1>3, <1>4 DEF SSendMic

\* After the MIC: talk_to_client's own deletion leaves nothing dangling.
LEMMA DeletingKeepsHandle ==
    ASSUME ServerRuns, CopyKeepsHandle,
           SDeleteContext \/ (ServerKill /\ spc \in {"send_mic", "delete"})
    PROVE  HandleEffect
<1>1. \A t \in Held("client")' : t \in Held("client")
  BY LinkRemoves
  DEF SDeleteContext, ServerKill, SKilled, SExit, LinkQuiet, ServerRuns, Side
<1>2. CopyKeepsHandle' /\ MicKeepsHandle' /\ (SentUndeleted => SentUndeleted')
  BY DEF SDeleteContext, ServerKill, SKilled, SExit, CopyKeepsHandle, MicKeepsHandle,
         SentUndeleted
<1> QED
  BY <1>1, <1>2 DEF HandleEffect

\* All the server can do to its handles.
LEMMA HandleEffects ==
    ASSUME LinkTypeOK, ServerTypeOK, HandleValid, CopyKeepsHandle, MicKeepsHandle,
           ServerStep \/ ServerKill
    PROVE  HandleEffect
<1>1. ServerRuns
  BY DEF ServerRuns, ServerStep, ServerKill, SAcquireCreds, SBind, SListen, SAccept,
         SRecvToken, SAcceptSecContext, SSendToken, SDisplayName, SRecvMessage, SUnwrap,
         SGetMic, SSendMic, SDeleteContext
<1>2. CASE spc \notin {"send_mic", "delete", "done"}
  BY <1>1, <1>2, ServerKeepsHandle
<1>3. CASE spc \in {"send_mic", "delete"}
  <2>1. SSendMic \/ SDeleteContext \/ ServerKill
    BY <1>3
    DEF ServerStep, SAcquireCreds, SBind, SListen, SAccept, SRecvToken,
        SAcceptSecContext, SSendToken, SDisplayName, SRecvMessage, SUnwrap, SGetMic
  <2> QED
    BY <1>1, <1>3, <2>1, SendingKeepsHandle, DeletingKeepsHandle
<1> QED
  BY <1>1, <1>2, <1>3 DEF ServerRuns

-----------------------------------------------------------------------------
\* Nothing is held, and nothing dangles, at the start.
LEMMA CleanInit == Init => CleanInv
<1> SUFFICES ASSUME Init PROVE CleanInv
  OBVIOUS
<1>1. Held("client") = {}
  BY DEF Init, LinkInit, Held, Side
<1> QED
  BY <1>1
  DEF Init, ClientInit, ServerInit, CleanInv, ClientMayHold, ServerMayHold,
      ServerEndedWhenDone, HandleInv, CopyKeepsHandle, MicKeepsHandle,
      MicsMeanUndeleted, VerifiedMeansUndeleted, EmptyToken

\* No step of the client breaks the invariant.
LEMMA ClientKeepsClean ==
    ASSUME IInv, CleanInv, Client
    PROVE  CleanInv'
<1>1. ClientEffect /\ UNCHANGED <<legs, serverVars>>
  BY ClientEffects DEF IInv, TypeOK, LinkTypeOK, Client
<1>2. UNCHANGED <<ServerMayHold, ServerEndedWhenDone, CopyKeepsHandle, MicKeepsHandle,
                  SentUndeleted>>
  BY <1>1
  DEF serverVars, ServerMayHold, ServerEndedWhenDone, CopyKeepsHandle, MicKeepsHandle,
      SentUndeleted
<1>3. ClientMayHold'
  BY ClientHolds DEF Client, IInv, CleanInv
<1>4. MicsMeanUndeleted'
  <2>1. \A t \in Held("client") : \A u \in Arrivals(t) : u.kind = t.kind
    BY TokenTypes DEF IInv, TypeOK, Held, Side
  <2>2. ctok'.kind = "mic" => SentUndeleted
    BY <1>1, <2>1
    DEF ClientEffect, CleanInv, HandleInv, MicsMeanUndeleted, EmptyToken
  <2> QED
    BY <1>1, <1>2, <2>2 DEF ClientEffect, CleanInv, HandleInv, MicsMeanUndeleted
<1>5. VerifiedMeansUndeleted'
  BY <1>1, <1>2
  DEF ClientEffect, CleanInv, HandleInv, MicsMeanUndeleted, VerifiedMeansUndeleted
<1> QED
  BY <1>2, <1>3, <1>4, <1>5 DEF CleanInv, HandleInv

\* No step of the server breaks the invariant.
LEMMA ServerKeepsClean ==
    ASSUME IInv, CleanInv, Server
    PROVE  CleanInv'
<1>1. HandleEffect /\ UNCHANGED <<cpc, ctok, cheld, cret>>
  BY HandleEffects
  DEF IInv, TypeOK, LinkTypeOK, CleanInv, HandleInv, Server, clientVars
<1>2. ServerMayHold' /\ ServerEndedWhenDone'
  BY ServerHolds DEF Server, CleanInv
<1>3. ClientMayHold'
  BY <1>1 DEF CleanInv, ClientMayHold
<1>4. MicsMeanUndeleted'
  BY <1>1 DEF HandleEffect, CleanInv, HandleInv, MicsMeanUndeleted
<1>5. VerifiedMeansUndeleted'
  BY <1>1 DEF HandleEffect, CleanInv, HandleInv, VerifiedMeansUndeleted
<1> QED
  BY <1>1, <1>2, <1>3, <1>4, <1>5 DEF HandleEffect, CleanInv, HandleInv

\* A step that changes nothing keeps the invariant.
LEMMA StutterKeepsClean ==
    ASSUME CleanInv, UNCHANGED vars
    PROVE  CleanInv'
BY DEF vars, linkVars, clientVars, serverVars, CleanInv, ClientMayHold, ServerMayHold,
       ServerEndedWhenDone, HandleInv, CopyKeepsHandle, MicKeepsHandle,
       MicsMeanUndeleted, VerifiedMeansUndeleted, SentUndeleted, Held

\* What the programs hold and what a MIC tells of the server's handle, always.
THEOREM CleanInvariant == Spec => []CleanInv
<1>1. IInv /\ CleanInv /\ [Next]_vars => CleanInv'
  BY ClientKeepsClean, ServerKeepsClean, StutterKeepsClean DEF Next, Quiet
<1> QED
  BY <1>1, CleanInit, SessionInvariant, PTL DEF Spec

\* A process that returns 0 has released all it got from the library, whichever
\* calls failed before without ending it: the client's names and buffers, the
\* server's credentials, name, tokens and message, and both contexts.
THEOREM SuccessReleasesAll == Spec => []CleanReturn
<1>1. CleanInv => CleanReturn
  BY DEF CleanInv, ClientMayHold, ServerMayHold, CleanReturn
<1> QED
  BY <1>1, CleanInvariant, PTL

\* When the client reports success, the server has no dangling handle:
\* sign_message deletes its copy of the handle only if it sends no MIC.
THEOREM ConfirmedMeansNoDangling == Spec => []ConfirmedServerClean
<1>1. CleanInv => ConfirmedServerClean
  BY DEF CleanInv, HandleInv, VerifiedMeansUndeleted, SentUndeleted, ConfirmedServerClean
<1> QED
  BY <1>1, CleanInvariant, PTL
=============================================================================
