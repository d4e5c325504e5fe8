-------------------------- MODULE GssSessionProofs --------------------------
(***************************************************************************)
(* What holds of GssSession for every mechanism, every set of messages and *)
(* addresses, and every fault the model knows.                             *)
(***************************************************************************)
EXTENDS GssSession, TLAPS

\* The link's part of TypeOK.
LinkTypeOK ==
    /\ listening \in BOOLEAN /\ linked \in BOOLEAN
    /\ rx \in [Side -> Seq(Token)] /\ ended \in [Side -> {"open", "fin", "rst"}]

\* The tokens side s can still read.
Held(s) == {rx[s][i] : i \in 1 .. Len(rx[s])}

\* The server is past gss_get_mic: a MIC can exist.
MicMade == spc \in {"send_mic", "delete", "done"}

\* A wrap token carries the message of the client ...
Wrapped(t) == t.kind = "wrap" => t.body = cmsg

\* ... and a MIC was made for what the server unwrapped, after it did.
Signed(t) == t.kind = "mic" => MicMade /\ t.body = smsg

UnwrapDone == MicMade \/ spc = "get_mic"
UndeliveredBeforeUnwrap == ~UnwrapDone => smsg = NoMessage

\* sign_message gets a handle that is not dangling.
HandleValid == UnwrapDone \/ shandle # "dangling"
WrapsCarryMessage == \A t \in Held("server") \cup {stok} : Wrapped(t)
MicsSignUnwrapped ==
    /\ \A t \in Held("client") \cup {ctok} : Signed(t)
    /\ spc = "send_mic" => Signed(stok)
VerifiedMeansDelivered == cpc = "delete" \/ cret = "ok" => MicMade /\ smsg = cmsg
EndedWhenDone == cret = "running" <=> cpc # "done"

\* The inductive invariant.  ConfirmedDelivery compares the two ends of a chain
\* (message, wrap token, unwrapped message, MIC, verified MIC); each conjunct is
\* one link of it.
IInv ==
    /\ TypeOK
    /\ HandleValid
    /\ UndeliveredBeforeUnwrap
    /\ WrapsCarryMessage
    /\ MicsSignUnwrapped
    /\ VerifiedMeansDelivered
    /\ EndedWhenDone

-----------------------------------------------------------------------------
\* The tokens the two programs make are tokens, whole or garbled.
LEMMA TokenTypes ==
    /\ \A n \in Nat : CtxToken(n) \in Token
    /\ \A m \in Messages \cup {NoMessage} : WrapToken(m) \in Token /\ MicToken(m) \in Token
    /\ EmptyToken \in Token
    /\ \A t \in Token : Arrivals(t) \subseteq Token
    /\ \A t \in Token : \A u \in Arrivals(t) : u.kind = t.kind /\ u.body = t.body
BY DEF CtxToken, WrapToken, MicToken, EmptyToken, Arrivals, Token

\* What side s does with the link, but for Put.
LinkQuiet(s) ==
    \/ UNCHANGED linkVars \/ Listen \/ Connect
    \/ Take(s) \/ ErrorReported(s) \/ Close(s) \/ CloseUnaccepted

\* No operation of the link but Put brings a token: Take, Close and the rest
\* only remove some.
LEMMA LinkRemoves ==
    ASSUME LinkTypeOK, NEW s \in Side, LinkQuiet(s)
    PROVE  LinkTypeOK' /\ \A r \in Side : Held(r)' \subseteq Held(r)
<1>1. CASE UNCHANGED linkVars
  BY <1>1 DEF LinkTypeOK, linkVars, Held
<1>2. CASE Listen \/ Connect
  BY <1>2 DEF LinkTypeOK, Listen, Connect, Held
<1>3. CASE Take(s)
  <2>1. rx' = [rx EXCEPT ![s] = Tail(@)] /\ rx[s] \in Seq(Token) /\ rx[s] # <<>>
    BY <1>3 DEF Take, LinkTypeOK
  <2>2. /\ Tail(rx[s]) \in Seq(Token) /\ Len(Tail(rx[s])) = Len(rx[s]) - 1
        /\ \A i \in 1 .. Len(rx[s]) - 1 : Tail(rx[s])[i] = rx[s][i + 1]
    BY <2>1
  <2>3. LinkTypeOK'
    BY <1>3, <2>1, <2>2 DEF Take, LinkTypeOK
  <2>4. Len(rx[s]) \in Nat
    BY <2>1
  <2>5. \A r \in Side : Held(r)' \subseteq Held(r)
    <3> SUFFICES ASSUME NEW r \in Side, NEW i \in 1 .. Len(rx'[r])
                 PROVE  rx'[r][i] \in Held(r)
      BY DEF Held
    <3>1. CASE r = s
      <4>1. rx'[r] = Tail(rx[s])
        BY <2>1, <3>1 DEF LinkTypeOK
      <4> QED
        BY <4>1, <2>2, <2>4, <3>1 DEF Held, LinkTypeOK
    <3>2. CASE r # s
      BY <2>1, <3>2 DEF Held, LinkTypeOK
    <3> QED
      BY <3>1, <3>2
  <2> QED
    BY <2>3, <2>5
<1>4. CASE ErrorReported(s)
  BY <1>4 DEF LinkTypeOK, ErrorReported, Held
<1>5. CASE Close(s)
  <2>1. \A r \in Side : rx[r] \in Seq(Token)
    BY DEF LinkTypeOK
  <2>2. \A r \in Side : \/ rx'[r] = rx[r] \/ rx'[r] = <<>>
                        \/ \E n \in 0 .. Len(rx[r]) : rx'[r] = SubSeq(rx[r], 1, n)
    BY <1>5 DEF Close, LinkTypeOK, Side, Peer
  <2>3. \A r \in Side : rx'[r] \in Seq(Token) /\ Held(r)' \subseteq Held(r)
    <3> SUFFICES ASSUME NEW r \in Side
                 PROVE  rx'[r] \in Seq(Token) /\ Held(r)' \subseteq Held(r)
      OBVIOUS
    <3>1. CASE rx'[r] = rx[r]
      BY <2>1, <3>1 DEF Held
    <3>2. CASE rx'[r] = <<>>
      <4>1. rx'[r] \in Seq(Token)
        BY <3>2
      <4>2. Len(rx'[r]) = 0
        BY <3>2
      <4> QED
        BY <4>1, <4>2 DEF Held
    <3>3. CASE \E n \in 0 .. Len(rx[r]) : rx'[r] = SubSeq(rx[r], 1, n)
      <4>1. PICK n \in 0 .. Len(rx[r]) : rx'[r] = SubSeq(rx[r], 1, n)
        BY <3>3
      <4>2. Len(rx[r]) \in Nat /\ rx[r] \in Seq(Token)
        BY <2>1
      <4>3. /\ SubSeq(rx[r], 1, n) \in Seq(Token) /\ Len(SubSeq(rx[r], 1, n)) = n
            /\ \A i \in 1 .. n : SubSeq(rx[r], 1, n)[i] = rx[r][i]
        BY <4>2
      <4> QED
        BY <4>1, <4>2, <4>3 DEF Held
    <3> QED
      BY <2>2, <3>1, <3>2, <3>3
  <2>4. rx' \in [Side -> Seq(Token)]
    <3>1. \E f \in [Side -> {rx'[r] : r \in Side}] : rx' = f
      BY <1>5 DEF Close, LinkTypeOK, Side, Peer
    <3> QED
      BY <3>1, <2>3
  <2>5. LinkTypeOK'
    BY <1>5, <2>4 DEF Close, LinkTypeOK
  <2> QED
    BY <2>3, <2>5
<1>6. CASE CloseUnaccepted
  BY <1>6 DEF CloseUnaccepted, LinkTypeOK, Held, Side
<1> QED
  BY <1>1, <1>2, <1>3, <1>4, <1>5, <1>6 DEF LinkQuiet

\* Put brings the token, to the other side, and nothing else.
LEMMA PutAdds ==
    ASSUME LinkTypeOK, NEW s \in Side, NEW token \in Token, Put(s, token)
    PROVE  /\ LinkTypeOK'
           /\ Held(s)' \subseteq Held(s)
           /\ Held(Peer(s))' \subseteq Held(Peer(s)) \cup {token}
<1> DEFINE p == Peer(s)
<1>1. p \in Side /\ p # s /\ rx[p] \in Seq(Token) /\ Len(rx[p]) \in Nat
  BY DEF Peer, Side, LinkTypeOK
<1>2. rx' = rx \/ rx' = [rx EXCEPT ![p] = Append(rx[p], token)]
  BY DEF Put
<1>3. CASE rx' = rx
  BY <1>3, <1>1 DEF LinkTypeOK, Held, Put
<1>4. CASE rx' = [rx EXCEPT ![p] = Append(rx[p], token)]
  <2>1. rx'[p] = Append(rx[p], token) /\ rx'[s] = rx[s]
    BY <1>1, <1>4 DEF LinkTypeOK
  <2>2. /\ Append(rx[p], token) \in Seq(Token) /\ Len(rx'[p]) = Len(rx[p]) + 1
        /\ \A i \in 1 .. Len(rx[p]) : rx'[p][i] = rx[p][i]
        /\ rx'[p][Len(rx[p]) + 1] = token
    BY <1>1, <2>1
  <2>3. LinkTypeOK'
    BY <1>1, <1>4, <2>2 DEF LinkTypeOK, Put
  <2>4. Held(p)' \subseteq Held(p) \cup {token}
    BY <1>1, <2>2 DEF Held
  <2> QED
    BY <2>1, <2>3, <2>4 DEF Held
<1> QED
  BY <1>2, <1>3, <1>4

-----------------------------------------------------------------------------
\* What a step of the client may do, as far as the invariant goes.
ClientEffect ==
    /\ LinkTypeOK' /\ ClientTypeOK'
    /\ cmsg' = cmsg
    /\ Held("client")' \subseteq Held("client")
    /\ \A t \in Held("server")' :
          t \in Held("server") \/ t.kind = "ctx" \/ t = WrapToken(cmsg)
    /\ \/ ctok' \in {ctok, EmptyToken}
       \/ \E t \in Held("client") : ctok' \in Arrivals(t)
    /\ cpc' = "delete" => cpc = "verify" /\ ctok.kind = "mic" /\ ctok.body = cmsg
    /\ cret = "running" /\ (cret' = "ok" => cpc = "delete")
    /\ EndedWhenDone'

\* Where the client is when it takes a step.
ClientRuns == LinkTypeOK /\ ClientTypeOK /\ EndedWhenDone /\ cpc # "done"

\* The process ends.
LEMMA ClientExits ==
    ASSUME ClientRuns, NEW ret \in {"ok", "error", "killed"}, NEW resources,
           CExit(ret, resources), cctx' \in Context, ret = "ok" => cpc = "delete"
    PROVE  ClientEffect
<1>1. LinkTypeOK' /\ \A r \in Side : Held(r)' \subseteq Held(r)
  <2>1. LinkQuiet("client")
    BY DEF CExit, LinkQuiet
  <2> QED
    BY <2>1, LinkRemoves DEF ClientRuns, Side
<1>2. ClientTypeOK'
  BY DEF CExit, ClientRuns, ClientTypeOK, ClientPC
<1> QED
  BY <1>1, <1>2 DEF CExit, ClientRuns, ClientEffect, EndedWhenDone, Side

\* A step of the client that leaves the link alone, or takes a token from it.
LEMMA ClientGoesOn ==
    ASSUME ClientRuns, LinkQuiet("client"), ClientTypeOK', cmsg' = cmsg,
           cret' = cret, cpc' # "done",
           \/ ctok' \in {ctok, EmptyToken}
           \/ \E t \in Held("client") : ctok' \in Arrivals(t),
           cpc' = "delete" => cpc = "verify" /\ ctok.kind = "mic" /\ ctok.body = cmsg
    PROVE  ClientEffect
<1>1. LinkTypeOK' /\ \A r \in Side : Held(r)' \subseteq Held(r)
  BY LinkRemoves DEF ClientRuns, Side
<1> QED
  BY <1>1 DEF ClientRuns, ClientEffect, EndedWhenDone, Side

\* A call fails and main returns 1.
LEMMA ClientFails ==
    ASSUME ClientRuns, NEW resources, CFail(resources)
    PROVE  ClientEffect
BY ClientExits DEF CFail, ClientRuns, ClientTypeOK, Context

\* A signal ends the client.
LEMMA ClientIsKilled ==
    ASSUME ClientRuns, CKilled
    PROVE  ClientEffect
BY ClientExits DEF CKilled, ClientRuns, ClientTypeOK

\* read_all turns in its loop for ever.
LEMMA ClientSpins ==
    ASSUME ClientRuns, CSpin
    PROVE  ClientEffect
<1>1. ClientTypeOK'
  BY DEF CSpin, ClientRuns, ClientTypeOK, ClientPC
<1> QED
  BY <1>1, ClientGoesOn DEF CSpin, LinkQuiet

\* A library call that concerns the client alone.
LEMMA ClientLocal ==
    ASSUME ClientRuns, NEW at, NEW then \in ClientPC \ {"delete", "done"},
           NEW acquired \in SUBSET ClientResource, NEW released,
           CLocalCall(at, then, acquired, released)
    PROVE  ClientEffect
<1>1. CASE CFail(released)
  BY <1>1, ClientFails
<1>2. CASE ~CFail(released)
  <2>1. ClientTypeOK'
    BY <1>2 DEF CLocalCall, ClientRuns, ClientTypeOK
  <2> QED
    BY <1>2, <2>1, ClientGoesOn DEF CLocalCall, LinkQuiet
<1> QED
  BY <1>1, <1>2

\* A token goes to the server.
LEMMA ClientSends ==
    ASSUME ClientRuns, ClientTypeOK', cmsg' = cmsg, cret' = cret, ctok' = ctok,
           cpc' \notin {"delete", "done"},
           NEW token \in Token, token.kind = "ctx" \/ token = WrapToken(cmsg),
           Put("client", token)
    PROVE  ClientEffect
<1>1. /\ LinkTypeOK'
      /\ Held("client")' \subseteq Held("client")
      /\ Held("server")' \subseteq Held("server") \cup {token}
  BY PutAdds DEF ClientRuns, Side, Peer
<1> QED
  BY <1>1 DEF ClientRuns, ClientEffect, EndedWhenDone

\* What the client reads is one of the tokens it could read.
LEMMA ClientReadsHeld ==
    ASSUME LinkTypeOK, Take("client")
    PROVE  Head(rx["client"]) \in Held("client") \cap Token
<1>1. rx["client"] \in Seq(Token) /\ rx["client"] # <<>>
  BY DEF Take, LinkTypeOK, Side
<1>2. 1 \in 1 .. Len(rx["client"]) /\ Head(rx["client"]) = rx["client"][1]
  BY <1>1
<1> QED
  BY <1>1, <1>2 DEF Held

\* Append keeps the type of a sequence.
LEMMA AppendType ==
    ASSUME NEW S, NEW q \in Seq(S), NEW e \in S
    PROVE  Append(q, e) \in Seq(S)
OBVIOUS

\* A file is added to the token files.
LEMMA ClientRecords ==
    ASSUME ClientTypeOK, NEW dir \in {"send", "recv"}, NEW leg \in Nat, CRecord(dir, leg)
    PROVE  crec' \in Seq([dir : {"send", "recv"}, leg : Nat])
<1>1. [dir |-> dir, leg |-> leg] \in [dir : {"send", "recv"}, leg : Nat]
  OBVIOUS
<1>2. crec \in Seq([dir : {"send", "recv"}, leg : Nat])
  BY DEF ClientTypeOK
<1>3. Append(crec, [dir |-> dir, leg |-> leg]) \in Seq([dir : {"send", "recv"}, leg : Nat])
  BY <1>1, <1>2, AppendType
<1> QED
  BY <1>2, <1>3 DEF CRecord

\* From the arguments to the imported name of the service.
LEMMA ClientSetsUp ==
    ASSUME ClientRuns, CTranslate \/ CConnect \/ CNoAddressLeft \/ CImportName
    PROVE  ClientEffect
<1>1. CASE CTranslate
  <2>1. CASE CFail({})
    BY <2>1, ClientFails
  <2>2. CASE ~CFail({})
    <3>1. ClientTypeOK'
      BY <1>1, <2>2, ClientAssumption DEF CTranslate, ClientRuns, ClientTypeOK, ClientPC
    <3> QED
      BY <1>1, <2>2, <3>1, ClientGoesOn DEF CTranslate, LinkQuiet
  <2> QED
    BY <2>1, <2>2
<1>2. CASE CConnect
  <2>1. caddrs' \in Seq({"server", "elsewhere"})
    BY <1>2 DEF CConnect, ClientRuns, ClientTypeOK
  <2>2. ClientTypeOK'
    BY <1>2, <2>1 DEF CConnect, ClientRuns, ClientTypeOK, ClientPC
  <2> QED
    BY <1>2, <2>2, ClientGoesOn DEF CConnect, LinkQuiet, ClientRuns
<1>3. CASE CNoAddressLeft
  BY <1>3, ClientFails DEF CNoAddressLeft
<1>4. CASE CImportName
  BY <1>4, ClientLocal DEF CImportName, ClientPC, ClientResource
<1> QED
  BY <1>1, <1>2, <1>3, <1>4

\* The rounds of establish_context.
LEMMA ClientEstablishes ==
    ASSUME ClientRuns, CInitSecContext \/ CSendToken \/ CRecvToken
    PROVE  ClientEffect
<1>1. CASE CInitSecContext
  <2>1. CASE CFail({"recv_tok", "target_name"})
    BY <2>1, ClientFails
  <2>2. CASE ~CFail({"recv_tok", "target_name"})
    <3>1. crec' \in Seq([dir : {"send", "recv"}, leg : Nat])
      <4>1. \/ \E leg \in Nat : CRecord("send", leg)
            \/ crec' = crec
        BY <1>1, <2>2 DEF CInitSecContext, ClientRuns, ClientTypeOK
      <4> QED
        BY <4>1, ClientRecords DEF ClientRuns, ClientTypeOK
    <3>2. cleg' \in Nat /\ ctok' = EmptyToken /\ cctx' \in Context
      BY <1>1, <2>2 DEF CInitSecContext, ContextAfter, Context, ClientRuns, ClientTypeOK
    <3>3. cheld' \subseteq ClientResource
      BY <1>1, <2>2 DEF CInitSecContext, ClientRuns, ClientTypeOK, ClientResource
    <3>4. ClientTypeOK'
      BY <1>1, <2>2, <3>1, <3>2, <3>3, TokenTypes
      DEF CInitSecContext, ClientRuns, ClientTypeOK, ClientPC
    <3> QED
      BY <1>1, <2>2, <3>2, <3>4, ClientGoesOn DEF CInitSecContext, LinkQuiet
  <2> QED
    BY <2>1, <2>2
<1>2. CASE CSendToken
  <2>1. CASE Put("client", CtxToken(cleg)) /\ cpc' \in {"inquire", "recv"}
    <3>1. CtxToken(cleg) \in Token /\ CtxToken(cleg).kind = "ctx"
      BY TokenTypes DEF CtxToken, ClientRuns, ClientTypeOK
    <3>2. CASE CFail({"target_name", "send_tok", "context"}) \/ CKilled
      BY <3>2, ClientFails, ClientIsKilled
    <3>3. CASE ~(CFail({"target_name", "send_tok", "context"}) \/ CKilled)
      <4>1. ClientTypeOK'
        BY <1>2, <3>3 DEF CSendToken, ClientRuns, ClientTypeOK, ClientPC
      <4> QED
        BY <1>2, <2>1, <3>1, <3>3, <4>1, ClientSends DEF CSendToken
    <3> QED
      BY <3>2, <3>3
  <2>2. CASE CFail({"target_name", "send_tok", "context"}) \/ CKilled
    BY <2>2, ClientFails, ClientIsKilled
  <2> QED
    BY <1>2, <2>1, <2>2 DEF CSendToken
<1>3. CASE CRecvToken
  <2>1. CASE CFail({"target_name"}) \/ CSpin
    BY <2>1, ClientFails, ClientSpins
  <2>2. CASE ~(CFail({"target_name"}) \/ CSpin)
    <3>1. Take("client") /\ ctok' \in Arrivals(Head(rx["client"]))
      BY <1>3, <2>2 DEF CRecvToken
    <3>2. Head(rx["client"]) \in Held("client") \cap Token
      BY <3>1, ClientReadsHeld DEF ClientRuns
    <3>3. ctok' \in Token
      BY <3>1, <3>2, TokenTypes
    <3>4. crec' \in Seq([dir : {"send", "recv"}, leg : Nat])
      <4>1. ctok'.leg \in Nat /\ CRecord("recv", ctok'.leg)
        BY <1>3, <2>2, <3>3 DEF CRecvToken, Token
      <4> QED
        BY <4>1, ClientRecords DEF ClientRuns
    <3>5. ClientTypeOK'
      BY <1>3, <2>2, <3>3, <3>4
      DEF CRecvToken, ClientRuns, ClientTypeOK, ClientPC, ClientResource
    <3> QED
      BY <1>3, <2>2, <3>1, <3>2, <3>5, ClientGoesOn DEF CRecvToken, LinkQuiet
  <2> QED
    BY <2>1, <2>2
<1> QED
  BY <1>1, <1>2, <1>3

\* What call_server asks of the context before it sends the message.
LEMMA ClientInspectsContext ==
    ASSUME ClientRuns,
           \/ CInquireContext \/ CWrapSizeLimitIntegrity \/ CWrapSizeLimitConfidentiality
           \/ CDisplaySourceName \/ CDisplayTargetName
    PROVE  ClientEffect
<1>1. CASE \/ CInquireContext \/ CWrapSizeLimitIntegrity
           \/ CWrapSizeLimitConfidentiality \/ CDisplaySourceName
  BY <1>1, ClientLocal
  DEF CInquireContext, CWrapSizeLimitIntegrity, CWrapSizeLimitConfidentiality,
      CDisplaySourceName, ClientPC, ClientResource
<1>2. CASE CDisplayTargetName
  <2>1. CASE CFail(ContextAndNames \cup {"sname"})
    BY <2>1, ClientFails
  <2>2. CASE ~CFail(ContextAndNames \cup {"sname"})
    <3>1. ClientTypeOK'
      BY <1>2, <2>2 DEF CDisplayTargetName, ClientRuns, ClientTypeOK, ClientPC
    <3> QED
      BY <1>2, <2>2, <3>1, ClientGoesOn DEF CDisplayTargetName, LinkQuiet
  <2> QED
    BY <2>1, <2>2
<1> QED
  BY <1>1, <1>2

\* The message, the MIC and the end.
LEMMA ClientExchanges ==
    ASSUME ClientRuns, CWrap \/ CSendMessage \/ CRecvMic \/ CVerifyMic \/ CDeleteContext
    PROVE  ClientEffect
<1>1. CASE CWrap
  BY <1>1, ClientLocal DEF CWrap, ClientPC, ClientResource
<1>2. CASE CSendMessage
  <2>1. WrapToken(cmsg) \in Token
    BY TokenTypes DEF ClientRuns, ClientTypeOK
  <2>2. CASE CFail({"out_buffer"}) \/ CKilled
    BY <2>2, ClientFails, ClientIsKilled
  <2>3. CASE ~(CFail({"out_buffer"}) \/ CKilled)
    <3>1. ClientTypeOK'
      BY <1>2, <2>3 DEF CSendMessage, ClientRuns, ClientTypeOK, ClientPC
    <3> QED
      BY <1>2, <2>1, <2>3, <3>1, ClientSends DEF CSendMessage
  <2> QED
    BY <2>2, <2>3
<1>3. CASE CRecvMic
  <2>1. CASE CFail({"context"}) \/ CSpin
    BY <2>1, ClientFails, ClientSpins
  <2>2. CASE ~(CFail({"context"}) \/ CSpin)
    <3>1. Take("client") /\ ctok' \in Arrivals(Head(rx["client"]))
      BY <1>3, <2>2 DEF CRecvMic
    <3>2. Head(rx["client"]) \in Held("client") \cap Token
      BY <3>1, ClientReadsHeld DEF ClientRuns
    <3>3. ctok' \in Token
      BY <3>1, <3>2, TokenTypes
    <3>4. ClientTypeOK'
      BY <1>3, <2>2, <3>3
      DEF CRecvMic, ClientRuns, ClientTypeOK, ClientPC, ClientResource
    <3> QED
      BY <1>3, <2>2, <3>1, <3>2, <3>4, ClientGoesOn DEF CRecvMic, LinkQuiet
  <2> QED
    BY <2>1, <2>2
<1>4. CASE CVerifyMic
  <2>1. CASE CFail({})
    BY <2>1, ClientFails
  <2>2. CASE ~CFail({})
    <3>1. ClientTypeOK'
      BY <1>4, <2>2 DEF CVerifyMic, ClientRuns, ClientTypeOK, ClientPC
    <3> QED
      BY <1>4, <2>2, <3>1, ClientGoesOn DEF CVerifyMic, VerifiesMic, LinkQuiet
  <2> QED
    BY <2>1, <2>2
<1>5. CASE CDeleteContext
  BY <1>5, ClientExits, ClientFails DEF CDeleteContext, Context
<1> QED
  BY <1>1, <1>2, <1>3, <1>4, <1>5

\* All the client can do: no step forges a token, changes the message or reports
\* success without a verified MIC.
LEMMA ClientEffects ==
    ASSUME LinkTypeOK, ClientTypeOK, EndedWhenDone, ClientStep \/ ClientKill
    PROVE  ClientEffect
<1>1. CASE CTranslate \/ CConnect \/ CNoAddressLeft \/ CImportName
  BY <1>1, ClientSetsUp
  DEF ClientRuns, CTranslate, CConnect, CNoAddressLeft, CImportName, CLocalCall
<1>2. CASE CInitSecContext \/ CSendToken \/ CRecvToken
  BY <1>2, ClientEstablishes DEF ClientRuns, CInitSecContext, CSendToken, CRecvToken
<1>3. CASE \/ CInquireContext \/ CWrapSizeLimitIntegrity \/ CWrapSizeLimitConfidentiality
           \/ CDisplaySourceName \/ CDisplayTargetName
  BY <1>3, ClientInspectsContext
  DEF ClientRuns, CInquireContext, CWrapSizeLimitIntegrity,
      CWrapSizeLimitConfidentiality, CDisplaySourceName, CDisplayTargetName, CLocalCall
<1>4. CASE CWrap \/ CSendMessage \/ CRecvMic \/ CVerifyMic \/ CDeleteContext
  BY <1>4, ClientExchanges
  DEF ClientRuns, CWrap, CSendMessage, CRecvMic, CVerifyMic, CDeleteContext, CLocalCall
<1>5. CASE ClientKill
  BY <1>5, ClientIsKilled DEF ClientRuns, ClientKill
<1> QED
  BY <1>1, <1>2, <1>3, <1>4, <1>5 DEF ClientStep

-----------------------------------------------------------------------------
\* What a step of the server may do, as far as the invariant goes.
ServerEffect ==
    /\ LinkTypeOK' /\ ServerTypeOK'
    /\ Held("server")' \subseteq Held("server")
    /\ \A t \in Held("client")' :
          t \in Held("client") \/ t.kind = "ctx" \/ (spc = "send_mic" /\ t = stok)
    /\ \/ stok' \in {stok, EmptyToken, MicToken(smsg)}
       \/ \E t \in Held("server") : stok' \in Arrivals(t)
    /\ MicMade => MicMade' /\ smsg' = smsg
    /\ spc' = "send_mic" => stok' \in {EmptyToken, MicToken(smsg)} /\ smsg' = smsg
    /\ \/ smsg' = smsg /\ (UnwrapDone => UnwrapDone')
       \/ spc = "unwrap" /\ stok.kind = "wrap" /\ smsg' = stok.body /\ spc' = "get_mic"
    /\ HandleValid'

\* Where the server is when it takes a step.
ServerRuns == LinkTypeOK /\ ServerTypeOK /\ HandleValid /\ spc # "done"

\* The process ends.
LEMMA ServerExits ==
    ASSUME ServerRuns, NEW ret \in {"ok", "error", "killed"}, NEW resources,
           SExit(ret, resources),
           shandle' \in Context \cup {"dangling"}, slocal' \in Context
    PROVE  ServerEffect
<1>1. LinkTypeOK' /\ \A r \in Side : Held(r)' \subseteq Held(r)
  <2>1. LinkQuiet("server")
    BY DEF SExit, LinkQuiet
  <2> QED
    BY <2>1, LinkRemoves DEF ServerRuns, Side
<1>2. ServerTypeOK'
  BY DEF SExit, ServerRuns, ServerTypeOK, ServerPC
<1> QED
  BY <1>1, <1>2 DEF SExit, ServerEffect, MicMade, UnwrapDone, HandleValid, Side

\* A call fails and main returns 1.
LEMMA ServerFails ==
    ASSUME ServerRuns, NEW resources, SFail(resources)
    PROVE  ServerEffect
BY ServerExits DEF SFail, ServerRuns, ServerTypeOK

\* A signal ends the server.
LEMMA ServerIsKilled ==
    ASSUME ServerRuns, SKilled
    PROVE  ServerEffect
BY ServerExits DEF SKilled, ServerRuns, ServerTypeOK

\* A step of the server, before it unwraps the message, that leaves the link
\* alone or takes a token from it.
LEMMA ServerGoesOn ==
    ASSUME ServerRuns, LinkQuiet("server"), ServerTypeOK', smsg' = smsg,
           ~UnwrapDone, ~MicMade', shandle' # "dangling",
           \/ stok' \in {stok, EmptyToken}
           \/ \E t \in Held("server") : stok' \in Arrivals(t)
    PROVE  ServerEffect
<1>1. LinkTypeOK' /\ \A r \in Side : Held(r)' \subseteq Held(r)
  BY LinkRemoves DEF ServerRuns, Side
<1> QED
  BY <1>1 DEF ServerEffect, UnwrapDone, MicMade, HandleValid, Side

\* read_all turns in its loop for ever.
LEMMA ServerSpins ==
    ASSUME ServerRuns, SSpin, ~UnwrapDone
    PROVE  ServerEffect
<1>1. ServerTypeOK' /\ ~MicMade'
  BY DEF SSpin, ServerRuns, ServerTypeOK, ServerPC, MicMade
<1> QED
  BY <1>1, ServerGoesOn DEF SSpin, LinkQuiet, ServerRuns, HandleValid

\* What the server reads is one of the tokens it could read.
LEMMA ServerReadsHeld ==
    ASSUME LinkTypeOK, Take("server")
    PROVE  Head(rx["server"]) \in Held("server") \cap Token
<1>1. rx["server"] \in Seq(Token) /\ rx["server"] # <<>>
  BY DEF Take, LinkTypeOK, Side
<1>2. 1 \in 1 .. Len(rx["server"]) /\ Head(rx["server"]) = rx["server"][1]
  BY <1>1
<1> QED
  BY <1>1, <1>2 DEF Held

\* A file is added to the token files.
LEMMA ServerRecords ==
    ASSUME ServerTypeOK, NEW dir \in {"send", "recv"}, NEW leg \in Nat, SRecord(dir, leg)
    PROVE  srec' \in Seq([dir : {"send", "recv"}, leg : Nat])
<1>1. [dir |-> dir, leg |-> leg] \in [dir : {"send", "recv"}, leg : Nat]
  OBVIOUS
<1>2. srec \in Seq([dir : {"send", "recv"}, leg : Nat])
  BY DEF ServerTypeOK
<1>3. Append(srec, [dir |-> dir, leg |-> leg]) \in Seq([dir : {"send", "recv"}, leg : Nat])
  BY <1>1, <1>2, AppendType
<1> QED
  BY <1>2, <1>3 DEF SRecord

\* From the credentials to the accepted connection, and gss_display_name.
LEMMA ServerSetsUp ==
    ASSUME ServerRuns, SAcquireCreds \/ SBind \/ SListen \/ SAccept \/ SDisplayName
    PROVE  ServerEffect
<1>1. CASE SFail({})
  BY <1>1, ServerFails
<1>2. CASE ~SFail({})
  <2>1. shandle # "dangling" /\ shandle' = shandle
    BY <1>2 DEF SAcquireCreds, SBind, SListen, SAccept, SDisplayName,
                ServerRuns, HandleValid, UnwrapDone, MicMade
  <2>2. ServerTypeOK'
    BY <1>2, <2>1 DEF SAcquireCreds, SBind, SListen, SAccept, SDisplayName,
                ServerRuns, ServerTypeOK, ServerPC, ServerResource
  <2> QED
    BY <1>2, <2>1, <2>2, ServerGoesOn
    DEF SAcquireCreds, SBind, SListen, SAccept, SDisplayName, LinkQuiet, UnwrapDone, MicMade
<1> QED
  BY <1>1, <1>2

\* The rounds of establish_context.
LEMMA ServerEstablishes ==
    ASSUME ServerRuns, SRecvToken \/ SAcceptSecContext \/ SSendToken
    PROVE  ServerEffect
<1>1. ~UnwrapDone /\ shandle # "dangling"
  BY DEF SRecvToken, SAcceptSecContext, SSendToken, ServerRuns, HandleValid, UnwrapDone, MicMade
<1>2. CASE SRecvToken
  <2>1. CASE SFail({}) \/ SSpin
    BY <1>1, <2>1, ServerFails, ServerSpins
  <2>2. CASE ~(SFail({}) \/ SSpin)
    <3>1. Take("server") /\ stok' \in Arrivals(Head(rx["server"]))
      BY <1>2, <2>2 DEF SRecvToken
    <3>2. Head(rx["server"]) \in Held("server") \cap Token
      BY <3>1, ServerReadsHeld DEF ServerRuns
    <3>3. stok' \in Token
      BY <3>1, <3>2, TokenTypes
    <3>4. srec' \in Seq([dir : {"send", "recv"}, leg : Nat])
      <4>1. stok'.leg \in Nat /\ SRecord("recv", stok'.leg)
        BY <1>2, <2>2, <3>3 DEF SRecvToken, Token
      <4> QED
        BY <4>1, ServerRecords DEF ServerRuns
    <3>5. ServerTypeOK'
      BY <1>2, <2>2, <3>3, <3>4
      DEF SRecvToken, ServerRuns, ServerTypeOK, ServerPC, ServerResource
    <3> QED
      BY <1>1, <1>2, <2>2, <3>1, <3>2, <3>5, ServerGoesOn DEF SRecvToken, LinkQuiet, MicMade
  <2> QED
    BY <2>1, <2>2
<1>3. CASE SAcceptSecContext
  <2>1. CASE SExit("error", {"recv_tok"}) /\ shandle' = HandleGiven /\ UNCHANGED slocal
    BY <2>1, ServerExits DEF ServerRuns, ServerTypeOK, HandleGiven, Context
  <2>2. CASE ~(SExit("error", {"recv_tok"}) /\ shandle' = HandleGiven /\ UNCHANGED slocal)
    <3>1. LegOf(HandleGiven) \in Nat
      BY DEF LegOf, ServerRuns, ServerTypeOK
    <3>2. srec' \in Seq([dir : {"send", "recv"}, leg : Nat])
      <4>1. \/ \E leg \in Nat : SRecord("send", leg)
            \/ srec' = srec
        BY <1>3, <2>2, <3>1 DEF SAcceptSecContext
      <4> QED
        BY <4>1, ServerRecords DEF ServerRuns, ServerTypeOK
    <3>3. shandle' \in Context /\ sleg' \in Nat /\ smaj' \in {"complete", "continue"}
      BY <1>3, <2>2, <3>1 DEF SAcceptSecContext, ContextAfter, Context
    <3>4. sheld' \subseteq ServerResource /\ spc' \in {"send", "display"}
      BY <1>3, <2>2 DEF SAcceptSecContext, ServerRuns, ServerTypeOK, ServerResource
    <3>5. UNCHANGED <<linkVars, slocal, stok, smsg, sret>>
      BY <1>3, <2>2 DEF SAcceptSecContext
    <3>6. ServerTypeOK'
      BY <3>2, <3>3, <3>4, <3>5 DEF ServerRuns, ServerTypeOK, ServerPC
    <3> QED
      BY <1>1, <3>3, <3>4, <3>5, <3>6, ServerGoesOn DEF LinkQuiet, Context, MicMade
  <2> QED
    BY <2>1, <2>2
<1>4. CASE SSendToken
  <2>1. CASE SKilled
    BY <2>1, ServerIsKilled
  <2>2. CASE ~SKilled
    <3>1. /\ shandle' \in {shandle, "none"} /\ spc' \in {"display", "recv"}
          /\ UNCHANGED <<smaj, slocal, sleg, stok, smsg, srec, sret>>
      BY <1>4, <2>2 DEF SSendToken, AfterRound
    <3>2. ServerTypeOK'
      BY <1>4, <2>2, <3>1 DEF SSendToken, ServerRuns, ServerTypeOK, ServerPC, Context
    <3>3. CASE Put("server", CtxToken(sleg + 1))
      <4>1. CtxToken(sleg + 1) \in Token /\ CtxToken(sleg + 1).kind = "ctx"
        BY TokenTypes DEF CtxToken, ServerRuns, ServerTypeOK
      <4>2. /\ LinkTypeOK'
            /\ Held("server")' \subseteq Held("server")
            /\ Held("client")' \subseteq Held("client") \cup {CtxToken(sleg + 1)}
        BY <3>3, <4>1, PutAdds DEF ServerRuns, Side, Peer
      <4> QED
        BY <1>1, <3>1, <3>2, <4>1, <4>2
        DEF ServerEffect, UnwrapDone, MicMade, HandleValid
    <3>4. CASE ErrorReported("server")
      BY <1>1, <3>1, <3>2, <3>4, ServerGoesOn DEF LinkQuiet, MicMade
    <3> QED
      BY <1>4, <2>2, <3>3, <3>4 DEF SSendToken
  <2> QED
    BY <2>1, <2>2
<1> QED
  BY <1>2, <1>3, <1>4

\* The server fails after sign_message deleted its copy of the context.
LEMMA ServerExitsDeleting ==
    ASSUME ServerRuns, NEW ret \in {"error", "killed"}, NEW resources,
           SExit(ret, resources), DeleteLocal
    PROVE  ServerEffect
BY ServerExits DEF DeleteLocal, ServerRuns, ServerTypeOK, Context

\* sign_message receives the wrapped message ...
LEMMA ServerReceivesMessage ==
    ASSUME ServerRuns, SRecvMessage
    PROVE  ServerEffect
<1>1. ~UnwrapDone /\ shandle # "dangling"
  BY DEF SRecvMessage, ServerRuns, HandleValid, UnwrapDone, MicMade
<1>2. CASE SExit("error", {"context"}) /\ DeleteLocal
  BY <1>2, ServerExitsDeleting
<1>3. CASE SSpin
  BY <1>1, <1>3, ServerSpins
<1>4. CASE ~SSpin /\ ~(SExit("error", {"context"}) /\ DeleteLocal)
  <2>1. Take("server") /\ stok' \in Arrivals(Head(rx["server"]))
    BY <1>4 DEF SRecvMessage
  <2>2. Head(rx["server"]) \in Held("server") \cap Token
    BY <2>1, ServerReadsHeld DEF ServerRuns
  <2>3. stok' \in Token
    BY <2>1, <2>2, TokenTypes
  <2>4. ServerTypeOK'
    BY <1>4, <2>3 DEF SRecvMessage, ServerRuns, ServerTypeOK, ServerPC, ServerResource
  <2> QED
    BY <1>1, <1>4, <2>1, <2>2, <2>4, ServerGoesOn DEF SRecvMessage, LinkQuiet, MicMade
<1> QED
  BY <1>2, <1>3, <1>4

\* ... unwraps it ...
LEMMA ServerUnwraps ==
    ASSUME ServerRuns, SUnwrap
    PROVE  ServerEffect
<1>1. CASE SExit("killed", {}) /\ DeleteLocal
  BY <1>1, ServerExitsDeleting
<1>2. CASE ~(SExit("killed", {}) /\ DeleteLocal)
  <2>1. /\ UNCHANGED <<linkVars, stok>>
        /\ spc = "unwrap" /\ spc' = "get_mic"
        /\ \/ smsg' = smsg
           \/ stok.kind = "wrap" /\ smsg' = stok.body
    BY <1>2 DEF SUnwrap, Unwraps
  <2>2. stok.body \in Messages \cup {NoMessage}
    BY DEF ServerRuns, ServerTypeOK, Token
  <2>3. ServerTypeOK'
    BY <1>2, <2>1, <2>2
    DEF SUnwrap, DeleteLocal, ServerRuns, ServerTypeOK, ServerPC, ServerResource, Context
  <2>4. LinkTypeOK' /\ \A r \in Side : Held(r)' \subseteq Held(r)
    BY <2>1, LinkRemoves DEF LinkQuiet, ServerRuns, Side
  <2> QED
    BY <2>1, <2>3, <2>4 DEF ServerEffect, UnwrapDone, MicMade, HandleValid, Side
<1> QED
  BY <1>1, <1>2

\* ... makes a MIC for it ...
LEMMA ServerSigns ==
    ASSUME ServerRuns, SGetMic
    PROVE  ServerEffect
<1>1. /\ UNCHANGED <<linkVars, smsg>>
      /\ spc = "get_mic" /\ spc' = "send_mic"
      /\ stok' \in {EmptyToken, MicToken(smsg)}
  BY DEF SGetMic
<1>2. stok' \in Token
  BY <1>1, TokenTypes DEF ServerRuns, ServerTypeOK
<1>3. ServerTypeOK'
  BY <1>1, <1>2
  DEF SGetMic, DeleteLocal, ServerRuns, ServerTypeOK, ServerPC, ServerResource, Context
<1>4. LinkTypeOK' /\ \A r \in Side : Held(r)' \subseteq Held(r)
  BY <1>1, LinkRemoves DEF LinkQuiet, ServerRuns, Side
<1> QED
  BY <1>1, <1>3, <1>4 DEF ServerEffect, UnwrapDone, MicMade, HandleValid, Side

\* ... and sends the MIC.
LEMMA ServerSendsMic ==
    ASSUME ServerRuns, SSendMic
    PROVE  ServerEffect
<1>1. CASE SKilled
  BY <1>1, ServerIsKilled
<1>2. CASE ~SKilled
  <2>1. spc = "send_mic" /\ spc' = "delete" /\ UNCHANGED <<stok, smsg>>
    BY <1>2 DEF SSendMic
  <2>2. ServerTypeOK'
    BY <1>2 DEF SSendMic, DeleteLocal, ServerRuns, ServerTypeOK, ServerPC, Context
  <2>3. CASE Put("server", stok)
    <3>1. stok \in Token
      BY DEF ServerRuns, ServerTypeOK
    <3>2. /\ LinkTypeOK'
          /\ Held("server")' \subseteq Held("server")
          /\ Held("client")' \subseteq Held("client") \cup {stok}
      BY <2>3, <3>1, PutAdds DEF ServerRuns, Side, Peer
    <3> QED
      BY <2>1, <2>2, <3>2 DEF ServerEffect, UnwrapDone, MicMade, HandleValid
  <2>4. CASE ErrorReported("server")
    <3>1. LinkTypeOK' /\ \A r \in Side : Held(r)' \subseteq Held(r)
      BY <2>4, LinkRemoves DEF LinkQuiet, ServerRuns, Side
    <3> QED
      BY <2>1, <2>2, <3>1 DEF ServerEffect, UnwrapDone, MicMade, HandleValid, Side
  <2> QED
    BY <1>2, <2>3, <2>4 DEF SSendMic
<1> QED
  BY <1>1, <1>2

\* All the server can do: a MIC goes out only after the unwrapping, and after it
\* the unwrapped message stays.
LEMMA ServerEffects ==
    ASSUME LinkTypeOK, ServerTypeOK, HandleValid, ServerStep \/ ServerKill
    PROVE  ServerEffect
<1>1. CASE SAcquireCreds \/ SBind \/ SListen \/ SAccept \/ SDisplayName
  BY <1>1, ServerSetsUp
  DEF ServerRuns, SAcquireCreds, SBind, SListen, SAccept, SDisplayName
<1>2. CASE SRecvToken \/ SAcceptSecContext \/ SSendToken
  BY <1>2, ServerEstablishes DEF ServerRuns, SRecvToken, SAcceptSecContext, SSendToken
<1>3. CASE SRecvMessage \/ SUnwrap \/ SGetMic \/ SSendMic
  BY <1>3, ServerReceivesMessage, ServerUnwraps, ServerSigns, ServerSendsMic
  DEF ServerRuns, SRecvMessage, SUnwrap, SGetMic, SSendMic
<1>4. CASE SDeleteContext
  BY <1>4, ServerExits, ServerIsKilled
  DEF SDeleteContext, ServerRuns, ServerTypeOK, Context
<1>5. CASE ServerKill
  BY <1>5, ServerIsKilled DEF ServerRuns, ServerKill
<1> QED
  BY <1>1, <1>2, <1>3, <1>4, <1>5 DEF ServerStep

-----------------------------------------------------------------------------
\* Both processes start with nothing sent, unwrapped or confirmed.
LEMMA InitInv == Init => IInv
<1> SUFFICES ASSUME Init PROVE IInv
  OBVIOUS
<1> USE DEF Init, LinkInit, ClientInit, ServerInit
<1>1. LinkTypeOK
  <2>1. <<>> \in Seq(Token)
    OBVIOUS
  <2> QED
    BY <2>1 DEF LinkTypeOK
<1>2. ClientTypeOK
  BY TokenTypes DEF ClientTypeOK, ClientPC, Context
<1>3. ServerTypeOK
  BY TokenTypes DEF ServerTypeOK, ServerPC, Context
<1>4. Held("client") = {} /\ Held("server") = {}
  BY DEF Held, Side
<1> QED
  BY <1>1, <1>2, <1>3, <1>4
  DEF IInv, TypeOK, LinkTypeOK, HandleValid, UndeliveredBeforeUnwrap, WrapsCarryMessage,
      MicsSignUnwrapped, VerifiedMeansDelivered, EndedWhenDone, EmptyToken,
      Wrapped, Signed, UnwrapDone, MicMade

\* No step of the client breaks the invariant.
LEMMA ClientPreserves ==
    ASSUME IInv, Client
    PROVE  IInv'
<1>1. ClientEffect /\ UNCHANGED <<legs, serverVars>>
  BY ClientEffects DEF IInv, TypeOK, LinkTypeOK, Client
<1>2. UNCHANGED <<spc, smsg, shandle, stok, MicMade, UnwrapDone>>
  BY <1>1 DEF serverVars, MicMade, UnwrapDone
<1>3. TypeOK'
  BY <1>1 DEF ClientEffect, IInv, TypeOK, LinkTypeOK, serverVars, ServerTypeOK
<1>4. WrapsCarryMessage'
  BY <1>1, <1>2 DEF ClientEffect, IInv, WrapsCarryMessage, Wrapped, WrapToken
<1>5. MicsSignUnwrapped'
  <2>1. \A t : Signed(t) => Signed(t)'
    BY <1>2 DEF Signed
  <2>2. \A t \in Held("client") : \A u \in Arrivals(t) : u.kind = t.kind /\ u.body = t.body
    BY TokenTypes DEF IInv, TypeOK, Held, Side
  <2>3. Signed(ctok)'
    BY <1>1, <1>2, <2>2 DEF ClientEffect, IInv, MicsSignUnwrapped, Signed, EmptyToken
  <2> QED
    BY <1>1, <1>2, <2>1, <2>3 DEF ClientEffect, IInv, MicsSignUnwrapped, Signed
<1>6. VerifiedMeansDelivered'
  BY <1>1, <1>2 DEF ClientEffect, IInv, VerifiedMeansDelivered, MicsSignUnwrapped, Signed
<1> QED
  BY <1>1, <1>2, <1>3, <1>4, <1>5, <1>6
  DEF ClientEffect, IInv, HandleValid, UndeliveredBeforeUnwrap

\* No step of the server breaks the invariant.
LEMMA ServerPreserves ==
    ASSUME IInv, Server
    PROVE  IInv'
<1>1. ServerEffect /\ UNCHANGED <<legs, clientVars>>
  BY ServerEffects DEF IInv, TypeOK, LinkTypeOK, Server
<1>2. UNCHANGED <<cpc, cmsg, ctok, cret>>
  BY <1>1 DEF clientVars
<1>3. TypeOK'
  BY <1>1 DEF ServerEffect, IInv, TypeOK, LinkTypeOK, clientVars, ClientTypeOK
<1>4. UndeliveredBeforeUnwrap'
  BY <1>1 DEF ServerEffect, IInv, UndeliveredBeforeUnwrap, UnwrapDone
<1>5. WrapsCarryMessage'
  <2>1. \A t \in Held("server") : \A u \in Arrivals(t) : u.kind = t.kind /\ u.body = t.body
    BY TokenTypes DEF IInv, TypeOK, Held, Side
  <2>2. Wrapped(stok)'
    BY <1>1, <1>2, <2>1
    DEF ServerEffect, IInv, WrapsCarryMessage, Wrapped, EmptyToken, MicToken
  <2> QED
    BY <1>1, <1>2, <2>2 DEF ServerEffect, IInv, WrapsCarryMessage, Wrapped
<1>6. MicsSignUnwrapped'
  <2>1. \A t : Signed(t) => Signed(t)'
    BY <1>1 DEF ServerEffect, Signed
  <2>2. spc' = "send_mic" => Signed(stok)'
    BY <1>1 DEF ServerEffect, Signed, EmptyToken, MicToken, MicMade
  <2>3. \A t \in Held("client")' : Signed(t) \/ t.kind = "ctx"
    BY <1>1 DEF ServerEffect, IInv, MicsSignUnwrapped
  <2> QED
    BY <1>2, <2>1, <2>2, <2>3 DEF IInv, MicsSignUnwrapped, Signed
<1>7. VerifiedMeansDelivered'
  BY <1>1, <1>2 DEF ServerEffect, IInv, VerifiedMeansDelivered
<1> QED
  BY <1>1, <1>2, <1>3, <1>4, <1>5, <1>6, <1>7 DEF ServerEffect, IInv, EndedWhenDone

\* A step that changes nothing keeps the invariant.
LEMMA StutterPreserves ==
    ASSUME IInv, UNCHANGED vars
    PROVE  IInv'
BY DEF vars, linkVars, clientVars, serverVars, IInv, TypeOK, ClientTypeOK, ServerTypeOK,
       HandleValid, UndeliveredBeforeUnwrap, WrapsCarryMessage, MicsSignUnwrapped,
       VerifiedMeansDelivered, EndedWhenDone, Wrapped, Signed, UnwrapDone, MicMade, Held

\* The invariant of the session.
THEOREM SessionInvariant == Spec => []IInv
<1>1. IInv /\ [Next]_vars => IInv'
  BY ClientPreserves, ServerPreserves, StutterPreserves DEF Next, Quiet
<1> QED
  BY <1>1, InitInv, PTL DEF Spec

\* Every variable has its type, in every reachable state.
THEOREM SessionTypes == Spec => []TypeOK
<1>1. IInv => TypeOK
  BY DEF IInv
<1> QED
  BY <1>1, SessionInvariant, PTL

\* A client that reports success talked to a server that unwrapped exactly the
\* client's message, whatever failed in between: main of client.c returns 0
\* only after gss_verify_mic accepted the server's MIC for that message.
THEOREM ConfirmedMessageWasDelivered == Spec => []ConfirmedDelivery
<1>1. IInv => ConfirmedDelivery
  BY DEF IInv, VerifiedMeansDelivered, ConfirmedDelivery
<1> QED
  BY <1>1, SessionInvariant, PTL

-----------------------------------------------------------------------------
\* client.c and server.c together implement MsgDelivery: the message arrives at
\* most once and as it was sent, and success is reported only afterwards.
THEOREM SessionImplementsDelivery == Spec => DeliverySpec
<1> USE DEF Delivery!Init, Delivery!Next, Delivery!Deliver, Delivery!Confirm, Delivery!vars
<1>1. Init => Delivery!Init
  BY DEF Init, ClientInit, ServerInit
<1>2. IInv /\ [Next]_vars => [Delivery!Next]_Delivery!vars
  <2> SUFFICES ASSUME IInv, [Next]_vars
               PROVE  [Delivery!Next]_Delivery!vars
    OBVIOUS
  <2>1. CASE Client
    <3>1. ClientEffect /\ smsg' = smsg
      BY <2>1, ClientEffects DEF IInv, TypeOK, LinkTypeOK, Client, serverVars
    <3>2. CASE cret' = "ok" /\ cret # "ok"
      BY <3>1, <3>2 DEF ClientEffect, IInv, VerifiedMeansDelivered
    <3>3. CASE (cret' = "ok") = (cret = "ok")
      BY <3>1, <3>3 DEF ClientEffect
    <3>4. cret = "ok" => cret' = "ok"
      BY <3>1 DEF ClientEffect
    <3> QED
      BY <3>2, <3>3, <3>4
  <2>2. CASE Server
    <3>1. ServerEffect /\ cmsg' = cmsg /\ cret' = cret
      BY <2>2, ServerEffects DEF IInv, TypeOK, LinkTypeOK, Server, clientVars
    <3>2. CASE smsg' = smsg
      BY <3>1, <3>2
    <3>3. CASE spc = "unwrap" /\ stok.kind = "wrap" /\ smsg' = stok.body
      <4>1. smsg = NoMessage /\ smsg' = cmsg
        BY <3>3 DEF IInv, UndeliveredBeforeUnwrap, UnwrapDone, MicMade,
                    WrapsCarryMessage, Wrapped
      <4> QED
        BY <3>1, <4>1
    <3> QED
      BY <3>1, <3>2, <3>3 DEF ServerEffect
  <2>3. CASE UNCHANGED vars
    BY <2>3 DEF vars, clientVars, serverVars
  <2> QED
    BY <2>1, <2>2, <2>3 DEF Next, Quiet
<1> QED
  BY <1>1, <1>2, SessionInvariant, PTL DEF Spec, DeliverySpec, Delivery!Spec
=============================================================================
