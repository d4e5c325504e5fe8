--------------------------- MODULE GssOrderProofs ---------------------------
(***************************************************************************)
(* In which order the tokens of application/gssapi go between the client   *)
(* and the server, for every mechanism, every set of messages and          *)
(* addresses, and every fault: what each side knows of the other when it   *)
(* has read a token, what the token files of the two sides have in common, *)
(* and that the two never wait for each other.                             *)
(*                                                                         *)
(* establish_context of server.c gives gss_accept_sec_context no context   *)
(* in every round, so that it accepts the first token only.  Of a          *)
(* mechanism of three tokens or more the server sends the second and       *)
(* refuses the third.  The invariant below rests on that.                  *)
(***************************************************************************)
EXTENDS GssSessionProofs

\* call_server is past establish_context.
Established ==
    {"inquire", "size_integ", "size_conf", "display_src", "display_target",
     "wrap", "send_msg", "recv_mic", "verify", "delete"}
ClientSettingUp == {"translate", "connect", "import"}
ServerSettingUp == {"acquire", "bind", "listen", "accept"}
Signing == {"display", "recv_msg", "unwrap", "get_mic", "send_mic", "delete"}

One(condition) == IF condition THEN 1 ELSE 0

\* How many tokens the client has sent and read, while it runs.
ContextTokensBy(leg) == IF leg = 0 THEN 0 ELSE IF leg = 1 THEN 1 ELSE 2
ClientSent ==
    ContextTokensBy(cleg) - One(cpc = "send")
                          + One(cpc \in {"recv_mic", "verify", "delete"})
ClientRead ==
    One(cleg = 3 \/ (cpc = "init" /\ cleg # 0) \/ (cpc \in Established /\ legs # 1))
    + One(cpc \in {"verify", "delete"})

\* How many the server has sent and read, while it runs or after its success.
ServerSent ==
    One(sleg = 1 /\ legs # 1 /\ spc # "send") + One(spc = "delete" \/ sret = "ok")
ServerRead ==
    sleg + One(spc = "accept_ctx" \/ spc \in {"unwrap", "get_mic", "send_mic", "delete"})

\* How many tokens a server can send in all.
Replies == IF legs = 2 THEN 2 ELSE 1

-----------------------------------------------------------------------------
\* establish_context of client.c, at each of its calls.
ClientRounds ==
    /\ cleg \in {0, 1, 3}
    /\ cpc \in ClientSettingUp => cleg = 0 /\ cctx = "none"
    /\ cpc = "init" => cctx # "open" /\ (cleg = 0 \/ (cleg = 1 /\ legs >= 2))
    /\ cpc = "send" => cleg = 1 \/ (cleg = 3 /\ legs >= 3)
    /\ cpc = "send" => (cctx = "open" <=> cleg >= legs)
    /\ cpc = "recv" =>
          cctx # "open" /\ ((cleg = 1 /\ legs >= 2) \/ (cleg = 3 /\ legs >= 4))
    /\ cpc \in Established => cleg = (IF legs = 3 THEN 3 ELSE 1) /\ legs <= 3

\* The token in the client's hands at gss_init_sec_context is the server's.
AnswerInHand == cpc = "init" /\ cleg = 1 => ctok.kind = "ctx" /\ ctok.leg = 2 /\ sleg = 1

\* establish_context of server.c, at each of its calls.
ServerRounds ==
    /\ sleg \in {0, 1}
    /\ spc \in ServerSettingUp => sleg = 0
    /\ spc \in {"recv", "accept_ctx"} => sleg = 0 \/ legs >= 3
    /\ spc = "accept_ctx" => stok.kind = "ctx" /\ stok.leg = 2 * sleg + 1
    /\ spc = "send" => sleg = 1 /\ legs >= 2
    /\ spc \in Signing \/ sret = "ok" => sleg = 1 /\ legs <= 2
    /\ sleg = 1 => (smaj = "complete" <=> legs <= 2)

\* If the client's context is open by the server's last token, the server's is.
OpenMeansComplete == legs % 2 = 0 /\ cctx = "open" => sleg = 1 /\ legs = 2

\* The connection: who has ended it, and that nothing is sent before it is there.
LinkInOrder ==
    /\ spc \in {"acquire", "bind", "listen"} => ~linked
    /\ spc \in {"acquire", "bind", "listen"} => ~listening
    /\ ~linked => rx["client"] = <<>> /\ rx["server"] = <<>>
    /\ ~linked => cpc \in {"translate", "connect", "done"}
    /\ ~linked => spc \in ServerSettingUp \cup {"done"}
    /\ spc = "done" <=> ended["server"] # "open"
    /\ sret = "running" <=> spc # "done"
    /\ ended["client"] # "open" => cpc = "done"
    /\ cpc = "done" /\ linked => ended["client"] # "open"
    /\ cpc = "done" => rx["client"] = <<>>
    /\ spc \in {"done", "spin"} => rx["server"] = <<>>

\* The tokens on the way to the server are what it has not read: the context
\* tokens first, in the order of their legs.
RequestsInOrder ==
    spc \notin {"done", "spin"} =>
        \A i \in 1 .. Len(rx["server"]) :
            LET k == ServerRead + i IN
            k = 1 \/ (k = 2 /\ legs >= 3) =>
                rx["server"][i].kind = "ctx" /\ rx["server"][i].leg = 2 * k - 1
RequestsCounted ==
    cpc # "done" /\ spc \notin {"done", "spin"} =>
        ServerRead + Len(rx["server"]) = ClientSent

\* The tokens on the way to the client: the second leg comes first, if there is one.
AnswersInOrder ==
    cpc # "done" =>
        /\ ClientRead + Len(rx["client"]) <= Replies
        /\ legs >= 2 /\ ClientRead = 0 /\ rx["client"] # <<>> =>
              rx["client"][1].kind = "ctx" /\ rx["client"][1].leg = 2 /\ sleg = 1
AnswersCounted ==
    /\ cpc # "done"
    /\ spc # "done" \/ (sret = "ok" /\ ended["server"] = "fin")
    => ClientRead + Len(rx["client"]) = ServerSent

\* A process that spins met the end of the stream.
SpinsAfterEnd ==
    /\ cpc = "spin" => spc = "done" /\ sret # "ok"
    /\ spc = "spin" => cpc = "done" /\ cret # "ok"

\* The token files are the legs in order, as each side sees them.
ClientDir(i) == IF i % 2 = 1 THEN "send" ELSE "recv"
ServerDir(i) == IF i % 2 = 1 THEN "recv" ELSE "send"
ClientFilesInOrder ==
    \A i \in 1 .. Len(crec) : crec[i] = [dir |-> ClientDir(i), leg |-> i]
ServerFilesInOrder ==
    \A i \in 1 .. Len(srec) : srec[i] = [dir |-> ServerDir(i), leg |-> i]
FilesCounted ==
    Recording =>
      /\ cpc \in ClientSettingUp \cup {"init", "send", "recv"} =>
            Len(crec) = cleg + One(cpc = "init" /\ cleg # 0)
      /\ spc \in ServerSettingUp \cup {"recv", "accept_ctx", "send"} =>
            Len(srec) = 2 * sleg + One(spc = "accept_ctx")

OrderInv ==
    /\ ClientRounds
    /\ AnswerInHand
    /\ ServerRounds
    /\ OpenMeansComplete
    /\ LinkInOrder
    /\ RequestsInOrder
    /\ RequestsCounted
    /\ AnswersInOrder
    /\ AnswersCounted
    /\ SpinsAfterEnd
    /\ ClientFilesInOrder
    /\ ServerFilesInOrder
    /\ FilesCounted

-----------------------------------------------------------------------------
\* The types, the assumption on the legs, and what is true so far.
Running == IInv /\ OrderInv

\* What the proofs below use of the invariant of GssSessionProofs.
LEMMA Types ==
    ASSUME Running
    PROVE  /\ LinkTypeOK /\ ClientTypeOK /\ ServerTypeOK
           /\ legs \in Nat /\ legs >= 1
           /\ cleg \in Nat /\ sleg \in Nat
           /\ \A s \in Side : rx[s] \in Seq(Token) /\ Len(rx[s]) \in Nat
<1>1. LinkTypeOK /\ ClientTypeOK /\ ServerTypeOK /\ legs \in LegCounts
  BY DEF Running, IInv, TypeOK, LinkTypeOK
<1>2. legs \in Nat /\ legs >= 1
  BY <1>1, GssAssumption
<1>3. cleg \in Nat /\ sleg \in Nat
  BY <1>1 DEF ClientTypeOK, ServerTypeOK
<1>4. \A s \in Side : rx[s] \in Seq(Token) /\ Len(rx[s]) \in Nat
  BY <1>1 DEF LinkTypeOK
<1> QED
  BY <1>1, <1>2, <1>3, <1>4

\* read(2) takes the first token of one side, and the others move up.
LEMMA TakeShifts ==
    ASSUME LinkTypeOK, NEW s \in Side, Take(s)
    PROVE  /\ Len(rx[s]) >= 1 /\ Head(rx[s]) = rx[s][1] /\ rx[s][1] \in Token
           /\ Len(rx'[s]) = Len(rx[s]) - 1
           /\ \A i \in 1 .. Len(rx'[s]) : rx'[s][i] = rx[s][i + 1]
           /\ \A r \in Side \ {s} : rx'[r] = rx[r]
<1>1. rx' = [rx EXCEPT ![s] = Tail(@)] /\ rx[s] \in Seq(Token) /\ rx[s] # <<>>
  BY DEF Take, LinkTypeOK
<1>2. /\ Len(rx[s]) >= 1 /\ Head(rx[s]) = rx[s][1] /\ rx[s][1] \in Token
      /\ Len(Tail(rx[s])) = Len(rx[s]) - 1
      /\ \A i \in 1 .. Len(rx[s]) - 1 : Tail(rx[s])[i] = rx[s][i + 1]
  BY <1>1
<1>3. rx'[s] = Tail(rx[s]) /\ \A r \in Side \ {s} : rx'[r] = rx[r]
  BY <1>1 DEF LinkTypeOK
<1> QED
  BY <1>2, <1>3

\* write(2) puts the token behind those on the way, unless the other side has ended.
LEMMA PutAppends ==
    ASSUME LinkTypeOK, NEW s \in Side, NEW token \in Token, Put(s, token)
    PROVE  /\ rx'[s] = rx[s]
           /\ ended[Peer(s)] # "open" => rx' = rx
           /\ ended[Peer(s)] = "open" =>
                /\ Len(rx'[Peer(s)]) = Len(rx[Peer(s)]) + 1
                /\ \A i \in 1 .. Len(rx[Peer(s)]) : rx'[Peer(s)][i] = rx[Peer(s)][i]
                /\ rx'[Peer(s)][Len(rx[Peer(s)]) + 1] = token
<1> DEFINE p == Peer(s)
<1>1. p \in Side /\ p # s /\ rx[p] \in Seq(Token)
  BY DEF Peer, Side, LinkTypeOK
<1>2. CASE ended[p] # "open"
  BY <1>2 DEF Put
<1>3. CASE ended[p] = "open"
  <2>1. rx'[p] = Append(rx[p], token) /\ rx'[s] = rx[s]
    BY <1>1, <1>3 DEF Put, LinkTypeOK
  <2>2. /\ Len(Append(rx[p], token)) = Len(rx[p]) + 1
        /\ \A i \in 1 .. Len(rx[p]) : Append(rx[p], token)[i] = rx[p][i]
        /\ Append(rx[p], token)[Len(rx[p]) + 1] = token
    BY <1>1
  <2> QED
    BY <1>3, <2>1, <2>2
<1> QED
  BY <1>2, <1>3

\* A side that ends reads nothing more, and what the other side can still read
\* is what was on the way to it, or the beginning of that after a reset.
LEMMA CloseCuts ==
    ASSUME LinkTypeOK, NEW s \in Side, NEW r \in Side, r = Peer(s), Close(s)
    PROVE  /\ rx'[s] = <<>> /\ Len(rx'[s]) = 0
           /\ ended'[s] \in {"fin", "rst"} /\ ended'[r] = ended[r]
           /\ ended'[s] = "fin" => rx'[r] = rx[r]
           /\ Len(rx'[r]) \in 0 .. Len(rx[r])
           /\ \A i \in 1 .. Len(rx'[r]) : rx'[r][i] = rx[r][i]
<1>1. r # s /\ rx[r] \in Seq(Token) /\ Len(rx[r]) \in Nat
  BY DEF LinkTypeOK, Peer, Side
<1>2. CASE rx' = [rx EXCEPT ![s] = <<>>] /\ ended' = [ended EXCEPT ![s] = "fin"]
  BY <1>1, <1>2 DEF LinkTypeOK
<1>3. CASE /\ ended' = [ended EXCEPT ![s] = "rst"]
           /\ \E n \in 0 .. Len(rx[r]) :
                 rx' = [rx EXCEPT ![s] = <<>>, ![r] = SubSeq(@, 1, n)]
  <2>1. PICK n \in 0 .. Len(rx[r]) : rx' = [rx EXCEPT ![s] = <<>>, ![r] = SubSeq(@, 1, n)]
    BY <1>3
  <2>2. rx'[s] = <<>> /\ rx'[r] = SubSeq(rx[r], 1, n)
    BY <1>1, <2>1 DEF LinkTypeOK
  <2>3. Len(SubSeq(rx[r], 1, n)) = n /\ \A i \in 1 .. n : SubSeq(rx[r], 1, n)[i] = rx[r][i]
    BY <1>1
  <2> QED
    BY <1>1, <1>3, <2>2, <2>3 DEF LinkTypeOK
<1> QED
  BY <1>2, <1>3 DEF Close

-----------------------------------------------------------------------------
\* What a step of the client leaves alone.
ServerStays == UNCHANGED <<legs, serverVars>>

\* A step of the client leaves the counts and files of the server.
LEMMA ServerStaysInOrder ==
    ASSUME Running, ServerStays
    PROVE  /\ ServerRounds' /\ ServerFilesInOrder'
           /\ UNCHANGED <<spc, sleg, sret, smaj, srec, legs, ServerSent, ServerRead,
                          Replies>>
BY DEF Running, OrderInv, ServerStays, serverVars, ServerRounds, ServerFilesInOrder,
       ServerSent, ServerRead, Replies

\* The client's process ends.
LEMMA ClientExitKeepsOrder ==
    ASSUME Running, ServerStays, cpc # "done",
           NEW ret \in {"ok", "error", "killed"}, NEW resources, CExit(ret, resources),
           cctx' \in {cctx, "none"}
    PROVE  OrderInv'
<1> USE ServerStaysInOrder, Types DEF Running, OrderInv
<1>1. /\ cpc' = "done" /\ UNCHANGED <<cleg, crec, ctok>>
      /\ IF linked THEN Close("client") ELSE UNCHANGED linkVars
  BY DEF CExit
<1>2. ClientRounds'
  BY <1>1 DEF ClientRounds, ClientSettingUp, Established
<1>3. AnswerInHand' /\ AnswersInOrder' /\ AnswersCounted' /\ RequestsCounted'
  BY <1>1 DEF AnswerInHand, AnswersInOrder, AnswersCounted, RequestsCounted
<1>4. OpenMeansComplete'
  BY <1>1 DEF OpenMeansComplete
<1>5. LinkInOrder'
  <2>1. CASE linked
    <3>1. /\ rx'["client"] = <<>> /\ ended'["client"] # "open"
          /\ ended'["server"] = ended["server"]
          /\ Len(rx'["server"]) \in 0 .. Len(rx["server"])
      BY <1>1, <2>1, CloseCuts DEF Side, Peer
    <3>2. rx["server"] = <<>> => rx'["server"] = <<>>
      <4>1. rx'["server"] \in Seq(Token)
        BY <1>1, <2>1, LinkRemoves DEF LinkQuiet, LinkTypeOK, Side
      <4> QED
        BY <3>1, <4>1
    <3>3. UNCHANGED <<linked, listening>>
      BY <1>1, <2>1 DEF Close
    <3> QED
      BY <1>1, <2>1, <3>1, <3>2, <3>3 DEF LinkInOrder
  <2>2. CASE ~linked
    BY <1>1, <2>2 DEF LinkInOrder, linkVars
  <2> QED
    BY <2>1, <2>2
<1>6. RequestsInOrder'
  <2>1. CASE linked
    <3>1. /\ Len(rx'["server"]) \in 0 .. Len(rx["server"])
          /\ \A i \in 1 .. Len(rx'["server"]) : rx'["server"][i] = rx["server"][i]
      BY <1>1, <2>1, CloseCuts DEF Side, Peer
    <3> QED
      BY <3>1 DEF RequestsInOrder, Side
  <2>2. CASE ~linked
    BY <1>1, <2>2 DEF RequestsInOrder, linkVars
  <2> QED
    BY <2>1, <2>2
<1>7. SpinsAfterEnd'
  BY <1>1 DEF SpinsAfterEnd
<1>8. ClientFilesInOrder'
  BY <1>1 DEF ClientFilesInOrder
<1>9. FilesCounted'
  BY <1>1 DEF FilesCounted, ClientSettingUp
<1> QED
  BY <1>2, <1>3, <1>4, <1>5, <1>6, <1>7, <1>8, <1>9

\* A call fails and main returns 1, or a signal ends the client.
LEMMA ClientGivingUpKeepsOrder ==
    ASSUME Running, ServerStays, cpc # "done",
           CKilled \/ \E resources : CFail(resources)
    PROVE  OrderInv'
BY ClientExitKeepsOrder DEF CKilled, CFail

\* A step of the client within call_server that reads and sends nothing.
LEMMA ClientLocalKeepsOrder ==
    ASSUME Running, ServerStays, UNCHANGED <<rx, ended>>,
           cpc # "done", cpc' \notin {"done", "spin"}, cret' = cret,
           ClientSent' = ClientSent, ClientRead' = ClientRead,
           LinkInOrder',
           ClientRounds', AnswerInHand', OpenMeansComplete',
           ClientFilesInOrder', FilesCounted'
    PROVE  OrderInv'
<1> USE ServerStaysInOrder DEF Running, OrderInv
<1>1. RequestsInOrder' /\ RequestsCounted'
  BY DEF RequestsInOrder, RequestsCounted
<1>2. AnswersInOrder' /\ AnswersCounted'
  BY DEF AnswersInOrder, AnswersCounted
<1>3. SpinsAfterEnd'
  BY DEF SpinsAfterEnd
<1> QED
  BY <1>1, <1>2, <1>3
\* From the arguments to the imported name of the service: nothing is sent yet.
LEMMA ClientSetUpKeepsOrder ==
    ASSUME Running, ServerStays, CTranslate \/ CConnect \/ CNoAddressLeft \/ CImportName
    PROVE  OrderInv'
<1> USE ServerStaysInOrder, Types DEF Running, OrderInv
<1>1. CASE \E resources : CFail(resources)
  BY <1>1, ClientGivingUpKeepsOrder
  DEF CTranslate, CConnect, CNoAddressLeft, CImportName, CLocalCall
<1>2. CASE ~\E resources : CFail(resources)
  <2>1. /\ cpc \in ClientSettingUp /\ cpc' \in ClientSettingUp \cup {"init"}
        /\ UNCHANGED <<rx, ended, listening, cleg, cctx, crec, ctok, cret>>
        /\ cpc' = "init" => cpc = "import"
    BY <1>2
    DEF CTranslate, CConnect, CNoAddressLeft, CImportName, CLocalCall, Connect, linkVars,
        ClientSettingUp
  <2>2. cleg = 0 /\ cctx = "none" /\ cleg' = 0 /\ cctx' = "none"
    BY <2>1 DEF ClientRounds
  <2>3. ClientSent' = ClientSent /\ ClientRead' = ClientRead
    BY <2>1, <2>2
    DEF ClientSent, ClientRead, ContextTokensBy, One, ClientSettingUp, Established
  <2>4. ClientRounds' /\ AnswerInHand' /\ OpenMeansComplete'
    BY <2>1, <2>2
    DEF ClientRounds, AnswerInHand, OpenMeansComplete, ClientSettingUp, Established
  <2>5. LinkInOrder'
    BY <1>2, <2>1
    DEF LinkInOrder, CTranslate, CConnect, CNoAddressLeft, CImportName, CLocalCall,
        Connect, Connectable, linkVars, ClientSettingUp, ServerSettingUp
  <2>6. ClientFilesInOrder' /\ FilesCounted'
    BY <2>1, <2>2 DEF ClientFilesInOrder, FilesCounted, ClientSettingUp, One
  <2> QED
    BY <2>1, <2>3, <2>4, <2>5, <2>6, ClientLocalKeepsOrder DEF ClientSettingUp
<1> QED
  BY <1>1, <1>2

\* A file is added behind the others.
LEMMA FileAdded ==
    ASSUME ClientTypeOK, ClientFilesInOrder, NEW leg \in Nat,
           Recording => leg = Len(crec) + 1,
           CRecord(ClientDir(leg), leg)
    PROVE  /\ ClientFilesInOrder'
           /\ Len(crec) \in Nat
           /\ Recording => Len(crec') = leg
<1>1. crec \in Seq([dir : {"send", "recv"}, leg : Nat])
  BY DEF ClientTypeOK
<1>2. CASE Recording
  <2>1. crec' = Append(crec, [dir |-> ClientDir(leg), leg |-> leg]) /\ leg = Len(crec) + 1
    BY <1>2 DEF CRecord
  <2>2. /\ Len(crec') = Len(crec) + 1
        /\ \A i \in 1 .. Len(crec) : crec'[i] = crec[i]
        /\ crec'[Len(crec) + 1] = [dir |-> ClientDir(leg), leg |-> leg]
    BY <1>1, <2>1
  <2> QED
    BY <1>1, <2>1, <2>2 DEF ClientFilesInOrder
<1>3. CASE ~Recording
  BY <1>1, <1>3 DEF CRecord, ClientFilesInOrder
<1> QED
  BY <1>2, <1>3

\* gss_init_sec_context: the answer in hand is the second leg.
LEMMA ClientInitKeepsOrder ==
    ASSUME Running, ServerStays, CInitSecContext
    PROVE  OrderInv'
<1> USE ServerStaysInOrder, Types DEF Running, OrderInv
<1>1. CASE \E resources : CFail(resources)
  BY <1>1, ClientGivingUpKeepsOrder DEF CInitSecContext
<1>2. CASE ~\E resources : CFail(resources)
  <2>1. /\ cpc = "init"
        /\ (cleg = 0 \/ /\ cleg = 1 /\ legs >= 2 /\ sleg = 1
                        /\ ctok.kind = "ctx" /\ ctok.leg = 2)
    BY <1>2 DEF CInitSecContext, ClientRounds, AnswerInHand
  <2> DEFINE n == IF cleg = 0 THEN 0 ELSE 2
  <2>2. /\ cctx' = ContextAfter(n)
        /\ \/ Answers(n) /\ cpc' = "send" /\ cleg' = n + 1 /\ CRecord("send", n + 1)
           \/ ~Answers(n) /\ cpc' = "inquire" /\ UNCHANGED <<cleg, crec>>
        /\ UNCHANGED <<linkVars, cret>>
    <3>1. (IF cleg = 0 THEN 0 ELSE cleg + 1) = n
      BY <2>1
    <3> QED
      BY ONLY <1>2, <3>1, CInitSecContext DEF CInitSecContext
  <2>3. ClientRounds' /\ AnswerInHand'
    BY <2>1, <2>2
    DEF ClientRounds, AnswerInHand, ContextAfter, Completes, Answers, ClientSettingUp,
        Established
  <2>4. OpenMeansComplete'
    BY <2>1, <2>2 DEF OpenMeansComplete, ContextAfter, Completes
  <2>5. ClientSent' = ClientSent /\ ClientRead' = ClientRead
    BY <2>1, <2>2
    DEF ClientSent, ClientRead, ContextTokensBy, One, Answers, Established
  <2>6. LinkInOrder'
    BY <2>1, <2>2 DEF LinkInOrder, linkVars, ServerSettingUp
  <2>7. ClientFilesInOrder' /\ FilesCounted'
    <3>1. CASE Answers(n)
      <4>1. ClientDir(n + 1) = "send" /\ n + 1 \in Nat
        BY <2>2 DEF ClientDir
      <4>2. Recording => n + 1 = Len(crec) + 1
        BY <2>1, <2>2 DEF FilesCounted, One
      <4>3. CRecord(ClientDir(n + 1), n + 1)
        BY <2>2, <3>1, <4>1
      <4>4. ClientFilesInOrder' /\ (Recording => Len(crec') = n + 1)
        BY <4>1, <4>2, <4>3, FileAdded
      <4>5. cpc' = "send" /\ cleg' = n + 1
        BY <2>2, <3>1
      <4>6. FilesCounted'
        BY <4>4, <4>5 DEF FilesCounted, One, ClientSettingUp
      <4> QED
        BY <4>4, <4>6
    <3>2. CASE ~Answers(n)
      BY <2>2, <3>2 DEF ClientFilesInOrder, FilesCounted, One, ClientSettingUp
    <3> QED
      BY <3>1, <3>2
  <2> QED
    BY <2>1, <2>2, <2>3, <2>4, <2>5, <2>6, <2>7, ClientLocalKeepsOrder DEF linkVars
<1> QED
  BY <1>1, <1>2

\* What call_server does with the context before and after the exchange of the
\* message and the MIC, but for its end.
LEMMA ClientInspectingKeepsOrder ==
    ASSUME Running, ServerStays,
           \/ CInquireContext \/ CWrapSizeLimitIntegrity \/ CWrapSizeLimitConfidentiality
           \/ CDisplaySourceName \/ CDisplayTargetName \/ CWrap \/ CVerifyMic
    PROVE  OrderInv'
<1> USE ServerStaysInOrder, Types DEF Running, OrderInv
<1>1. CASE \E resources : CFail(resources)
  <2>1. cpc # "done"
    BY DEF CInquireContext, CWrapSizeLimitIntegrity, CWrapSizeLimitConfidentiality,
           CDisplaySourceName, CDisplayTargetName, CWrap, CVerifyMic, CLocalCall
  <2> QED
    BY <1>1, <2>1, ClientGivingUpKeepsOrder
<1>2. CASE ~\E resources : CFail(resources)
  <2>1. /\ UNCHANGED <<linkVars, cctx, cleg, ctok, crec, cret>>
        /\ \/ cpc = "verify" /\ cpc' = "delete"
           \/ /\ cpc \in {"inquire", "size_integ", "size_conf", "display_src",
                          "display_target", "wrap"}
              /\ cpc' \in {"size_integ", "size_conf", "display_src", "display_target",
                           "wrap", "send_msg"}
    BY <1>2
    DEF CInquireContext, CWrapSizeLimitIntegrity, CWrapSizeLimitConfidentiality,
        CDisplaySourceName, CDisplayTargetName, CWrap, CVerifyMic, CLocalCall
  <2>2. ClientSent' = ClientSent /\ ClientRead' = ClientRead
    BY <2>1 DEF ClientSent, ClientRead, ContextTokensBy, One, Established
  <2>3. ClientRounds' /\ AnswerInHand' /\ OpenMeansComplete'
    BY <2>1
    DEF ClientRounds, AnswerInHand, OpenMeansComplete, ClientSettingUp, Established
  <2>4. LinkInOrder'
    BY <2>1 DEF LinkInOrder, linkVars, ServerSettingUp
  <2>5. ClientFilesInOrder' /\ FilesCounted'
    BY <2>1 DEF ClientFilesInOrder, FilesCounted, ClientSettingUp
  <2> QED
    BY <2>1, <2>2, <2>3, <2>4, <2>5, ClientLocalKeepsOrder DEF linkVars
<1> QED
  BY <1>1, <1>2
\* The counts are numbers.
LEMMA Counts ==
    ASSUME Running
    PROVE  /\ ClientSent \in Nat /\ ClientRead \in Nat
           /\ ServerSent \in Nat /\ ServerRead \in Nat /\ Replies \in Nat
BY Types
DEF ClientSent, ClientRead, ServerSent, ServerRead, Replies, ContextTokensBy, One,
    Running, OrderInv, ClientRounds

\* A step of the client that sends a token.
LEMMA ClientPutKeepsOrder ==
    ASSUME Running, ServerStays, NEW token \in Token, Put("client", token),
           cpc # "done", cpc' \notin {"done", "spin", "init"} \cup ClientSettingUp,
           linked, cret' = cret,
           ClientSent' = ClientSent + 1, ClientRead' = ClientRead,
           ClientSent = 0 \/ (ClientSent = 1 /\ legs >= 3) =>
               token.kind = "ctx" /\ token.leg = 2 * ClientSent + 1,
           ClientRounds', UNCHANGED <<cctx, crec, cleg>>,
           \/ cpc = "send" /\ cpc' = "recv"
           \/ cpc' \in Established
    PROVE  OrderInv'
<1> USE ServerStaysInOrder, Types, Counts DEF Running, OrderInv
<1>1. /\ rx'["client"] = rx["client"]
      /\ ended["server"] # "open" => rx' = rx
      /\ ended["server"] = "open" =>
           /\ Len(rx'["server"]) = Len(rx["server"]) + 1
           /\ \A i \in 1 .. Len(rx["server"]) : rx'["server"][i] = rx["server"][i]
           /\ rx'["server"][Len(rx["server"]) + 1] = token
  BY PutAppends DEF Side, Peer
<1>2. UNCHANGED <<ended, linked, listening>>
  BY DEF Put
<1>3. spc # "spin" /\ (spc # "done" <=> ended["server"] = "open")
  BY DEF SpinsAfterEnd, LinkInOrder
<1>4. LinkInOrder'
  BY <1>1, <1>2, <1>3 DEF LinkInOrder
<1>5. RequestsCounted'
  <2> SUFFICES ASSUME spc # "done"
               PROVE  ServerRead' + Len(rx'["server"]) = ClientSent'
    BY DEF RequestsCounted
  <2>1. Len(rx'["server"]) = Len(rx["server"]) + 1
    BY <1>1, <1>3
  <2>2. ServerRead + Len(rx["server"]) = ClientSent
    BY <1>3 DEF RequestsCounted
  <2>3. /\ ServerRead \in Nat /\ Len(rx["server"]) \in Nat
        /\ ServerRead' = ServerRead /\ ClientSent' = ClientSent + 1
    BY DEF Side
  <2> QED
    BY ONLY <2>1, <2>2, <2>3
<1>6. RequestsInOrder'
  <2> SUFFICES ASSUME spc # "done", NEW i \in 1 .. Len(rx'["server"]),
                      ServerRead + i = 1 \/ (ServerRead + i = 2 /\ legs >= 3)
               PROVE  /\ rx'["server"][i].kind = "ctx"
                      /\ rx'["server"][i].leg = 2 * (ServerRead + i) - 1
    BY DEF RequestsInOrder
  <2>1. CASE i <= Len(rx["server"])
    <3>1. i \in 1 .. Len(rx["server"]) /\ rx'["server"][i] = rx["server"][i]
      BY <1>1, <1>3, <2>1 DEF Side
    <3> QED
      BY <1>3, <3>1 DEF RequestsInOrder
  <2>2. CASE i = Len(rx["server"]) + 1
    <3>1. ServerRead + i = ClientSent + 1
      BY <1>3, <2>2 DEF RequestsCounted, Side
    <3>2. rx'["server"][i] = token
      BY <1>1, <1>3, <2>2
    <3> QED
      BY <3>1, <3>2
  <2> QED
    BY <1>1, <1>3, <2>1, <2>2 DEF Side
<1>7. AnswersInOrder' /\ AnswersCounted'
  BY <1>1, <1>2 DEF AnswersInOrder, AnswersCounted
<1>8. SpinsAfterEnd' /\ AnswerInHand' /\ OpenMeansComplete'
  BY <1>3 DEF SpinsAfterEnd, AnswerInHand, OpenMeansComplete
<1>9. ClientFilesInOrder' /\ FilesCounted'
  <2>1. ClientFilesInOrder'
    BY DEF ClientFilesInOrder
  <2>2. FilesCounted'
    BY DEF FilesCounted, One, ClientSettingUp, Established
  <2> QED
    BY <2>1, <2>2
<1> QED
  BY <1>4, <1>5, <1>6, <1>7, <1>8, <1>9

\* send_token of a context token, and of the wrapped message.
LEMMA ClientSendingKeepsOrder ==
    ASSUME Running, ServerStays, CSendToken \/ CSendMessage
    PROVE  OrderInv'
<1> USE ServerStaysInOrder, Types DEF Running, OrderInv
<1>1. CASE CKilled \/ \E resources : CFail(resources)
  BY <1>1, ClientGivingUpKeepsOrder DEF CSendToken, CSendMessage
<1>2. CASE ~CKilled /\ ~\E resources : CFail(resources)
  <2>1. linked
    BY DEF CSendToken, CSendMessage, LinkInOrder
  <2>2. CASE CSendToken
    <3>1. /\ cpc = "send" /\ Put("client", CtxToken(cleg))
          /\ \/ cctx = "open" /\ cpc' = "inquire"
             \/ cctx # "open" /\ cpc' = "recv"
          /\ UNCHANGED <<cctx, crec, cleg, cret>>
      BY <1>2, <2>2 DEF CSendToken
    <3>2. /\ CtxToken(cleg) \in Token
          /\ CtxToken(cleg).kind = "ctx" /\ CtxToken(cleg).leg = cleg
      BY TokenTypes DEF CtxToken
    <3>3. ClientRounds'
      BY <3>1 DEF ClientRounds, ClientSettingUp, Established
    <3>4. /\ ClientSent' = ClientSent + 1 /\ ClientRead' = ClientRead
          /\ ClientSent \in {0, 1} /\ cleg = 2 * ClientSent + 1
      BY <3>1
      DEF ClientSent, ClientRead, ContextTokensBy, One, ClientRounds, Established
    <3> QED
      BY <2>1, <3>1, <3>2, <3>3, <3>4, ClientPutKeepsOrder
      DEF ClientSettingUp, Established
  <2>3. CASE CSendMessage
    <3>1. /\ cpc = "send_msg" /\ Put("client", WrapToken(cmsg)) /\ cpc' = "recv_mic"
          /\ UNCHANGED <<cctx, crec, cleg, cret>>
      BY <1>2, <2>3 DEF CSendMessage
    <3>2. WrapToken(cmsg) \in Token
      BY TokenTypes DEF ClientTypeOK
    <3>3. ClientRounds'
      BY <3>1 DEF ClientRounds, ClientSettingUp, Established
    <3>4. /\ ClientSent' = ClientSent + 1 /\ ClientRead' = ClientRead
          /\ ClientSent # 0 /\ ~(ClientSent = 1 /\ legs >= 3)
      BY <3>1
      DEF ClientSent, ClientRead, ContextTokensBy, One, ClientRounds, Established
    <3> QED
      BY <2>1, <3>1, <3>2, <3>3, <3>4, ClientPutKeepsOrder
      DEF ClientSettingUp, Established
  <2> QED
    BY <2>2, <2>3
<1> QED
  BY <1>1, <1>2

\* read_all turns in its loop: the server has ended, and not by success, for
\* then it has sent something that the client has still to read.
LEMMA ClientSpinKeepsOrder ==
    ASSUME Running, ServerStays, CSpin, cpc \in {"recv", "recv_mic"}
    PROVE  OrderInv'
<1> USE ServerStaysInOrder, Types, Counts DEF Running, OrderInv
<1>1. /\ cpc' = "spin" /\ UNCHANGED <<linkVars, rx, ended, cctx, cleg, ctok, crec, cret>>
      /\ rx["client"] = <<>> /\ Len(rx["client"]) = 0 /\ ended["server"] = "fin"
  BY DEF CSpin, AtEof, Peer, linkVars
<1>2. spc = "done"
  BY <1>1 DEF LinkInOrder
<1>3. sret # "ok"
  <2> SUFFICES ASSUME sret = "ok" PROVE FALSE
    OBVIOUS
  <2>1. sleg = 1 /\ legs <= 2
    BY DEF ServerRounds
  <2>2. ClientRead = ServerSent
    BY <1>1 DEF AnswersCounted
  <2> QED
    BY <1>2, <2>1, <2>2 DEF ClientRead, ServerSent, One, ClientRounds, Established
<1>4. ClientRounds' /\ AnswerInHand' /\ OpenMeansComplete'
  BY <1>1
  DEF ClientRounds, AnswerInHand, OpenMeansComplete, ClientSettingUp, Established
<1>5. LinkInOrder'
  BY <1>1 DEF LinkInOrder, linkVars
<1>6. RequestsInOrder' /\ RequestsCounted' /\ AnswersCounted'
  BY <1>2, <1>3 DEF RequestsInOrder, RequestsCounted, AnswersCounted
<1>7. AnswersInOrder'
  <2>1. ClientRead' <= 1 /\ Replies' >= 1
    BY <1>1 DEF ClientRead, Replies, One, Established
  <2>2. ClientRead' \in Nat /\ Replies' \in Nat
    BY DEF ClientRead, Replies, One
  <2>3. rx'["client"] = <<>> /\ Len(rx'["client"]) = 0
    BY <1>1
  <2>4. ClientRead' + Len(rx'["client"]) <= Replies'
    <3>1. \A a, b \in Nat : a <= 1 /\ b >= 1 => a + 0 <= b
      OBVIOUS
    <3> QED
      BY ONLY <2>1, <2>2, <2>3, <3>1
  <2>5. ~(legs >= 2 /\ ClientRead = 0 /\ rx["client"] # <<>>)'
    BY ONLY <2>3
  <2> QED
    BY ONLY <2>4, <2>5 DEF AnswersInOrder
<1>8. SpinsAfterEnd'
  BY <1>1, <1>2, <1>3 DEF SpinsAfterEnd
<1>9. ClientFilesInOrder' /\ FilesCounted'
  BY <1>1 DEF ClientFilesInOrder, FilesCounted, ClientSettingUp
<1>10. ServerRounds' /\ ServerFilesInOrder'
  BY ServerStaysInOrder
<1> QED
  BY ONLY <1>4, <1>5, <1>6, <1>7, <1>8, <1>9, <1>10 DEF OrderInv

\* A step of the client that reads a token.
LEMMA ClientTakeKeepsOrder ==
    ASSUME Running, ServerStays, Take("client"),
           cpc # "done", cpc' \notin {"done", "spin"} \cup ClientSettingUp, cret' = cret,
           ClientSent' = ClientSent, ClientRead' = ClientRead + 1,
           ClientRounds', AnswerInHand', ClientFilesInOrder', FilesCounted',
           UNCHANGED cctx
    PROVE  OrderInv'
<1> USE ServerStaysInOrder, Types, Counts DEF Running, OrderInv
<1>1. /\ Len(rx["client"]) >= 1
      /\ Len(rx'["client"]) = Len(rx["client"]) - 1
      /\ rx'["server"] = rx["server"]
  BY TakeShifts DEF Side
<1>2. UNCHANGED <<ended, linked, listening>> /\ rx["client"] # <<>>
  BY DEF Take
<1>3. LinkInOrder'
  BY <1>1, <1>2 DEF LinkInOrder
<1>4. RequestsInOrder' /\ RequestsCounted'
  BY <1>1 DEF RequestsInOrder, RequestsCounted
<1>5. ClientRead' + Len(rx'["client"]) = ClientRead + Len(rx["client"])
  <2>1. \A a, b \in Nat : (a + 1) + (b - 1) = a + b
    OBVIOUS
  <2>2. Len(rx["client"]) \in Nat /\ ClientRead \in Nat
    BY Types, Counts DEF Side
  <2>3. ClientRead' = ClientRead + 1 /\ Len(rx'["client"]) = Len(rx["client"]) - 1
    BY <1>1
  <2> QED
    BY ONLY <2>1, <2>2, <2>3
<1>6. AnswersInOrder' /\ AnswersCounted'
  <2>1. /\ ClientRead' # 0 /\ Replies' = Replies
        /\ spc' = spc /\ sret' = sret /\ ServerSent' = ServerSent /\ ended' = ended
    BY <1>2
  <2>2. cpc # "done" /\ AnswersInOrder /\ AnswersCounted
    OBVIOUS
  <2>3. AnswersInOrder'
    BY ONLY <1>5, <2>1, <2>2 DEF AnswersInOrder
  <2>4. AnswersCounted'
    BY ONLY <1>5, <2>1, <2>2 DEF AnswersCounted
  <2> QED
    BY <2>3, <2>4
<1>7. SpinsAfterEnd' /\ OpenMeansComplete'
  BY DEF SpinsAfterEnd, OpenMeansComplete
<1> QED
  BY <1>3, <1>4, <1>6, <1>7

\* recv_token of a context token: it is the second leg.
LEMMA ClientReceivingKeepsOrder ==
    ASSUME Running, ServerStays, CRecvToken
    PROVE  OrderInv'
<1> USE ServerStaysInOrder, Types DEF Running, OrderInv
<1>1. CASE CSpin \/ \E resources : CFail(resources)
  BY <1>1, ClientGivingUpKeepsOrder, ClientSpinKeepsOrder DEF CRecvToken
<1>2. CASE ~CSpin /\ ~\E resources : CFail(resources)
  <2>1. /\ cpc = "recv" /\ Take("client") /\ cpc' = "init"
        /\ ctok' \in Arrivals(Head(rx["client"])) /\ CRecord("recv", ctok'.leg)
        /\ UNCHANGED <<cctx, cleg, cret>>
    BY <1>2 DEF CRecvToken
  <2>2. /\ Len(rx["client"]) >= 1 /\ rx["client"] # <<>>
        /\ Head(rx["client"]) = rx["client"][1] /\ rx["client"][1] \in Token
    BY <2>1, TakeShifts DEF Side, Take
  <2>3. cleg = 1 /\ legs >= 2 /\ cctx # "open"
    <3>1. CASE cleg = 3
      <4>1. ClientRead = 1 /\ legs >= 4
        BY <2>1, <3>1 DEF ClientRead, One, ClientRounds, Established
      <4> QED
        BY <2>1, <2>2, <4>1 DEF AnswersInOrder, Replies, Side
    <3> QED
      BY <2>1, <3>1 DEF ClientRounds
  <2>4. ClientRead = 0 /\ ClientRead' = ClientRead + 1 /\ ClientSent' = ClientSent
    BY <2>1, <2>3 DEF ClientRead, ClientSent, ContextTokensBy, One, Established
  <2>5. rx["client"][1].kind = "ctx" /\ rx["client"][1].leg = 2 /\ sleg = 1
    BY <2>1, <2>2, <2>3, <2>4 DEF AnswersInOrder
  <2>6. ctok'.kind = "ctx" /\ ctok'.leg = 2
    BY <2>1, <2>2, <2>5 DEF Arrivals, Token
  <2>7. ClientRounds' /\ AnswerInHand'
    BY <2>1, <2>3, <2>5, <2>6
    DEF ClientRounds, AnswerInHand, ClientSettingUp, Established
  <2>8. ClientFilesInOrder' /\ (Recording => Len(crec') = 2)
    <3>1. ClientDir(2) = "recv" /\ CRecord(ClientDir(2), 2)
      BY <2>1, <2>6 DEF ClientDir
    <3>2. Recording => 2 = Len(crec) + 1
      <4>1. Recording => Len(crec) = cleg + One(cpc = "init" /\ cleg # 0)
        BY <2>1 DEF FilesCounted
      <4>2. One(cpc = "init" /\ cleg # 0) = 0
        BY <2>1 DEF One
      <4> QED
        BY <2>3, <4>1, <4>2
    <3> QED
      BY <3>1, <3>2, FileAdded
  <2>9. FilesCounted'
    BY <2>1, <2>3, <2>8 DEF FilesCounted, One, ClientSettingUp
  <2> QED
    BY <2>1, <2>4, <2>7, <2>8, <2>9, ClientTakeKeepsOrder DEF ClientSettingUp
<1> QED
  BY <1>1, <1>2

\* recv_token of the server's answer to the message.
LEMMA ClientReceivingMicKeepsOrder ==
    ASSUME Running, ServerStays, CRecvMic
    PROVE  OrderInv'
<1> USE ServerStaysInOrder, Types DEF Running, OrderInv
<1>1. CASE CSpin \/ \E resources : CFail(resources)
  BY <1>1, ClientGivingUpKeepsOrder, ClientSpinKeepsOrder DEF CRecvMic
<1>2. CASE ~CSpin /\ ~\E resources : CFail(resources)
  <2>1. /\ cpc = "recv_mic" /\ Take("client") /\ cpc' = "verify"
        /\ UNCHANGED <<cctx, cleg, crec, cret>>
    BY <1>2 DEF CRecvMic
  <2>2. ClientRead' = ClientRead + 1 /\ ClientSent' = ClientSent
    BY <2>1 DEF ClientRead, ClientSent, ContextTokensBy, One, Established
  <2>3. ClientRounds' /\ AnswerInHand'
    BY <2>1 DEF ClientRounds, AnswerInHand, ClientSettingUp, Established
  <2>4. ClientFilesInOrder' /\ FilesCounted'
    BY <2>1 DEF ClientFilesInOrder, FilesCounted, ClientSettingUp
  <2> QED
    BY <2>1, <2>2, <2>3, <2>4, ClientTakeKeepsOrder DEF ClientSettingUp
<1> QED
  BY <1>1, <1>2

\* No step of the client breaks the invariant.
LEMMA ClientKeepsOrder ==
    ASSUME Running, Client
    PROVE  OrderInv'
<1>1. ServerStays
  BY DEF Client, ServerStays
<1>2. CASE CTranslate \/ CConnect \/ CNoAddressLeft \/ CImportName
  BY <1>1, <1>2, ClientSetUpKeepsOrder
<1>3. CASE CInitSecContext \/ CSendToken \/ CRecvToken
  BY <1>1, <1>3, ClientInitKeepsOrder, ClientSendingKeepsOrder, ClientReceivingKeepsOrder
<1>4. CASE \/ CInquireContext \/ CWrapSizeLimitIntegrity \/ CWrapSizeLimitConfidentiality
           \/ CDisplaySourceName \/ CDisplayTargetName \/ CWrap \/ CVerifyMic
  BY <1>1, <1>4, ClientInspectingKeepsOrder
<1>5. CASE CSendMessage \/ CRecvMic
  BY <1>1, <1>5, ClientSendingKeepsOrder, ClientReceivingMicKeepsOrder
<1>6. CASE CDeleteContext
  BY <1>1, <1>6, ClientExitKeepsOrder, ClientGivingUpKeepsOrder DEF CDeleteContext
<1>7. CASE ClientKill
  BY <1>1, <1>7, ClientGivingUpKeepsOrder DEF ClientKill
<1> QED
  BY <1>2, <1>3, <1>4, <1>5, <1>6, <1>7 DEF Client, ClientStep

-----------------------------------------------------------------------------
\* What a step of the server leaves alone.
ClientStays == UNCHANGED <<legs, clientVars>>

\* A step of the server leaves the counts and files of the client.
LEMMA ClientStaysInOrder ==
    ASSUME Running, ClientStays
    PROVE  /\ ClientRounds' /\ ClientFilesInOrder'
           /\ UNCHANGED <<cpc, cleg, cctx, ctok, crec, cret, legs,
                          ClientSent, ClientRead, Replies>>
BY DEF Running, OrderInv, ClientStays, clientVars, ClientRounds, ClientFilesInOrder,
       ClientSent, ClientRead, Replies

\* The server's process ends: what is left on the way to the client is the
\* beginning of what was on the way, or all of it.
LEMMA ServerExitCuts ==
    ASSUME Running, NEW ret, NEW resources, SExit(ret, resources)
    PROVE  /\ spc' = "done" /\ sret' = ret /\ UNCHANGED <<smaj, sleg, stok, smsg, srec>>
           /\ rx'["server"] = <<>>
           /\ ended'["server"] # "open" /\ ended'["client"] = ended["client"]
           /\ UNCHANGED <<linked, listening>>
           /\ Len(rx'["client"]) \in 0 .. Len(rx["client"])
           /\ \A i \in 1 .. Len(rx'["client"]) : rx'["client"][i] = rx["client"][i]
           /\ rx'["client"] \in Seq(Token)
           /\ ended'["server"] = "fin" => rx'["client"] = rx["client"]
<1>1. CASE Accepted
  <2>1. Close("server")
    BY <1>1 DEF SExit
  <2>2. rx'["client"] \in Seq(Token)
    BY <2>1, LinkRemoves, Types DEF LinkQuiet, LinkTypeOK, Side
  <2> QED
    BY <2>1, <2>2, CloseCuts, Types DEF SExit, Close, Side, Peer
<1>2. CASE ~Accepted
  <2>1. CloseUnaccepted
    BY <1>2 DEF SExit
  <2>2. rx'["client"] = rx["client"] /\ rx'["server"] = <<>>
    BY <2>1, Types DEF CloseUnaccepted, LinkTypeOK, Side
  <2>3. ended'["server"] # "open" /\ ended'["client"] = ended["client"]
    BY <2>1, Types DEF CloseUnaccepted, LinkTypeOK, Side
  <2> QED
    BY <2>1, <2>2, <2>3, Types DEF SExit, CloseUnaccepted, Side
<1> QED
  BY <1>1, <1>2

\* With its end the counts and the order stay.
LEMMA ServerExitKeepsOrder ==
    ASSUME Running, ClientStays, spc # "done",
           NEW ret \in {"ok", "error", "killed"}, NEW resources, SExit(ret, resources),
           ret = "ok" => spc = "delete"
    PROVE  OrderInv'
<1> USE ClientStaysInOrder, Types, Counts DEF Running, OrderInv
<1>1. /\ spc' = "done" /\ sret' = ret /\ UNCHANGED <<smaj, sleg, stok, smsg, srec>>
      /\ rx'["server"] = <<>>
      /\ ended'["server"] # "open" /\ ended'["client"] = ended["client"]
      /\ UNCHANGED <<linked, listening>>
      /\ Len(rx'["client"]) \in 0 .. Len(rx["client"])
      /\ \A i \in 1 .. Len(rx'["client"]) : rx'["client"][i] = rx["client"][i]
      /\ rx'["client"] \in Seq(Token)
      /\ ended'["server"] = "fin" => rx'["client"] = rx["client"]
  BY ServerExitCuts
<1>2. Len(rx["client"]) \in Nat /\ rx["client"] \in Seq(Token)
  BY DEF Side
<1>3. rx["client"] = <<>> => rx'["client"] = <<>>
  BY <1>1, <1>2
<1>4. ServerRounds' /\ AnswerInHand' /\ OpenMeansComplete'
  BY <1>1
  DEF ServerRounds, AnswerInHand, OpenMeansComplete, ServerSettingUp, Signing
<1>5. LinkInOrder'
  BY <1>1, <1>3 DEF LinkInOrder, ServerSettingUp
<1>6. RequestsInOrder' /\ RequestsCounted'
  BY <1>1 DEF RequestsInOrder, RequestsCounted
<1>7. AnswersInOrder'
  <2> SUFFICES ASSUME cpc # "done"
               PROVE  /\ ClientRead + Len(rx'["client"]) <= Replies
                      /\ legs >= 2 /\ ClientRead = 0 /\ rx'["client"] # <<>> =>
                            /\ rx'["client"][1].kind = "ctx" /\ rx'["client"][1].leg = 2
                            /\ sleg = 1
    BY <1>1 DEF AnswersInOrder
  <2>1. ClientRead + Len(rx'["client"]) <= Replies
    BY <1>1, <1>2 DEF AnswersInOrder
  <2>2. CASE rx'["client"] # <<>>
    <3>1. rx["client"] # <<>> /\ rx'["client"][1] = rx["client"][1]
      BY <1>1, <1>2, <1>3, <2>2
    <3> QED
      BY <2>1, <3>1 DEF AnswersInOrder
  <2> QED
    BY <2>1, <2>2
<1>8. AnswersCounted'
  <2> SUFFICES ASSUME cpc # "done", ret = "ok", ended'["server"] = "fin"
               PROVE  ClientRead + Len(rx["client"]) = ServerSent'
    BY <1>1 DEF AnswersCounted
  <2>1. ServerSent' = ServerSent
    BY <1>1 DEF ServerSent, One
  <2> QED
    BY <2>1 DEF AnswersCounted
<1>9. SpinsAfterEnd'
  BY <1>1 DEF SpinsAfterEnd
<1>10. ServerFilesInOrder' /\ FilesCounted'
  BY <1>1 DEF ServerFilesInOrder, FilesCounted, ServerSettingUp
<1> QED
  BY <1>4, <1>5, <1>6, <1>7, <1>8, <1>9, <1>10

\* A call fails and main returns 1, or a signal ends the server.
LEMMA ServerGivingUpKeepsOrder ==
    ASSUME Running, ClientStays, spc # "done",
           \E ret \in {"error", "killed"} : \E resources : SExit(ret, resources)
    PROVE  OrderInv'
BY ServerExitKeepsOrder

\* A step of the server within talk_to_client that reads and sends nothing.
LEMMA ServerLocalKeepsOrder ==
    ASSUME Running, ClientStays, UNCHANGED <<rx, ended>>,
           spc \notin {"done", "spin"}, spc' \notin {"done", "spin"}, sret' = sret,
           ServerSent' = ServerSent, ServerRead' = ServerRead,
           LinkInOrder', ServerRounds', ServerFilesInOrder', FilesCounted',
           sleg = 1 => sleg' = 1
    PROVE  OrderInv'
<1> USE ClientStaysInOrder DEF Running, OrderInv
<1>1. RequestsInOrder' /\ RequestsCounted'
  BY DEF RequestsInOrder, RequestsCounted
<1>2. AnswersInOrder'
  BY DEF AnswersInOrder
<1>3. AnswersCounted'
  BY DEF AnswersCounted
<1>4. SpinsAfterEnd' /\ AnswerInHand' /\ OpenMeansComplete'
  BY DEF SpinsAfterEnd, AnswerInHand, OpenMeansComplete
<1> QED
  BY <1>1, <1>2, <1>3, <1>4

\* The set-up calls, before the connection is accepted.
LEMMA ServerSetUpKeepsOrder ==
    ASSUME Running, ClientStays, SAcquireCreds \/ SBind \/ SListen \/ SAccept
    PROVE  OrderInv'
<1> USE ClientStaysInOrder, Types DEF Running, OrderInv
<1>1. spc # "done"
  BY DEF SAcquireCreds, SBind, SListen, SAccept
<1>2. CASE SFail({})
  BY <1>1, <1>2, ServerGivingUpKeepsOrder DEF SFail
<1>3. CASE ~SFail({})
  <2>1. /\ spc \in ServerSettingUp /\ spc' \in ServerSettingUp \cup {"recv"}
        /\ UNCHANGED <<rx, ended, linked, sleg, smaj, stok, srec, sret>>
    BY <1>3 DEF SAcquireCreds, SBind, SListen, SAccept, Listen, linkVars, ServerSettingUp
  <2>2. sleg = 0 /\ sleg' = 0 /\ sret # "ok" /\ sret' # "ok"
    BY <1>1, <2>1 DEF ServerRounds, LinkInOrder
  <2>3. ServerSent' = ServerSent /\ ServerRead' = ServerRead
    BY <2>1, <2>2 DEF ServerSent, ServerRead, One, ServerSettingUp
  <2>4. ServerRounds'
    BY <2>1, <2>2 DEF ServerRounds, ServerSettingUp, Signing
  <2>5. LinkInOrder'
    BY <1>3, <2>1
    DEF LinkInOrder, SAcquireCreds, SBind, SListen, SAccept, Listen, linkVars,
        ServerSettingUp
  <2>6. ServerFilesInOrder' /\ FilesCounted'
    BY <2>1, <2>2 DEF ServerFilesInOrder, FilesCounted, ServerSettingUp, One
  <2> QED
    BY <2>1, <2>2, <2>3, <2>4, <2>5, <2>6, ServerLocalKeepsOrder DEF ServerSettingUp
<1> QED
  BY <1>2, <1>3

\* A file is added behind the others.
LEMMA ServerFileAdded ==
    ASSUME ServerTypeOK, ServerFilesInOrder, NEW leg \in Nat,
           Recording => leg = Len(srec) + 1, SRecord(ServerDir(leg), leg)
    PROVE  /\ ServerFilesInOrder'
           /\ Len(srec) \in Nat
           /\ Recording => Len(srec') = leg
<1>1. srec \in Seq([dir : {"send", "recv"}, leg : Nat])
  BY DEF ServerTypeOK
<1>2. CASE Recording
  <2>1. srec' = Append(srec, [dir |-> ServerDir(leg), leg |-> leg]) /\ leg = Len(srec) + 1
    BY <1>2 DEF SRecord
  <2>2. /\ Len(srec') = Len(srec) + 1
        /\ \A i \in 1 .. Len(srec) : srec'[i] = srec[i]
        /\ srec'[Len(srec) + 1] = [dir |-> ServerDir(leg), leg |-> leg]
    BY <1>1, <2>1
  <2> QED
    BY <1>1, <2>1, <2>2 DEF ServerFilesInOrder
<1>3. CASE ~Recording
  BY <1>1, <1>3 DEF SRecord, ServerFilesInOrder
<1> QED
  BY <1>2, <1>3

\* gss_accept_sec_context: it is given no context, so that it accepts the first
\* leg and nothing else.
LEMMA ServerAcceptKeepsOrder ==
    ASSUME Running, ClientStays, SAcceptSecContext
    PROVE  OrderInv'
<1> USE ClientStaysInOrder, Types DEF Running, OrderInv
<1>1. spc = "accept_ctx"
  BY DEF SAcceptSecContext
<1>2. CASE \E resources : SExit("error", resources)
  BY <1>1, <1>2, ServerGivingUpKeepsOrder
<1>3. CASE ~\E resources : SExit("error", resources)
  <2>1. LegOf(HandleGiven) = 1
    BY DEF LegOf, HandleGiven
  <2>2. /\ stok.leg = 1 /\ sleg' = 1
        /\ smaj' = IF Completes(1) THEN "complete" ELSE "continue"
        /\ \/ Answers(1) /\ spc' = "send" /\ SRecord("send", 2)
           \/ ~Answers(1) /\ spc' = "display" /\ UNCHANGED srec
        /\ UNCHANGED <<linkVars, stok, sret>>
    BY <1>3, <2>1 DEF SAcceptSecContext, Acceptable
  <2>3. sleg = 0 /\ sret # "ok" /\ sret' # "ok"
    BY <1>1, <2>2 DEF ServerRounds, LinkInOrder
  <2>4. ServerRounds'
    BY <2>2, <2>3 DEF ServerRounds, Completes, Answers, ServerSettingUp, Signing
  <2>5. ServerSent' = ServerSent /\ ServerRead' = ServerRead
    BY <1>1, <2>2, <2>3 DEF ServerSent, ServerRead, One, Answers
  <2>6. LinkInOrder'
    BY <1>1, <2>2 DEF LinkInOrder, linkVars, ServerSettingUp
  <2>7. ServerFilesInOrder' /\ FilesCounted'
    <3>1. CASE Answers(1)
      <4>1. spc' = "send" /\ ServerDir(2) = "send" /\ SRecord(ServerDir(2), 2)
        BY <2>2, <3>1 DEF ServerDir
      <4>2. Recording => 2 = Len(srec) + 1
        <5>1. Recording => Len(srec) = 2 * sleg + One(spc = "accept_ctx")
          BY <1>1 DEF FilesCounted
        <5>2. One(spc = "accept_ctx") = 1
          BY <1>1 DEF One
        <5> QED
          BY <2>3, <5>1, <5>2
      <4>3. ServerFilesInOrder' /\ (Recording => Len(srec') = 2)
        BY <4>1, <4>2, ServerFileAdded
      <4> QED
        BY <2>2, <4>1, <4>3 DEF FilesCounted, One, ServerSettingUp
    <3>2. CASE ~Answers(1)
      BY <2>2, <3>2 DEF ServerFilesInOrder, FilesCounted, ServerSettingUp
    <3> QED
      BY <3>1, <3>2
  <2> QED
    BY <1>1, <2>2, <2>3, <2>4, <2>5, <2>6, <2>7, ServerLocalKeepsOrder DEF linkVars
<1> QED
  BY <1>2, <1>3

\* The steps between the accepted context and the MIC that go over no connection.
LEMMA ServerSigningKeepsOrder ==
    ASSUME Running, ClientStays, SDisplayName \/ SUnwrap \/ SGetMic
    PROVE  OrderInv'
<1> USE ClientStaysInOrder, Types DEF Running, OrderInv
<1>1. CASE SExit("killed", {})
  BY <1>1, ServerGivingUpKeepsOrder DEF SDisplayName, SUnwrap, SGetMic
<1>2. CASE ~SExit("killed", {})
  <2>1. /\ \/ spc = "display" /\ spc' = "recv_msg"
           \/ spc = "unwrap" /\ spc' = "get_mic"
           \/ spc = "get_mic" /\ spc' = "send_mic"
        /\ UNCHANGED <<linkVars, smaj, sleg, srec, sret>>
    BY <1>2 DEF SDisplayName, SUnwrap, SGetMic
  <2>2. sret # "ok" /\ sret' # "ok"
    BY <2>1 DEF LinkInOrder
  <2>3. ServerSent' = ServerSent /\ ServerRead' = ServerRead
    BY <2>1 DEF ServerSent, ServerRead, One
  <2>4. ServerRounds'
    BY <2>1 DEF ServerRounds, ServerSettingUp, Signing
  <2>5. LinkInOrder'
    BY <2>1 DEF LinkInOrder, linkVars, ServerSettingUp
  <2>6. ServerFilesInOrder' /\ FilesCounted'
    BY <2>1 DEF ServerFilesInOrder, FilesCounted, ServerSettingUp
  <2> QED
    BY <2>1, <2>2, <2>3, <2>4, <2>5, <2>6, ServerLocalKeepsOrder DEF linkVars
<1> QED
  BY <1>1, <1>2

\* read_all turns in its loop: the client has ended, and not by success, for
\* the server has made no MIC.
LEMMA ServerSpinKeepsOrder ==
    ASSUME Running, ClientStays, SSpin, spc \in {"recv", "recv_msg"}
    PROVE  OrderInv'
<1> USE ClientStaysInOrder, Types DEF Running, OrderInv
<1>1. /\ spc' = "spin" /\ UNCHANGED <<linkVars, rx, ended, smaj, sleg, stok, srec, sret>>
      /\ rx["server"] = <<>> /\ ended["client"] = "fin"
  BY DEF SSpin, AtEof, Peer, linkVars
<1>2. cpc = "done"
  BY <1>1 DEF LinkInOrder
<1>3. cret # "ok"
  BY DEF IInv, VerifiedMeansDelivered, MicMade
<1>4. ServerRounds' /\ AnswerInHand' /\ OpenMeansComplete'
  <2>1. sret # "ok"
    BY DEF LinkInOrder
  <2> QED
    BY <1>1, <1>2, <2>1
    DEF ServerRounds, AnswerInHand, OpenMeansComplete, ServerSettingUp, Signing
<1>5. LinkInOrder'
  BY <1>1, <1>2 DEF LinkInOrder, linkVars, ServerSettingUp
<1>6. RequestsInOrder' /\ RequestsCounted' /\ AnswersInOrder' /\ AnswersCounted'
  BY <1>1, <1>2 DEF RequestsInOrder, RequestsCounted, AnswersInOrder, AnswersCounted
<1>7. SpinsAfterEnd'
  BY <1>1, <1>2, <1>3 DEF SpinsAfterEnd
<1>8. ServerFilesInOrder' /\ FilesCounted'
  BY <1>1 DEF ServerFilesInOrder, FilesCounted, ServerSettingUp
<1> QED
  BY <1>4, <1>5, <1>6, <1>7, <1>8

\* send_token fails: that happens only when the client has ended.
LEMMA ServerErrorKeepsOrder ==
    ASSUME Running, ClientStays, SendBroken("server"), ErrorReported("server"),
           spc \notin {"done", "spin"}, spc' \notin {"done", "spin"}, sret' = sret,
           ServerRead' = ServerRead,
           ServerRounds', ServerFilesInOrder', FilesCounted',
           linked, sleg' = sleg, spc' \notin ServerSettingUp
    PROVE  OrderInv'
<1> USE ClientStaysInOrder, Types DEF Running, OrderInv
<1>1. ended["client"] = "rst" /\ cpc = "done"
  BY DEF SendBroken, Peer, LinkInOrder
<1>2. /\ ended' = [ended EXCEPT !["client"] = "fin"]
      /\ UNCHANGED <<listening, linked, rx>>
  BY DEF ErrorReported, Peer
<1>3. ended'["client"] = "fin" /\ ended'["server"] = ended["server"]
  BY <1>2 DEF LinkTypeOK, Side
<1>4. LinkInOrder'
  BY <1>1, <1>2, <1>3 DEF LinkInOrder, ServerSettingUp
<1>5. RequestsInOrder' /\ RequestsCounted'
  BY <1>1, <1>2 DEF RequestsInOrder, RequestsCounted
<1>6. AnswersInOrder' /\ AnswersCounted'
  BY <1>1 DEF AnswersInOrder, AnswersCounted
<1>7. SpinsAfterEnd' /\ AnswerInHand' /\ OpenMeansComplete'
  BY <1>1 DEF SpinsAfterEnd, AnswerInHand, OpenMeansComplete
<1> QED
  BY <1>4, <1>5, <1>6, <1>7

\* A step of the server that sends a token: its first is the second leg, if the
\* mechanism has one.
LEMMA ServerPutKeepsOrder ==
    ASSUME Running, ClientStays, NEW token \in Token, Put("server", token),
           spc \notin {"done", "spin"}, spc' \notin {"done", "spin"} \cup ServerSettingUp,
           linked, sret' = sret, sleg' = sleg, sleg = 1,
           ServerSent' = ServerSent + 1, ServerRead' = ServerRead,
           ServerSent + 1 <= Replies,
           ServerSent = 0 /\ legs >= 2 => token.kind = "ctx" /\ token.leg = 2,
           ServerRounds', ServerFilesInOrder', FilesCounted'
    PROVE  OrderInv'
<1> USE ClientStaysInOrder, Types, Counts DEF Running, OrderInv
<1>1. /\ rx'["server"] = rx["server"]
      /\ ended["client"] # "open" => rx' = rx
      /\ ended["client"] = "open" =>
           /\ Len(rx'["client"]) = Len(rx["client"]) + 1
           /\ \A i \in 1 .. Len(rx["client"]) : rx'["client"][i] = rx["client"][i]
           /\ rx'["client"][Len(rx["client"]) + 1] = token
  BY PutAppends DEF Side, Peer
<1>2. UNCHANGED <<ended, linked, listening>>
  BY DEF Put
<1>3. cpc # "done" <=> ended["client"] = "open"
  BY DEF LinkInOrder
<1>4. LinkInOrder'
  BY <1>1, <1>2, <1>3 DEF LinkInOrder, ServerSettingUp
<1>5. RequestsInOrder' /\ RequestsCounted'
  BY <1>1 DEF RequestsInOrder, RequestsCounted
<1>6. SpinsAfterEnd' /\ AnswerInHand' /\ OpenMeansComplete'
  BY DEF SpinsAfterEnd, AnswerInHand, OpenMeansComplete
<1>7. CASE cpc = "done"
  <2>1. AnswersInOrder' /\ AnswersCounted'
    BY <1>7 DEF AnswersInOrder, AnswersCounted
  <2> QED
    BY <1>4, <1>5, <1>6, <2>1
<1>8. CASE cpc # "done"
  <2>1. Len(rx["client"]) \in Nat
    BY DEF Side
  <2>2. ClientRead + Len(rx["client"]) = ServerSent
    BY <1>8 DEF AnswersCounted
  <2>3. ClientRead + Len(rx'["client"]) = ServerSent + 1
    <3>1. Len(rx'["client"]) = Len(rx["client"]) + 1
      BY <1>1, <1>3, <1>8
    <3>2. ClientRead \in Nat
      OBVIOUS
    <3> QED
      BY ONLY <2>1, <2>2, <3>1, <3>2
  <2>4. AnswersCounted'
    BY <2>3 DEF AnswersCounted
  <2>5. legs >= 2 /\ ClientRead = 0 =>
          rx'["client"][1].kind = "ctx" /\ rx'["client"][1].leg = 2
    <3>1. CASE Len(rx["client"]) = 0
      BY <1>1, <1>3, <1>8, <2>2, <3>1
    <3>2. CASE Len(rx["client"]) # 0
      <4>1. 1 \in 1 .. Len(rx["client"]) /\ rx["client"] # <<>>
        BY <2>1, <3>2
      <4>2. rx'["client"][1] = rx["client"][1]
        BY <1>1, <1>3, <1>8, <4>1
      <4> QED
        BY <1>8, <4>1, <4>2 DEF AnswersInOrder
    <3> QED
      BY <3>1, <3>2
  <2>6. AnswersInOrder'
    BY <2>3, <2>5 DEF AnswersInOrder
  <2> QED
    BY <1>4, <1>5, <1>6, <2>4, <2>6
<1> QED
  BY <1>7, <1>8

\* send_token of a context token.
LEMMA ServerSendingKeepsOrder ==
    ASSUME Running, ClientStays, SSendToken
    PROVE  OrderInv'
<1> USE ClientStaysInOrder, Types DEF Running, OrderInv
<1>1. spc = "send"
  BY DEF SSendToken
<1>2. CASE SKilled
  BY <1>1, <1>2, ServerGivingUpKeepsOrder DEF SKilled
<1>3. CASE ~SKilled
  <2>1. /\ sleg = 1 /\ legs >= 2 /\ linked /\ sret # "ok"
        /\ smaj = "complete" <=> legs <= 2
    BY <1>1 DEF ServerRounds, LinkInOrder, ServerSettingUp
  <2>2. /\ spc' = (IF legs <= 2 THEN "display" ELSE "recv")
        /\ UNCHANGED <<smaj, sleg, stok, srec, sret>>
    BY <1>3, <2>1 DEF SSendToken, AfterRound
  <2>3. ServerRounds'
    BY <2>1, <2>2 DEF ServerRounds, ServerSettingUp, Signing
  <2>4. ServerRead' = ServerRead
    BY <1>1, <2>2 DEF ServerRead, One
  <2>5. ServerFilesInOrder' /\ FilesCounted'
    BY <1>1, <2>2 DEF ServerFilesInOrder, FilesCounted, One, ServerSettingUp
  <2>6. CASE Put("server", CtxToken(sleg + 1))
    <3>1. /\ CtxToken(sleg + 1) \in Token
          /\ CtxToken(sleg + 1).kind = "ctx" /\ CtxToken(sleg + 1).leg = 2
      BY <2>1, TokenTypes DEF CtxToken
    <3>2. ServerSent = 0 /\ ServerSent' = 1 /\ Replies >= 1
      BY <1>1, <2>1, <2>2 DEF ServerSent, One, Replies
    <3> QED
      BY <1>1, <2>1, <2>2, <2>3, <2>4, <2>5, <2>6, <3>1, <3>2, ServerPutKeepsOrder
      DEF ServerSettingUp
  <2>7. CASE SendBroken("server") /\ ErrorReported("server")
    BY <1>1, <2>1, <2>2, <2>3, <2>4, <2>5, <2>7, ServerErrorKeepsOrder DEF ServerSettingUp
  <2> QED
    BY <1>3, <2>6, <2>7 DEF SSendToken
<1> QED
  BY <1>2, <1>3

\* send_token of the MIC.
LEMMA ServerSendingMicKeepsOrder ==
    ASSUME Running, ClientStays, SSendMic
    PROVE  OrderInv'
<1> USE ClientStaysInOrder, Types DEF Running, OrderInv
<1>1. spc = "send_mic"
  BY DEF SSendMic
<1>2. CASE SKilled
  BY <1>1, <1>2, ServerGivingUpKeepsOrder DEF SKilled
<1>3. CASE ~SKilled
  <2>1. sleg = 1 /\ legs <= 2 /\ linked /\ sret # "ok"
    BY <1>1 DEF ServerRounds, LinkInOrder, ServerSettingUp, Signing
  <2>2. spc' = "delete" /\ UNCHANGED <<smaj, sleg, stok, srec, sret>>
    BY <1>3 DEF SSendMic
  <2>3. ServerRounds'
    BY <1>1, <2>2 DEF ServerRounds, ServerSettingUp, Signing
  <2>4. ServerRead' = ServerRead
    BY <1>1, <2>2 DEF ServerRead, One
  <2>5. ServerFilesInOrder' /\ FilesCounted'
    BY <2>2 DEF ServerFilesInOrder, FilesCounted, ServerSettingUp
  <2>6. CASE Put("server", stok)
    <3>1. stok \in Token
      BY DEF ServerTypeOK
    <3>2. /\ ServerSent' = ServerSent + 1 /\ ServerSent + 1 <= Replies
          /\ ~(ServerSent = 0 /\ legs >= 2)
      BY <1>1, <2>1, <2>2 DEF ServerSent, One, Replies
    <3> QED
      BY <1>1, <2>1, <2>2, <2>3, <2>4, <2>5, <2>6, <3>1, <3>2, ServerPutKeepsOrder
      DEF ServerSettingUp
  <2>7. CASE SendBroken("server") /\ ErrorReported("server")
    BY <1>1, <2>1, <2>2, <2>3, <2>4, <2>5, <2>7, ServerErrorKeepsOrder DEF ServerSettingUp
  <2> QED
    BY <1>3, <2>6, <2>7 DEF SSendMic
<1> QED
  BY <1>2, <1>3

\* A step of the server that reads a token.
LEMMA ServerTakeKeepsOrder ==
    ASSUME Running, ClientStays, Take("server"),
           spc \notin {"done", "spin"}, spc' \notin {"done", "spin"} \cup ServerSettingUp,
           sret' = sret, sleg' = sleg,
           ServerSent' = ServerSent, ServerRead' = ServerRead + 1,
           ServerRounds', ServerFilesInOrder', FilesCounted'
    PROVE  OrderInv'
<1> USE ClientStaysInOrder, Types, Counts DEF Running, OrderInv
<1>1. /\ Len(rx["server"]) >= 1 /\ Len(rx["server"]) \in Nat
      /\ Len(rx'["server"]) = Len(rx["server"]) - 1
      /\ \A i \in 1 .. Len(rx'["server"]) : rx'["server"][i] = rx["server"][i + 1]
      /\ rx'["client"] = rx["client"]
  BY TakeShifts DEF Side
<1>2. UNCHANGED <<ended, linked, listening>> /\ rx["server"] # <<>>
  BY DEF Take
<1>3. LinkInOrder'
  BY <1>1, <1>2 DEF LinkInOrder, ServerSettingUp
<1>4. RequestsInOrder'
  <2> SUFFICES ASSUME NEW i \in 1 .. Len(rx'["server"]),
                      ServerRead' + i = 1 \/ (ServerRead' + i = 2 /\ legs >= 3)
               PROVE  /\ rx'["server"][i].kind = "ctx"
                      /\ rx'["server"][i].leg = 2 * (ServerRead' + i) - 1
    BY DEF RequestsInOrder
  <2>1. /\ i + 1 \in 1 .. Len(rx["server"]) /\ rx'["server"][i] = rx["server"][i + 1]
        /\ ServerRead' + i = ServerRead + (i + 1)
    <3>1. ServerRead \in Nat /\ ServerRead' = ServerRead + 1
      OBVIOUS
    <3> QED
      BY ONLY <1>1, <3>1
  <2> QED
    BY <2>1 DEF RequestsInOrder
<1>5. RequestsCounted'
  <2>1. \A a, b \in Nat : (a + 1) + (b - 1) = a + b
    OBVIOUS
  <2>2. ServerRead \in Nat /\ ServerRead' = ServerRead + 1
    OBVIOUS
  <2>3. ServerRead' + Len(rx'["server"]) = ServerRead + Len(rx["server"])
    BY ONLY <1>1, <2>1, <2>2
  <2> QED
    BY <2>3 DEF RequestsCounted
<1>6. AnswersInOrder' /\ AnswersCounted'
  BY <1>1, <1>2 DEF AnswersInOrder, AnswersCounted
<1>7. SpinsAfterEnd' /\ AnswerInHand' /\ OpenMeansComplete'
  BY DEF SpinsAfterEnd, AnswerInHand, OpenMeansComplete
<1> QED
  BY <1>3, <1>4, <1>5, <1>6, <1>7

\* recv_token of a context token: it is the next odd leg.
LEMMA ServerReceivingKeepsOrder ==
    ASSUME Running, ClientStays, SRecvToken
    PROVE  OrderInv'
<1> USE ClientStaysInOrder, Types DEF Running, OrderInv
<1>1. spc = "recv"
  BY DEF SRecvToken
<1>2. CASE SSpin \/ SFail({})
  BY <1>1, <1>2, ServerGivingUpKeepsOrder, ServerSpinKeepsOrder DEF SFail
<1>3. CASE ~SSpin /\ ~SFail({})
  <2>1. /\ Take("server") /\ spc' = "accept_ctx"
        /\ stok' \in Arrivals(Head(rx["server"])) /\ SRecord("recv", stok'.leg)
        /\ UNCHANGED <<smaj, sleg, sret>>
    BY <1>3 DEF SRecvToken
  <2>2. /\ 1 \in 1 .. Len(rx["server"])
        /\ Head(rx["server"]) = rx["server"][1] /\ rx["server"][1] \in Token
    BY <2>1, TakeShifts DEF Side
  <2>3. sleg \in {0, 1} /\ (sleg = 0 \/ legs >= 3) /\ sret # "ok"
    BY <1>1 DEF ServerRounds, LinkInOrder
  <2>4. /\ ServerRead = sleg /\ ServerRead' = ServerRead + 1
        /\ ServerSent' = ServerSent
    BY <1>1, <2>1, <2>3 DEF ServerRead, ServerSent, One
  <2>5. rx["server"][1].kind = "ctx" /\ rx["server"][1].leg = 2 * sleg + 1
    <3>1. \A i \in 1 .. Len(rx["server"]) :
             ServerRead + i = 1 \/ (ServerRead + i = 2 /\ legs >= 3) =>
                /\ rx["server"][i].kind = "ctx"
                /\ rx["server"][i].leg = 2 * (ServerRead + i) - 1
      BY <1>1 DEF RequestsInOrder
    <3>2. /\ ServerRead + 1 = 1 \/ (ServerRead + 1 = 2 /\ legs >= 3)
          /\ 2 * (ServerRead + 1) - 1 = 2 * sleg + 1
      BY <2>3, <2>4
    <3> QED
      BY ONLY <2>2, <3>1, <3>2
  <2>6. stok'.kind = "ctx" /\ stok'.leg = 2 * sleg + 1
    BY <2>1, <2>2, <2>5 DEF Arrivals, Token
  <2>7. ServerRounds'
    BY <2>1, <2>3, <2>6 DEF ServerRounds, ServerSettingUp, Signing
  <2>8. ServerFilesInOrder' /\ (Recording => Len(srec') = 2 * sleg + 1)
    <3>1. ServerDir(2 * sleg + 1) = "recv" /\ 2 * sleg + 1 \in Nat
      BY <2>3 DEF ServerDir
    <3>2. SRecord(ServerDir(2 * sleg + 1), 2 * sleg + 1)
      BY <2>1, <2>6, <3>1
    <3>3. Recording => 2 * sleg + 1 = Len(srec) + 1
      <4>1. Recording => Len(srec) = 2 * sleg + One(spc = "accept_ctx")
        BY <1>1 DEF FilesCounted
      <4>2. One(spc = "accept_ctx") = 0
        BY <1>1 DEF One
      <4> QED
        BY <2>3, <4>1, <4>2
    <3> QED
      BY <3>1, <3>2, <3>3, ServerFileAdded
  <2>9. FilesCounted'
    BY <2>1, <2>8 DEF FilesCounted, One, ServerSettingUp
  <2> QED
    BY <1>1, <2>1, <2>4, <2>7, <2>8, <2>9, ServerTakeKeepsOrder DEF ServerSettingUp
<1> QED
  BY <1>2, <1>3

\* recv_token of the message.
LEMMA ServerReceivingMessageKeepsOrder ==
    ASSUME Running, ClientStays, SRecvMessage
    PROVE  OrderInv'
<1> USE ClientStaysInOrder, Types DEF Running, OrderInv
<1>1. spc = "recv_msg"
  BY DEF SRecvMessage
<1>2. CASE SSpin \/ SExit("error", {"context"})
  BY <1>1, <1>2, ServerGivingUpKeepsOrder, ServerSpinKeepsOrder
<1>3. CASE ~SSpin /\ ~SExit("error", {"context"})
  <2>1. Take("server") /\ spc' = "unwrap" /\ UNCHANGED <<smaj, sleg, srec, sret>>
    BY <1>3 DEF SRecvMessage
  <2>2. ServerRead' = ServerRead + 1 /\ ServerSent' = ServerSent
    BY <1>1, <2>1 DEF ServerRead, ServerSent, One
  <2>3. ServerRounds'
    BY <1>1, <2>1 DEF ServerRounds, ServerSettingUp, Signing
  <2>4. ServerFilesInOrder' /\ FilesCounted'
    BY <2>1 DEF ServerFilesInOrder, FilesCounted, ServerSettingUp
  <2> QED
    BY <1>1, <2>1, <2>2, <2>3, <2>4, ServerTakeKeepsOrder DEF ServerSettingUp
<1> QED
  BY <1>2, <1>3

\* No step of the server breaks the invariant.
LEMMA ServerKeepsOrder ==
    ASSUME Running, Server
    PROVE  OrderInv'
<1>1. ClientStays
  BY DEF Server, ClientStays
<1>2. CASE SAcquireCreds \/ SBind \/ SListen \/ SAccept
  BY <1>1, <1>2, ServerSetUpKeepsOrder
<1>3. CASE SRecvToken \/ SAcceptSecContext \/ SSendToken
  BY <1>1, <1>3, ServerReceivingKeepsOrder, ServerAcceptKeepsOrder,
     ServerSendingKeepsOrder
<1>4. CASE SDisplayName \/ SUnwrap \/ SGetMic
  BY <1>1, <1>4, ServerSigningKeepsOrder
<1>5. CASE SRecvMessage \/ SSendMic
  BY <1>1, <1>5, ServerReceivingMessageKeepsOrder, ServerSendingMicKeepsOrder
<1>6. CASE SDeleteContext
  BY <1>1, <1>6, ServerExitKeepsOrder DEF SDeleteContext, SKilled
<1>7. CASE ServerKill
  BY <1>1, <1>7, ServerGivingUpKeepsOrder DEF ServerKill, SKilled
<1> QED
  BY <1>2, <1>3, <1>4, <1>5, <1>6, <1>7 DEF Server, ServerStep

-----------------------------------------------------------------------------
\* Nothing is sent, read or recorded at the start.
LEMMA OrderInit == Init => OrderInv
<1> SUFFICES ASSUME Init PROVE OrderInv
  OBVIOUS
<1>1. legs \in Nat /\ legs >= 1
  BY GssAssumption DEF Init
<1>2. /\ rx["client"] = <<>> /\ rx["server"] = <<>>
      /\ Len(rx["client"]) = 0 /\ Len(rx["server"]) = 0
      /\ ended["client"] = "open" /\ ended["server"] = "open"
  BY DEF Init, LinkInit, Side
<1>3. ClientRead = 0 /\ ClientSent = 0 /\ ServerRead = 0 /\ ServerSent = 0 /\ Replies >= 1
  BY DEF Init, ClientInit, ServerInit, ClientRead, ClientSent, ServerRead, ServerSent,
         Replies, ContextTokensBy, One, Established
<1>4. ClientRounds /\ AnswerInHand /\ ServerRounds /\ OpenMeansComplete
  BY <1>1
  DEF Init, ClientInit, ServerInit, ClientRounds, AnswerInHand, ServerRounds,
      OpenMeansComplete, ClientSettingUp, ServerSettingUp, Signing, Established
<1>5. LinkInOrder
  BY <1>2
  DEF Init, ClientInit, ServerInit, LinkInit, LinkInOrder, ServerSettingUp
<1>6. RequestsInOrder /\ RequestsCounted
  BY <1>2, <1>3 DEF RequestsInOrder, RequestsCounted
<1>7. AnswersInOrder /\ AnswersCounted
  <2>1. Replies \in Nat
    BY DEF Replies
  <2> QED
    BY <1>2, <1>3, <2>1 DEF AnswersInOrder, AnswersCounted
<1>8. SpinsAfterEnd
  BY DEF Init, ClientInit, ServerInit, SpinsAfterEnd
<1>9. ClientFilesInOrder /\ ServerFilesInOrder /\ FilesCounted
  BY DEF Init, ClientInit, ServerInit, ClientFilesInOrder, ServerFilesInOrder,
         FilesCounted, One
<1> QED
  BY <1>4, <1>5, <1>6, <1>7, <1>8, <1>9 DEF OrderInv

\* A step that changes nothing keeps the invariant.
LEMMA StutterKeepsOrder ==
    ASSUME OrderInv, UNCHANGED vars
    PROVE  OrderInv'
<1>1. UNCHANGED <<legs, rx, ended, listening, linked>>
  BY DEF vars, linkVars
<1>2. UNCHANGED <<cpc, cctx, cleg, ctok, crec, cret>>
  BY DEF vars, clientVars
<1>3. UNCHANGED <<spc, smaj, sleg, stok, srec, sret>>
  BY DEF vars, serverVars
<1>4. UNCHANGED <<ClientSent, ClientRead, ServerSent, ServerRead, Replies>>
  BY <1>1, <1>2, <1>3 DEF ClientSent, ClientRead, ServerSent, ServerRead, Replies
<1>5. UNCHANGED <<ClientRounds, AnswerInHand, ServerRounds, OpenMeansComplete, LinkInOrder>>
  BY <1>1, <1>2, <1>3
  DEF ClientRounds, AnswerInHand, ServerRounds, OpenMeansComplete, LinkInOrder
<1>6. UNCHANGED <<RequestsInOrder, RequestsCounted, AnswersInOrder, AnswersCounted>>
  BY <1>1, <1>2, <1>3, <1>4
  DEF RequestsInOrder, RequestsCounted, AnswersInOrder, AnswersCounted
<1>7. UNCHANGED <<SpinsAfterEnd, ClientFilesInOrder, ServerFilesInOrder, FilesCounted>>
  BY <1>1, <1>2, <1>3
  DEF SpinsAfterEnd, ClientFilesInOrder, ServerFilesInOrder, FilesCounted
<1> QED
  BY <1>5, <1>6, <1>7 DEF OrderInv

\* The tokens go in order and are counted, in every reachable state.
THEOREM OrderInvariant == Spec => []OrderInv
<1>1. IInv /\ OrderInv /\ [Next]_vars => OrderInv'
  BY ClientKeepsOrder, ServerKeepsOrder, StutterKeepsOrder DEF Next, Quiet, Running
<1> QED
  BY <1>1, OrderInit, SessionInvariant, PTL DEF Spec

\* A client whose context is complete with a token of the server, which is so
\* for every even number of legs, knows that the server's gss_accept_sec_context
\* returned GSS_S_COMPLETE.
THEOREM OpenMeansEstablished == Spec => []MutualEstablishment
<1>1. OrderInv => MutualEstablishment
  BY DEF OrderInv, OpenMeansComplete, ServerRounds, MutualEstablishment
<1> QED
  BY <1>1, OrderInvariant, PTL

\* File i of client_token_* and file i of server_token_* are the same context
\* token, sent and received, for any number of files.
THEOREM SameFileSameToken == Spec => []RecordsAgree
<1>1. OrderInv /\ TypeOK => RecordsAgree
  <2> SUFFICES ASSUME OrderInv, TypeOK, NEW i \in 1 .. Len(crec), i <= Len(srec)
               PROVE  crec[i].leg = srec[i].leg /\ crec[i].dir # srec[i].dir
    BY DEF RecordsAgree
  <2>1. i \in 1 .. Len(srec)
    BY DEF TypeOK, ClientTypeOK, ServerTypeOK
  <2>2. /\ crec[i] = [dir |-> ClientDir(i), leg |-> i]
        /\ srec[i] = [dir |-> ServerDir(i), leg |-> i]
    BY <2>1 DEF OrderInv, ClientFilesInOrder, ServerFilesInOrder
  <2>3. ClientDir(i) # ServerDir(i)
    BY DEF ClientDir, ServerDir
  <2> QED
    BY <2>2, <2>3
<1> QED
  BY <1>1, OrderInvariant, SessionTypes, PTL

\* Client and server are never both in read_all with nothing on the way: what
\* one has sent and the other has not read is still there while both run.
THEOREM NeverBothRead == Spec => []NoMutualWait
<1>1. IInv /\ OrderInv => NoMutualWait
  <2> SUFFICES ASSUME Running, ClientReads, ServerReads,
                      rx["client"] = <<>>, rx["server"] = <<>>
               PROVE  FALSE
    BY DEF Running, NoMutualWait
  <2>1. Len(rx["client"]) = 0 /\ Len(rx["server"]) = 0
    OBVIOUS
  <2>2. /\ cpc \in {"recv", "recv_mic"} /\ spc \in {"recv", "recv_msg"}
    BY DEF ClientReads, ServerReads
  <2>3. ServerRead = ClientSent /\ ClientRead = ServerSent
    BY <2>1, <2>2, Counts DEF Running, OrderInv, RequestsCounted, AnswersCounted
  <2>4. ClientRounds /\ ServerRounds /\ sret # "ok"
    BY <2>2 DEF Running, OrderInv, LinkInOrder
  <2>5. CASE cpc = "recv"
    BY <2>2, <2>3, <2>4, <2>5, Types
    DEF ClientRounds, ServerRounds, Signing, Established, ClientSent, ClientRead,
        ServerSent, ServerRead, ContextTokensBy, One
  <2>6. CASE cpc = "recv_mic"
    BY <2>2, <2>3, <2>4, <2>6, Types
    DEF ClientRounds, ServerRounds, Signing, Established, ClientSent,
        ServerRead, ContextTokensBy, One
  <2> QED
    BY <2>2, <2>5, <2>6
<1> QED
  BY <1>1, OrderInvariant, SessionInvariant, PTL

\* read_all turns for ever in one process only if the other failed or was killed.
THEOREM SpinMeansFailure == Spec => []SpinOnlyAfterFailure
<1>1. IInv /\ OrderInv => SpinOnlyAfterFailure
  BY DEF IInv, EndedWhenDone, TypeOK, ClientTypeOK, ServerTypeOK, OrderInv, SpinsAfterEnd,
         LinkInOrder, SpinOnlyAfterFailure
<1> QED
  BY <1>1, OrderInvariant, SessionInvariant, PTL
=============================================================================
