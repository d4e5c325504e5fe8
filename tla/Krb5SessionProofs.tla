------------------------- MODULE Krb5SessionProofs -------------------------
(***************************************************************************)
(* What holds of Krb5Session for every set of keys, every keytab, replies  *)
(* of any number of parts, every address list and every set of faults.     *)
(***************************************************************************)
EXTENDS Krb5Session, TLAPS

\* A process that runs has not ended the connection.
RunningMeansOpen ==
    /\ kpc # "done" => ended["client"] = "open"
    /\ vpc # "done" => ended["server"] = "open"
    /\ kret = "running" <=> kpc # "done"
    /\ vret = "running" <=> vpc # "done"

-----------------------------------------------------------------------------
\* The answers of the server, by their number.
AnswerKind(n) == IF n <= 4 THEN <<"response", "error", "apRep", "length">>[n] ELSE "text"

\* How many of them the client has read, while it goes on reading ...
KListens == kpc \notin {"free", "done"} /\ (kpc = "returned" => kres = "ok")
KTaken ==
    IF kpc \in {"request", "verdict"} THEN 1
    ELSE IF kpc = "reply" THEN 2
    ELSE IF kpc \in {"returned", "length"} THEN 3
    ELSE IF kpc = "text" THEN 4 + kgot ELSE 0

\* ... and how many the server has written, while it goes on writing.
VTalks == vpc # "done" /\ (vpc = "returned" => vres = "ok")
VSent ==
    IF vpc \in {"request", "verdict"} THEN 1
    ELSE IF vpc = "reply" THEN 2
    ELSE IF vpc \in {"returned", "write_length"} THEN 3
    ELSE IF vpc = "write_text" THEN 4 + vsent ELSE 0

\* The answers arrive in their order: the first that is not read is the next.
AnswersInOrder ==
    KListens =>
        \A i \in 1 .. Len(rx["client"]) : rx["client"][i].kind = AnswerKind(KTaken + i)

\* No answer is lost, unless the server has reset the connection.
Answers == KTaken + Len(rx["client"])
AnswersCounted ==
    KListens =>
        /\ VTalks => Answers = VSent
        /\ ~VTalks /\ ended["server"] # "rst" =>
              Answers <= 4 + vsent /\ (vsent # 0 => Answers = 4 + vsent)

\* Nor is a request, before krb5_sendauth returns.
KAsks == kpc \notin {"returned", "length", "text", "free", "done"}
KSent ==
    IF kpc \in {"response", "request"} THEN 1
    ELSE IF kpc \in {"verdict", "reply"} THEN 2 ELSE 0
VTaken ==
    IF vpc \in {"respond", "request"} THEN 1
    ELSE IF vpc \in {"verdict", "reply"} THEN 2 ELSE 0
VAnswers == vpc \notin {"returned", "write_length", "write_text", "done"}
RequestsCounted == KAsks /\ VAnswers => VTaken + Len(rx["server"]) = KSent

-----------------------------------------------------------------------------
\* What recvauth has found out.
ServerKnows ==
    /\ vpc = "reply" => vmsg.value \in keytab
    /\ VAnswers => vres = "none"
    /\ vres = "ok" <=> accepted # {}
    /\ vpc \in {"write_length", "write_text"} => vres = "ok"

\* An answer tells the truth about it.
Truthful(t) ==
    /\ t.kind = "error" /\ t.value # "ok" => vres = "rejected"
    /\ t.kind = "apRep" => vres = "ok"
AnswersTruthful == \A i \in 1 .. Len(rx["client"]) : Truthful(rx["client"][i])

\* And so does what sendauth returns to the client.
ClientKnows ==
    /\ KAsks => kres = "none"
    /\ kres = "ok" => vres = "ok"
    /\ kres = "rejected" => vres = "rejected"
    /\ kpc \in {"length", "text", "free"} => kres = "ok"
    /\ ktold => kres = "ok"
    /\ kpc = "returned" => ~ktold
    /\ kgot # 0 => kpc \in {"text", "done"}

\* The server stops in the middle of its text only if it is killed, or if there
\* is no client any more.
TextWhole ==
    /\ vsent # 0 => vpc \in {"write_text", "done"}
    /\ vpc = "done" /\ vsent \notin {0, TextParts} => vret = "killed" \/ kpc = "done"

\* TypeOK, part by part.
LinkTypeOK ==
    /\ listening \in BOOLEAN /\ linked \in BOOLEAN
    /\ rx \in [Side -> Seq(Message)] /\ ended \in [Side -> {"open", "fin", "rst"}]
InputsTypeOK ==
    /\ cprog \in {"demo", "sample"} /\ sprog \in {"demo", "sample", "inetd"}
    /\ cache \in BOOLEAN /\ keytab \subseteq Keys
Ending == {"running", "ok", "error", "killed"}
ClientTypeOK ==
    /\ kpc \in {"context", "resolve", "connect", "cache", "versions", "response",
                "request", "verdict", "reply", "returned", "length", "text", "free", "done"}
    /\ kaddrs \in Seq({"server", "elsewhere"}) /\ kserver \in BOOLEAN
    /\ kres \in {"none", "ok", "rejected", "error"} /\ ktold \in BOOLEAN
    /\ kgot \in 0 .. TextParts /\ kret \in Ending
ServerTypeOK ==
    /\ vpc \in {"inetd", "context", "sname", "sname_unset", "bind", "listen", "accept",
                "peername", "versions", "respond", "request", "verdict", "reply",
                "returned", "write_length", "write_text", "done"}
    /\ vmsg \in Message /\ vres \in {"none", "ok", "rejected", "error"}
    /\ vsent \in 0 .. TextParts /\ accepted \in {{}} \cup {{key} : key \in Keys}
    /\ vret \in Ending

\* The inductive invariant.
IInv ==
    /\ LinkTypeOK /\ InputsTypeOK /\ ClientTypeOK /\ ServerTypeOK /\ RunningMeansOpen
    /\ AnswersInOrder /\ AnswersCounted /\ RequestsCounted
    /\ ServerKnows /\ AnswersTruthful /\ ClientKnows /\ TextWhole
    /\ ZeroMeansAnswered /\ ReplyWhole

-----------------------------------------------------------------------------
\* The messages that the two programs exchange are messages.
LEMMA MessageTypes ==
    /\ \A v \in {"none", "ok", "bad"} :
          \A k \in {"none", "response", "error", "apRep", "length", "text"} :
             Msg(k, v) \in Message
    /\ \A key \in Keys : Msg("apReq", key) \in Message
    /\ \A prog : Msg("versions", Version(prog)) \in Message
BY DEF Msg, Message, Version

\* What the operations of the link do to the two queues.
LEMMA TakeShifts ==
    ASSUME LinkTypeOK, NEW s \in Side, Take(s)
    PROVE  /\ LinkTypeOK' /\ ended' = ended
           /\ Len(rx[s]) \in Nat \ {0} /\ Len(rx'[s]) = Len(rx[s]) - 1
           /\ \A i \in 1 .. Len(rx'[s]) : rx'[s][i] = rx[s][i + 1]
           /\ rx'[Peer(s)] = rx[Peer(s)]
           /\ Head(rx[s]) = rx[s][1] /\ Head(rx[s]) \in Message
<1>1. rx[s] \in Seq(Message) /\ rx[s] # <<>> /\ Peer(s) \in Side \ {s}
  BY DEF LinkTypeOK, Take, Side, Peer
<1>2. rx' = [rx EXCEPT ![s] = Tail(rx[s])]
  BY DEF Take
<1>3. /\ Tail(rx[s]) \in Seq(Message) /\ Len(Tail(rx[s])) = Len(rx[s]) - 1
      /\ Len(rx[s]) \in Nat \ {0} /\ Head(rx[s]) = rx[s][1] /\ Head(rx[s]) \in Message
      /\ \A i \in 1 .. Len(rx[s]) - 1 : Tail(rx[s])[i] = rx[s][i + 1]
  BY <1>1
<1>4. rx'[s] = Tail(rx[s]) /\ rx'[Peer(s)] = rx[Peer(s)]
  BY <1>1, <1>2 DEF LinkTypeOK
<1>5. LinkTypeOK'
  BY <1>2, <1>3 DEF LinkTypeOK, Take
<1> QED
  BY <1>3, <1>4, <1>5 DEF Take

\* A message that is sent goes to the end of its direction, if the link takes it.
LEMMA PutAppends ==
    ASSUME LinkTypeOK, NEW s \in Side, NEW msg \in Message, Put(s, msg)
    PROVE  /\ LinkTypeOK' /\ ended' = ended /\ rx'[s] = rx[s]
           /\ ended[Peer(s)] = "open" =>
                /\ Len(rx[Peer(s)]) \in Nat /\ Len(rx'[Peer(s)]) = Len(rx[Peer(s)]) + 1
                /\ \A i \in 1 .. Len(rx[Peer(s)]) : rx'[Peer(s)][i] = rx[Peer(s)][i]
                /\ rx'[Peer(s)][Len(rx[Peer(s)]) + 1] = msg
<1> DEFINE p == Peer(s)
<1>1. p \in Side \ {s} /\ rx[p] \in Seq(Message) /\ Len(rx[p]) \in Nat
  BY DEF LinkTypeOK, Side, Peer
<1>2. CASE ended[p] # "open"
  BY <1>1, <1>2 DEF Put, LinkTypeOK
<1>3. CASE ended[p] = "open"
  <2>1. rx' = [rx EXCEPT ![p] = Append(rx[p], msg)]
    BY <1>3 DEF Put
  <2>2. rx'[p] = Append(rx[p], msg) /\ rx'[s] = rx[s]
    BY <1>1, <2>1 DEF LinkTypeOK
  <2>3. /\ Append(rx[p], msg) \in Seq(Message) /\ Len(rx'[p]) = Len(rx[p]) + 1
        /\ \A i \in 1 .. Len(rx[p]) : rx'[p][i] = rx[p][i]
        /\ rx'[p][Len(rx[p]) + 1] = msg
    BY <1>1, <2>2
  <2>4. LinkTypeOK'
    BY <1>1, <2>1, <2>3 DEF LinkTypeOK, Put
  <2> QED
    BY <1>1, <2>2, <2>3, <2>4 DEF Put
<1> QED
  BY <1>2, <1>3

\* An end of the connection takes nothing from the other side but the end of
\* its queue, and that only with a reset.
LEMMA CloseTruncates ==
    ASSUME LinkTypeOK, NEW s \in Side, Close(s) \/ (s = "server" /\ CloseUnaccepted)
    PROVE  /\ LinkTypeOK'
           /\ ended'[s] \in {"fin", "rst"} /\ ended'[Peer(s)] = ended[Peer(s)]
           /\ Len(rx'[Peer(s)]) \in 0 .. Len(rx[Peer(s)])
           /\ \A i \in 1 .. Len(rx'[Peer(s)]) : rx'[Peer(s)][i] = rx[Peer(s)][i]
           /\ ended'[s] = "fin" => rx'[Peer(s)] = rx[Peer(s)]
<1> DEFINE p == Peer(s)
<1>1. p \in Side \ {s} /\ s \in Side /\ rx[p] \in Seq(Message) /\ Len(rx[p]) \in Nat
  BY DEF LinkTypeOK, Side, Peer
<1>2. <<>> \in Seq(Message)
  OBVIOUS
<1>3. CASE /\ ended' \in {[ended EXCEPT ![s] = "fin"], [ended EXCEPT ![s] = "rst"]}
           /\ rx' = [rx EXCEPT ![s] = <<>>] /\ UNCHANGED <<listening, linked>>
  <2>1. rx'[p] = rx[p] /\ ended'[s] \in {"fin", "rst"} /\ ended'[p] = ended[p]
    BY <1>1, <1>3 DEF LinkTypeOK
  <2>2. LinkTypeOK'
    BY <1>1, <1>2, <1>3 DEF LinkTypeOK
  <2> QED
    BY <1>1, <2>1, <2>2
<1>4. CASE /\ ended' = [ended EXCEPT ![s] = "rst"] /\ UNCHANGED <<listening, linked>>
           /\ \E n \in 0 .. Len(rx[p]) :
                 rx' = [rx EXCEPT ![s] = <<>>, ![p] = SubSeq(rx[p], 1, n)]
  <2>1. PICK n \in 0 .. Len(rx[p]) :
           rx' = [rx EXCEPT ![s] = <<>>, ![p] = SubSeq(rx[p], 1, n)]
    BY <1>4
  <2>2. /\ SubSeq(rx[p], 1, n) \in Seq(Message) /\ Len(SubSeq(rx[p], 1, n)) = n
        /\ \A i \in 1 .. n : SubSeq(rx[p], 1, n)[i] = rx[p][i]
    BY <1>1
  <2>3. rx'[p] = SubSeq(rx[p], 1, n) /\ ended'[s] = "rst" /\ ended'[p] = ended[p]
    BY <1>1, <1>4, <2>1 DEF LinkTypeOK
  <2>4. LinkTypeOK'
    BY <1>1, <1>2, <1>4, <2>1, <2>2 DEF LinkTypeOK
  <2> QED
    BY <1>1, <2>2, <2>3, <2>4
<1>5. CASE s = "server" /\ CloseUnaccepted
  BY <1>3, <1>5 DEF CloseUnaccepted
<1>6. CASE Close(s)
  BY <1>3, <1>4, <1>6 DEF Close
<1> QED
  BY <1>5, <1>6

\* The counts are numbers.
LEMMA CountTypes ==
    ASSUME ClientTypeOK, ServerTypeOK
    PROVE  /\ KTaken \in Nat /\ KSent \in Nat /\ VTaken \in Nat /\ VSent \in Nat
           /\ kgot \in Nat /\ vsent \in Nat /\ TextParts \in Nat \ {0}
BY Krb5Assumption DEF ClientTypeOK, ServerTypeOK, KTaken, KSent, VTaken, VSent

\* A step of the client leaves the server's part of the invariant alone.
LEMMA ServerPartKept ==
    ASSUME IInv, UNCHANGED <<inputs, serverVars>>
    PROVE  InputsTypeOK' /\ ServerTypeOK' /\ ServerKnows'
BY DEF IInv, inputs, serverVars, InputsTypeOK, ServerTypeOK, ServerKnows, VAnswers

\* A step of the client that is not its last: it reads an answer, or writes a
\* request, or neither, and counts it.
LEMMA ClientMoves ==
    ASSUME IInv, UNCHANGED <<inputs, serverVars>>, ClientTypeOK', ClientKnows',
           kpc # "done", kpc' # "done", kret' = kret,
           NEW read \in {0, 1}, NEW wrote \in {0, 1},
           KListens' => KListens /\ KTaken' = KTaken + read,
           KAsks' => KAsks /\ KSent' = KSent + wrote,
           \/ read = 0 /\ wrote = 0 /\ LinkTypeOK' /\ UNCHANGED <<rx, ended>>
           \/ read = 1 /\ wrote = 0 /\ Take("client")
           \/ read = 0 /\ wrote = 1 /\ \E msg \in Message : Put("client", msg)
    PROVE  IInv'
<1>1. InputsTypeOK' /\ ServerTypeOK' /\ ServerKnows'
  BY ServerPartKept
<1>2. /\ "client" \in Side /\ Peer("client") = "server"
      /\ rx["client"] \in Seq(Message) /\ Len(rx["client"]) \in Nat
      /\ rx["server"] \in Seq(Message) /\ Len(rx["server"]) \in Nat
  BY DEF Side, Peer, IInv, LinkTypeOK
<1>3. /\ LinkTypeOK' /\ ended' = ended
      /\ Len(rx'["client"]) = Len(rx["client"]) - read
      /\ \A i \in 1 .. Len(rx'["client"]) : rx'["client"][i] = rx["client"][i + read]
      /\ ended["server"] = "open" => Len(rx'["server"]) = Len(rx["server"]) + wrote
  <2>1. CASE read = 0 /\ wrote = 0 /\ LinkTypeOK' /\ UNCHANGED <<rx, ended>>
    BY <1>2, <2>1
  <2>2. CASE read = 1 /\ wrote = 0 /\ Take("client")
    BY <1>2, <2>2, TakeShifts DEF IInv
  <2>3. CASE read = 0 /\ wrote = 1 /\ \E msg \in Message : Put("client", msg)
    BY <1>2, <2>3, PutAppends DEF IInv
  <2> QED
    BY <2>1, <2>2, <2>3
<1>4. KTaken \in Nat /\ KSent \in Nat /\ VTaken \in Nat /\ VSent \in Nat /\ vsent \in Nat
  BY CountTypes DEF IInv
<1>5. /\ vpc' = vpc /\ vres' = vres /\ vsent' = vsent /\ vret' = vret
      /\ accepted' = accepted /\ cprog' = cprog /\ VTaken' = VTaken /\ VSent' = VSent
      /\ (VTalks' <=> VTalks) /\ (VAnswers' <=> VAnswers)
  BY DEF serverVars, inputs, VTaken, VSent, VTalks, VAnswers
<1>6. kret = "running" /\ kret' = "running"
  BY DEF IInv, RunningMeansOpen
<1>7. RunningMeansOpen'
  BY <1>3, <1>5, <1>6 DEF IInv, RunningMeansOpen
<1>8. AnswersInOrder'
  <2> SUFFICES ASSUME KListens', NEW i \in 1 .. Len(rx'["client"])
               PROVE  rx'["client"][i].kind = AnswerKind(KTaken' + i)
    BY DEF AnswersInOrder
  <2>1. i + read \in 1 .. Len(rx["client"]) /\ rx'["client"][i] = rx["client"][i + read]
    BY <1>2, <1>3
  <2>2. rx["client"][i + read].kind = AnswerKind(KTaken + (i + read))
    BY <2>1 DEF IInv, AnswersInOrder
  <2>3. KTaken + (i + read) = KTaken' + i
    BY <1>4
  <2> QED
    BY <2>1, <2>2, <2>3
<1>9. AnswersCounted'
  <2> SUFFICES ASSUME KListens' PROVE AnswersCounted'
    BY DEF AnswersCounted
  <2>1. KListens /\ Answers' = Answers
    BY <1>2, <1>3, <1>4 DEF Answers
  <2> QED
    BY <1>3, <1>5, <2>1 DEF IInv, AnswersCounted
<1>10. RequestsCounted'
  <2> SUFFICES ASSUME KAsks', VAnswers' PROVE (VTaken + Len(rx["server"]) = KSent)'
    BY DEF RequestsCounted
  <2>1. ended["server"] = "open" /\ VTaken + Len(rx["server"]) = KSent
    BY <1>5 DEF IInv, RunningMeansOpen, RequestsCounted, VAnswers
  <2> QED
    BY <1>2, <1>3, <1>4, <1>5, <2>1
<1>11. AnswersTruthful'
  <2> SUFFICES ASSUME NEW i \in 1 .. Len(rx'["client"])
               PROVE  Truthful(rx["client"][i])'
    BY DEF AnswersTruthful
  <2>1. i + read \in 1 .. Len(rx["client"]) /\ rx'["client"][i] = rx["client"][i + read]
    BY <1>2, <1>3
  <2>2. Truthful(rx["client"][i + read])
    BY <2>1 DEF IInv, AnswersTruthful
  <2> QED
    BY <1>5, <2>1, <2>2 DEF Truthful
<1>12. TextWhole' /\ ZeroMeansAnswered' /\ ReplyWhole'
  <2>1. TextWhole'
    BY <1>5 DEF IInv, TextWhole
  <2> QED
    BY <1>6, <2>1 DEF ZeroMeansAnswered, ReplyWhole
<1> QED
  BY <1>1, <1>3, <1>7, <1>8, <1>9, <1>10, <1>11, <1>12 DEF IInv

\* The last step of the client.
LEMMA ClientExits ==
    ASSUME IInv, UNCHANGED <<inputs, serverVars>>, kpc # "done",
           NEW ret \in {"ok", "error", "killed"}, KExit(ret),
           ret = "ok" =>
             /\ \/ accepted # {} /\ (cprog = "sample" => kgot > 0)
                \/ cprog = "sample" /\ vres = "rejected"
             /\ kgot \notin {0, TextParts} => vret = "killed"
    PROVE  IInv'
<1>1. InputsTypeOK' /\ ServerTypeOK' /\ ServerKnows'
  BY ServerPartKept
<1>2. "client" \in Side /\ Peer("client") = "server"
  BY DEF Side, Peer
<1>3. /\ LinkTypeOK' /\ ended'["server"] = ended["server"]
      /\ Len(rx["client"]) \in Nat /\ Len(rx'["client"]) \in 0 .. Len(rx["client"])
      /\ \A i \in 1 .. Len(rx'["client"]) : rx'["client"][i] = rx["client"][i]
  <2>1. CASE UNCHANGED linkVars
    <3>1. Len(rx["client"]) \in Nat
      BY <1>2 DEF IInv, LinkTypeOK
    <3> QED
      BY <2>1, <3>1 DEF IInv, LinkTypeOK, linkVars
  <2>2. CASE Close("client")
    <3>1. rx["client"] \in Seq(Message) /\ Len(rx["client"]) \in Nat /\ rx'["client"] = <<>>
      BY <1>2, <2>2 DEF IInv, LinkTypeOK, Close, Side, Peer
    <3>2. Len(rx'["client"]) = 0
      BY <3>1
    <3> QED
      BY <1>2, <2>2, <3>1, <3>2, CloseTruncates DEF IInv
  <2> QED
    BY <2>1, <2>2 DEF KExit
<1>4. /\ vpc' = vpc /\ vres' = vres /\ vsent' = vsent /\ vret' = vret
      /\ accepted' = accepted /\ cprog' = cprog
  BY DEF serverVars, inputs
<1>5. /\ kpc' = "done" /\ kret' = ret /\ kaddrs' = kaddrs /\ kserver' = kserver
      /\ kres' = kres /\ ktold' = ktold /\ kgot' = kgot
  BY DEF KExit
<1>6. ClientTypeOK'
  BY <1>5 DEF IInv, ClientTypeOK, Ending
<1>7. RunningMeansOpen'
  BY <1>3, <1>4, <1>5 DEF IInv, RunningMeansOpen
<1>8. AnswersInOrder' /\ AnswersCounted' /\ RequestsCounted'
  BY <1>5 DEF AnswersInOrder, AnswersCounted, RequestsCounted, KListens, KAsks
<1>9. AnswersTruthful'
  BY <1>3, <1>4 DEF IInv, AnswersTruthful, Truthful
<1>10. ClientKnows' /\ TextWhole'
  BY <1>4, <1>5 DEF IInv, ClientKnows, TextWhole, KAsks
<1>11. ZeroMeansAnswered' /\ ReplyWhole'
  BY <1>4, <1>5 DEF ZeroMeansAnswered, ReplyWhole
<1> QED
  BY <1>1, <1>3, <1>6, <1>7, <1>8, <1>9, <1>10, <1>11 DEF IInv

-----------------------------------------------------------------------------
\* The client's calls up to the end of krb5_sendauth.
AskPC == {"context", "resolve", "connect", "cache", "versions", "response", "request",
          "verdict", "reply"}

\* Until then it knows nothing yet.
LEMMA AskingKnowsNothing ==
    ASSUME IInv, kpc \in AskPC
    PROVE  KAsks /\ KListens /\ kres = "none" /\ ktold = FALSE /\ kgot = 0
BY DEF IInv, ClientTypeOK, ClientKnows, KAsks, KListens, AskPC

\* A call succeeds, and another one follows.
LEMMA AskingGoesOn ==
    ASSUME IInv, UNCHANGED <<inputs, serverVars>>,
           kpc \in AskPC, kpc' \in AskPC, kaddrs' \in Seq({"server", "elsewhere"}),
           kserver' \in BOOLEAN, UNCHANGED <<kres, ktold, kgot, kret>>,
           NEW read \in {0, 1}, NEW wrote \in {0, 1},
           KTaken' = KTaken + read, KSent' = KSent + wrote,
           \/ read = 0 /\ wrote = 0 /\ LinkTypeOK' /\ UNCHANGED <<rx, ended>>
           \/ read = 1 /\ wrote = 0 /\ Take("client")
           \/ read = 0 /\ wrote = 1 /\ \E msg \in Message : Put("client", msg)
    PROVE  IInv'
<1>1. kres = "none" /\ ktold = FALSE /\ kgot = 0 /\ KAsks /\ KListens
  BY AskingKnowsNothing
<1>2. ClientTypeOK'
  BY DEF IInv, ClientTypeOK, AskPC
<1>3. ClientKnows'
  BY <1>1 DEF ClientKnows, AskPC
<1>4. kpc # "done" /\ kpc' # "done" /\ kret' = kret
  BY DEF AskPC
<1> QED
  BY <1>1, <1>2, <1>3, <1>4, ClientMoves

\* A call fails, or the program's version is wrong, and sendauth returns.
LEMMA SendauthFails ==
    ASSUME IInv, UNCHANGED <<inputs, serverVars>>, NEW at \in AskPC,
           KReturn(at, "error"), UNCHANGED linkVars \/ Take("client")
    PROVE  IInv'
<1>1. /\ kpc = at /\ kpc' = "returned" /\ kres' = "error"
      /\ UNCHANGED <<kaddrs, kserver, ktold, kgot, kret>>
  BY DEF KReturn, KGoto
<1>2. kres = "none" /\ ktold = FALSE /\ kgot = 0
  BY <1>1, AskingKnowsNothing
<1>3. ClientTypeOK'
  BY <1>1 DEF IInv, ClientTypeOK
<1>4. ClientKnows' /\ ~KListens' /\ ~KAsks'
  BY <1>1, <1>2 DEF ClientKnows, KAsks, KListens
<1>5. kpc # "done" /\ kpc' # "done"
  BY <1>1 DEF AskPC
<1>6. CASE UNCHANGED linkVars
  <2>1. LinkTypeOK' /\ UNCHANGED <<rx, ended>>
    BY <1>6 DEF linkVars, IInv, LinkTypeOK
  <2> QED
    BY <1>1, <1>3, <1>4, <1>5, <2>1, ClientMoves
<1>7. CASE Take("client")
  BY <1>1, <1>3, <1>4, <1>5, <1>7, ClientMoves
<1> QED
  BY <1>6, <1>7

\* A signal, or a failing call outside sendauth, ends the program.
LEMMA ClientStops ==
    ASSUME IInv, UNCHANGED <<inputs, serverVars>>, kpc # "done",
           KExit("error") \/ KExit("killed")
    PROVE  IInv'
BY ClientExits

\* The version string and the AP_REQ.
LEMMA ClientWrites ==
    ASSUME IInv, UNCHANGED <<inputs, serverVars>>, NEW msg \in Message, NEW at, NEW then,
           KWrite(at, then, msg),
           \/ at = "versions" /\ then = "response"
           \/ at = "request" /\ then = "verdict"
    PROVE  IInv'
<1>1. CASE linked /\ KGoOn(at, then) /\ Put("client", msg)
  <2>1. /\ kpc = at /\ kpc' = then /\ kaddrs' = kaddrs /\ kserver' = kserver
        /\ UNCHANGED <<kres, ktold, kgot, kret>>
    BY <1>1 DEF KGoOn, KGoto
  <2>2. KTaken' = KTaken + 0 /\ KSent' = KSent + 1
    BY <2>1 DEF KTaken, KSent
  <2>3. kpc \in AskPC /\ kpc' \in AskPC
    BY <2>1 DEF AskPC
  <2>4. kaddrs' \in Seq({"server", "elsewhere"}) /\ kserver' \in BOOLEAN
    BY <2>1 DEF IInv, ClientTypeOK
  <2> QED
    BY <1>1, <2>1, <2>2, <2>3, <2>4, AskingGoesOn
<1>2. CASE kpc = at /\ KExit("killed")
  BY <1>2, ClientStops
<1>3. CASE KReturn(at, "error") /\ UNCHANGED linkVars
  <2>1. at \in AskPC
    BY DEF AskPC
  <2> QED
    BY <1>3, <2>1, SendauthFails
<1> QED
  BY <1>1, <1>2, <1>3 DEF KWrite

\* What the client reads first is the next answer, and it is true.
LEMMA NextAnswer ==
    ASSUME IInv, KListens, Take("client")
    PROVE  Head(rx["client"]).kind = AnswerKind(KTaken + 1) /\ Truthful(Head(rx["client"]))
<1>1. Head(rx["client"]) = rx["client"][1] /\ 1 \in 1 .. Len(rx["client"])
  BY TakeShifts DEF IInv, Side
<1> QED
  BY <1>1 DEF IInv, AnswersInOrder, AnswersTruthful

\* The messages of krb5_sendauth keep the invariant.
LEMMA SendauthPreserves ==
    ASSUME IInv, UNCHANGED <<inputs, serverVars>>, Sendauth
    PROVE  IInv'
<1>1. CASE KSendVersions
  BY <1>1, ClientWrites, MessageTypes DEF KSendVersions
<1>2. CASE KRecvResponse
  <2>1. CASE Take("client") /\ KGoOn("response", "request")
    <3>1. /\ kpc = "response" /\ kpc' = "request" /\ kaddrs' = kaddrs /\ kserver' = kserver
          /\ UNCHANGED <<kres, ktold, kgot, kret>>
      BY <2>1 DEF KGoOn, KGoto
    <3>2. KTaken' = KTaken + 1 /\ KSent' = KSent + 0
      BY <3>1 DEF KTaken, KSent
    <3>3. kpc \in AskPC /\ kpc' \in AskPC
      BY <3>1 DEF AskPC
    <3>4. kaddrs' \in Seq({"server", "elsewhere"}) /\ kserver' \in BOOLEAN
      BY <3>1 DEF IInv, ClientTypeOK
    <3> QED
      BY <2>1, <3>1, <3>2, <3>3, <3>4, AskingGoesOn
  <2>2. CASE KReturn("response", "error") /\ (UNCHANGED linkVars \/ Take("client"))
    BY <2>2, SendauthFails DEF AskPC
  <2> QED
    BY <1>2, <2>1, <2>2 DEF KRecvResponse
<1>3. CASE KSendRequest
  <2>1. CASE \E key \in Keys : KWrite("request", "verdict", Msg("apReq", key))
    BY <2>1, ClientWrites, MessageTypes
  <2>2. CASE KReturn("request", "error") /\ UNCHANGED linkVars
    BY <2>2, SendauthFails DEF AskPC
  <2>3. CASE kpc = "request" /\ KExit("killed")
    BY <2>3, ClientStops
  <2> QED
    BY <1>3, <2>1, <2>2, <2>3 DEF KSendRequest
<1>4. CASE KRecvVerdict
  <2>1. CASE Take("client") /\ KGoOn("verdict", "reply")
    <3>1. /\ kpc = "verdict" /\ kpc' = "reply" /\ kaddrs' = kaddrs /\ kserver' = kserver
          /\ UNCHANGED <<kres, ktold, kgot, kret>>
      BY <2>1 DEF KGoOn, KGoto
    <3>2. KTaken' = KTaken + 1 /\ KSent' = KSent + 0
      BY <3>1 DEF KTaken, KSent
    <3>3. kpc \in AskPC /\ kpc' \in AskPC
      BY <3>1 DEF AskPC
    <3>4. kaddrs' \in Seq({"server", "elsewhere"}) /\ kserver' \in BOOLEAN
      BY <3>1 DEF IInv, ClientTypeOK
    <3> QED
      BY <2>1, <3>1, <3>2, <3>3, <3>4, AskingGoesOn
  <2>2. CASE /\ Take("client") /\ KReturn("verdict", "rejected")
             /\ Head(rx["client"]).value # "ok"
    <3>1. /\ kpc = "verdict" /\ kpc' = "returned" /\ kres' = "rejected"
          /\ UNCHANGED <<kaddrs, kserver, ktold, kgot, kret>>
      BY <2>2 DEF KReturn, KGoto
    <3>2. kres = "none" /\ ktold = FALSE /\ kgot = 0 /\ KListens
      BY <3>1, AskingKnowsNothing DEF AskPC
    <3>3. Head(rx["client"]).kind = "error"
      <4>1. KTaken = 1
        BY <3>1 DEF KTaken
      <4> QED
        BY <2>2, <3>2, <4>1, NextAnswer DEF AnswerKind
    <3>4. vres = "rejected" /\ vres' = vres
      BY <2>2, <3>2, <3>3, NextAnswer DEF Truthful, serverVars
    <3>5. ClientTypeOK'
      BY <3>1 DEF IInv, ClientTypeOK
    <3>6. ClientKnows' /\ ~KListens' /\ ~KAsks'
      BY <3>1, <3>2, <3>4 DEF ClientKnows, KAsks, KListens
    <3> QED
      BY <2>2, <3>1, <3>5, <3>6, ClientMoves
  <2>3. CASE KReturn("verdict", "error") /\ UNCHANGED linkVars
    BY <2>3, SendauthFails DEF AskPC
  <2> QED
    BY <1>4, <2>1, <2>2, <2>3 DEF KRecvVerdict
<1>5. CASE KRecvReply
  <2>1. CASE Take("client") /\ KReturn("reply", "ok")
    <3>1. /\ kpc = "reply" /\ kpc' = "returned" /\ kres' = "ok"
          /\ UNCHANGED <<kaddrs, kserver, ktold, kgot, kret>>
      BY <2>1 DEF KReturn, KGoto
    <3>2. kres = "none" /\ ktold = FALSE /\ kgot = 0 /\ KListens
      BY <3>1, AskingKnowsNothing DEF AskPC
    <3>3. KTaken = 2 /\ KTaken' = 3
      BY <3>1 DEF KTaken
    <3>4. vres = "ok" /\ vres' = vres
      BY <2>1, <3>2, <3>3, NextAnswer DEF AnswerKind, Truthful, serverVars
    <3>5. ClientTypeOK'
      BY <3>1 DEF IInv, ClientTypeOK
    <3>6. ClientKnows' /\ ~KAsks'
      BY <3>1, <3>2, <3>4 DEF ClientKnows, KAsks
    <3> QED
      BY <2>1, <3>1, <3>2, <3>3, <3>5, <3>6, ClientMoves
  <2>2. CASE KReturn("reply", "error") /\ (UNCHANGED linkVars \/ Take("client"))
    BY <2>2, SendauthFails DEF AskPC
  <2> QED
    BY <1>5, <2>1, <2>2 DEF KRecvReply
<1> QED
  BY <1>1, <1>2, <1>3, <1>4, <1>5 DEF Sendauth

-----------------------------------------------------------------------------
\* From the start of a client to krb5_sendauth.
SetupPC == {"context", "resolve", "connect", "cache", "versions"}

\* Calls before the authentication that only lead to the next one.
LEMMA SetupGoesOn ==
    ASSUME IInv, UNCHANGED <<inputs, serverVars>>, kpc \in SetupPC, kpc' \in SetupPC,
           kaddrs' \in Seq({"server", "elsewhere"}), kserver' \in BOOLEAN,
           UNCHANGED <<kres, ktold, kgot, kret>>,
           UNCHANGED linkVars \/ Connect
    PROVE  IInv'
<1>1. kpc \in AskPC /\ kpc' \in AskPC /\ KTaken' = KTaken + 0 /\ KSent' = KSent + 0
  BY DEF SetupPC, AskPC, KTaken, KSent
<1>2. LinkTypeOK' /\ UNCHANGED <<rx, ended>>
  BY DEF IInv, LinkTypeOK, linkVars, Connect
<1> QED
  BY <1>1, <1>2, AskingGoesOn

\* A call that succeeds without a further effect.
LEMMA SetupCall ==
    ASSUME IInv, UNCHANGED <<inputs, serverVars>>, NEW at \in SetupPC, NEW then \in SetupPC,
           KGoOn(at, then), UNCHANGED linkVars
    PROVE  IInv'
<1>1. kpc = at /\ kpc' = then /\ UNCHANGED <<kaddrs, kserver, kres, ktold, kgot, kret>>
  BY DEF KGoOn, KGoto
<1>2. kaddrs' \in Seq({"server", "elsewhere"}) /\ kserver' \in BOOLEAN
  BY <1>1 DEF IInv, ClientTypeOK
<1> QED
  BY <1>1, <1>2, SetupGoesOn

\* One round of the loop over the addresses.
LEMMA ConnectRound ==
    ASSUME IInv, UNCHANGED <<inputs, serverVars>>, kpc = "connect", kaddrs # <<>>,
           kaddrs' = Tail(kaddrs), UNCHANGED <<kserver, kres, ktold, kgot, kret>>,
           (Connect /\ kpc' = "cache") \/ UNCHANGED <<linkVars, kpc>>
    PROVE  IInv'
<1>1. kaddrs' \in Seq({"server", "elsewhere"}) /\ kserver' \in BOOLEAN
  BY DEF IInv, ClientTypeOK
<1> QED
  BY <1>1, SetupGoesOn DEF SetupPC

\* Every call of krb5-api/client.c keeps the invariant.
LEMMA DemoClientPreserves ==
    ASSUME IInv, UNCHANGED <<inputs, serverVars>>, DemoClient
    PROVE  IInv'
<1>1. CASE DInitContext
  BY <1>1, SetupCall, ClientStops DEF DInitContext, SetupPC
<1>2. CASE DResolve
  <2>1. CASE KExit("error") \/ KExit("killed")
    BY <1>2, <2>1, ClientStops DEF DResolve
  <2>2. CASE ~(KExit("error") \/ KExit("killed"))
    <3>1. /\ kpc = "resolve" /\ kpc' = "connect"
          /\ kaddrs' \in Resolutions /\ kserver' \in BOOLEAN
          /\ UNCHANGED <<linkVars, kres, ktold, kgot, kret>>
      BY <1>2, <2>2 DEF DResolve
    <3>2. kaddrs' \in Seq({"server", "elsewhere"})
      BY <3>1, Krb5Assumption
    <3> QED
      BY <3>1, <3>2, SetupGoesOn DEF SetupPC
  <2> QED
    BY <2>1, <2>2
<1>3. CASE DConnect
  <2>1. CASE KExit("error")
    BY <1>3, <2>1, ClientStops DEF DConnect
  <2>2. CASE ~KExit("error")
    BY <1>3, <2>2, ConnectRound DEF DConnect
  <2> QED
    BY <2>1, <2>2
<1>4. CASE DUnconnected
  BY <1>4, SetupCall DEF DUnconnected, SetupPC
<1>5. CASE DCache
  BY <1>5, SetupCall, ClientStops DEF DCache, SetupPC
<1>6. CASE DReturned
  <2>1. CASE KExit("error")
    BY <1>6, <2>1, ClientStops DEF DReturned
  <2>2. CASE ~KExit("error")
    <3>1. /\ kpc = "returned" /\ kres = "ok" /\ ktold' = TRUE /\ kpc' = "free"
          /\ UNCHANGED <<linkVars, kaddrs, kserver, kres, kgot, kret>>
      BY <1>6, <2>2 DEF DReturned
    <3>2. ClientTypeOK'
      BY <3>1 DEF IInv, ClientTypeOK
    <3>3. ClientKnows' /\ ~KListens' /\ ~KAsks'
      BY <3>1 DEF IInv, ClientKnows, KListens, KAsks, serverVars
    <3>4. LinkTypeOK' /\ UNCHANGED <<rx, ended>>
      BY <3>1 DEF IInv, LinkTypeOK, linkVars
    <3> QED
      BY <3>1, <3>2, <3>3, <3>4, ClientMoves
  <2> QED
    BY <2>1, <2>2
<1>7. CASE DFree
  <2>1. kpc = "free" /\ cprog = "demo" /\ KExit("ok") /\ kpc # "done"
    BY <1>7 DEF DFree
  <2>2. accepted # {} /\ kgot = 0
    BY <2>1 DEF IInv, ClientKnows, ServerKnows
  <2> QED
    BY <2>1, <2>2, ClientExits
<1> QED
  BY <1>1, <1>2, <1>3, <1>4, <1>5, <1>6, <1>7 DEF DemoClient

\* The client reads the text: what it holds and what is on the way is all that
\* the server has written, unless that was reset.
LEMMA TextRead ==
    ASSUME IInv, kpc = "text", AtEof("client"), kgot > 0
    PROVE  kgot = TextParts \/ vret = "killed"
<1>1. KListens /\ KTaken = 4 + kgot /\ kgot \in Nat /\ vsent \in Nat
  BY CountTypes DEF KListens, KTaken, IInv
<1>2. rx["client"] = <<>> /\ ended["server"] = "fin"
  BY DEF AtEof, Peer
<1>3. vpc = "done" /\ ~VTalks
  BY <1>2 DEF IInv, RunningMeansOpen, VTalks
<1>4. Answers = 4 + kgot
  BY <1>1, <1>2 DEF Answers
<1>5. vsent = kgot
  BY <1>1, <1>2, <1>3, <1>4 DEF IInv, AnswersCounted
<1> QED
  BY <1>1, <1>3, <1>5 DEF IInv, TextWhole

\* Every call of sclient.c keeps the invariant.
LEMMA ReferenceClientPreserves ==
    ASSUME IInv, UNCHANGED <<inputs, serverVars>>, ReferenceClient
    PROVE  IInv'
<1>1. CASE SInitContext
  BY <1>1, SetupCall, ClientStops DEF SInitContext, SetupPC
<1>2. CASE SResolve
  <2>1. CASE KExit("error")
    BY <1>2, <2>1, ClientStops DEF SResolve
  <2>2. CASE ~KExit("error")
    <3>1. /\ kpc = "resolve" /\ kpc' = "connect"
          /\ kaddrs' \in Resolutions /\ kserver' \in BOOLEAN
          /\ UNCHANGED <<linkVars, kres, ktold, kgot, kret>>
      BY <1>2, <2>2 DEF SResolve
    <3>2. kaddrs' \in Seq({"server", "elsewhere"})
      BY <3>1, Krb5Assumption
    <3> QED
      BY <3>1, <3>2, SetupGoesOn DEF SetupPC
  <2> QED
    BY <2>1, <2>2
<1>3. CASE SConnect
  BY <1>3, ConnectRound DEF SConnect
<1>4. CASE SNoAddressLeft
  BY <1>4, ClientStops DEF SNoAddressLeft
<1>5. CASE SCache
  BY <1>5, SetupCall, ClientStops DEF SCache, SetupPC
<1>6. CASE SReturned
  <2>1. CASE KExit("error")
    BY <1>6, <2>1, ClientStops DEF SReturned
  <2>2. CASE kres = "rejected" /\ KExit("ok")
    <3>1. kpc = "returned" /\ cprog = "sample" /\ vres = "rejected" /\ kgot = 0
      BY <1>6, <2>2 DEF SReturned, IInv, ClientKnows
    <3> QED
      BY <2>2, <3>1, ClientExits
  <2>3. CASE /\ kres = "ok" /\ ktold' = TRUE /\ kpc' = "length"
             /\ UNCHANGED <<linkVars, kaddrs, kserver, kres, kgot, kret>>
    <3>1. kpc = "returned"
      BY <1>6 DEF SReturned
    <3>2. ClientTypeOK'
      BY <2>3 DEF IInv, ClientTypeOK
    <3>3. ClientKnows' /\ ~KAsks'
      BY <2>3, <3>1 DEF IInv, ClientKnows, KAsks, serverVars
    <3>4. KListens /\ KTaken' = KTaken + 0
      BY <2>3, <3>1 DEF KListens, KTaken
    <3>5. LinkTypeOK' /\ UNCHANGED <<rx, ended>>
      BY <2>3 DEF IInv, LinkTypeOK, linkVars
    <3> QED
      BY <2>3, <3>1, <3>2, <3>3, <3>4, <3>5, ClientMoves
  <2> QED
    BY <1>6, <2>1, <2>2, <2>3 DEF SReturned
<1>7. CASE SReadLength
  <2>1. CASE kpc = "length" /\ KExit("error")
    BY <2>1, ClientStops
  <2>2. CASE Take("client") /\ KGoOn("length", "text")
    <3>1. /\ kpc = "length" /\ kpc' = "text"
          /\ UNCHANGED <<kaddrs, kserver, kres, ktold, kgot, kret>>
      BY <2>2 DEF KGoOn, KGoto
    <3>2. ClientTypeOK'
      BY <3>1 DEF IInv, ClientTypeOK
    <3>3. ClientKnows' /\ ~KAsks' /\ kgot = 0
      BY <3>1 DEF IInv, ClientKnows, KAsks, serverVars
    <3>4. KListens /\ KTaken' = KTaken + 1
      BY <3>1, <3>3 DEF KListens, KTaken
    <3> QED
      BY <2>2, <3>1, <3>2, <3>3, <3>4, ClientMoves
  <2> QED
    BY <1>7, <2>1, <2>2 DEF SReadLength
<1>8. CASE SReadText
  <2>1. CASE KExit("error")
    BY <1>8, <2>1, ClientStops DEF SReadText
  <2>2. CASE kgot < TextParts /\ Take("client") /\ kgot' = kgot + 1
             /\ UNCHANGED <<kpc, kaddrs, kserver, kres, ktold, kret>>
    <3>1. kpc = "text" /\ kgot \in Nat /\ TextParts \in Nat
      BY <1>8, CountTypes DEF SReadText, IInv
    <3>2. ClientTypeOK'
      BY <2>2, <3>1 DEF IInv, ClientTypeOK
    <3>3. ClientKnows' /\ ~KAsks'
      BY <2>2, <3>1 DEF IInv, ClientKnows, KAsks, serverVars
    <3>4. KListens /\ KTaken' = KTaken + 1
      BY <2>2, <3>1 DEF KListens, KTaken
    <3> QED
      BY <2>2, <3>1, <3>2, <3>3, <3>4, ClientMoves
  <2>3. CASE (kgot = TextParts \/ (kgot > 0 /\ AtEof("client"))) /\ KExit("ok")
    <3>1. kpc = "text" /\ kgot \in Nat /\ TextParts \in Nat \ {0}
      BY <1>8, CountTypes DEF SReadText, IInv
    <3>2. kgot > 0 /\ (kgot = TextParts \/ vret = "killed")
      BY <2>3, <3>1, TextRead
    <3>3. accepted # {}
      BY <3>1 DEF IInv, ClientKnows, ServerKnows
    <3> QED
      BY <2>3, <3>1, <3>2, <3>3, ClientExits
  <2> QED
    BY <1>8, <2>1, <2>2, <2>3 DEF SReadText
<1> QED
  BY <1>1, <1>2, <1>3, <1>4, <1>5, <1>6, <1>7, <1>8 DEF ReferenceClient

\* Whichever client runs, its steps keep the invariant.
LEMMA ClientPreserves ==
    ASSUME IInv, ClientStep
    PROVE  IInv'
BY DemoClientPreserves, ReferenceClientPreserves, SendauthPreserves DEF ClientStep

-----------------------------------------------------------------------------
\* A step of the server leaves the client's part of the invariant alone; what
\* sendauth has returned stays true if recvauth's result stays.
LEMMA ClientPartKept ==
    ASSUME IInv, UNCHANGED <<inputs, clientVars>>, vres # "none" => vres' = vres
    PROVE  InputsTypeOK' /\ ClientTypeOK' /\ ClientKnows'
BY DEF IInv, inputs, clientVars, InputsTypeOK, ClientTypeOK, ClientKnows, KAsks

\* A step of the server that is not its last: it reads a request, or writes an
\* answer that is true, or neither, and counts it.
LEMMA ServerMoves ==
    ASSUME IInv, UNCHANGED <<inputs, clientVars>>, ServerTypeOK', ServerKnows',
           vpc # "done", vpc' # "done", vret' = vret,
           vres # "none" => vres' = vres, vsent' # 0 => vpc' = "write_text",
           NEW read \in {0, 1}, NEW wrote \in {0, 1},
           VAnswers' => VAnswers /\ VTaken' = VTaken + read,
           VTalks' => VTalks /\ VSent' = VSent + wrote,
           ~VTalks' => VTalks /\ VSent + wrote <= 4 /\ vsent' = 0,
           \/ read = 0 /\ wrote = 0 /\ LinkTypeOK' /\ UNCHANGED <<rx, ended>>
           \/ read = 1 /\ wrote = 0 /\ Take("server")
           \/ /\ read = 0 /\ wrote = 1
              /\ \E msg \in Message : /\ Put("server", msg) /\ Truthful(msg)'
                                      /\ msg.kind = AnswerKind(VSent + 1)
    PROVE  IInv'
<1>1. InputsTypeOK' /\ ClientTypeOK' /\ ClientKnows'
  BY ClientPartKept
<1>2. /\ "server" \in Side /\ Peer("server") = "client"
      /\ rx["client"] \in Seq(Message) /\ Len(rx["client"]) \in Nat
      /\ rx["server"] \in Seq(Message) /\ Len(rx["server"]) \in Nat
  BY DEF Side, Peer, IInv, LinkTypeOK
<1>3. /\ LinkTypeOK' /\ ended' = ended
      /\ Len(rx'["server"]) = Len(rx["server"]) - read
      /\ \/ ended["client"] # "open" /\ wrote = 1
         \/ /\ Len(rx'["client"]) = Len(rx["client"]) + wrote
            /\ \A i \in 1 .. Len(rx["client"]) : rx'["client"][i] = rx["client"][i]
            /\ wrote = 1 =>
                  /\ rx'["client"][Len(rx["client"]) + 1].kind = AnswerKind(VSent + 1)
                  /\ Truthful(rx["client"][Len(rx["client"])])'
      /\ ended["client"] # "open" /\ wrote = 1 => rx'["client"] = rx["client"]
  <2>1. CASE read = 0 /\ wrote = 0 /\ LinkTypeOK' /\ UNCHANGED <<rx, ended>>
    BY <1>2, <2>1
  <2>2. CASE read = 1 /\ wrote = 0 /\ Take("server")
    BY <1>2, <2>2, TakeShifts DEF IInv
  <2>3. CASE /\ read = 0 /\ wrote = 1
             /\ \E msg \in Message : /\ Put("server", msg) /\ Truthful(msg)'
                                     /\ msg.kind = AnswerKind(VSent + 1)
    <3>1. PICK msg \in Message : /\ Put("server", msg) /\ Truthful(msg)'
                                 /\ msg.kind = AnswerKind(VSent + 1)
      BY <2>3
    <3>2. /\ LinkTypeOK' /\ ended' = ended /\ rx'["server"] = rx["server"]
          /\ ended["client"] = "open" =>
                /\ Len(rx'["client"]) = Len(rx["client"]) + 1
                /\ \A i \in 1 .. Len(rx["client"]) : rx'["client"][i] = rx["client"][i]
                /\ rx'["client"][Len(rx["client"]) + 1] = msg
      BY <1>2, <3>1, PutAppends DEF IInv
    <3>3. ended["client"] # "open" => rx'["client"] = rx["client"]
      BY <1>2, <3>1 DEF Put
    <3>4. CASE ended["client"] # "open"
      BY <1>2, <2>3, <3>2, <3>3, <3>4
    <3>5. CASE ended["client"] = "open"
      <4>1. /\ Len(rx'["client"]) = Len(rx["client"]) + wrote
            /\ \A i \in 1 .. Len(rx["client"]) : rx'["client"][i] = rx["client"][i]
        BY <2>3, <3>2, <3>5
      <4>2. rx'["client"][Len(rx["client"]) + 1].kind = AnswerKind(VSent + 1)
        BY <3>1, <3>2, <3>5
      <4>3. rx'["client"][Len(rx["client"]) + 1] = msg
        BY <3>2, <3>5
      <4>4. Truthful(rx["client"][Len(rx["client"])])'
        <5>1. rx'["client"][Len(rx'["client"])] = msg
          BY <1>2, <3>2, <3>5, <4>3
        <5> QED
          BY <3>1, <5>1 DEF Truthful
      <4> QED
        BY <1>2, <2>3, <3>2, <3>5, <4>1, <4>2, <4>4
    <3> QED
      BY <3>4, <3>5
  <2> QED
    BY <2>1, <2>2, <2>3
<1>4. KTaken \in Nat /\ KSent \in Nat /\ VTaken \in Nat /\ VSent \in Nat /\ vsent \in Nat
  BY CountTypes DEF IInv
<1>5. /\ kpc' = kpc /\ kres' = kres /\ kret' = kret /\ kgot' = kgot /\ cprog' = cprog
      /\ KTaken' = KTaken /\ KSent' = KSent
      /\ (KListens' <=> KListens) /\ (KAsks' <=> KAsks)
  BY DEF clientVars, inputs, KTaken, KSent, KListens, KAsks
<1>6. vret = "running" /\ vret' = "running"
  BY DEF IInv, RunningMeansOpen
<1>7. RunningMeansOpen'
  BY <1>3, <1>5, <1>6 DEF IInv, RunningMeansOpen
<1>8. KListens => ended["client"] = "open"
  BY DEF IInv, RunningMeansOpen, KListens
<1>9. AnswersInOrder'
  <2> SUFFICES ASSUME KListens', NEW i \in 1 .. Len(rx'["client"])
               PROVE  rx'["client"][i].kind = AnswerKind(KTaken' + i)
    BY DEF AnswersInOrder
  <2>1. /\ Len(rx'["client"]) = Len(rx["client"]) + wrote /\ KListens
        /\ \A j \in 1 .. Len(rx["client"]) : rx'["client"][j] = rx["client"][j]
    BY <1>3, <1>5, <1>8
  <2>2. CASE i <= Len(rx["client"])
    BY <1>5, <2>1, <2>2 DEF IInv, AnswersInOrder
  <2>3. CASE i = Len(rx["client"]) + 1 /\ wrote = 1
    <3>1. VTalks /\ Answers = VSent
      BY <2>1 DEF IInv, AnswersCounted
    <3>2. KTaken + i = VSent + 1
      BY <1>2, <1>4, <2>3, <3>1 DEF Answers
    <3> QED
      BY <1>3, <1>5, <1>8, <2>1, <2>3, <3>2
  <2> QED
    BY <1>2, <2>1, <2>2, <2>3
<1>10. AnswersCounted'
  <2> SUFFICES ASSUME KListens' PROVE AnswersCounted'
    BY DEF AnswersCounted
  <2>1. KListens /\ VTalks /\ Len(rx'["client"]) = Len(rx["client"]) + wrote
    BY <1>3, <1>5, <1>8
  <2>2. Answers = VSent
    BY <2>1 DEF IInv, AnswersCounted
  <2>3. Answers' = VSent + wrote
    BY <1>2, <1>4, <1>5, <2>1, <2>2 DEF Answers
  <2> QED
    BY <1>4, <2>1, <2>3 DEF AnswersCounted
<1>11. RequestsCounted'
  <2> SUFFICES ASSUME KAsks', VAnswers' PROVE VTaken' + Len(rx'["server"]) = KSent'
    BY DEF RequestsCounted
  <2>1. VTaken + Len(rx["server"]) = KSent
    BY <1>5 DEF IInv, RequestsCounted
  <2>2. /\ VTaken' = VTaken + read /\ KSent' = KSent
        /\ Len(rx'["server"]) = Len(rx["server"]) - read
    BY <1>3, <1>5
  <2>3. ASSUME NEW taken \in Nat, NEW queued \in Nat, NEW n \in {0, 1}
        PROVE  (taken + n) + (queued - n) = taken + queued
    OBVIOUS
  <2>4. (VTaken + read) + (Len(rx["server"]) - read) = VTaken + Len(rx["server"])
    BY <1>2, <1>4, <2>3
  <2> QED
    BY ONLY <2>1, <2>2, <2>4
<1>12. AnswersTruthful'
  <2> SUFFICES ASSUME NEW i \in 1 .. Len(rx'["client"])
               PROVE  Truthful(rx["client"][i])'
    BY DEF AnswersTruthful
  <2>1. ASSUME i \in 1 .. Len(rx["client"]), rx'["client"][i] = rx["client"][i]
        PROVE  Truthful(rx["client"][i])'
    BY <2>1 DEF IInv, AnswersTruthful, Truthful, ServerTypeOK
  <2>2. CASE i \in 1 .. Len(rx["client"])
    <3>1. rx'["client"][i] = rx["client"][i]
      BY <1>3, <2>2
    <3> QED
      BY <2>1, <2>2, <3>1
  <2>3. CASE i \notin 1 .. Len(rx["client"])
    <3>1. i = Len(rx'["client"]) /\ wrote = 1 /\ ended["client"] = "open"
      BY <1>2, <1>3, <2>3
    <3> QED
      BY <1>3, <3>1
  <2> QED
    BY <2>2, <2>3
<1>13. TextWhole' /\ ZeroMeansAnswered' /\ ReplyWhole'
  <2>1. TextWhole'
    BY DEF TextWhole
  <2>2. ReplyWhole'
    BY <1>5, <1>6 DEF IInv, ReplyWhole
  <2>3. accepted # {} => accepted' # {}
    BY DEF IInv, ServerKnows
  <2>4. ZeroMeansAnswered'
    BY <1>5, <2>3 DEF IInv, ZeroMeansAnswered
  <2> QED
    BY <2>1, <2>2, <2>4
<1> QED
  BY <1>1, <1>3, <1>7, <1>9, <1>10, <1>11, <1>12, <1>13 DEF IInv

\* The last step of the server.
LEMMA ServerExits ==
    ASSUME IInv, UNCHANGED <<inputs, clientVars>>, vpc # "done",
           NEW ret \in {"ok", "error", "killed"}, VExit(ret),
           vsent \notin {0, TextParts} => ret = "killed" \/ kpc = "done"
    PROVE  IInv'
<1>1. /\ vpc' = "done" /\ vret' = ret /\ vmsg' = vmsg /\ vres' = vres
      /\ vsent' = vsent /\ accepted' = accepted /\ (Close("server") \/ CloseUnaccepted)
  BY DEF VExit
<1>2. InputsTypeOK' /\ ClientTypeOK' /\ ClientKnows'
  BY <1>1, ClientPartKept
<1>3. /\ "server" \in Side /\ Peer("server") = "client"
      /\ Len(rx["client"]) \in Nat
  BY DEF Side, Peer, IInv, LinkTypeOK
<1>4. /\ LinkTypeOK' /\ ended'["client"] = ended["client"]
      /\ ended'["server"] \in {"fin", "rst"}
      /\ Len(rx'["client"]) \in 0 .. Len(rx["client"])
      /\ \A i \in 1 .. Len(rx'["client"]) : rx'["client"][i] = rx["client"][i]
      /\ ended'["server"] = "fin" => rx'["client"] = rx["client"]
  BY <1>1, <1>3, CloseTruncates DEF IInv
<1>5. /\ kpc' = kpc /\ kres' = kres /\ kret' = kret /\ kgot' = kgot /\ cprog' = cprog
      /\ KTaken' = KTaken /\ (KListens' <=> KListens)
  BY DEF clientVars, inputs, KTaken, KListens
<1>6. vret = "running" /\ ended["server"] = "open"
  BY DEF IInv, RunningMeansOpen
<1>7. ServerTypeOK' /\ RunningMeansOpen'
  <2>1. ServerTypeOK'
    BY <1>1 DEF IInv, ServerTypeOK, Ending
  <2>2. RunningMeansOpen'
    BY <1>1, <1>4, <1>5 DEF IInv, RunningMeansOpen
  <2> QED
    BY <2>1, <2>2
<1>8. ServerKnows'
  BY <1>1 DEF IInv, ServerKnows, VAnswers
<1>9. AnswersInOrder'
  BY <1>3, <1>4, <1>5 DEF IInv, AnswersInOrder
<1>10. AnswersCounted'
  <2> SUFFICES ASSUME KListens', ended'["server"] # "rst"
               PROVE  Answers' <= 4 + vsent' /\ (vsent' # 0 => Answers' = 4 + vsent')
    BY <1>1 DEF AnswersCounted, VTalks
  <2>1. KListens /\ Answers' = Answers /\ vsent' = vsent
    BY <1>1, <1>4, <1>5 DEF Answers
  <2>2. CASE VTalks
    <3>1. Answers = VSent /\ (vsent # 0 => vpc = "write_text") /\ vsent \in Nat
      BY <2>1, <2>2, CountTypes DEF IInv, AnswersCounted, TextWhole
    <3>2. VSent <= 4 + vsent /\ (vsent # 0 => VSent = 4 + vsent)
      BY <3>1 DEF VSent
    <3> QED
      BY <2>1, <3>1, <3>2
  <2>3. CASE ~VTalks
    BY <1>6, <2>1, <2>3 DEF IInv, AnswersCounted
  <2> QED
    BY <2>2, <2>3
<1>11. RequestsCounted'
  BY <1>1 DEF RequestsCounted, VAnswers
<1>12. AnswersTruthful'
  BY <1>1, <1>3, <1>4 DEF IInv, AnswersTruthful, Truthful
<1>13. TextWhole' /\ ZeroMeansAnswered' /\ ReplyWhole'
  <2>1. TextWhole'
    BY <1>1, <1>5 DEF TextWhole
  <2>2. ZeroMeansAnswered'
    BY <1>1, <1>5 DEF IInv, ZeroMeansAnswered
  <2>3. ReplyWhole'
    BY <1>5, <1>6 DEF IInv, ReplyWhole
  <2> QED
    BY <2>1, <2>2, <2>3
<1> QED
  BY <1>2, <1>4, <1>7, <1>8, <1>9, <1>10, <1>11, <1>12, <1>13 DEF IInv

\* The server's calls within krb5_recvauth; until it returns there is no result.
RecvPC == {"versions", "respond", "request", "verdict", "reply"}

\* Until recvauth gives its verdict, nothing is accepted and no text written.
LEMMA AnsweringKnowsNothing ==
    ASSUME IInv, VAnswers
    PROVE  vres = "none" /\ accepted = {} /\ vsent = 0 /\ VTalks
BY DEF IInv, ServerKnows, TextWhole, VAnswers, VTalks

\* recvauth gives up: it has told the client why, or could not.
LEMMA RecvauthFails ==
    ASSUME IInv, UNCHANGED <<inputs, clientVars>>, NEW at \in RecvPC,
           NEW result \in {"error", "rejected"}, VReturn(at, result),
           \/ UNCHANGED linkVars
           \/ \E msg \in Message : /\ Put("server", msg) /\ Truthful(msg)'
                                   /\ msg.kind = AnswerKind(VSent + 1)
    PROVE  IInv'
<1>1. /\ vpc = at /\ vpc' = "returned" /\ vres' = result
      /\ vmsg' = vmsg /\ vsent' = vsent /\ vret' = vret /\ accepted' = accepted
  BY DEF VReturn
<1>2. VAnswers /\ vpc # "done" /\ VSent \in 0 .. 2 /\ ~VTalks' /\ ~VAnswers'
  BY <1>1 DEF RecvPC, VAnswers, VTalks, VSent
<1>3. vres = "none" /\ accepted = {} /\ vsent = 0 /\ VTalks
  BY <1>2, AnsweringKnowsNothing
<1>4. ServerTypeOK'
  BY <1>1 DEF IInv, ServerTypeOK
<1>5. ServerKnows'
  BY <1>1, <1>2, <1>3 DEF ServerKnows
<1>6. CASE UNCHANGED linkVars
  <2>1. LinkTypeOK' /\ UNCHANGED <<rx, ended>>
    BY <1>6 DEF IInv, LinkTypeOK, linkVars
  <2>2. VSent + 0 <= 4
    BY <1>2
  <2> QED
    BY <1>1, <1>2, <1>3, <1>4, <1>5, <2>1, <2>2, ServerMoves
<1>7. CASE \E msg \in Message : /\ Put("server", msg) /\ Truthful(msg)'
                                /\ msg.kind = AnswerKind(VSent + 1)
  <2>1. VSent + 1 <= 4
    BY <1>2
  <2> QED
    BY <1>1, <1>2, <1>3, <1>4, <1>5, <1>7, <2>1, ServerMoves
<1> QED
  BY <1>6, <1>7

\* A call that succeeds, and recvauth or the calls before it go on.
LEMMA AnsweringGoesOn ==
    ASSUME IInv, UNCHANGED <<inputs, clientVars>>, VAnswers, VAnswers', ServerTypeOK',
           vpc' = "reply" => vmsg'.value \in keytab,
           UNCHANGED <<vres, vsent, vret, accepted>>,
           NEW read \in {0, 1}, NEW wrote \in {0, 1},
           VTaken' = VTaken + read, VSent' = VSent + wrote,
           \/ read = 0 /\ wrote = 0 /\ LinkTypeOK' /\ UNCHANGED <<rx, ended>>
           \/ read = 1 /\ wrote = 0 /\ Take("server")
           \/ /\ read = 0 /\ wrote = 1
              /\ \E msg \in Message : /\ Put("server", msg) /\ Truthful(msg)'
                                      /\ msg.kind = AnswerKind(VSent + 1)
    PROVE  IInv'
<1>1. vres = "none" /\ accepted = {} /\ vsent = 0 /\ VTalks
  BY AnsweringKnowsNothing
<1>2. vpc # "done" /\ vpc' # "done" /\ vpc' # "returned"
  BY DEF VAnswers
<1>3. VTalks'
  BY <1>2 DEF VTalks
<1>4. keytab' = keytab
  BY DEF inputs
<1>5. ServerKnows'
  BY <1>1, <1>4 DEF ServerKnows, VAnswers
<1> QED
  BY <1>1, <1>2, <1>3, <1>5, ServerMoves

\* The next message is in vmsg.
LEMMA RecvauthReads ==
    ASSUME IInv, UNCHANGED <<inputs, clientVars>>, NEW at, NEW then, VRead(at, then),
           \/ at = "versions" /\ then = "respond"
           \/ at = "request" /\ then = "verdict"
    PROVE  IInv'
<1>1. CASE VReturn(at, "error") /\ UNCHANGED linkVars
  <2>1. at \in RecvPC
    BY DEF RecvPC
  <2> QED
    BY <1>1, <2>1, RecvauthFails
<1>2. CASE /\ vpc = at /\ Take("server")
           /\ vmsg' = Head(rx["server"]) /\ vpc' = then
           /\ UNCHANGED <<vres, vsent, vret, accepted>>
  <2>1. VAnswers /\ VAnswers' /\ vpc' # "reply"
    BY <1>2 DEF VAnswers
  <2>2. VTaken' = VTaken + 1 /\ VSent' = VSent + 0
    BY <1>2 DEF VTaken, VSent
  <2>3. vmsg' \in Message
    BY <1>2, TakeShifts DEF IInv, Side
  <2>4. ServerTypeOK'
    BY <1>2, <2>3 DEF IInv, ServerTypeOK
  <2> QED
    BY <1>2, <2>1, <2>2, <2>4, AnsweringGoesOn
<1> QED
  BY <1>1, <1>2 DEF VRead

\* An answer that lets recvauth go on.
LEMMA RecvauthAnswers ==
    ASSUME IInv, UNCHANGED <<inputs, clientVars>>, NEW at, NEW then, NEW kind,
           VGoOn(at, then), Put("server", Msg(kind, "ok")),
           \/ at = "respond" /\ then = "request" /\ kind = "response"
           \/ at = "verdict" /\ then = "reply" /\ kind = "error" /\ vmsg.value \in keytab
    PROVE  IInv'
<1>1. vpc = at /\ vpc' = then /\ vmsg' = vmsg /\ UNCHANGED <<vres, vsent, vret, accepted>>
  BY DEF VGoOn
<1>2. VAnswers /\ VAnswers' /\ (vpc' = "reply" => vmsg'.value \in keytab)
  BY <1>1 DEF VAnswers
<1>3. VTaken' = VTaken + 0 /\ VSent' = VSent + 1
  BY <1>1 DEF VTaken, VSent
<1>4. Msg(kind, "ok") \in Message
  BY MessageTypes
<1>5. Truthful(Msg(kind, "ok"))' /\ Msg(kind, "ok").kind = AnswerKind(VSent + 1)
  BY <1>1 DEF Truthful, Msg, AnswerKind, VSent
<1>6. ServerTypeOK'
  BY <1>1 DEF IInv, ServerTypeOK
<1> QED
  BY <1>1, <1>2, <1>3, <1>4, <1>5, <1>6, AnsweringGoesOn

\* A signal ends the server, or a call fails while it writes no text.
LEMMA ServerStops ==
    ASSUME IInv, UNCHANGED <<inputs, clientVars>>, vpc # "done",
           \/ VExit("killed")
           \/ VExit("error") /\ (vsent = 0 \/ kpc = "done")
    PROVE  IInv'
BY ServerExits

\* A server whose write in krb5_recvauth fails keeps the invariant.
LEMMA RecvauthCannotWrite ==
    ASSUME IInv, UNCHANGED <<inputs, clientVars>>, NEW at \in RecvPC, VWriteFails(at)
    PROVE  IInv'
<1>1. at # "done"
  BY DEF RecvPC
<1> QED
  BY <1>1, ServerStops, RecvauthFails DEF VWriteFails

\* The messages of krb5_recvauth keep the invariant.
LEMMA RecvauthPreserves ==
    ASSUME IInv, UNCHANGED <<inputs, clientVars>>, Recvauth
    PROVE  IInv'
<1>1. CASE VRecvVersions
  BY <1>1, RecvauthReads DEF VRecvVersions
<1>2. CASE VRespond
  <2>1. CASE VGoOn("respond", "request") /\ Put("server", Msg("response", "ok"))
    BY <2>1, RecvauthAnswers
  <2>2. CASE VReturn("respond", "error") /\ Put("server", Msg("response", "bad"))
    <3>1. Msg("response", "bad") \in Message /\ Truthful(Msg("response", "bad"))'
      BY MessageTypes DEF Truthful, Msg
    <3>2. Msg("response", "bad").kind = AnswerKind(VSent + 1)
      BY <2>2 DEF VReturn, Msg, AnswerKind, VSent
    <3> QED
      BY <2>2, <3>1, <3>2, RecvauthFails DEF RecvPC
  <2>3. CASE VWriteFails("respond")
    BY <2>3, RecvauthCannotWrite DEF RecvPC
  <2> QED
    BY <1>2, <2>1, <2>2, <2>3 DEF VRespond
<1>3. CASE VRecvRequest
  BY <1>3, RecvauthReads DEF VRecvRequest
<1>4. CASE VVerdict
  <2>1. CASE /\ vmsg.value \in keytab /\ VGoOn("verdict", "reply")
             /\ Put("server", Msg("error", "ok"))
    BY <2>1, RecvauthAnswers
  <2>2. CASE VReturn("verdict", "rejected") /\ Put("server", Msg("error", "bad"))
    <3>1. Msg("error", "bad") \in Message
      BY MessageTypes
    <3>2. Truthful(Msg("error", "bad"))' /\ Msg("error", "bad").kind = AnswerKind(VSent + 1)
      BY <2>2 DEF VReturn, Truthful, Msg, AnswerKind, VSent
    <3> QED
      BY <2>2, <3>1, <3>2, RecvauthFails DEF RecvPC
  <2>3. CASE VWriteFails("verdict")
    BY <2>3, RecvauthCannotWrite DEF RecvPC
  <2> QED
    BY <1>4, <2>1, <2>2, <2>3 DEF VVerdict
<1>5. CASE VReply
  <2>1. CASE /\ vpc = "reply" /\ vpc' = "returned" /\ vres' = "ok"
             /\ Put("server", Msg("apRep", "none")) /\ accepted' = {vmsg.value}
             /\ UNCHANGED <<vmsg, vsent, vret>>
    <3>1. VAnswers /\ vmsg.value \in keytab /\ keytab \subseteq Keys
      BY <2>1 DEF IInv, ServerKnows, InputsTypeOK, VAnswers
    <3>2. vres = "none" /\ accepted = {} /\ vsent = 0 /\ VTalks
      BY <3>1, AnsweringKnowsNothing
    <3>3. accepted' \in {{}} \cup {{key} : key \in Keys}
      BY <2>1, <3>1
    <3>4. ServerTypeOK'
      BY <2>1, <3>3 DEF IInv, ServerTypeOK
    <3>5. ~VAnswers' /\ VTalks' /\ VSent' = VSent + 1
      BY <2>1 DEF VAnswers, VTalks, VSent
    <3>6. ServerKnows'
      BY <2>1, <3>5 DEF ServerKnows
    <3>7. Msg("apRep", "none") \in Message
      BY MessageTypes
    <3>8. /\ Truthful(Msg("apRep", "none"))'
          /\ Msg("apRep", "none").kind = AnswerKind(VSent + 1)
      BY <2>1 DEF Truthful, Msg, AnswerKind, VSent
    <3> QED
      BY <2>1, <3>1, <3>2, <3>4, <3>5, <3>6, <3>7, <3>8, ServerMoves
  <2>2. CASE VReturn("reply", "error") /\ UNCHANGED linkVars
    BY <2>2, RecvauthFails DEF RecvPC
  <2>3. CASE VWriteFails("reply")
    BY <2>3, RecvauthCannotWrite DEF RecvPC
  <2> QED
    BY <1>5, <2>1, <2>2, <2>3 DEF VReply
<1> QED
  BY <1>1, <1>2, <1>3, <1>4, <1>5 DEF Recvauth

-----------------------------------------------------------------------------
\* From the start of a server to krb5_recvauth.
ServePC == {"inetd", "context", "sname", "sname_unset", "bind", "listen", "accept",
            "peername", "versions"}

\* Calls of a server that only lead to the next one.
LEMMA ServerGoesOn ==
    ASSUME IInv, UNCHANGED <<inputs, clientVars>>, NEW at \in ServePC, NEW then \in ServePC,
           VGoOn(at, then), UNCHANGED linkVars \/ Listen
    PROVE  IInv'
<1>1. vpc = at /\ vpc' = then /\ vmsg' = vmsg /\ UNCHANGED <<vres, vsent, vret, accepted>>
  BY DEF VGoOn
<1>2. VAnswers /\ VAnswers' /\ vpc' # "reply"
  BY <1>1 DEF VAnswers, ServePC
<1>3. VTaken' = VTaken + 0 /\ VSent' = VSent + 0
  BY <1>1 DEF VTaken, VSent, ServePC
<1>4. ServerTypeOK'
  BY <1>1 DEF IInv, ServerTypeOK, ServePC
<1>5. LinkTypeOK' /\ UNCHANGED <<rx, ended>>
  BY DEF IInv, LinkTypeOK, linkVars, Listen
<1> QED
  BY <1>1, <1>2, <1>3, <1>4, <1>5, AnsweringGoesOn

\* A call before recvauth fails.
LEMMA ServingFails ==
    ASSUME IInv, UNCHANGED <<inputs, clientVars>>, vpc \in ServePC,
           VExit("error") \/ VExit("killed")
    PROVE  IInv'
<1>1. VAnswers /\ vpc # "done"
  BY DEF VAnswers, ServePC
<1> QED
  BY <1>1, AnsweringKnowsNothing, ServerStops

\* Every call of krb5-api/server.c keeps the invariant.
LEMMA DemoServerPreserves ==
    ASSUME IInv, UNCHANGED <<inputs, clientVars>>, DemoServer
    PROVE  IInv'
<1>1. \A at, then \in ServePC : DemoServes(at, then) => IInv'
  BY ServerGoesOn DEF DemoServes
<1>2. \A at \in ServePC : DemoFails(at) => IInv'
  BY ServingFails DEF DemoFails
<1>3. CASE VInitContext
  BY <1>1, <1>2, <1>3 DEF VInitContext, ServePC
<1>4. CASE VServiceName
  <2>1. CASE vpc = "sname_unset" /\ VExit("killed")
    BY <2>1, ServingFails DEF ServePC
  <2> QED
    BY <1>1, <1>2, <1>4, <2>1 DEF VServiceName, ServePC
<1>5. CASE VBind
  BY <1>1, <1>2, <1>5 DEF VBind, ServePC
<1>6. CASE VListen
  BY <1>2, <1>6, ServerGoesOn DEF VListen, ServePC
<1>7. CASE VAccept
  BY <1>1, <1>2, <1>7 DEF VAccept, ServePC
<1>8. CASE VReturned
  <2>1. vpc = "returned" /\ vsent = 0
    BY <1>8 DEF VReturned, IInv, TextWhole
  <2> QED
    BY <1>8, <2>1, ServerExits DEF VReturned
<1> QED
  BY <1>3, <1>4, <1>5, <1>6, <1>7, <1>8 DEF DemoServer

\* Every call of sserver.c keeps the invariant.
LEMMA ReferenceServerPreserves ==
    ASSUME IInv, UNCHANGED <<inputs, clientVars>>, ReferenceServer
    PROVE  IInv'
<1>1. \A at, then \in ServePC : RefServes(at, then) => IInv'
  BY ServerGoesOn DEF RefServes
<1>2. \A at \in ServePC : RefFails(at) => IInv'
  BY ServingFails DEF RefFails
<1>3. CASE RInetd
  BY <1>1, <1>3 DEF RInetd, ServePC
<1>4. CASE RInitContext
  BY <1>1, <1>2, <1>4 DEF RInitContext, ServePC
<1>5. CASE RServiceName
  BY <1>1, <1>2, <1>5 DEF RServiceName, ServePC
<1>6. CASE RBind
  BY <1>1, <1>2, <1>6 DEF RBind, ServePC
<1>7. CASE RListen
  BY <1>2, <1>7, ServerGoesOn DEF RListen, ServePC
<1>8. CASE RAccept
  BY <1>1, <1>2, <1>8 DEF RAccept, ServePC
<1>9. CASE RPeername
  BY <1>1, <1>2, <1>9 DEF RPeername, ServePC
<1>10. CASE RReturned
  <2>1. vsent = 0 \/ vpc # "returned"
    BY DEF IInv, TextWhole
  <2>2. CASE RefFails("returned")
    BY <2>1, <2>2, ServerStops DEF RefFails
  <2>3. CASE vres = "ok" /\ RefServes("returned", "write_length")
    <3>1. /\ vpc = "returned" /\ vpc' = "write_length" /\ vmsg' = vmsg
          /\ UNCHANGED <<linkVars, vres, vsent, vret, accepted>>
      BY <2>3 DEF RefServes, VGoOn
    <3>2. ~VAnswers' /\ VTalks /\ VTalks' /\ VSent' = VSent + 0
      BY <2>3, <3>1 DEF VAnswers, VTalks, VSent
    <3>3. ServerTypeOK'
      BY <3>1 DEF IInv, ServerTypeOK
    <3>4. ServerKnows'
      BY <2>3, <3>1, <3>2 DEF IInv, ServerKnows
    <3>5. LinkTypeOK' /\ UNCHANGED <<rx, ended>>
      BY <3>1 DEF IInv, LinkTypeOK, linkVars
    <3> QED
      BY <2>1, <3>1, <3>2, <3>3, <3>4, <3>5, ServerMoves
  <2> QED
    BY <1>10, <2>2, <2>3 DEF RReturned
<1>11. CASE RWriteLength
  <2>1. vpc = "write_length" => vsent = 0
    BY DEF IInv, TextWhole
  <2>2. CASE RWriteFails("write_length")
    BY <2>1, <2>2, ServerStops DEF RWriteFails
  <2>3. CASE VGoOn("write_length", "write_text") /\ Put("server", Msg("length", "none"))
    <3>1. /\ vpc = "write_length" /\ vpc' = "write_text" /\ vmsg' = vmsg
          /\ UNCHANGED <<vres, vsent, vret, accepted>>
      BY <2>3 DEF VGoOn
    <3>2. ~VAnswers' /\ VTalks /\ VTalks' /\ VSent = 3 /\ VSent' = VSent + 1
      BY <2>1, <3>1 DEF VAnswers, VTalks, VSent
    <3>3. ServerTypeOK'
      BY <3>1 DEF IInv, ServerTypeOK
    <3>4. ServerKnows'
      BY <3>1, <3>2 DEF IInv, ServerKnows
    <3>5. Msg("length", "none") \in Message
      BY MessageTypes
    <3>6. /\ Truthful(Msg("length", "none"))'
          /\ Msg("length", "none").kind = AnswerKind(VSent + 1)
      BY <3>2 DEF Truthful, Msg, AnswerKind
    <3> QED
      BY <2>3, <3>1, <3>2, <3>3, <3>4, <3>5, <3>6, ServerMoves
  <2> QED
    BY <1>11, <2>2, <2>3 DEF RWriteLength
<1>12. CASE RWriteText
  <2>1. CASE /\ vpc = "write_text" /\ vsent < TextParts /\ vsent' = vsent + 1
             /\ Put("server", Msg("text", "none"))
             /\ UNCHANGED <<vpc, vmsg, vres, vret, accepted>>
    <3>1. vsent \in Nat /\ TextParts \in Nat
      BY CountTypes DEF IInv
    <3>2. ~VAnswers' /\ VTalks /\ VTalks' /\ VSent = 4 + vsent /\ VSent' = VSent + 1
      BY <2>1, <3>1 DEF VAnswers, VTalks, VSent
    <3>3. ServerTypeOK'
      BY <2>1, <3>1 DEF IInv, ServerTypeOK
    <3>4. ServerKnows'
      BY <2>1, <3>2 DEF IInv, ServerKnows
    <3>5. Msg("text", "none") \in Message
      BY MessageTypes
    <3>6. Truthful(Msg("text", "none"))' /\ Msg("text", "none").kind = AnswerKind(VSent + 1)
      BY <3>1, <3>2 DEF Truthful, Msg, AnswerKind
    <3> QED
      BY <2>1, <3>2, <3>3, <3>4, <3>5, <3>6, ServerMoves
  <2>2. CASE RWriteFails("write_text")
    <3>1. CASE VExit("killed")
      BY <2>2, <3>1, ServerStops DEF RWriteFails
    <3>2. CASE SendBroken("server") /\ VExit("error")
      <4>1. kpc = "done"
        BY <3>2 DEF SendBroken, Peer, IInv, RunningMeansOpen
      <4> QED
        BY <2>2, <3>2, <4>1, ServerStops DEF RWriteFails
    <3> QED
      BY <2>2, <3>1, <3>2 DEF RWriteFails
  <2>3. CASE vpc = "write_text" /\ vsent = TextParts /\ VExit("ok")
    BY <2>3, ServerExits
  <2> QED
    BY <1>12, <2>1, <2>2, <2>3 DEF RWriteText
<1> QED
  BY <1>3, <1>4, <1>5, <1>6, <1>7, <1>8, <1>9, <1>10, <1>11, <1>12 DEF ReferenceServer

\* Whichever server runs, its steps keep the invariant.
LEMMA ServerPreserves ==
    ASSUME IInv, ServerStep
    PROVE  IInv'
BY DemoServerPreserves, ReferenceServerPreserves, RecvauthPreserves DEF ServerStep

-----------------------------------------------------------------------------
\* The invariant holds before either program has made a call.
LEMMA InitEstablishes == Init => IInv
<1> SUFFICES ASSUME Init PROVE IInv
  OBVIOUS
<1>1. LinkTypeOK
  <2>1. <<>> \in Seq(Message)
    OBVIOUS
  <2> QED
    BY <2>1 DEF Init, LinkTypeOK
<1>2. /\ rx["client"] = <<>> /\ rx["server"] = <<>>
      /\ ended["client"] = "open" /\ ended["server"] = "open"
  BY DEF Init, Side
<1>3. InputsTypeOK
  BY DEF Init, InputsTypeOK
<1>4. ClientTypeOK
  <2>1. <<>> \in Seq({"server", "elsewhere"}) /\ 0 \in 0 .. TextParts
    BY Krb5Assumption
  <2> QED
    BY <2>1 DEF Init, ClientTypeOK, Ending
<1>5. ServerTypeOK
  BY Krb5Assumption DEF Init, ServerTypeOK, Ending, NoMsg, Msg, Message
<1>6. RunningMeansOpen
  BY <1>2 DEF Init, RunningMeansOpen
<1>7. KTaken = 0 /\ KSent = 0 /\ VTaken = 0 /\ VSent = 0
  BY DEF Init, KTaken, KSent, VTaken, VSent
<1>8. AnswersInOrder /\ AnswersTruthful
  BY <1>2 DEF AnswersInOrder, AnswersTruthful
<1>9. AnswersCounted
  BY <1>2, <1>7 DEF AnswersCounted, Answers, Init, VTalks
<1>10. RequestsCounted
  BY <1>2, <1>7 DEF RequestsCounted
<1>11. ServerKnows /\ ClientKnows
  BY DEF Init, ServerKnows, ClientKnows, VAnswers, KAsks
<1>12. TextWhole /\ ZeroMeansAnswered /\ ReplyWhole
  BY DEF Init, TextWhole, ZeroMeansAnswered, ReplyWhole
<1> QED
  BY <1>1, <1>3, <1>4, <1>5, <1>6, <1>8, <1>9, <1>10, <1>11, <1>12 DEF IInv

\* Every step of the session, and every stutter, keeps the invariant.
LEMMA NextPreserves == IInv /\ [Next]_vars => IInv'
<1> SUFFICES ASSUME IInv, [Next]_vars PROVE IInv'
  OBVIOUS
<1>1. CASE ClientStep
  BY <1>1, ClientPreserves
<1>2. CASE ServerStep
  BY <1>2, ServerPreserves
<1>3. CASE Kill
  <2>1. CASE kpc # "done" /\ KExit("killed") /\ UNCHANGED <<inputs, serverVars>>
    BY <2>1, ClientStops
  <2>2. CASE /\ vpc \notin {"inetd", "done"} /\ VExit("killed")
             /\ UNCHANGED <<inputs, clientVars>>
    BY <2>2, ServerStops
  <2> QED
    BY <1>3, <2>1, <2>2 DEF Kill
<1>4. CASE UNCHANGED vars
  <2>1. /\ UNCHANGED inputs /\ UNCHANGED linkVars
        /\ UNCHANGED clientVars /\ UNCHANGED serverVars
    BY <1>4 DEF vars
  <2>2. InputsTypeOK' /\ ServerTypeOK' /\ ServerKnows'
    BY <2>1, ServerPartKept
  <2>3. LinkTypeOK' /\ ClientTypeOK'
    BY <2>1 DEF linkVars, clientVars, IInv, LinkTypeOK, ClientTypeOK
  <2>4. RunningMeansOpen' /\ ClientKnows' /\ TextWhole'
    BY <2>1 DEF linkVars, clientVars, serverVars, IInv, RunningMeansOpen, ClientKnows,
                KAsks, TextWhole
  <2>5. /\ KTaken' = KTaken /\ KSent' = KSent /\ VTaken' = VTaken /\ VSent' = VSent
        /\ rx' = rx /\ ended' = ended /\ vsent' = vsent /\ (KListens' <=> KListens)
        /\ (VTalks' <=> VTalks) /\ (KAsks' <=> KAsks) /\ (VAnswers' <=> VAnswers)
    BY <2>1 DEF linkVars, clientVars, serverVars, KTaken, KSent, VTaken, VSent, KListens,
                VTalks, KAsks, VAnswers
  <2>6. AnswersInOrder' /\ RequestsCounted'
    BY <2>5 DEF IInv, AnswersInOrder, RequestsCounted
  <2>7. AnswersCounted'
    BY <2>5 DEF IInv, AnswersCounted, Answers
  <2>8. AnswersTruthful'
    BY <2>1 DEF linkVars, serverVars, IInv, AnswersTruthful, Truthful
  <2>9. ZeroMeansAnswered' /\ ReplyWhole'
    BY <2>1 DEF inputs, clientVars, serverVars, IInv, ZeroMeansAnswered, ReplyWhole
  <2> QED
    BY <2>2, <2>3, <2>4, <2>6, <2>7, <2>8, <2>9 DEF IInv
<1> QED
  BY <1>1, <1>2, <1>3, <1>4 DEF Next, Quiet

-----------------------------------------------------------------------------
\* Both programs, with every fault, keep the count of the messages that are on
\* the way and tell the truth in them.
THEOREM Krb5Invariant == Spec => []IInv
BY InitEstablishes, NextPreserves, PTL DEF Spec

\* TypeOK speaks of the two exit codes as a set.
LEMMA EndingsFlat ==
    ASSUME NEW a \in Ending, NEW b \in Ending
    PROVE  {a, b} \subseteq Ending
OBVIOUS

\* Every variable has its type: sclient.c never counts more of the reply than
\* there is, and recvauth accepts at most one client, for any number of keys and
\* of reply parts.
THEOREM Krb5Types == Spec => []TypeOK
<1>1. IInv => TypeOK
  <2> SUFFICES ASSUME IInv PROVE TypeOK
    OBVIOUS
  <2>1. {kret, vret} \subseteq Ending
    BY EndingsFlat DEF IInv, ClientTypeOK, ServerTypeOK
  <2> QED
    BY <2>1 DEF IInv, TypeOK, LinkTypeOK, InputsTypeOK, ClientTypeOK, ServerTypeOK, Ending
<1> QED
  BY <1>1, Krb5Invariant, PTL

\* Exit code 0 of either client means that the server's krb5_recvauth has
\* answered: it accepted the client or, for sclient.c, rejected it.
THEOREM ZeroIsAnAnswer == Spec => []ZeroMeansAnswered
<1>1. IInv => ZeroMeansAnswered
  BY DEF IInv
<1> QED
  BY <1>1, Krb5Invariant, PTL

\* sclient.c prints a short reply only if sserver.c was killed in its write.
THEOREM ReplyIsWhole == Spec => []ReplyWhole
<1>1. IInv => ReplyWhole
  BY DEF IInv
<1> QED
  BY <1>1, Krb5Invariant, PTL

\* When both are in a read, what one waits for is on the way: the messages that
\* a side has sent and the other has not read are counted.
LEMMA SomethingOnTheWay == IInv => NoMutualWait
<1> SUFFICES ASSUME IInv, ClientReads, ServerReads,
                    rx["client"] = <<>>, rx["server"] = <<>>
             PROVE  FALSE
  BY DEF NoMutualWait
<1>1. Len(rx["client"]) = 0 /\ Len(rx["server"]) = 0
  OBVIOUS
<1>2. VAnswers /\ vres = "none" /\ VTalks
  BY DEF ServerReads, VAnswers, VTalks, IInv, ServerKnows
<1>3. KAsks
  BY <1>2 DEF ClientReads, KAsks, IInv, ClientKnows
<1>4. KListens
  BY <1>3 DEF KAsks, KListens
<1>5. KTaken = VSent
  BY <1>1, <1>2, <1>4, CountTypes DEF IInv, AnswersCounted, Answers
<1>6. VTaken = KSent
  BY <1>1, <1>2, <1>3, CountTypes DEF IInv, RequestsCounted
<1>7. CASE kpc = "response"
  BY <1>5, <1>6, <1>7 DEF ServerReads, KTaken, KSent, VTaken, VSent
<1>8. CASE kpc = "verdict"
  BY <1>5, <1>6, <1>8 DEF ServerReads, KTaken, KSent, VTaken, VSent
<1>9. CASE kpc = "reply"
  BY <1>5, <1>6, <1>9 DEF ServerReads, KTaken, KSent, VTaken, VSent
<1> QED
  BY <1>3, <1>7, <1>8, <1>9 DEF ClientReads, KAsks

\* krb5_sendauth, krb5_recvauth and the two programs around them never wait for
\* each other with nothing on the way.
THEOREM NeverBothWait == Spec => []NoMutualWait
BY SomethingOnTheWay, Krb5Invariant, PTL

-----------------------------------------------------------------------------
\* The pair implements MutualAuth: a step changes what the two users see only
\* where recvauth accepts the client and where the client reports it.

\* Before the first call nothing is accepted and nobody is told.
LEMMA InitIsAbstract == Init => Authentication!Init
BY DEF Init, Authentication!Init

\* The variables that the users see.
seen == <<keytab, accepted, ktold>>

\* A client's step is a step of MutualAuth or a stutter.
LEMMA ClientStepIsAbstract ==
    ASSUME IInv, ClientStep
    PROVE  [Authentication!Next]_seen
<1>1. keytab' = keytab /\ accepted' = accepted
  BY DEF ClientStep, inputs, serverVars
<1>2. CASE ktold' = ktold
  BY <1>1, <1>2 DEF seen
<1>3. CASE ktold' # ktold
  <2>1. (DReturned \/ SReturned) /\ ktold' = TRUE /\ kres = "ok" /\ kpc = "returned"
    BY <1>3 DEF ClientStep, DemoClient, ReferenceClient, Sendauth, KExit, KGoto, KGoOn,
                KReturn, KWrite, DInitContext, DResolve, DConnect, DUnconnected, DCache,
                DReturned, DFree, SInitContext, SResolve, SConnect, SNoAddressLeft, SCache,
                SReturned, SReadLength, SReadText, KSendVersions, KRecvResponse,
                KSendRequest, KRecvVerdict, KRecvReply
  <2>2. accepted # {} /\ ~ktold
    BY <2>1 DEF IInv, ClientKnows, ServerKnows
  <2> QED
    BY <1>1, <2>1, <2>2 DEF Authentication!Next, Authentication!Believe
<1> QED
  BY <1>2, <1>3

\* A server's step is a step of MutualAuth or a stutter.
LEMMA ServerStepIsAbstract ==
    ASSUME IInv, ServerStep
    PROVE  [Authentication!Next]_seen
<1>1. keytab' = keytab /\ ktold' = ktold
  BY DEF ServerStep, inputs, clientVars
<1>2. CASE accepted' = accepted
  BY <1>1, <1>2 DEF seen
<1>3. CASE accepted' # accepted
  <2>1. vpc = "reply" /\ accepted' = {vmsg.value}
    BY <1>3 DEF ServerStep, DemoServer, ReferenceServer, Recvauth, VExit, VGoOn, VReturn,
                VWriteFails, VRead, VRecvVersions, VRespond, VRecvRequest, VVerdict, VReply,
                DemoServes, DemoFails, VInitContext, VServiceName, VBind, VListen, VAccept,
                VReturned, RefServes, RefFails, RInetd, RInitContext, RServiceName, RBind,
                RListen, RAccept, RPeername, RReturned, RWriteFails, RWriteLength,
                RWriteText
  <2>2. vmsg.value \in keytab /\ accepted = {}
    BY <2>1, AnsweringKnowsNothing DEF IInv, ServerKnows, VAnswers
  <2> QED
    BY <1>1, <2>1, <2>2 DEF Authentication!Next, Authentication!Accept
<1> QED
  BY <1>2, <1>3

\* So is every step of the session.
LEMMA StepIsAbstract == IInv /\ [Next]_vars => [Authentication!Next]_seen
<1> SUFFICES ASSUME IInv, [Next]_vars PROVE [Authentication!Next]_seen
  OBVIOUS
<1>1. CASE Kill
  BY <1>1 DEF Kill, KExit, VExit, inputs, serverVars, clientVars, seen
<1>2. CASE UNCHANGED vars
  BY <1>2 DEF vars, inputs, serverVars, clientVars, seen
<1> QED
  BY <1>1, <1>2, ClientStepIsAbstract, ServerStepIsAbstract DEF Next, Quiet

\* Mutual authentication, for every keytab and every ticket: the server accepts
\* one client, under a key of its keytab, and a client that prints that it is
\* authenticated has been accepted before.
THEOREM SessionImplementsMutualAuth == Spec => AuthenticationSpec
<1>1. Init => Authentication!Init
  BY InitIsAbstract
<1>2. IInv /\ [Next]_vars => [Authentication!Next]_(Authentication!vars)
  BY StepIsAbstract DEF seen, Authentication!vars
<1> QED
  BY <1>1, <1>2, Krb5Invariant, PTL DEF Spec, AuthenticationSpec, Authentication!Spec
=============================================================================
