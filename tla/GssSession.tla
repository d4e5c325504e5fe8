----------------------------- MODULE GssSession -----------------------------
(***************************************************************************)
(* One client and one server of application/gssapi over one connection.    *)
(***************************************************************************)
EXTENDS GssClient, GssServer

vars == <<legs, linkVars, clientVars, serverVars>>

Init == legs \in LegCounts /\ LinkInit /\ ClientInit /\ ServerInit

Client == (ClientStep \/ ClientKill) /\ UNCHANGED <<legs, serverVars>>
Server == (ServerStep \/ ServerKill) /\ UNCHANGED <<legs, clientVars>>

\* Nothing moves any more: each process has ended or turns in read_all's loop,
\* or the server waits for a connection the client will not make.
Quiet ==
    /\ cpc \in {"done", "spin"}
    /\ spc \in {"done", "spin"} \/ (spc = "accept" /\ ~linked)
    /\ UNCHANGED vars

Next == Client \/ Server \/ Quiet

Spec == Init /\ [][Next]_vars

\* Two processes, each scheduled whenever its next call can return.
FairSpec ==
    /\ Spec
    /\ WF_vars(ClientStep /\ UNCHANGED <<legs, serverVars>>)
    /\ WF_vars(ServerStep /\ UNCHANGED <<legs, clientVars>>)

-----------------------------------------------------------------------------
\* Every variable has its type.
TypeOK ==
    /\ ClientTypeOK /\ ServerTypeOK /\ legs \in LegCounts
    /\ listening \in BOOLEAN /\ linked \in BOOLEAN
    /\ rx \in [Side -> Seq(Token)] /\ ended \in [Side -> {"open", "fin", "rst"}]

\* If the client reports success, the server unwrapped exactly the message
\* the client was given: the client's check of the MIC, two processes away
\* from the message it vouches for, means what gssapi/README.md says of it.
ConfirmedDelivery == cret = "ok" => smsg = cmsg

\* Whoever of the two completes the establishment last knows that the other
\* side's library had completed it; with an even number of legs that is the
\* client, so it wraps its message only after the server's
\* gss_accept_sec_context has returned GSS_S_COMPLETE (the server may have failed
\* or died since) ...
MutualEstablishment == (legs % 2 = 0 /\ cctx = "open") => smaj = "complete"

\* ... and a client that reports success leaves the server no dangling handle
\* to delete, whatever failed on the way.
ConfirmedServerClean == cret = "ok" => shandle # "dangling"

\* A process that returns 0 has released all it got from the library.
CleanReturn ==
    /\ cret = "ok" => cheld = {}
    /\ sret = "ok" => sheld = {}

\* With -r on both sides, file i of the client and file i of the server are
\* the same context token, once sent and once received.
RecordsAgree ==
    \A i \in 1 .. Len(crec) : i <= Len(srec) =>
        crec[i].leg = srec[i].leg /\ crec[i].dir # srec[i].dir

\* The processes never wait for each other: if both read, one of them has
\* something to read or the other has hung up.
ClientReads == cpc \in {"recv", "recv_mic"}
ServerReads == spc \in {"recv", "recv_msg"}
NoMutualWait == ClientReads /\ ServerReads => rx["client"] # <<>> \/ rx["server"] # <<>>

\* A process is caught in read_all's loop only if the other one failed: the
\* loop never hides a success.
SpinOnlyAfterFailure ==
    /\ cpc = "spin" => sret \in {"error", "killed"}
    /\ spc = "spin" => cret \in {"error", "killed"}

\* Without faults, and if the client finds the server listening, both report
\* success.
BothSucceed == linked ~> (cret = "ok" /\ sret = "ok")

\* The client comes to an end, whatever becomes of the server; the end may be
\* the loop in read_all.
ClientSettles == <>(cpc \in {"done", "spin"})

\* establish_context and call_server return -1 on an error: the client of a
\* server that gives up ends too.
ErrorIsReturned == (sret = "error") ~> (cpc = "done")

\* The server's success means that the received message was signed and the
\* signature sent.
SuccessMeansSigned == sret = "ok" => stok.kind = "mic"

\* What the pair does for its user.
Delivery == INSTANCE MsgDelivery
    WITH message <- cmsg, delivered <- smsg, confirmed <- (cret = "ok")

DeliverySpec == Delivery!Spec
=============================================================================
