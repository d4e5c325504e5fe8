------------------------------ MODULE Krb5Lib ------------------------------
(***************************************************************************)
(* The krb5 library as the programs of krb5-api and reference-code use it: *)
(* krb5_sendauth on the client's side and krb5_recvauth on the server's.   *)
(* The library is not part of the repository; an action here is one        *)
(* message it sends or receives.  A program gets the control back at pc    *)
(* "returned", with the result in kres or vres.                            *)
(*                                                                         *)
(* A service has a key for every version ktadd made; a ticket is under the *)
(* version that was current when the client got it.                        *)
(***************************************************************************)
EXTENDS TcpLink

CONSTANTS
    Keys,        \* the versions of the service's key
    TextParts,   \* write(2) takes the reply of sserver.c in so many parts
    Resolutions, \* the address lists getaddrinfo can return
    Faults       \* what the environment may do, see FaultKinds

\* "lib": a library call fails; "sys": a socket call fails though it could
\* succeed; "kill": a process is killed.
FaultKinds == {"lib", "sys", "kill"}

ASSUME Krb5Assumption ==
    /\ TextParts \in Nat \ {0}
    /\ Resolutions \subseteq Seq({"server", "elsewhere"}) \ {<<>>}
    /\ Faults \subseteq FaultKinds

VARIABLES
    cprog, sprog,  \* the programs: "demo" (krb5-api), "sample" (reference-code),
                   \* or "inetd", the sample server started by inetd
    cache,         \* the user has a credential cache
    keytab,        \* the keys in the server's keytab
    kpc,           \* the client's next call
    kaddrs,        \* the addresses connect has not been tried on
    kserver,       \* the variable server names the service
    kres,          \* what krb5_sendauth returned
    ktold,         \* the client has printed "authenticated"
    kgot,          \* parts of the reply text in the buffer
    kret,          \* how the client ended
    vpc,           \* the server's next call
    vmsg,          \* the message recvauth received last
    vres,          \* what krb5_recvauth returned
    vsent,         \* parts of the reply text that are written
    vret,          \* how the server ended
    accepted       \* the ticket's key, once recvauth has sent its AP_REP

inputs == <<cprog, sprog, cache, keytab>>
clientVars == <<kpc, kaddrs, kserver, kres, ktold, kgot, kret>>
serverVars == <<vpc, vmsg, vres, vsent, vret, accepted>>

LibFails == "lib" \in Faults
SysFails == "sys" \in Faults

\* The application's version string, which both sides have to give.
Version(prog) == IF prog = "demo" THEN "version5" ELSE "KRB5_sample_protocol_v1.0"

Msg(kind, value) == [kind |-> kind, value |-> value]
NoMsg == Msg("none", "none")
Message ==
    [kind : {"none", "response", "error", "apRep", "length", "text"}, value : {"none", "ok", "bad"}]
      \cup [kind : {"versions"}, value : {"version5", "KRB5_sample_protocol_v1.0"}]
      \cup [kind : {"apReq"}, value : Keys]

-----------------------------------------------------------------------------
\* The client's process ends.
KExit(ret) ==
    /\ kpc' = "done" /\ kret' = ret
    /\ IF linked THEN Close("client") ELSE UNCHANGED linkVars
    /\ UNCHANGED <<kaddrs, kserver, kres, ktold, kgot>>

KGoto(at, then) == kpc = at /\ kpc' = then /\ UNCHANGED <<kaddrs, kserver, ktold, kgot, kret>>

KGoOn(at, then) == KGoto(at, then) /\ UNCHANGED kres
KReturn(at, result) == KGoto(at, "returned") /\ kres' = result

\* Only sclient.c ignores SIGPIPE; an unconnected socket raises it as well.
KWrite(at, then, msg) ==
    \/ linked /\ KGoOn(at, then) /\ Put("client", msg)
    \/ /\ ~linked \/ Sigpipe("client")
       /\ IF cprog = "demo" THEN kpc = at /\ KExit("killed")
                            ELSE KReturn(at, "error") /\ UNCHANGED linkVars
    \/ SendBroken("client") /\ KReturn(at, "error") /\ UNCHANGED linkVars

\* The library takes the end of the stream for an error.
KReadFails == AtEof("client") \/ RecvBroken("client")

KSendVersions == KWrite("versions", "response", Msg("versions", Version(cprog)))

KRecvResponse ==
    \/ /\ Take("client")
       /\ IF Head(rx["client"]).value = "ok" THEN KGoOn("response", "request")
                                             ELSE KReturn("response", "error")
    \/ KReadFails /\ KReturn("response", "error") /\ UNCHANGED linkVars

\* The ticket comes from the cache or the KDC.
KSendRequest ==
    \/ kserver /\ \E key \in Keys : KWrite("request", "verdict", Msg("apReq", key))
    \/ (LibFails \/ ~kserver) /\ KReturn("request", "error") /\ UNCHANGED linkVars
    \/ ~kserver /\ kpc = "request" /\ KExit("killed")

KRecvVerdict ==
    \/ /\ Take("client")
       /\ IF Head(rx["client"]).value = "ok" THEN KGoOn("verdict", "reply")
                                             ELSE KReturn("verdict", "rejected")
    \/ KReadFails /\ KReturn("verdict", "error") /\ UNCHANGED linkVars

KRecvReply ==
    \/ Take("client") /\ KReturn("reply", "ok")
    \/ Take("client") /\ LibFails /\ KReturn("reply", "error")
    \/ KReadFails /\ KReturn("reply", "error") /\ UNCHANGED linkVars

Sendauth == KSendVersions \/ KRecvResponse \/ KSendRequest \/ KRecvVerdict \/ KRecvReply

-----------------------------------------------------------------------------
\* The server's process ends.  inetd has accepted the connection of the
\* process it starts.
VAccepted == sprog = "inetd" \/ vpc \notin {"context", "sname", "bind", "listen", "accept"}

VExit(ret) ==
    /\ vpc' = "done" /\ vret' = ret
    /\ IF VAccepted THEN Close("server") ELSE CloseUnaccepted
    /\ UNCHANGED <<vmsg, vres, vsent, accepted>>

VGoOn(at, then) == vpc = at /\ vpc' = then /\ UNCHANGED <<vmsg, vres, vsent, vret, accepted>>

VReturn(at, result) ==
    /\ vpc = at /\ vpc' = "returned" /\ vres' = result
    /\ UNCHANGED <<vmsg, vsent, vret, accepted>>

\* A write fails: SIGPIPE, which neither server handles, or an error.
VWriteFails(at) ==
    \/ Sigpipe("server") /\ vpc = at /\ VExit("killed")
    \/ SendBroken("server") /\ VReturn(at, "error") /\ UNCHANGED linkVars

VRead(at, then) ==
    \/ /\ vpc = at /\ Take("server")
       /\ vmsg' = Head(rx["server"]) /\ vpc' = then
       /\ UNCHANGED <<vres, vsent, vret, accepted>>
    \/ /\ AtEof("server") \/ RecvBroken("server")
       /\ VReturn(at, "error") /\ UNCHANGED linkVars

VRecvVersions == VRead("versions", "respond")

\* Faulty variant of VRespond: only a wrong version is answered.
VRespondOnError ==
    \/ IF vmsg.value = Version(sprog)
       THEN VGoOn("respond", "request") /\ UNCHANGED linkVars
       ELSE VReturn("respond", "error") /\ Put("server", Msg("response", "bad"))
    \/ VWriteFails("respond")

VRespond ==
    \/ IF vmsg.value = Version(sprog)
       THEN VGoOn("respond", "request") /\ Put("server", Msg("response", "ok"))
       ELSE VReturn("respond", "error") /\ Put("server", Msg("response", "bad"))
    \/ VWriteFails("respond")

VRecvRequest == VRead("request", "verdict")

\* Faulty variant of VVerdict: the client is not told why it is refused.
VVerdictSilent ==
    IF vmsg.value \in keytab
    THEN VGoOn("verdict", "reply") /\ Put("server", Msg("error", "ok"))
    ELSE VReturn("verdict", "rejected") /\ UNCHANGED linkVars

\* krb5_rd_req looks for the ticket's key in the keytab.
VVerdict ==
    \/ /\ vmsg.value \in keytab
       /\ VGoOn("verdict", "reply") /\ Put("server", Msg("error", "ok"))
    \/ /\ LibFails \/ vmsg.value \notin keytab
       /\ VReturn("verdict", "rejected") /\ Put("server", Msg("error", "bad"))
    \/ VWriteFails("verdict")

VReply ==
    \/ /\ vpc = "reply" /\ vpc' = "returned" /\ vres' = "ok"
       /\ Put("server", Msg("apRep", "none")) /\ accepted' = {vmsg.value}
       /\ UNCHANGED <<vmsg, vsent, vret>>
    \/ LibFails /\ VReturn("reply", "error") /\ UNCHANGED linkVars
    \/ VWriteFails("reply")

Recvauth == VRecvVersions \/ VRespond \/ VRecvRequest \/ VVerdict \/ VReply
=============================================================================
