---------------------------- MODULE SampleServer ----------------------------
(***************************************************************************)
(* application/reference-code/sserver.c, with a port of its own or started *)
(* by inetd for a connection that is accepted.                             *)
(***************************************************************************)
EXTENDS Krb5Lib

IsSample == sprog \in {"sample", "inetd"}

RefServes(at, then) == IsSample /\ VGoOn(at, then) /\ UNCHANGED linkVars
RefFails(at) == IsSample /\ vpc = at /\ VExit("error")

\* inetd starts the server for a connection.
RInetd == linked /\ RefServes("inetd", "context")

\* krb5_init_context; krb5_kt_resolve with -S.
RInitContext == RefServes("context", "sname") \/ (LibFails /\ RefFails("context"))

\* krb5_sname_to_principal; then the branch on the port.
RServiceName ==
    \/ RefServes("sname", IF sprog = "inetd" THEN "peername" ELSE "bind")
    \/ LibFails /\ RefFails("sname")

RBind == RefServes("bind", "listen") \/ (SysFails /\ RefFails("bind"))
RListen ==
    \/ IsSample /\ VGoOn("listen", "accept") /\ Listen
    \/ SysFails /\ RefFails("listen")
\* accept, and the listening socket is closed: there is one client.
RAccept ==
    \/ linked /\ RefServes("accept", "versions")
    \/ SysFails /\ RefFails("accept")

\* getpeername fails if the connection is gone.
RPeername ==
    \/ ended["client"] # "rst" /\ RefServes("peername", "versions")
    \/ (SysFails \/ ended["client"] = "rst") /\ RefFails("peername")

\* krb5_recvauth has returned, and the reply is composed.
RReturned ==
    \/ vres = "ok" /\ RefServes("returned", "write_length")
    \/ vres # "ok" /\ RefFails("returned")

\* krb5_net_write of the length and of the text.
RWriteFails(at) ==
    /\ IsSample /\ vpc = at
    /\ \/ Sigpipe("server") /\ VExit("killed")
       \/ SendBroken("server") /\ VExit("error")

RWriteLength ==
    \/ /\ IsSample /\ VGoOn("write_length", "write_text")
       /\ Put("server", Msg("length", "none"))
    \/ RWriteFails("write_length")

\* Faulty variant of RWriteText: the terminating null is written as well.
RWriteTextAndNull ==
    /\ IsSample /\ vpc = "write_text"
    /\ \/ /\ vsent <= TextParts /\ vsent' = vsent + 1
          /\ Put("server", Msg("text", "none"))
          /\ UNCHANGED <<vpc, vmsg, vres, vret, accepted>>
       \/ vsent > TextParts /\ VExit("ok")

RWriteText ==
    \/ /\ IsSample /\ vpc = "write_text"
       /\ vsent < TextParts /\ vsent' = vsent + 1
       /\ Put("server", Msg("text", "none"))
       /\ UNCHANGED <<vpc, vmsg, vres, vret, accepted>>
    \/ vsent < TextParts /\ RWriteFails("write_text")
    \/ IsSample /\ vpc = "write_text" /\ vsent = TextParts /\ VExit("ok")

ReferenceServer ==
    \/ RInetd \/ RInitContext \/ RServiceName \/ RBind \/ RListen \/ RAccept
    \/ RPeername \/ RReturned \/ RWriteLength \/ RWriteText
=============================================================================
