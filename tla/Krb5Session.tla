----------------------------- MODULE Krb5Session -----------------------------
(***************************************************************************)
(* One client and one server that use krb5_sendauth and krb5_recvauth: the *)
(* pair of krb5-api, the pair of reference-code, or one of each.           *)
(***************************************************************************)
EXTENDS Krb5Client, Krb5Server, SampleClient, SampleServer

vars == <<inputs, linkVars, clientVars, serverVars>>

Init ==
    /\ cprog \in {"demo", "sample"} /\ sprog \in {"demo", "sample", "inetd"}
    /\ cache \in BOOLEAN /\ keytab \in SUBSET Keys
    /\ listening = (sprog = "inetd") /\ linked = FALSE
    /\ rx = [s \in Side |-> <<>>] /\ ended = [s \in Side |-> "open"]
    /\ kpc = "context" /\ kaddrs = <<>> /\ kserver = FALSE /\ kres = "none"
    /\ ktold = FALSE /\ kgot = 0 /\ kret = "running"
    /\ vpc = (IF sprog = "inetd" THEN "inetd" ELSE "context")
    /\ vmsg = NoMsg /\ vres = "none" /\ vsent = 0 /\ vret = "running"
    /\ accepted = {}

ClientStep == (DemoClient \/ ReferenceClient \/ Sendauth) /\ UNCHANGED <<inputs, serverVars>>
ServerStep == (DemoServer \/ ReferenceServer \/ Recvauth) /\ UNCHANGED <<inputs, clientVars>>

Kill ==
    /\ "kill" \in Faults
    /\ \/ kpc # "done" /\ KExit("killed") /\ UNCHANGED <<inputs, serverVars>>
       \/ vpc \notin {"inetd", "done"} /\ VExit("killed") /\ UNCHANGED <<inputs, clientVars>>

\* Nothing moves any more: both have ended, or the server waits for a client
\* that ended without connecting.
Quiet ==
    /\ kpc = "done"
    /\ vpc = "done" \/ (vpc \in {"accept", "inetd"} /\ ~linked)
    /\ UNCHANGED vars

Next == ClientStep \/ ServerStep \/ Kill \/ Quiet

Spec == Init /\ [][Next]_vars

\* Two processes, each scheduled whenever its next call can return.
FairSpec == Spec /\ WF_vars(ClientStep) /\ WF_vars(ServerStep)

-----------------------------------------------------------------------------
\* Every variable has its type.
TypeOK ==
    /\ listening \in BOOLEAN /\ linked \in BOOLEAN
    /\ rx \in [Side -> Seq(Message)] /\ ended \in [Side -> {"open", "fin", "rst"}]
    /\ cprog \in {"demo", "sample"} /\ sprog \in {"demo", "sample", "inetd"}
    /\ cache \in BOOLEAN /\ keytab \subseteq Keys
    /\ kpc \in {"context", "resolve", "connect", "cache", "versions", "response",
                "request", "verdict", "reply", "returned", "length", "text", "free", "done"}
    /\ kaddrs \in Seq({"server", "elsewhere"}) /\ kserver \in BOOLEAN
    /\ kres \in {"none", "ok", "rejected", "error"} /\ ktold \in BOOLEAN
    /\ kgot \in 0 .. TextParts
    /\ vpc \in {"inetd", "context", "sname", "sname_unset", "bind", "listen", "accept",
                "peername", "versions", "respond", "request", "verdict", "reply",
                "returned", "write_length", "write_text", "done"}
    /\ vmsg \in Message /\ vres \in {"none", "ok", "rejected", "error"}
    /\ vsent \in 0 .. TextParts /\ accepted \in {{}} \cup {{key} : key \in Keys}
    /\ {kret, vret} \subseteq {"running", "ok", "error", "killed"}

\* What the exchange does for the two users: the client prints "Authenticated
\* successfully!" (or "sendauth succeeded") only if the server has accepted it
\* under a key of its keytab.
Authentication == INSTANCE MutualAuth WITH known <- keytab, authenticated <- ktold

AuthenticationSpec == Authentication!Spec

\* Exit code 0 means an answer of the server's recvauth: that it accepted the
\* client or, for sclient.c, that it rejected it; and sclient.c has then
\* shown some text of the server.
ZeroMeansAnswered ==
    kret = "ok" =>
      \/ accepted # {} /\ (cprog = "sample" => kgot > 0)
      \/ cprog = "sample" /\ vres = "rejected"

\* sclient.c takes a short read for the whole reply and prints the rest of its
\* buffer; that happens only if the server was killed while it wrote.
ReplyWhole ==
    kret = "ok" /\ kgot # 0 /\ kgot # TextParts => vret = "killed"

\* The two never both wait for a message when none is on the way.
ClientReads == kpc \in {"response", "verdict", "reply", "length", "text"}
ServerReads == vpc \in {"versions", "request"}
NoMutualWait ==
    ClientReads /\ ServerReads => rx["client"] # <<>> \/ rx["server"] # <<>>

\* A client that the server rejects learns that it was rejected, though the
\* server closes the connection at once, unless the client is killed.
RejectionTold == vres = "rejected" ~> (kres = "rejected" \/ kret = "killed")

\* The client ends, and so does a server that a client connected to; nobody
\* waits for ever, whoever fails or is killed.
BothEnd == <>(kpc = "done") /\ (linked ~> vpc = "done")
=============================================================================
