----------------------------- MODULE TestScript -----------------------------
(***************************************************************************)
(* `make test` (scripts/test.sh), again and again, between and during      *)
(* `make init` and `make restart`.                                         *)
(***************************************************************************)
EXTENDS KeyTable, TestServers

CONSTANTS MaxRounds, MaxRestarts  \* how often the user tests and restarts

ASSUME ScriptAssumption == {MaxRounds, MaxRestarts} \subseteq Nat

VARIABLES
    tpc,       \* the next command of test.sh, or how it fails to return
    rounds,    \* runs of test.sh
    restarts,  \* runs of make restart
    ticket,    \* the key of the service ticket in the client's cache, or 0
    served,    \* the clients of this round that a server of their kind served
    verdict,   \* how the last round ended
    failures   \* rounds that have failed since the containers were created

scriptVars == <<tpc, rounds, restarts, ticket, served, verdict, failures>>
vars == <<keyVars, servers, scriptVars>>

Init ==
    /\ KeyInit /\ ServersInit
    /\ tpc = "idle" /\ rounds = 0 /\ restarts = 0 /\ ticket = 0
    /\ served = {} /\ verdict = "none" /\ failures = 0

\* A command of the script succeeds; or it fails, and set -e ends the script.
Continue(then) == tpc' = then /\ UNCHANGED <<rounds, restarts, verdict, failures>>

\* Faulty variant of Abort: the script runs without set -e.
AbortGoingOn(then) == tpc' = then /\ UNCHANGED <<rounds, restarts, verdict, failures>>

Abort(then) ==
    /\ tpc' = "idle" /\ verdict' = "failed" /\ failures' = failures + 1
    /\ UNCHANGED <<rounds, restarts>>

-----------------------------------------------------------------------------
TestStart ==
    /\ tpc = "idle" /\ rounds < MaxRounds
    /\ tpc' = "kinit" /\ rounds' = rounds + 1
    /\ served' = {} /\ verdict' = "none"
    /\ UNCHANGED <<keyVars, servers, restarts, ticket, failures>>

\* kinit needs the principal in the KDC, and empties the cache.
Kinit ==
    /\ tpc = "kinit"
    /\ IF up /\ key # 0 THEN Continue("krb5_server") /\ ticket' = 0
                        ELSE Abort("krb5_server") /\ UNCHANGED ticket
    /\ UNCHANGED <<keyVars, servers, served>>

\* docker exec -d; nothing tells the script whether the server runs.
RunServer(kind, at, then) ==
    /\ tpc = at /\ Continue(then)
    /\ IF "server" \in binaries THEN StartServer(kind) ELSE UNCHANGED servers
    /\ UNCHANGED <<keyVars, ticket, served>>

\* The client gets a ticket for the service if the cache has none, and uses it.
TicketUsed == IF ticket = 0 THEN key ELSE ticket

Installed == "client" \in binaries

\* A client that is refused, or whose server exits, fails.
ClientFails(at, then) ==
    /\ tpc = at /\ Abort(then)
    /\ UNCHANGED <<keyVars, ticket, served>>

\* Faulty variant of Refused: a client that is refused tries again.
RefusedRetrying(at, then) ==
    /\ ~Installed \/ Holders = {} \/ \E i \in Holders : servers[i].stage = "leaving"
    /\ tpc = at /\ UNCHANGED vars

\* Without the program, without a server, or in the backlog of one that exits.
Refused(at, then) ==
    /\ ~Installed \/ Holders = {} \/ \E i \in Holders : servers[i].stage = "leaving"
    /\ ClientFails(at, then) /\ UNCHANGED servers

\* Faulty variant of Served: the server goes back to accept.
ServedListening(kind, at, then) ==
    /\ tpc = at /\ Installed /\ TicketUsed \in srvTab
    /\ \E i \in Holders : servers[i] = Server(kind, "listening")
    /\ Continue(then) /\ ticket' = TicketUsed /\ served' = served \cup {kind}
    /\ UNCHANGED <<keyVars, servers>>

\* A server of the client's own kind, whose keytab has the ticket's key.
Served(kind, at, then) ==
    /\ tpc = at /\ Installed /\ TicketUsed \in srvTab
    /\ \E i \in Holders : servers[i] = Server(kind, "listening") /\ Reach(i, "leaving")
    /\ Continue(then) /\ ticket' = TicketUsed /\ served' = served \cup {kind}
    /\ UNCHANGED keyVars

\* The script waits for a client that waits for its server, for ever.
Hang(at) ==
    /\ tpc = at /\ tpc' = "hung" /\ verdict' = "hung"
    /\ UNCHANGED <<keyVars, rounds, restarts, served, failures>>

\* Without the key recvauth rejects the client.  The GSS client, which would
\* turn in read_all for ever, never gets there, see RoundKeepsKey.
WrongKey ==
    /\ Installed /\ TicketUsed \notin srvTab
    /\ \E i \in Holders : servers[i] = Server("krb5", "listening") /\ Reach(i, "leaving")
    /\ ClientFails("krb5_client", "gss_server")

\* The GSS server takes the sendauth version for a token, and exits.
Krb5ClientAtGssServer ==
    /\ Installed
    /\ \E i \in Holders : servers[i] = Server("gss", "listening") /\ Reach(i, "leaving")
    /\ ClientFails("krb5_client", "gss_server")

\* krb5_recvauth takes the token for the version and waits for a second
\* message, while the client waits for the server's token; and so does any
\* client that gets into the backlog of such a server.
GssClientAtKrb5Server ==
    /\ Installed
    /\ \E i \in Holders : servers[i] = Server("krb5", "listening") /\ Reach(i, "busy")
    /\ Hang("gss_client") /\ ticket' = TicketUsed
BehindBusyServer(at) ==
    /\ Installed
    /\ \E i \in Holders : servers[i].stage = "busy"
    /\ Hang(at) /\ UNCHANGED <<servers, ticket>>

SessionFails == "session" \in Failures /\ Installed

\* A call of the client or of its server fails, and the client with it.  A server
\* that listened exits, too; but the GSS server turns in read_all for ever when its
\* client has left, and goes on listening when the client did not come to it.
FailedSession(at, then) ==
    /\ SessionFails /\ ClientFails(at, then)
    /\ \/ UNCHANGED servers
       \/ \E i \in Holders : servers[i].stage = "listening" /\ Reach(i, "leaving")
       \/ \E i \in Holders : servers[i] = Server("gss", "listening") /\ Reach(i, "busy")

\* The server fails after accept, and exits; the GSS client turns in read_all for
\* ever, and the script with it.
GssClientSpins ==
    /\ SessionFails /\ tpc = "gss_client" /\ tpc' = "spinning" /\ verdict' = "hung"
    /\ \E i \in Holders : servers[i].stage = "listening" /\ Reach(i, "leaving")
    /\ ticket' = TicketUsed
    /\ UNCHANGED <<keyVars, rounds, restarts, served, failures>>

RunClient(kind, at, then) ==
    \/ Refused(at, then) \/ Served(kind, at, then) \/ FailedSession(at, then)
    \/ BehindBusyServer(at)

RunKrb5Server == RunServer("krb5", "krb5_server", "krb5_client")
RunKrb5Client ==
    RunClient("krb5", "krb5_client", "gss_server") \/ WrongKey \/ Krb5ClientAtGssServer
RunGssServer == RunServer("gss", "gss_server", "gss_client")
RunGssClient ==
    RunClient("gss", "gss_client", "ssh") \/ GssClientAtKrb5Server \/ GssClientSpins

\* ssh with GSS-API authentication, for which the ticket is good as well; then
\* the script says that all succeeded.
RunSsh ==
    /\ tpc = "ssh" /\ TicketUsed \in srvTab
    /\ tpc' = "idle" /\ verdict' = "succeed" /\ ticket' = TicketUsed
    /\ UNCHANGED <<keyVars, servers, rounds, restarts, served, failures>>

\* A docker command of the script fails, or kinit or ssh in it.
DockerAborts ==
    /\ DockerFails /\ tpc \notin {"idle", "hung", "spinning"} /\ Abort(tpc)
    /\ UNCHANGED <<keyVars, servers, ticket, served>>

ScriptStep ==
    \/ Kinit \/ RunKrb5Server \/ RunKrb5Client \/ RunGssServer \/ RunGssClient
    \/ RunSsh

\* The user stops a script that does not return; the programs in the containers go on.
Interrupt ==
    /\ tpc \in {"hung", "spinning"} /\ tpc' = "idle" /\ failures' = failures + 1
    /\ UNCHANGED <<keyVars, servers, rounds, restarts, ticket, served, verdict>>

\* make restart: the containers are removed with all that runs in them.
Restart ==
    /\ tpc \in {"idle", "hung", "spinning"} /\ ipc = "idle" /\ restarts < MaxRestarts
    /\ KeyRestart /\ servers' = [i \in Slots |-> NoServer]
    /\ tpc' = "idle" /\ restarts' = restarts + 1
    /\ ticket' = 0 /\ failures' = 0
    /\ UNCHANGED <<rounds, served, verdict>>

MakeInit == (InitStart \/ InitInterrupted) /\ UNCHANGED <<servers, scriptVars>>
MakeInitGoesOn == InitStep /\ UNCHANGED <<servers, scriptVars>>

ServerStep ==
    /\ \E i \in Slots : Settle(i, srvTab) \/ Leave(i)
    /\ UNCHANGED <<keyVars, scriptVars>>

ServerFails ==
    /\ "session" \in Failures /\ \E i \in Slots : FailToStart(i)
    /\ UNCHANGED <<keyVars, scriptVars>>

\* Nothing runs but programs that wait or turn for ever, and the user has no more commands.
Quiet ==
    /\ tpc \in {"idle", "hung", "spinning"} /\ ipc = "idle"
    /\ \A i \in Slots : servers[i].stage \in {"gone", "listening", "busy"}
    /\ UNCHANGED vars

Next ==
    \/ TestStart \/ ScriptStep \/ DockerAborts \/ Interrupt \/ Restart
    \/ MakeInit \/ MakeInitGoesOn \/ ServerStep \/ ServerFails
    \/ Quiet

Spec == Init /\ [][Next]_vars

\* The scripts and the servers run on; nothing has to fail, and the user need
\* not do anything.
FairSpec == Spec /\ WF_vars(ScriptStep) /\ WF_vars(MakeInitGoesOn) /\ WF_vars(ServerStep)

-----------------------------------------------------------------------------
\* Every variable has its type.
TypeOK ==
    /\ KeyTypeOK /\ ServersTypeOK
    /\ tpc \in {"idle", "kinit", "krb5_server", "krb5_client", "gss_server",
                "gss_client", "ssh", "hung", "spinning"}
    /\ rounds \in 0 .. MaxRounds /\ restarts \in 0 .. MaxRestarts
    /\ ticket \in 0 .. keys /\ served \subseteq Kinds
    /\ verdict \in {"none", "succeed", "failed", "hung"} /\ failures \in 0 .. rounds

\* "TESTS SUCCEED" is honest: in this round each of the two clients was served
\* by a server of its own kind, whatever servers earlier rounds left behind.
VerdictHonest == verdict = "succeed" => served = Kinds

\* A make init that ends without a failed command has put the service's
\* current key into the server's keytab, whatever interrupted runs before it
\* left on the host; and it stays so until the next ktadd or restart.
InitMeansCurrent == ready => key # 0 /\ key \in srvTab

\* The script waits for ever (its client for a server that is there and waits, too,
\* or turns for ever) only after another round failed in the same containers, and
\* left a server behind.  The other way for it not to return is its own client
\* turning in read_all, GssClientSpins, which needs nothing but a server of this
\* round that fails.
HangNeedsOrphan == tpc = "hung" => failures > 0

\* A make init in the midst of a round does not take the key away from it: the
\* server's keytab, replaced or not, still has the key of the ticket with
\* which the first client was served.
RoundKeepsKey == tpc \in {"gss_server", "gss_client", "ssh"} => TicketUsed \in srvTab

\* In containers where no round has failed a round comes to an end, whatever fails
\* in it, or its GSS client turns in read_all, because its server has failed.  The
\* script has no other way not to return there.
RoundEnds == (tpc # "idle" /\ failures = 0) ~> tpc \in {"idle", "spinning"}

\* "Now that everything is set up, run the server and client applications":
\* a make test after a make init in order succeeds.
RoundSucceeds == (tpc = "kinit" /\ ready) ~> verdict = "succeed"
=============================================================================
