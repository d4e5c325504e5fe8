---------------------------- MODULE TestServers ----------------------------
(***************************************************************************)
(* The servers that test.sh starts detached in the server's container, all *)
(* on one port.  A server serves one client and exits; it keeps its        *)
(* listening socket until then.  What it says to its client is the subject *)
(* of GssSession and Krb5Session, and the outcome alone is kept here.      *)
(***************************************************************************)
EXTENDS Naturals

CONSTANT MaxServers  \* servers that exist at a time

ASSUME ServersAssumption == MaxServers \in Nat \ {0}

VARIABLE servers  \* the servers: what each is and how far

Slots == 1 .. MaxServers
Kinds == {"krb5", "gss"}
NoServer == [kind |-> "none", stage |-> "gone"]
Server(kind, stage) == [kind |-> kind, stage |-> stage]
ServerStage == {"starting", "listening", "busy", "leaving"}

ServersInit == servers = [i \in Slots |-> NoServer]

ServersTypeOK ==
    servers \in [Slots -> {NoServer} \cup [kind : Kinds, stage : ServerStage]]

\* The server that holds the port.
Holders == {i \in Slots : servers[i].stage \in {"listening", "busy", "leaving"}}

\* docker exec -d returns before the server has done anything.
StartServer(kind) ==
    \E i \in Slots :
        /\ servers[i] = NoServer /\ \A j \in 1 .. i - 1 : servers[j] # NoServer
        /\ servers' = [servers EXCEPT ![i] = Server(kind, "starting")]

\* The server binds its port and listens, or finds the port in use and exits.
\* The GSS server acquires its credentials first, from the keytab.
Settle(i, tab) ==
    /\ servers[i].stage = "starting"
    /\ servers' = [servers EXCEPT ![i] =
           IF Holders = {} /\ (servers[i].kind = "gss" => tab # {})
           THEN Server(servers[i].kind, "listening") ELSE NoServer]

\* A call fails before the server listens, and it exits.
FailToStart(i) ==
    /\ servers[i].stage = "starting"
    /\ servers' = [servers EXCEPT ![i] = NoServer]

\* Faulty variant of Leave: the entry of the server is not cleared.
LeaveUncleared(i) ==
    /\ servers[i].stage = "leaving"
    /\ servers' = [servers EXCEPT ![i].stage = "gone"]

\* A server that has served its client frees what it holds and exits.
Leave(i) ==
    /\ servers[i].stage = "leaving"
    /\ servers' = [servers EXCEPT ![i] = NoServer]

Reach(i, stage) == servers' = [servers EXCEPT ![i].stage = stage]
=============================================================================
