-------------------------- MODULE TestScriptProofs --------------------------
(***************************************************************************)
(* What holds of TestScript for any number of make inits, of rounds, of    *)
(* restarts and of servers, and for every set of failures.                 *)
(***************************************************************************)
EXTENDS TestScript, TLAPS

\* A make init makes at most one key.
KeysCounted == keys <= inits /\ (ipc = "kadmin" => keys < inits)

\* A ktadd puts the service's key into the KDC's keytab.
KeyInTab == key = 0 \/ key \in kdcTab
Current(tab) == key # 0 /\ key \in tab

\* How far the current key is on its way to the server's keytab, in a make init
\* of which no command has failed.
KeyOnItsWay ==
    ~slip => /\ ipc = "cp_out" => Current(kdcTab)
             /\ ipc = "cp_in" => Current(hostTab)
             /\ ipc \in {"rm", "server_bin", "client_bin"} => Current(srvTab)

\* A file that lies on the host does not take away what make init has done.
HostKeepsKey ==
    /\ ipc \in {"server_bin", "client_bin"} => hostTab = {}
    /\ ready => Current(srvTab) /\ (hostTab = {} \/ key \in hostTab)

\* Nor does it take from the server a key that this KDC has made.
HostKeepsServersKeys == hostTab = {} \/ srvTab \cap kdcTab \subseteq hostTab

KeyInv ==
    /\ KeyTypeOK /\ KeysCounted /\ KeyInTab /\ KeyOnItsWay /\ HostKeepsKey
    /\ HostKeepsServersKeys

\* A round fails at most once.
FailuresCounted == tpc # "idle" => failures < rounds

\* The clients that have been served when the script is past them.
ServedSoFar ==
    /\ tpc \in {"gss_server", "gss_client"} => "krb5" \in served
    /\ tpc = "ssh" \/ verdict = "succeed" => served = Kinds
    /\ verdict = "succeed" => tpc = "idle"

\* From the first client on the round has a ticket which the server accepts.
TicketGood ==
    /\ ticket = 0 \/ ticket \in kdcTab
    /\ tpc \in {"gss_server", "gss_client", "ssh"} => ticket # 0 /\ ticket \in srvTab

\* Where no round has failed a server waits for a client only while the script
\* runs the client that it was started for.
Waiting(i, kind) == servers[i] \in {Server(kind, "starting"), Server(kind, "listening")}
NoOrphans ==
    failures = 0 =>
        /\ tpc # "hung"
        /\ \A i \in Slots :
              /\ servers[i].stage # "busy"
              /\ Waiting(i, "krb5") => tpc = "krb5_client"
              /\ Waiting(i, "gss") => tpc = "gss_client"
        /\ \A i, j \in Slots :
              \A kind \in Kinds : Waiting(i, kind) /\ Waiting(j, kind) => i = j

\* The script's part of TypeOK.
ScriptTypeOK ==
    /\ tpc \in {"idle", "kinit", "krb5_server", "krb5_client", "gss_server",
                "gss_client", "ssh", "hung", "spinning"}
    /\ rounds \in 0 .. MaxRounds /\ restarts \in 0 .. MaxRestarts
    /\ ticket \in 0 .. keys /\ served \subseteq Kinds
    /\ verdict \in {"none", "succeed", "failed", "hung"} /\ failures \in 0 .. rounds

ScriptInv == ScriptTypeOK /\ FailuresCounted /\ ServedSoFar /\ TicketGood

\* The inductive invariant.
IInv == KeyInv /\ ServersTypeOK /\ ScriptInv /\ NoOrphans

-----------------------------------------------------------------------------
\* KeyTypeOK, variable by variable.
KeyNumbers ==
    /\ inits \in 0 .. MaxInits /\ keys \in 0 .. MaxInits /\ key \in 0 .. keys
    /\ kdcTab \subseteq 1 .. keys /\ hostTab \subseteq 1 .. keys /\ srvTab \subseteq 1 .. keys
KeyFlags ==
    /\ ipc \in {"idle", "kadmin", "cp_out", "cp_in", "rm", "server_bin", "client_bin"}
    /\ binaries \subseteq {"server", "client"}
    /\ up \in BOOLEAN /\ slip \in BOOLEAN /\ ready \in BOOLEAN

\* The type of the keys: numbers and flags apart.
LEMMA KeyTypeParts ==
    /\ KeyTypeOK <=> KeyNumbers /\ KeyFlags
    /\ KeyTypeOK' <=> KeyNumbers' /\ KeyFlags'
<1>1. KeyTypeOK => KeyNumbers /\ KeyFlags
  BY DEF KeyTypeOK, KeyNumbers, KeyFlags
<1>2. KeyNumbers /\ KeyFlags => KeyTypeOK
  BY DEF KeyTypeOK, KeyNumbers, KeyFlags
<1>3. KeyTypeOK' => KeyNumbers' /\ KeyFlags'
  BY DEF KeyTypeOK, KeyNumbers, KeyFlags
<1>4. KeyNumbers' /\ KeyFlags' => KeyTypeOK'
  BY DEF KeyTypeOK, KeyNumbers, KeyFlags
<1> QED
  BY <1>1, <1>2, <1>3, <1>4

\* The flags stay flags, whatever make init and make restart do.
LEMMA FlagsStay ==
    ASSUME KeyFlags, InitStart \/ InitInterrupted \/ InitStep \/ KeyRestart
    PROVE  KeyFlags'
<1> USE DEF KeyFlags
<1>1. CASE InitStart
  BY <1>1 DEF InitStart
<1>2. CASE InitInterrupted \/ KeyRestart
  BY <1>2 DEF InitInterrupted, KeyRestart
<1>3. CASE InitKadmin
  BY <1>3 DEF InitKadmin, Slips
<1>4. CASE InitCopyOut
  BY <1>4 DEF InitCopyOut, Slips
<1>5. CASE InitCopyIn
  BY <1>5 DEF InitCopyIn, Slips
<1>6. CASE InitRemove
  BY <1>6 DEF InitRemove
<1>7. CASE InitServerBinaries
  BY <1>7 DEF InitServerBinaries, Slips
<1>8. CASE InitClientBinaries
  BY <1>8 DEF InitClientBinaries
<1> QED
  BY <1>1, <1>2, <1>3, <1>4, <1>5, <1>6, <1>7, <1>8 DEF InitStep

\* A new key is in no keytab yet.
LEMMA NewKey ==
    ASSUME NEW n \in Nat, NEW tab, tab \subseteq 1 .. n
    PROVE  n + 1 \notin tab /\ tab \subseteq 1 .. n + 1 /\ tab \cup {n + 1} \subseteq 1 .. n + 1
OBVIOUS

\* The key and its copies are created, copied and removed: each command of make
\* init keeps the invariant of the keys.
LEMMA InitStepKeepsKeys ==
    ASSUME KeyInv, InitStart \/ InitInterrupted \/ InitStep
    PROVE  KeyInv'
<1> DEFINE Numbers == KeyNumbers /\ KeysCounted /\ KeyInTab
           Copies == KeyOnItsWay /\ HostKeepsKey /\ HostKeepsServersKeys
<1>1. KeyNumbers /\ KeyFlags /\ KeyFlags' /\ Numbers /\ Copies
  BY KeyTypeParts, FlagsStay DEF KeyInv
<1>2. ASSUME (Numbers)', (Copies)' PROVE KeyInv'
  <2>1. KeyTypeOK'
    BY <1>1, <1>2, KeyTypeParts
  <2> QED
    BY <1>2, <2>1 DEF KeyInv
<1> SUFFICES (Numbers)' /\ (Copies)'
  BY <1>2
<1> HIDE DEF Numbers, Copies
<1> USE DEF Current
<1>3. CASE InitStart
  <2>1. (Numbers)'
    BY <1>1, <1>3, KeyTableAssumption
    DEF InitStart, Numbers, KeyNumbers, KeysCounted, KeyInTab
  <2>2. KeyOnItsWay'
    BY <1>1, <1>3 DEF InitStart, Numbers, Copies, KeyInTab, KeyOnItsWay
  <2>3. HostKeepsKey'
    BY <1>1, <1>3 DEF InitStart, Numbers, Copies, KeyInTab, KeyOnItsWay, HostKeepsKey
  <2>4. HostKeepsServersKeys'
    BY <1>1, <1>3 DEF InitStart, Numbers, KeyNumbers, Copies, HostKeepsServersKeys
  <2> QED
    BY <2>1, <2>2, <2>3, <2>4 DEF Copies
<1>4. CASE InitInterrupted
  <2>1. (Numbers)'
    BY <1>1, <1>4, KeyTableAssumption
    DEF InitInterrupted, Numbers, KeyNumbers, KeysCounted, KeyInTab
  <2>2. KeyOnItsWay'
    BY <1>1, <1>4 DEF InitInterrupted, Numbers, Copies, KeyInTab, KeyOnItsWay
  <2>3. HostKeepsKey'
    BY <1>1, <1>4
    DEF InitInterrupted, Numbers, Copies, KeyInTab, KeyOnItsWay, HostKeepsKey
  <2>4. HostKeepsServersKeys'
    BY <1>1, <1>4 DEF InitInterrupted, Numbers, KeyNumbers, Copies, HostKeepsServersKeys
  <2> QED
    BY <2>1, <2>2, <2>3, <2>4 DEF Copies
<1>5. CASE InitKadmin
  <2>1. CASE Slips("cp_out")
    <3>1. (Numbers)'
      BY <1>1, <1>5, <2>1, KeyTableAssumption
      DEF InitKadmin, Slips, Numbers, KeyNumbers, KeysCounted, KeyInTab
    <3>2. KeyOnItsWay'
      BY <1>1, <1>5, <2>1 DEF InitKadmin, Slips, Numbers, Copies, KeyInTab, KeyOnItsWay
    <3>3. HostKeepsKey'
      BY <1>1, <1>5, <2>1
      DEF InitKadmin, Slips, Numbers, Copies, KeyInTab, KeyOnItsWay, HostKeepsKey
    <3>4. HostKeepsServersKeys'
      BY <1>1, <1>5, <2>1
      DEF InitKadmin, Slips, Numbers, KeyNumbers, Copies, HostKeepsServersKeys
    <3> QED
      BY <3>1, <3>2, <3>3, <3>4 DEF Copies
  <2>2. CASE ~Slips("cp_out")
    <3>1. /\ keys' = keys + 1 /\ key' = keys + 1 /\ kdcTab' = kdcTab \cup {keys + 1}
          /\ ipc = "kadmin" /\ ipc' = "cp_out" /\ ready' = FALSE
          /\ UNCHANGED <<inits, hostTab, srvTab>>
      BY <1>5, <2>2 DEF InitKadmin
    <3>2. /\ inits \in 0 .. MaxInits /\ keys \in Nat /\ keys < inits
          /\ kdcTab \subseteq 1 .. keys /\ hostTab \subseteq 1 .. keys /\ srvTab \subseteq 1 .. keys
      BY <1>1, <3>1, KeyTableAssumption DEF KeyNumbers, Numbers, KeysCounted
    <3>3. /\ kdcTab' \subseteq 1 .. keys' /\ hostTab' \subseteq 1 .. keys'
          /\ srvTab' \subseteq 1 .. keys' /\ keys' \notin srvTab /\ keys' # 0
      BY <3>1, <3>2, NewKey
    <3>4. (Numbers)'
      <4>1. keys' \in 0 .. MaxInits /\ key' \in 0 .. keys' /\ keys' <= inits'
        BY <3>1, <3>2, KeyTableAssumption
      <4> QED
        BY <3>1, <3>2, <3>3, <4>1 DEF Numbers, KeyNumbers, KeysCounted, KeyInTab
    <3>5. KeyOnItsWay'
      BY <3>1, <3>3 DEF KeyOnItsWay
    <3>6. HostKeepsKey'
      BY <3>1 DEF HostKeepsKey
    <3>7. HostKeepsServersKeys'
      BY <1>1, <3>1, <3>3 DEF Copies, HostKeepsServersKeys
    <3> QED
      BY <3>4, <3>5, <3>6, <3>7 DEF Copies
  <2> QED
    BY <2>1, <2>2
<1>6. CASE InitCopyOut
  <2>1. CASE Slips("cp_in")
    <3>1. (Numbers)'
      BY <1>1, <1>6, <2>1, KeyTableAssumption
      DEF InitCopyOut, Slips, Numbers, KeyNumbers, KeysCounted, KeyInTab
    <3>2. KeyOnItsWay'
      BY <1>1, <1>6, <2>1 DEF InitCopyOut, Slips, Numbers, Copies, KeyInTab, KeyOnItsWay
    <3>3. HostKeepsKey'
      BY <1>1, <1>6, <2>1
      DEF InitCopyOut, Slips, Numbers, Copies, KeyInTab, KeyOnItsWay, HostKeepsKey
    <3>4. HostKeepsServersKeys'
      BY <1>1, <1>6, <2>1
      DEF InitCopyOut, Slips, Numbers, KeyNumbers, Copies, HostKeepsServersKeys
    <3> QED
      BY <3>1, <3>2, <3>3, <3>4 DEF Copies
  <2>2. CASE ~Slips("cp_in")
    <3>1. (Numbers)'
      BY <1>1, <1>6, <2>2, KeyTableAssumption
      DEF InitCopyOut, Numbers, KeyNumbers, KeysCounted, KeyInTab
    <3>2. KeyOnItsWay'
      BY <1>1, <1>6, <2>2 DEF InitCopyOut, Numbers, Copies, KeyInTab, KeyOnItsWay
    <3>3. HostKeepsKey'
      BY <1>1, <1>6, <2>2
      DEF InitCopyOut, Numbers, Copies, KeyInTab, KeyOnItsWay, HostKeepsKey
    <3>4. HostKeepsServersKeys'
      BY <1>1, <1>6, <2>2
      DEF InitCopyOut, Numbers, KeyNumbers, Copies, HostKeepsServersKeys
    <3> QED
      BY <3>1, <3>2, <3>3, <3>4 DEF Copies
  <2> QED
    BY <2>1, <2>2
<1>7. CASE InitCopyIn
  <2>1. CASE Slips("rm")
    <3>1. (Numbers)'
      BY <1>1, <1>7, <2>1, KeyTableAssumption
      DEF InitCopyIn, Slips, Numbers, KeyNumbers, KeysCounted, KeyInTab
    <3>2. KeyOnItsWay'
      BY <1>1, <1>7, <2>1 DEF InitCopyIn, Slips, Numbers, Copies, KeyInTab, KeyOnItsWay
    <3>3. HostKeepsKey'
      BY <1>1, <1>7, <2>1
      DEF InitCopyIn, Slips, Numbers, Copies, KeyInTab, KeyOnItsWay, HostKeepsKey
    <3>4. HostKeepsServersKeys'
      BY <1>1, <1>7, <2>1
      DEF InitCopyIn, Slips, Numbers, KeyNumbers, Copies, HostKeepsServersKeys
    <3> QED
      BY <3>1, <3>2, <3>3, <3>4 DEF Copies
  <2>2. CASE ~Slips("rm")
    <3>1. (Numbers)'
      BY <1>1, <1>7, <2>2, KeyTableAssumption
      DEF InitCopyIn, Numbers, KeyNumbers, KeysCounted, KeyInTab
    <3>2. KeyOnItsWay'
      BY <1>1, <1>7, <2>2 DEF InitCopyIn, Numbers, Copies, KeyInTab, KeyOnItsWay
    <3>3. HostKeepsKey'
      BY <1>1, <1>7, <2>2
      DEF InitCopyIn, Numbers, Copies, KeyInTab, KeyOnItsWay, HostKeepsKey
    <3>4. HostKeepsServersKeys'
      BY <1>1, <1>7, <2>2
      DEF InitCopyIn, Numbers, KeyNumbers, Copies, HostKeepsServersKeys
    <3> QED
      BY <3>1, <3>2, <3>3, <3>4 DEF Copies
  <2> QED
    BY <2>1, <2>2
<1>8. CASE InitRemove
  <2>1. (Numbers)'
    BY <1>1, <1>8, KeyTableAssumption
    DEF InitRemove, Numbers, KeyNumbers, KeysCounted, KeyInTab
  <2>2. KeyOnItsWay'
    BY <1>1, <1>8 DEF InitRemove, Numbers, Copies, KeyInTab, KeyOnItsWay
  <2>3. HostKeepsKey'
    BY <1>1, <1>8 DEF InitRemove, Numbers, Copies, KeyInTab, KeyOnItsWay, HostKeepsKey
  <2>4. HostKeepsServersKeys'
    BY <1>1, <1>8 DEF InitRemove, Numbers, KeyNumbers, Copies, HostKeepsServersKeys
  <2> QED
    BY <2>1, <2>2, <2>3, <2>4 DEF Copies
<1>9. CASE InitServerBinaries
  <2>1. (Numbers)'
    BY <1>1, <1>9, KeyTableAssumption
    DEF InitServerBinaries, Slips, Numbers, KeyNumbers, KeysCounted, KeyInTab
  <2>2. KeyOnItsWay'
    BY <1>1, <1>9 DEF InitServerBinaries, Slips, Copies, KeyOnItsWay
  <2>3. HostKeepsKey'
    BY <1>1, <1>9 DEF InitServerBinaries, Slips, Copies, HostKeepsKey
  <2>4. HostKeepsServersKeys'
    BY <1>1, <1>9 DEF InitServerBinaries, Slips, Copies, HostKeepsServersKeys
  <2> QED
    BY <2>1, <2>2, <2>3, <2>4 DEF Copies
<1>10. CASE InitClientBinaries
  <2>1. (Numbers)'
    BY <1>1, <1>10, KeyTableAssumption
    DEF InitClientBinaries, Numbers, KeyNumbers, KeysCounted, KeyInTab
  <2>2. KeyOnItsWay'
    BY <1>1, <1>10 DEF InitClientBinaries, Copies, KeyOnItsWay
  <2>3. HostKeepsKey'
    <3>1. /\ ipc = "client_bin" /\ ipc' = "idle" /\ hostTab = {}
          /\ UNCHANGED <<key, hostTab, srvTab, slip>>
      BY <1>1, <1>10 DEF InitClientBinaries, Copies, HostKeepsKey
    <3>2. ready' => ready \/ ~slip
      BY <1>10 DEF InitClientBinaries
    <3> QED
      BY <1>1, <3>1, <3>2 DEF Copies, HostKeepsKey, KeyOnItsWay
  <2>4. HostKeepsServersKeys'
    BY <1>1, <1>10 DEF InitClientBinaries, Copies, HostKeepsServersKeys
  <2> QED
    BY <2>1, <2>2, <2>3, <2>4 DEF Copies
<1> QED
  BY <1>3, <1>4, <1>5, <1>6, <1>7, <1>8, <1>9, <1>10 DEF InitStep

\* No command of make init takes a key from the KDC's keytab, nor from the
\* server's one that the KDC has.
LEMMA InitStepLosesNoKey ==
    ASSUME KeyInv, InitStart \/ InitInterrupted \/ InitStep
    PROVE  /\ kdcTab \subseteq kdcTab' /\ keys <= keys'
           /\ srvTab \cap kdcTab \subseteq srvTab'
<1> USE DEF KeyInv, KeyTypeOK, HostKeepsServersKeys
<1>1. CASE InitStart \/ InitInterrupted \/ InitRemove \/ InitClientBinaries
  BY <1>1 DEF InitStart, InitInterrupted, InitRemove, InitClientBinaries
<1>2. CASE InitKadmin
  BY <1>2 DEF InitKadmin, Slips
<1>3. CASE InitCopyOut
  BY <1>3 DEF InitCopyOut, Slips
<1>4. CASE InitCopyIn
  BY <1>4 DEF InitCopyIn, Slips
<1>5. CASE InitServerBinaries
  BY <1>5 DEF InitServerBinaries, Slips
<1> QED
  BY <1>1, <1>2, <1>3, <1>4, <1>5 DEF InitStep

\* New containers have no keys at all.
LEMMA RestartKeepsKeys ==
    ASSUME KeyInv, ipc = "idle", KeyRestart
    PROVE  KeyInv'
<1>1. KeyTypeOK'
  <2>1. KeyNumbers /\ KeyFlags /\ KeyFlags'
    BY KeyTypeParts, FlagsStay DEF KeyInv
  <2>2. KeyNumbers'
    BY <2>1 DEF KeyRestart, KeyNumbers
  <2> QED
    BY <2>1, <2>2, KeyTypeParts
<1> QED
  BY <1>1 DEF KeyRestart, KeyInv, KeysCounted, KeyInTab, Current, KeyOnItsWay,
              HostKeepsKey, HostKeepsServersKeys

-----------------------------------------------------------------------------
\* The servers keep their type, and only server i changes.
LEMMA ReachChanges ==
    ASSUME ServersTypeOK, NEW i \in Slots, NEW stage \in ServerStage,
           servers[i] # NoServer, Reach(i, stage)
    PROVE  /\ ServersTypeOK'
           /\ servers'[i] = Server(servers[i].kind, stage)
           /\ \A j \in Slots \ {i} : servers'[j] = servers[j]
<1>1. servers[i] \in [kind : Kinds, stage : ServerStage]
  BY DEF ServersTypeOK
<1>2. [servers[i] EXCEPT !.stage = stage] = Server(servers[i].kind, stage)
  BY <1>1 DEF Server
<1>3. servers' = [servers EXCEPT ![i] = Server(servers[i].kind, stage)]
  BY <1>2 DEF Reach, ServersTypeOK
<1>4. Server(servers[i].kind, stage) \in [kind : Kinds, stage : ServerStage]
  BY <1>1 DEF Server
<1> QED
  BY <1>3, <1>4 DEF ServersTypeOK

\* What starting a server in the container changes.
LEMMA StartChanges ==
    ASSUME ServersTypeOK, NEW kind \in Kinds, StartServer(kind)
    PROVE  /\ ServersTypeOK'
           /\ \E i \in Slots :
                 /\ servers[i] = NoServer /\ servers'[i] = Server(kind, "starting")
                 /\ \A j \in Slots \ {i} : servers'[j] = servers[j]
<1>1. PICK i \in Slots :
          /\ servers[i] = NoServer
          /\ servers' = [servers EXCEPT ![i] = Server(kind, "starting")]
  BY DEF StartServer
<1>2. Server(kind, "starting") \in [kind : Kinds, stage : ServerStage]
  BY DEF Server, ServerStage
<1> QED
  BY <1>1, <1>2 DEF ServersTypeOK

\* A server that settles or leaves waits for nobody for whom it did not wait before.
LEMMA ServerStepChanges ==
    ASSUME ServersTypeOK, NEW i \in Slots, Settle(i, srvTab) \/ Leave(i) \/ FailToStart(i)
    PROVE  /\ ServersTypeOK'
           /\ \/ servers'[i] = NoServer
              \/ /\ servers[i].stage = "starting"
                 /\ servers'[i] = Server(servers[i].kind, "listening")
           /\ \A j \in Slots \ {i} : servers'[j] = servers[j]
<1>1. servers[i] # NoServer /\ servers[i] \in [kind : Kinds, stage : ServerStage]
  BY DEF Settle, Leave, FailToStart, NoServer, ServersTypeOK
<1>2. Server(servers[i].kind, "listening") \in [kind : Kinds, stage : ServerStage]
  BY <1>1 DEF Server, ServerStage
<1>3. \/ servers' = [servers EXCEPT ![i] = NoServer]
      \/ /\ servers[i].stage = "starting"
         /\ servers' = [servers EXCEPT ![i] = Server(servers[i].kind, "listening")]
  BY DEF Settle, Leave, FailToStart
<1> QED
  BY <1>2, <1>3 DEF ServersTypeOK

\* A server somebody can connect to exists.
LEMMA HolderExists ==
    ASSUME ServersTypeOK, NEW i \in Holders
    PROVE  i \in Slots /\ servers[i] # NoServer
BY DEF Holders, NoServer

\* A command of the tests changes no key, keytab or make init.
LEMMA KeysUntouched ==
    ASSUME KeyInv, UNCHANGED keyVars
    PROVE  KeyInv'
BY DEF keyVars, KeyInv, KeyTypeOK, KeysCounted, KeyInTab, Current, KeyOnItsWay,
       HostKeepsKey, HostKeepsServersKeys

\* The key under which a client talks is one that the KDC has.
LEMMA TicketUsedType ==
    ASSUME KeyInv, ScriptInv
    PROVE  /\ TicketUsed \in 0 .. keys /\ (TicketUsed = 0 \/ TicketUsed \in kdcTab)
           /\ TicketUsed \in srvTab => TicketUsed # 0
<1>1. keys \in Nat /\ key \in 0 .. keys /\ srvTab \subseteq 1 .. keys
  BY KeyTypeParts, KeyTableAssumption DEF KeyInv, KeyNumbers
<1> QED
  BY <1>1 DEF TicketUsed, ScriptInv, ScriptTypeOK, TicketGood, KeyInv, KeyInTab

-----------------------------------------------------------------------------
\* A command fails: the round is over, and counted.
LEMMA FailingRound ==
    ASSUME IInv, NEW then, tpc # "idle", Abort(then), ServersTypeOK',
           UNCHANGED <<keyVars, ticket, served>>
    PROVE  IInv'
<1>1. rounds \in Nat /\ failures \in Nat /\ failures < rounds
  BY ScriptAssumption DEF IInv, ScriptInv, ScriptTypeOK, FailuresCounted
<1>2. keys' = keys /\ kdcTab' = kdcTab /\ KeyInv'
  BY KeysUntouched DEF keyVars, IInv
<1>3. ScriptTypeOK'
  BY <1>1, <1>2 DEF Abort, IInv, ScriptInv, ScriptTypeOK
<1>4. FailuresCounted' /\ ServedSoFar' /\ TicketGood'
  BY <1>2 DEF Abort, FailuresCounted, ServedSoFar, TicketGood, IInv, ScriptInv
<1>5. NoOrphans'
  BY <1>1 DEF Abort, NoOrphans
<1> QED
  BY <1>2, <1>3, <1>4, <1>5 DEF IInv, ScriptInv

\* The script hangs, where a round has failed before.
LEMMA HangingRound ==
    ASSUME IInv, NEW at, at # "idle", Hang(at), ServersTypeOK', failures # 0,
           ticket' \in {ticket, TicketUsed}
    PROVE  IInv'
<1>1. keys' = keys /\ kdcTab' = kdcTab /\ KeyInv' /\ ticket' \in 0 .. keys
  BY KeysUntouched, TicketUsedType DEF Hang, keyVars, IInv, ScriptInv, ScriptTypeOK
<1>2. ScriptTypeOK'
  BY <1>1 DEF Hang, IInv, ScriptInv, ScriptTypeOK
<1>3. FailuresCounted' /\ ServedSoFar'
  BY DEF Hang, FailuresCounted, ServedSoFar, IInv, ScriptInv
<1>4. TicketGood'
  BY <1>1, TicketUsedType DEF Hang, TicketGood, IInv, ScriptInv
<1>5. NoOrphans'
  BY DEF Hang, NoOrphans
<1> QED
  BY <1>1, <1>2, <1>3, <1>4, <1>5 DEF IInv, ScriptInv

\* Where no round has failed, no server of its kind waits after the one that was
\* waiting has served.
LEMMA NobodyWaitsAfter ==
    ASSUME ServersTypeOK, NoOrphans, failures = 0, NEW kind \in Kinds,
           NEW i \in Slots, Waiting(i, kind),
           Reach(i, "leaving")
    PROVE  \A j \in Slots : servers'[j].stage # "busy" /\ \A k \in Kinds :
               Waiting(j, k)' => k # kind /\ Waiting(j, k)
<1>1. servers[i].kind = kind /\ servers[i] # NoServer
  BY DEF Waiting, Server, NoServer, Kinds
<1>2. servers'[i] = Server(kind, "leaving") /\ \A j \in Slots \ {i} : servers'[j] = servers[j]
  BY <1>1, ReachChanges DEF ServerStage
<1>3. \A k \in Kinds : ~Waiting(i, k)'
  BY <1>2 DEF Waiting, Server
<1>4. servers'[i].stage # "busy"
  BY <1>2 DEF Server
<1> SUFFICES ASSUME NEW j \in Slots, j # i
             PROVE  servers'[j].stage # "busy" /\ \A k \in Kinds :
                        Waiting(j, k)' => k # kind /\ Waiting(j, k)
  BY <1>3, <1>4
<1>5. servers'[j] = servers[j]
  BY <1>2
<1>6. \A k \in Kinds : Waiting(j, k)' => Waiting(j, k)
  BY <1>5 DEF Waiting
<1>7. ~Waiting(j, kind)
  BY DEF NoOrphans
<1> QED
  BY <1>5, <1>6, <1>7 DEF NoOrphans

-----------------------------------------------------------------------------
\* The steps of a round, one lemma for each kind of command.
LEMMA RoundStarts ==
    ASSUME IInv, TestStart
    PROVE  IInv'
<1>1. KeyInv' /\ ServersTypeOK' /\ keys' = keys /\ kdcTab' = kdcTab
  BY KeysUntouched DEF TestStart, IInv, ServersTypeOK, keyVars
<1>2. rounds \in Nat /\ failures \in 0 .. rounds /\ rounds < MaxRounds /\ MaxRounds \in Nat
  BY ScriptAssumption DEF TestStart, IInv, ScriptInv, ScriptTypeOK
<1>3. ScriptTypeOK'
  BY <1>1, <1>2 DEF TestStart, IInv, ScriptInv, ScriptTypeOK, Kinds
<1>4. FailuresCounted' /\ ServedSoFar' /\ TicketGood'
  BY <1>1, <1>2 DEF TestStart, FailuresCounted, ServedSoFar, TicketGood, IInv, ScriptInv
<1>5. NoOrphans'
  BY DEF TestStart, IInv, NoOrphans, Waiting
<1> QED
  BY <1>1, <1>3, <1>4, <1>5 DEF IInv, ScriptInv

\* kinit empties the client's cache, or ends the round if it fails.
LEMMA KinitStep ==
    ASSUME IInv, Kinit
    PROVE  IInv'
<1>1. CASE ~(up /\ key # 0)
  <2>1. ServersTypeOK' /\ Abort("krb5_server") /\ UNCHANGED <<keyVars, ticket, served>>
    BY <1>1 DEF Kinit, IInv, ServersTypeOK
  <2> QED
    BY <2>1, FailingRound DEF Kinit
<1>2. CASE up /\ key # 0
  <2>1. KeyInv' /\ ServersTypeOK' /\ keys' = keys /\ keys \in Nat
    BY KeysUntouched, KeyTypeParts, KeyTableAssumption
    DEF Kinit, IInv, ServersTypeOK, keyVars, KeyInv, KeyNumbers
  <2>2. tpc = "kinit" /\ Continue("krb5_server") /\ ticket' = 0
    BY <1>2 DEF Kinit
  <2>3. ScriptTypeOK'
    BY <2>1, <2>2 DEF Kinit, Continue, IInv, ScriptInv, ScriptTypeOK
  <2>4. FailuresCounted' /\ ServedSoFar' /\ TicketGood'
    BY <2>2
    DEF Kinit, Continue, FailuresCounted, ServedSoFar, TicketGood, IInv, ScriptInv
  <2>5. NoOrphans'
    BY <2>2 DEF Kinit, Continue, IInv, NoOrphans, Waiting
  <2> QED
    BY <2>1, <2>3, <2>4, <2>5 DEF IInv, ScriptInv
<1> QED
  BY <1>1, <1>2

\* A server is started for the client that the script runs next.
LEMMA RunServerStep ==
    ASSUME IInv, NEW kind \in Kinds, NEW at, NEW then, RunServer(kind, at, then),
           \/ kind = "krb5" /\ at = "krb5_server" /\ then = "krb5_client"
           \/ kind = "gss" /\ at = "gss_server" /\ then = "gss_client"
    PROVE  IInv'
<1>1. KeyInv' /\ keys' = keys /\ kdcTab' = kdcTab /\ srvTab' = srvTab
  BY KeysUntouched DEF RunServer, IInv, keyVars
<1>2. ScriptTypeOK'
  BY <1>1 DEF RunServer, Continue, IInv, ScriptInv, ScriptTypeOK
<1>3. FailuresCounted' /\ ServedSoFar' /\ TicketGood'
  BY <1>1
  DEF RunServer, Continue, FailuresCounted, ServedSoFar, TicketGood, IInv, ScriptInv
<1>4. ServersTypeOK' /\ NoOrphans'
  <2>1. CASE UNCHANGED servers
    BY <2>1 DEF RunServer, Continue, IInv, NoOrphans, Waiting, ServersTypeOK, Kinds
  <2>2. CASE StartServer(kind)
    <3>1. PICK i \in Slots :
              /\ servers'[i] = Server(kind, "starting")
              /\ \A j \in Slots \ {i} : servers'[j] = servers[j]
      BY <2>2, StartChanges DEF IInv
    <3>2. tpc = at /\ tpc' = then /\ failures' = failures
      BY DEF RunServer, Continue
    <3>3. ASSUME failures = 0
          PROVE  \A j \in Slots : \A k \in Kinds : ~Waiting(j, k) /\ servers[j].stage # "busy"
      BY <3>2, <3>3 DEF IInv, NoOrphans, Kinds
    <3>4. ASSUME failures = 0, NEW j \in Slots
          PROVE  /\ servers'[j].stage # "busy"
                 /\ \A k \in Kinds : Waiting(j, k)' => j = i /\ k = kind
      <4>1. CASE j = i
        BY <3>1, <4>1 DEF Waiting, Server
      <4>2. CASE j # i
        BY <3>1, <3>3, <3>4, <4>2 DEF Waiting
      <4> QED
        BY <4>1, <4>2
    <3>5. NoOrphans'
      BY <3>2, <3>4 DEF NoOrphans, Kinds
    <3> QED
      BY <2>2, <3>5, StartChanges DEF IInv
  <2> QED
    BY <2>1, <2>2 DEF RunServer
<1> QED
  BY <1>1, <1>2, <1>3, <1>4 DEF IInv, ScriptInv

\* A client that no server serves.
LEMMA ClientFailsStep ==
    ASSUME IInv, NEW at, at # "idle", NEW then, ClientFails(at, then), ServersTypeOK'
    PROVE  IInv'
BY FailingRound DEF ClientFails

\* A server that is reached keeps its type.
LEMMA ReachTypes ==
    ASSUME IInv, NEW i \in Holders, NEW stage \in ServerStage, Reach(i, stage)
    PROVE  ServersTypeOK'
BY HolderExists, ReachChanges DEF IInv

\* A client that a server of its kind serves.
LEMMA ServedStep ==
    ASSUME IInv, NEW kind \in Kinds, NEW at, NEW then, Served(kind, at, then),
           \/ kind = "krb5" /\ at = "krb5_client" /\ then = "gss_server"
           \/ kind = "gss" /\ at = "gss_client" /\ then = "ssh"
    PROVE  IInv'
<1>1. KeyInv' /\ keys' = keys /\ kdcTab' = kdcTab /\ srvTab' = srvTab
  BY KeysUntouched DEF Served, IInv, keyVars
<1>2. TicketUsed \in 0 .. keys /\ TicketUsed \in kdcTab /\ TicketUsed # 0 /\ TicketUsed \in srvTab
  BY TicketUsedType DEF Served, IInv
<1>3. ScriptTypeOK'
  BY <1>1, <1>2 DEF Served, Continue, IInv, ScriptInv, ScriptTypeOK
<1>4. FailuresCounted' /\ TicketGood'
  BY <1>1, <1>2 DEF Served, Continue, FailuresCounted, TicketGood, IInv, ScriptInv
<1>5. ServedSoFar'
  BY DEF Served, Continue, ServedSoFar, IInv, ScriptInv, ScriptTypeOK, Kinds
<1>6. PICK i \in Holders : servers[i] = Server(kind, "listening") /\ Reach(i, "leaving")
  BY DEF Served
<1>7. ServersTypeOK'
  BY <1>6, ReachTypes DEF ServerStage
<1>8. NoOrphans'
  <2>1. i \in Slots /\ Waiting(i, kind)
    BY <1>6, HolderExists DEF IInv, Waiting
  <2>2. tpc = at /\ tpc' = then /\ failures' = failures
    BY DEF Served, Continue
  <2>3. ASSUME failures = 0
        PROVE  \A j \in Slots : servers'[j].stage # "busy" /\ \A k \in Kinds : ~Waiting(j, k)'
    BY <1>6, <2>1, <2>2, <2>3, NobodyWaitsAfter DEF IInv, NoOrphans, Kinds
  <2> QED
    BY <2>2, <2>3 DEF NoOrphans, Kinds
<1> QED
  BY <1>1, <1>3, <1>4, <1>5, <1>7, <1>8 DEF IInv, ScriptInv

\* The last command of a round, ssh, and the verdict.
LEMMA SshStep ==
    ASSUME IInv, RunSsh
    PROVE  IInv'
<1>1. KeyInv' /\ ServersTypeOK' /\ keys' = keys /\ kdcTab' = kdcTab
  BY KeysUntouched DEF RunSsh, IInv, keyVars, ServersTypeOK
<1>2. TicketUsed \in 0 .. keys /\ (TicketUsed = 0 \/ TicketUsed \in kdcTab)
  BY TicketUsedType DEF IInv
<1>3. ScriptTypeOK'
  BY <1>1, <1>2 DEF RunSsh, IInv, ScriptInv, ScriptTypeOK
<1>4. FailuresCounted' /\ ServedSoFar' /\ TicketGood'
  BY <1>1, <1>2 DEF RunSsh, FailuresCounted, ServedSoFar, TicketGood, IInv, ScriptInv
<1>5. NoOrphans'
  BY DEF RunSsh, IInv, NoOrphans, Waiting
<1> QED
  BY <1>1, <1>3, <1>4, <1>5 DEF IInv, ScriptInv

\* Either client is run against what listens on the port.
LEMMA RunClientStep ==
    ASSUME IInv, NEW kind \in Kinds, NEW at, NEW then, RunClient(kind, at, then),
           \/ kind = "krb5" /\ at = "krb5_client" /\ then = "gss_server"
           \/ kind = "gss" /\ at = "gss_client" /\ then = "ssh"
    PROVE  IInv'
<1>1. CASE Refused(at, then)
  <2>1. ServersTypeOK'
    BY <1>1 DEF Refused, IInv, ServersTypeOK
  <2> QED
    BY <1>1, <2>1, ClientFailsStep DEF Refused
<1>2. CASE Served(kind, at, then)
  BY <1>2, ServedStep
<1>3. CASE BehindBusyServer(at)
  <2>1. PICK i \in Holders : servers[i].stage = "busy"
    BY <1>3 DEF BehindBusyServer
  <2>2. failures # 0
    BY <2>1, HolderExists DEF IInv, NoOrphans
  <2>3. ServersTypeOK' /\ Hang(at) /\ ticket' = ticket
    BY <1>3 DEF BehindBusyServer, IInv, ServersTypeOK
  <2> QED
    BY <2>2, <2>3, HangingRound
<1>4. CASE FailedSession(at, then)
  <2>1. CASE UNCHANGED servers
    BY <1>4, <2>1, ClientFailsStep DEF FailedSession, IInv, ServersTypeOK
  <2>2. CASE \E i \in Holders : Reach(i, "leaving") \/ Reach(i, "busy")
    BY <1>4, <2>2, ReachTypes, ClientFailsStep DEF FailedSession, ServerStage
  <2> QED
    BY <1>4, <2>1, <2>2 DEF FailedSession
<1> QED
  BY <1>1, <1>2, <1>3, <1>4 DEF RunClient

\* The krb5 client, also if the key is wrong or the server the GSS one.
LEMMA Krb5ClientStep ==
    ASSUME IInv, RunKrb5Client
    PROVE  IInv'
<1>1. CASE RunClient("krb5", "krb5_client", "gss_server")
  BY <1>1, RunClientStep DEF Kinds
<1>2. CASE WrongKey
  <2>1. \E i \in Holders : Reach(i, "leaving")
    BY <1>2 DEF WrongKey
  <2> QED
    BY <1>2, <2>1, ReachTypes, ClientFailsStep DEF WrongKey, ServerStage
<1>3. CASE Krb5ClientAtGssServer
  <2>1. \E i \in Holders : Reach(i, "leaving")
    BY <1>3 DEF Krb5ClientAtGssServer
  <2> QED
    BY <1>3, <2>1, ReachTypes, ClientFailsStep DEF Krb5ClientAtGssServer, ServerStage
<1> QED
  BY <1>1, <1>2, <1>3 DEF RunKrb5Client

\* A GSS client whose server has failed turns for ever: no server is left waiting.
LEMMA SpinningRound ==
    ASSUME IInv, GssClientSpins
    PROVE  IInv'
<1>1. KeyInv' /\ keys' = keys /\ kdcTab' = kdcTab
  BY KeysUntouched DEF GssClientSpins, IInv, keyVars
<1>2. TicketUsed \in 0 .. keys /\ (TicketUsed = 0 \/ TicketUsed \in kdcTab)
  BY TicketUsedType DEF IInv
<1>3. ScriptTypeOK'
  BY <1>1, <1>2 DEF GssClientSpins, IInv, ScriptInv, ScriptTypeOK
<1>4. FailuresCounted' /\ ServedSoFar' /\ TicketGood'
  BY <1>1, <1>2
  DEF GssClientSpins, FailuresCounted, ServedSoFar, TicketGood, IInv, ScriptInv
<1>5. PICK i \in Holders : servers[i].stage = "listening" /\ Reach(i, "leaving")
  BY DEF GssClientSpins
<1>6. ServersTypeOK'
  BY <1>5, ReachTypes DEF ServerStage
<1>7. NoOrphans'
  <2>1. i \in Slots /\ servers[i] \in [kind : Kinds, stage : ServerStage]
    BY HolderExists DEF IInv, ServersTypeOK
  <2>2. servers[i] = Server(servers[i].kind, "listening") /\ servers[i].kind \in Kinds
    BY <1>5, <2>1 DEF Server
  <2>3. tpc = "gss_client" /\ tpc' = "spinning" /\ failures' = failures
    BY DEF GssClientSpins
  <2>4. ASSUME failures = 0
        PROVE  \A j \in Slots : servers'[j].stage # "busy" /\ \A k \in Kinds : ~Waiting(j, k)'
    <3>1. \A j \in Slots : ~Waiting(j, "krb5")
      BY <2>3, <2>4 DEF IInv, NoOrphans
    <3>2. Waiting(i, servers[i].kind)
      BY <2>2 DEF Waiting
    <3>3. servers[i].kind = "gss"
      BY <2>1, <2>2, <3>1, <3>2 DEF Kinds
    <3>4. Waiting(i, "gss") /\ "gss" \in Kinds
      BY <3>2, <3>3 DEF Kinds
    <3>5. \A j \in Slots : servers'[j].stage # "busy" /\ \A k \in Kinds :
              Waiting(j, k)' => k # "gss" /\ Waiting(j, k)
      BY <1>5, <2>1, <2>4, <3>4, NobodyWaitsAfter DEF IInv
    <3> QED
      BY <3>1, <3>5 DEF Kinds
  <2> QED
    BY <2>3, <2>4 DEF NoOrphans, Kinds
<1> QED
  BY <1>1, <1>3, <1>4, <1>6, <1>7 DEF IInv, ScriptInv

\* A GSS client meets a waiting krb5 server only if a round has left it behind.
LEMMA GssClientStep ==
    ASSUME IInv, RunGssClient
    PROVE  IInv'
<1>1. CASE RunClient("gss", "gss_client", "ssh")
  BY <1>1, RunClientStep DEF Kinds
<1>2. CASE GssClientAtKrb5Server
  <2>1. PICK i \in Holders : servers[i] = Server("krb5", "listening") /\ Reach(i, "busy")
    BY <1>2 DEF GssClientAtKrb5Server
  <2>2. tpc = "gss_client" /\ Hang("gss_client") /\ ticket' = TicketUsed
    BY <1>2 DEF GssClientAtKrb5Server, Hang
  <2>3. i \in Slots /\ Waiting(i, "krb5")
    BY <2>1, HolderExists DEF IInv, Waiting
  <2>4. failures # 0
    BY <2>2, <2>3 DEF IInv, NoOrphans
  <2>5. ServersTypeOK'
    BY <2>1, ReachTypes DEF ServerStage
  <2> QED
    BY <2>2, <2>4, <2>5, HangingRound
<1>3. CASE GssClientSpins
  BY <1>3, SpinningRound
<1> QED
  BY <1>1, <1>2, <1>3 DEF RunGssClient

\* Every command of test.sh keeps the invariant.
LEMMA ScriptStepPreserves ==
    ASSUME IInv, ScriptStep \/ DockerAborts
    PROVE  IInv'
<1>1. CASE Kinit
  BY <1>1, KinitStep
<1>2. CASE RunKrb5Server
  BY <1>2, RunServerStep DEF RunKrb5Server, Kinds
<1>3. CASE RunKrb5Client
  BY <1>3, Krb5ClientStep
<1>4. CASE RunGssServer
  BY <1>4, RunServerStep DEF RunGssServer, Kinds
<1>5. CASE RunGssClient
  BY <1>5, GssClientStep
<1>6. CASE RunSsh
  BY <1>6, SshStep
<1>7. CASE DockerAborts
  <2>1. ServersTypeOK' /\ tpc # "idle" /\ Abort(tpc) /\ UNCHANGED <<keyVars, ticket, served>>
    BY <1>7 DEF DockerAborts, IInv, ServersTypeOK
  <2> QED
    BY <2>1, FailingRound
<1> QED
  BY <1>1, <1>2, <1>3, <1>4, <1>5, <1>6, <1>7 DEF ScriptStep

-----------------------------------------------------------------------------
\* What the user does, and what goes on beside the script.
LEMMA InterruptPreserves ==
    ASSUME IInv, Interrupt
    PROVE  IInv'
<1>1. KeyInv' /\ ServersTypeOK' /\ keys' = keys /\ kdcTab' = kdcTab
  BY KeysUntouched DEF Interrupt, IInv, keyVars, ServersTypeOK
<1>2. rounds \in Nat /\ failures \in Nat /\ failures < rounds
  BY ScriptAssumption DEF Interrupt, IInv, ScriptInv, ScriptTypeOK, FailuresCounted
<1>3. ScriptTypeOK'
  BY <1>1, <1>2 DEF Interrupt, IInv, ScriptInv, ScriptTypeOK
<1>4. FailuresCounted' /\ ServedSoFar' /\ TicketGood'
  BY <1>1 DEF Interrupt, FailuresCounted, ServedSoFar, TicketGood, IInv, ScriptInv
<1>5. NoOrphans'
  BY <1>2 DEF Interrupt, NoOrphans
<1> QED
  BY <1>1, <1>3, <1>4, <1>5 DEF IInv, ScriptInv

\* make restart keeps the invariant: it ends servers and clients.
LEMMA RestartPreserves ==
    ASSUME IInv, Restart
    PROVE  IInv'
<1>1. KeyInv' /\ keys' = keys /\ keys \in Nat
  <2>1. KeyInv'
    BY RestartKeepsKeys DEF Restart, IInv
  <2>2. keys' = keys
    BY DEF Restart, KeyRestart
  <2>3. keys \in Nat
    BY KeyTypeParts, KeyTableAssumption DEF IInv, KeyInv, KeyNumbers
  <2> QED
    BY <2>1, <2>2, <2>3
<1>2. ServersTypeOK' /\ \A i \in Slots : servers'[i] = NoServer
  BY DEF Restart, ServersTypeOK
<1>3. rounds \in Nat /\ restarts \in 0 .. MaxRestarts /\ MaxRestarts \in Nat
  BY ScriptAssumption DEF IInv, ScriptInv, ScriptTypeOK
<1>4. ScriptTypeOK'
  <2>1. tpc' = "idle" /\ rounds' \in 0 .. MaxRounds /\ restarts' \in 0 .. MaxRestarts
    BY <1>3 DEF Restart, IInv, ScriptInv, ScriptTypeOK
  <2>2. ticket' \in 0 .. keys' /\ failures' \in 0 .. rounds'
    BY <1>1, <1>3 DEF Restart
  <2>3. served' \subseteq Kinds /\ verdict' \in {"none", "succeed", "failed", "hung"}
    BY DEF Restart, IInv, ScriptInv, ScriptTypeOK
  <2> QED
    BY <2>1, <2>2, <2>3 DEF ScriptTypeOK
<1>5. FailuresCounted' /\ TicketGood'
  BY DEF Restart, FailuresCounted, TicketGood
<1>6. ServedSoFar'
  BY DEF Restart, IInv, ScriptInv, ServedSoFar
<1>7. NoOrphans'
  BY <1>2 DEF Restart, NoOrphans, Waiting, NoServer, Server
<1> QED
  BY <1>1, <1>2, <1>4, <1>5, <1>6, <1>7 DEF IInv, ScriptInv

\* make init changes nothing of the script, and keeps the key of its ticket.
LEMMA MakeInitPreserves ==
    ASSUME IInv, MakeInit \/ MakeInitGoesOn
    PROVE  IInv'
<1>1. /\ InitStart \/ InitInterrupted \/ InitStep
      /\ UNCHANGED <<servers, scriptVars>>
  BY DEF MakeInit, MakeInitGoesOn
<1>2. /\ KeyInv' /\ kdcTab \subseteq kdcTab' /\ keys <= keys'
      /\ srvTab \cap kdcTab \subseteq srvTab'
  BY <1>1, InitStepKeepsKeys, InitStepLosesNoKey DEF IInv
<1>3. keys \in Nat /\ keys' \in Nat
  BY <1>2, KeyTypeParts, KeyTableAssumption DEF IInv, KeyInv, KeyNumbers
<1>4. ServersTypeOK' /\ NoOrphans'
  BY <1>1 DEF scriptVars, IInv, ServersTypeOK, NoOrphans, Waiting
<1>5. ScriptTypeOK'
  BY <1>1, <1>2, <1>3 DEF scriptVars, IInv, ScriptInv, ScriptTypeOK
<1>6. FailuresCounted' /\ ServedSoFar'
  BY <1>1 DEF scriptVars, IInv, ScriptInv, FailuresCounted, ServedSoFar
<1>7. TicketGood'
  BY <1>1, <1>2 DEF scriptVars, IInv, ScriptInv, TicketGood
<1> QED
  BY <1>2, <1>4, <1>5, <1>6, <1>7 DEF IInv, ScriptInv

\* A server that comes up, fails to, or ends keeps the invariant.
LEMMA ServerStepPreserves ==
    ASSUME IInv, ServerStep \/ ServerFails
    PROVE  IInv'
<1>1. PICK i \in Slots : Settle(i, srvTab) \/ Leave(i) \/ FailToStart(i)
  BY DEF ServerStep, ServerFails
<1>2. UNCHANGED keyVars /\ UNCHANGED scriptVars
  BY DEF ServerStep, ServerFails
<1>3. KeyInv' /\ keys' = keys /\ kdcTab' = kdcTab /\ srvTab' = srvTab
  BY <1>2, KeysUntouched DEF IInv, keyVars
<1>4. ScriptInv'
  BY <1>2, <1>3 DEF scriptVars, IInv, ScriptInv, ScriptTypeOK, FailuresCounted,
                    ServedSoFar, TicketGood
<1>5. /\ ServersTypeOK'
      /\ \/ servers'[i] = NoServer
         \/ /\ servers[i].stage = "starting"
            /\ servers'[i] = Server(servers[i].kind, "listening")
      /\ \A j \in Slots \ {i} : servers'[j] = servers[j]
  BY <1>1, ServerStepChanges DEF IInv
<1>6. ASSUME NEW j \in Slots, servers[j].stage # "busy"
      PROVE  servers'[j].stage # "busy" /\ \A k \in Kinds : Waiting(j, k)' => Waiting(j, k)
  <2>1. CASE j # i
    BY <1>5, <1>6, <2>1 DEF Waiting
  <2>2. CASE j = i /\ servers'[i] = NoServer
    BY <2>2 DEF Waiting, NoServer, Server
  <2>3. CASE /\ j = i /\ servers[i].stage = "starting"
             /\ servers'[i] = Server(servers[i].kind, "listening")
    <3>1. servers[i] = Server(servers[i].kind, "starting")
      BY <2>3 DEF IInv, ServersTypeOK, Server, NoServer
    <3> QED
      BY <2>3, <3>1 DEF Waiting, Server
  <2> QED
    BY <1>5, <2>1, <2>2, <2>3
<1>7. NoOrphans'
  BY <1>2, <1>6 DEF IInv, NoOrphans, scriptVars, Kinds
<1> QED
  BY <1>3, <1>4, <1>5, <1>7 DEF IInv

\* A stutter keeps the invariant.
LEMMA StutterPreserves ==
    ASSUME IInv, UNCHANGED vars
    PROVE  IInv'
<1>1. KeyInv' /\ ServersTypeOK'
  BY KeysUntouched DEF vars, IInv, ServersTypeOK
<1>2. ScriptInv'
  BY DEF vars, keyVars, scriptVars, IInv, ScriptInv, ScriptTypeOK, FailuresCounted,
         ServedSoFar, TicketGood
<1>3. NoOrphans'
  BY DEF vars, scriptVars, IInv, NoOrphans, Waiting
<1> QED
  BY <1>1, <1>2, <1>3 DEF IInv

-----------------------------------------------------------------------------
\* The invariant holds for any number of inits, rounds, restarts and servers.
THEOREM ScriptInvariant == Spec => []IInv
<1>1. Init => IInv
  <2> SUFFICES ASSUME Init PROVE IInv
    OBVIOUS
  <2>1. KeyInv
    <3>1. KeyNumbers /\ KeyFlags
      <4>1. KeyFlags
        BY DEF Init, KeyInit, KeyFlags
      <4>2. /\ inits = 0 /\ keys = 0 /\ key = 0 /\ MaxInits \in Nat
            /\ kdcTab = {} /\ hostTab = {} /\ srvTab = {}
        BY KeyTableAssumption DEF Init, KeyInit
      <4>3. KeyNumbers
        BY <4>2 DEF KeyNumbers
      <4> QED
        BY <4>1, <4>3
    <3>2. KeyTypeOK
      BY <3>1, KeyTypeParts
    <3>3. KeysCounted /\ KeyInTab
      <4>1. keys = 0 /\ inits = 0 /\ key = 0 /\ ipc = "idle"
        BY DEF Init, KeyInit
      <4> QED
        BY <4>1 DEF KeysCounted, KeyInTab
    <3>4. KeyOnItsWay /\ HostKeepsKey /\ HostKeepsServersKeys
      <4>1. ipc = "idle" /\ hostTab = {} /\ ready = FALSE
        BY DEF Init, KeyInit
      <4> QED
        BY <4>1 DEF KeyOnItsWay, HostKeepsKey, HostKeepsServersKeys
    <3> QED
      BY <3>2, <3>3, <3>4 DEF KeyInv
  <2>2. ServersTypeOK /\ NoOrphans
    BY DEF Init, ServersInit, ServersTypeOK, NoOrphans, Waiting, NoServer, Server
  <2>3. ScriptInv
    BY ScriptAssumption DEF Init, KeyInit, ScriptInv, ScriptTypeOK, FailuresCounted,
       ServedSoFar, TicketGood
  <2> QED
    BY <2>1, <2>2, <2>3 DEF IInv
<1>2. IInv /\ [Next]_vars => IInv'
  <2> SUFFICES ASSUME IInv, [Next]_vars PROVE IInv'
    OBVIOUS
  <2>1. CASE TestStart
    BY <2>1, RoundStarts
  <2>2. CASE ScriptStep \/ DockerAborts
    BY <2>2, ScriptStepPreserves
  <2>3. CASE Interrupt
    BY <2>3, InterruptPreserves
  <2>4. CASE Restart
    BY <2>4, RestartPreserves
  <2>5. CASE MakeInit \/ MakeInitGoesOn
    BY <2>5, MakeInitPreserves
  <2>6. CASE ServerStep \/ ServerFails
    BY <2>6, ServerStepPreserves
  <2>7. CASE Quiet \/ UNCHANGED vars
    BY <2>7, StutterPreserves DEF Quiet
  <2> QED
    BY <2>1, <2>2, <2>3, <2>4, <2>5, <2>6, <2>7 DEF Next
<1> QED
  BY <1>1, <1>2, PTL DEF Spec

\* Every variable has its type.
THEOREM ScriptTypes == Spec => []TypeOK
<1>1. IInv => TypeOK
  BY DEF IInv, KeyInv, ScriptInv, ScriptTypeOK, TypeOK
<1> QED
  BY <1>1, ScriptInvariant, PTL

\* "TESTS SUCCEED" is said only after both clients were served in this round,
\* whatever servers earlier rounds, failures and restarts have left.
THEOREM SuccessIsHonest == Spec => []VerdictHonest
<1>1. IInv => VerdictHonest
  BY DEF IInv, ScriptInv, ServedSoFar, VerdictHonest
<1> QED
  BY <1>1, ScriptInvariant, PTL

\* A make init in which no command failed leaves the current key in the server's
\* keytab, after any history of interrupted and failing ones.
THEOREM ReadyMeansCurrentKey == Spec => []InitMeansCurrent
<1>1. IInv => InitMeansCurrent
  BY DEF IInv, KeyInv, HostKeepsKey, Current, InitMeansCurrent
<1> QED
  BY <1>1, ScriptInvariant, PTL

\* The script waits for ever only in containers in which a round has failed before,
\* whatever calls of the programs fail.  (Its GSS client turns for ever, tpc is
\* "spinning", without that: GssClientSpins.)
THEOREM HangsNeedAnOrphan == Spec => []HangNeedsOrphan
<1>1. IInv => HangNeedsOrphan
  BY ScriptAssumption DEF IInv, ScriptInv, ScriptTypeOK, NoOrphans, HangNeedsOrphan
<1> QED
  BY <1>1, ScriptInvariant, PTL

\* No make init, however it overlaps with a round, fails or is interrupted,
\* takes the key of the round's ticket from the server.
THEOREM TicketStaysGood == Spec => []RoundKeepsKey
<1>1. IInv => RoundKeepsKey
  BY DEF IInv, ScriptInv, TicketGood, TicketUsed, RoundKeepsKey
<1> QED
  BY <1>1, ScriptInvariant, PTL
=============================================================================
