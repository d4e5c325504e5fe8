------------------------------ MODULE KeyTable ------------------------------
(***************************************************************************)
(* `make init` and the key of the service: start-containers, init-kdc.sh   *)
(* with its copies of the keytab, copy-binaries.sh.  Every ktadd makes a   *)
(* new key; keys are numbered in the order they are made.  init-kdc.sh     *)
(* runs without set -e, so that only the check at its top and the exit     *)
(* code of its last command, rm, stop make.                                *)
(***************************************************************************)
EXTENDS Naturals

CONSTANTS
    MaxInits,  \* times the user runs make init
    Failures   \* "docker": a docker command may fail; "interrupt": make init
               \* may be stopped between two commands; "session": a library call
               \* of the programs that the tests run may fail

ASSUME KeyTableAssumption ==
    MaxInits \in Nat \ {0} /\ Failures \subseteq {"docker", "interrupt", "session"}

VARIABLES
    up,        \* the containers run
    ipc,       \* the next command of make init
    inits,     \* runs of make init
    keys,      \* keys made so far
    key,       \* the service's key in the KDC's database, 0 if there is none
    kdcTab,    \* the keys in /etc/krb5.keytab of the KDC's container,
    hostTab,   \* in krb5.keytab on the host, {} if there is no such file,
    srvTab,    \* and in /etc/krb5.keytab of the server's container
    binaries,  \* which of the programs are in their containers
    slip,      \* a command of this make init has failed
    ready      \* make init has ended in order and no key was made since

keyVars == <<up, ipc, inits, keys, key, kdcTab, hostTab, srvTab, binaries, slip, ready>>

KeyInit ==
    /\ up = FALSE /\ ipc = "idle" /\ inits = 0 /\ keys = 0 /\ key = 0
    /\ kdcTab = {} /\ hostTab = {} /\ srvTab = {} /\ binaries = {}
    /\ slip = FALSE /\ ready = FALSE

DockerFails == "docker" \in Failures

\* docker-compose up -d; init-kdc.sh goes on if the containers are up.
InitStart ==
    /\ ipc = "idle" /\ inits < MaxInits
    /\ inits' = inits + 1 /\ slip' = FALSE
    /\ \/ up' = TRUE /\ ipc' = "kadmin"
       \/ DockerFails /\ ~up /\ UNCHANGED <<up, ipc>>
    /\ UNCHANGED <<keys, key, kdcTab, hostTab, srvTab, binaries, ready>>

\* A docker command fails and the script goes on.
Slips(then) ==
    /\ DockerFails
    /\ slip' = TRUE /\ ipc' = then
    /\ UNCHANGED <<up, inits, keys, key, kdcTab, hostTab, srvTab, binaries, ready>>

\* Faulty variant of InitKadmin: the keytab is made anew.
InitKadminNewTab ==
    /\ ipc = "kadmin"
    /\ keys' = keys + 1 /\ key' = keys + 1 /\ kdcTab' = {keys + 1}
    /\ ipc' = "cp_out" /\ ready' = FALSE
    /\ UNCHANGED <<up, inits, hostTab, srvTab, binaries, slip>>

\* add_principal, which changes nothing for a principal that exists, and ktadd.
InitKadmin ==
    /\ ipc = "kadmin"
    /\ \/ /\ keys' = keys + 1 /\ key' = keys + 1
          /\ kdcTab' = kdcTab \cup {keys + 1}
          /\ ipc' = "cp_out" /\ ready' = FALSE
          /\ UNCHANGED <<up, inits, hostTab, srvTab, binaries, slip>>
       \/ Slips("cp_out")

\* Faulty variant of InitCopyOut: a krb5.keytab on the host is not replaced.
InitCopyOutOnce ==
    /\ ipc = "cp_out"
    /\ hostTab' = (IF hostTab = {} THEN kdcTab ELSE hostTab) /\ ipc' = "cp_in"
    /\ UNCHANGED <<up, inits, keys, key, kdcTab, srvTab, binaries, slip, ready>>

\* docker cp to the host; without a keytab there is nothing to copy.
InitCopyOut ==
    /\ ipc = "cp_out"
    /\ \/ /\ kdcTab # {}
          /\ hostTab' = kdcTab /\ ipc' = "cp_in"
          /\ UNCHANGED <<up, inits, keys, key, kdcTab, srvTab, binaries, slip, ready>>
       \/ Slips("cp_in")

\* docker cp to the server, of whatever krb5.keytab the host has.
InitCopyIn ==
    /\ ipc = "cp_in"
    /\ \/ /\ hostTab # {}
          /\ srvTab' = hostTab /\ ipc' = "rm"
          /\ UNCHANGED <<up, inits, keys, key, kdcTab, hostTab, binaries, slip, ready>>
       \/ Slips("rm")

\* rm; without the file the script fails, and make stops.
InitRemove ==
    /\ ipc = "rm"
    /\ hostTab' = {}
    /\ ipc' = IF hostTab = {} THEN "idle" ELSE "server_bin"
    /\ UNCHANGED <<up, inits, keys, key, kdcTab, srvTab, binaries, slip, ready>>

\* copy-binaries.sh, without set -e as well: the first docker cp may fail unnoticed.
InitServerBinaries ==
    /\ ipc = "server_bin"
    /\ \/ /\ binaries' = binaries \cup {"server"} /\ ipc' = "client_bin"
          /\ UNCHANGED <<up, inits, keys, key, kdcTab, hostTab, srvTab, slip, ready>>
       \/ Slips("client_bin")

\* The second docker cp, and make init ends.
InitClientBinaries ==
    /\ ipc = "client_bin" /\ ipc' = "idle"
    /\ \/ binaries' = binaries \cup {"client"} /\ ready' = ~slip
       \/ DockerFails /\ UNCHANGED <<binaries, ready>>
    /\ UNCHANGED <<up, inits, keys, key, kdcTab, hostTab, srvTab, slip>>

InitInterrupted ==
    /\ "interrupt" \in Failures /\ ipc # "idle" /\ ipc' = "idle"
    /\ UNCHANGED <<up, inits, keys, key, kdcTab, hostTab, srvTab, binaries, slip, ready>>

InitStep ==
    \/ InitKadmin \/ InitCopyOut \/ InitCopyIn \/ InitRemove
    \/ InitServerBinaries \/ InitClientBinaries

\* docker-compose down and up: new containers from the images, with an empty
\* database; files on the host stay.
KeyRestart ==
    /\ up' = TRUE /\ key' = 0 /\ kdcTab' = {} /\ srvTab' = {}
    /\ binaries' = {} /\ ready' = FALSE
    /\ UNCHANGED <<ipc, inits, keys, hostTab, slip>>

KeyTypeOK ==
    /\ ipc \in {"idle", "kadmin", "cp_out", "cp_in", "rm", "server_bin", "client_bin"}
    /\ inits \in 0 .. MaxInits /\ keys \in 0 .. MaxInits /\ key \in 0 .. keys
    /\ \A tab \in {kdcTab, hostTab, srvTab} : tab \subseteq 1 .. keys
    /\ binaries \subseteq {"server", "client"} /\ {up, slip, ready} \subseteq BOOLEAN
=============================================================================
