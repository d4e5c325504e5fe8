----------------------------- MODULE TokenFiles -----------------------------
(***************************************************************************)
(* The files of context tokens: record_token writes them into the working  *)
(* directories of the client's and the server's container, one session     *)
(* after the other, and copy-tokens.sh copies them to the host, a file at  *)
(* a time.  The name of a file is <side>_token_<send or recv>_<i>; i       *)
(* determines the rest, since the two sides alternate.  A container has    *)
(* the files up to some number; the host may lack any of them.  Which      *)
(* token a side records when is GssSession's RecordsAgree: file i of       *)
(* either side is context token i.                                         *)
(***************************************************************************)
EXTENDS Integers, Sequences

Mechs == {"kerberos", "spnego"}
Token == [mech : Mechs, size : Nat \ {0}]

CONSTANTS
    MaxSessions,  \* sessions with -r
    MaxLegs,      \* context tokens recorded per session and side
    Tokens,       \* Tokens[n]: what the tokens of session n may be
    Faults,       \* what may go wrong: "open", a token file cannot be opened;
                  \* "disk", it is written in part; "docker", a command of
                  \* copy-tokens.sh fails; "interrupt", the script is stopped
    MaxFaults     \* how often

ASSUME FilesAssumption ==
    /\ {MaxSessions, MaxLegs} \subseteq Nat \ {0}
    /\ Tokens \in [1 .. MaxSessions -> SUBSET Token]
    /\ Faults \subseteq {"open", "disk", "docker", "interrupt"} /\ MaxFaults \in Nat

VARIABLES
    session,   \* the session: its number, and what its tokens are
    active,    \* the programs that run and record
    recorded,  \* recorded[s]: the files side s has written in this session
    writing,   \* the sides whose last file is open, or was when they ended
    dir,       \* dir[s]: the files in the container of side s
    host,      \* host[s][i]: file i of side s on the host, or NoFile
    copying,   \* the side whose files copy-tokens.sh copies, or "no"
    todo,      \* the numbers on its list that it has not come to
    clean,     \* the last copying: no command failed, no file changed since
               \* it began
    faults     \* what has gone wrong so far

copyVars == <<copying, todo>>
fileVars == <<session, active, recorded, writing, dir, host, copyVars, clean, faults>>

Sides == {"client", "server"}
Other(s) == IF s = "client" THEN "server" ELSE "client"
Numbers == 1 .. MaxLegs

File == [session : Nat, token : Token, leg : Nat, stored : Nat]
NoToken == [mech |-> "kerberos", size |-> 1]
NoFile == [session |-> 0, token |-> NoToken, leg |-> 0, stored |-> 0]

FilesInit ==
    /\ session = [number |-> 0, token |-> NoToken]
    /\ active = {} /\ recorded = [s \in Sides |-> 0] /\ writing = {}
    /\ dir = [s \in Sides |-> <<>>] /\ host = [s \in Sides |-> [i \in Numbers |-> NoFile]]
    /\ copying = "no" /\ todo = {} /\ clean = FALSE /\ faults = 0

Fault(kind) == kind \in Faults /\ faults < MaxFaults /\ faults' = faults + 1

\* A server and a client are started with -r.
StartSession ==
    /\ active = {} /\ session.number < MaxSessions
    /\ session' \in [number : {session.number + 1}, token : Tokens[session.number + 1]]
    /\ active' = Sides /\ recorded' = [s \in Sides |-> 0] /\ writing' = {}
    /\ UNCHANGED <<dir, host, copyVars, clean, faults>>

-----------------------------------------------------------------------------
\* Odd tokens are the client's, even ones the server's.
Sends(s, leg) == (s = "client") = (leg % 2 = 1)

\* A token is recorded before it is sent, and when it has arrived.
Due(s) ==
    LET leg == recorded[s] + 1
    IN  /\ s \notin writing /\ leg <= MaxLegs
        /\ Sends(s, leg) \/ (recorded[Other(s)] >= leg /\ Other(s) \notin writing)

\* Faulty variant of Opened: an existing file is not truncated and replaced.
OpenedUnlessPresent(files, i, file) ==
    IF i <= Len(files) THEN files ELSE Append(files, file)

\* fopen with "wb" truncates file i, which is the next one of its side.
Opened(files, i, file) ==
    IF i <= Len(files) THEN [files EXCEPT ![i] = file] ELSE Append(files, file)

\* record_token up to fopen, whose result it does not check: without a file
\* the process crashes.
OpenFile(s) ==
    /\ s \in active /\ Due(s)
    /\ LET leg == recorded[s] + 1
           empty == [session |-> session.number, token |-> session.token, leg |-> leg,
                     stored |-> 0]
       IN  \/ /\ recorded' = [recorded EXCEPT ![s] = leg] /\ writing' = writing \cup {s}
              /\ dir' = [dir EXCEPT ![s] = Opened(@, leg, empty)]
              /\ clean' = FALSE /\ UNCHANGED <<active, faults>>
           \/ /\ Fault("open") /\ active' = active \ {s}
              /\ UNCHANGED <<recorded, writing, dir, clean>>
    /\ UNCHANGED <<session, host, copyVars>>

\* fwrite and fclose.  Its callers ignore what record_token says of a write
\* that is short, and go on.
WriteFile(s) ==
    /\ s \in active \cap writing
    /\ \E stored \in 0 .. session.token.size :
          /\ IF stored = session.token.size THEN UNCHANGED faults ELSE Fault("disk")
          /\ dir' = [dir EXCEPT ![s][recorded[s]].stored = stored]
    /\ writing' = writing \ {s} /\ clean' = FALSE
    /\ UNCHANGED <<session, active, recorded, host, copyVars>>

\* A program ends, after any number of tokens, or in the midst of record_token.
EndProgram(s) ==
    /\ s \in active /\ active' = active \ {s}
    /\ UNCHANGED <<session, recorded, writing, dir, host, copyVars, clean, faults>>

\* make restart: new containers, without the files and the programs.
RestartContainers ==
    /\ session.number > 0
    /\ active' = {} /\ dir' = [s \in Sides |-> <<>>] /\ clean' = FALSE
    /\ UNCHANGED <<session, recorded, writing, host, copyVars, faults>>

-----------------------------------------------------------------------------
\* Faulty variant of Listed: grep asks for the tokens that were sent.
ListedSent(s) == {i \in 1 .. Len(dir[s]) : Sends(s, i)}

\* What ls and grep find in a container, of whichever session.
Listed(s) == 1 .. Len(dir[s])

\* The list of a side is made, or docker exec fails and the list is empty.
MakeList(s) ==
    /\ copying' = s
    /\ \/ todo' = Listed(s) /\ clean' = (IF copying = "no" THEN TRUE ELSE clean)
          /\ UNCHANGED faults
       \/ Fault("docker") /\ todo' = {} /\ clean' = FALSE
    /\ UNCHANGED <<session, active, recorded, writing, dir, host>>

\* copy-tokens.sh is started, at any time; the server's tokens come first.
CopyStart == copying = "no" /\ MakeList("server")
CopyNextSide == copying = "server" /\ todo = {} /\ MakeList("client")

\* A docker cp that ends early leaves the host as it was, or with a part.
CutShort(i) ==
    \/ UNCHANGED host
    \/ /\ i <= Len(dir[copying])
       /\ \E stored \in 0 .. dir[copying][i].stored - 1 :
             host' = [host EXCEPT ![copying][i] = [dir[copying][i] EXCEPT !.stored = stored]]

\* One round of the loop: docker cp over what is in the current directory.  The
\* script runs without set -e.  The order of names is left open.
CopyFile(i) ==
    /\ copying # "no" /\ i \in todo /\ todo' = todo \ {i}
    /\ \/ /\ i <= Len(dir[copying])
          /\ host' = [host EXCEPT ![copying][i] = dir[copying][i]]
          /\ UNCHANGED <<clean, faults>>
       \/ /\ i > Len(dir[copying]) /\ clean' = FALSE  \* the container is a new one
          /\ UNCHANGED <<host, faults>>
       \/ Fault("docker") /\ clean' = FALSE /\ CutShort(i)
    /\ UNCHANGED <<session, active, recorded, writing, dir, copying>>

CopyEnd ==
    /\ copying = "client" /\ todo = {} /\ copying' = "no"
    /\ UNCHANGED <<session, active, recorded, writing, dir, host, todo, clean, faults>>

\* The script is stopped, and the docker cp that runs with it.
CopyInterrupted ==
    /\ copying # "no" /\ Fault("interrupt")
    /\ UNCHANGED host \/ \E i \in todo : CutShort(i)
    /\ copying' = "no" /\ todo' = {} /\ clean' = FALSE
    /\ UNCHANGED <<session, active, recorded, writing, dir>>

CopyTokens ==
    \/ CopyStart \/ CopyNextSide \/ CopyEnd \/ CopyInterrupted
    \/ \E i \in Numbers : CopyFile(i)

FilesStep ==
    \/ StartSession \/ RestartContainers \/ CopyTokens
    \/ \E s \in Sides : OpenFile(s) \/ WriteFile(s) \/ EndProgram(s)

FilesTypeOK ==
    /\ session \in [number : 0 .. MaxSessions, token : Token]
    /\ active \subseteq Sides /\ recorded \in [Sides -> 0 .. MaxLegs] /\ writing \subseteq Sides
    /\ dir \in [Sides -> Seq(File)] /\ host \in [Sides -> [Numbers -> File]]
    /\ copying \in Sides \cup {"no"} /\ todo \subseteq Numbers /\ clean \in BOOLEAN
    /\ faults \in 0 .. MaxFaults
=============================================================================
