----------------------- MODULE TokenInspectionProofs -----------------------
(***************************************************************************)
(* What holds of TokenInspection for any number of sessions and tokens,    *)
(* tokens of any size, and any size of the decoder's buffer and lines.     *)
(***************************************************************************)
EXTENDS TokenInspection, TLAPS

\* A file holds no more than its token, and in a container it is of no later
\* session than the last.
NotLonger(file) == file.stored <= file.token.size

FilesGood ==
    \A s \in Sides :
        /\ Len(dir[s]) <= MaxLegs
        /\ \A i \in 1 .. Len(dir[s]) :
              NotLonger(dir[s][i]) /\ dir[s][i].session <= session.number
        /\ \A i \in Numbers : NotLonger(host[s][i])

\* A program that records has its files in its container, the open one as well.
NoHole ==
    /\ \A s \in active : recorded[s] <= Len(dir[s])
    /\ \A s \in writing : recorded[s] # 0

\* The files of this session hold its tokens.
OfSession ==
    \A s \in Sides : \A i \in 1 .. Len(dir[s]) :
        i <= recorded[s] => dir[s][i].token = session.token

\* The files of a side are on the host, but for those still to come; and what
\* that is at each stage of copy-tokens.sh.
Current(s, rest) == \A i \in 1 .. Len(dir[s]) : i \in rest \/ host[s][i] = dir[s][i]

CopiedSoFar ==
    clean =>
        /\ copying = "server" => Current("server", todo)
        /\ copying = "client" => Current("server", {}) /\ Current("client", todo)
        /\ copying = "no" => Current("server", {}) /\ Current("client", {})

FilesInv ==
    /\ FilesTypeOK /\ FilesGood /\ NoHole /\ LastSessionFirst /\ OfSession /\ CopiedSoFar

-----------------------------------------------------------------------------
\* What fopen does to a directory, file by file.
LEMMA OpenedIs ==
    ASSUME NEW files \in Seq(File), NEW n \in 1 .. Len(files) + 1, NEW file \in File
    PROVE  /\ Opened(files, n, file) \in Seq(File)
           /\ Len(Opened(files, n, file)) \in {Len(files), n}
           /\ n <= Len(Opened(files, n, file))
           /\ \A i \in 1 .. Len(Opened(files, n, file)) :
                 /\ i = n => Opened(files, n, file)[i] = file
                 /\ i # n => i \in 1 .. Len(files) /\ Opened(files, n, file)[i] = files[i]
<1>1. CASE n <= Len(files)
  BY <1>1 DEF Opened
<1>2. CASE n = Len(files) + 1
  <2>1. Opened(files, n, file) = Append(files, file)
    BY <1>2 DEF Opened
  <2> QED
    BY <1>2, <2>1
<1> QED
  BY <1>1, <1>2

\* What fwrite does to a directory.
LEMMA WrittenIs ==
    ASSUME NEW files \in Seq(File), NEW n \in 1 .. Len(files), NEW stored \in Nat
    PROVE  /\ [files EXCEPT ![n].stored = stored] \in Seq(File)
           /\ Len([files EXCEPT ![n].stored = stored]) = Len(files)
           /\ [files EXCEPT ![n].stored = stored][n] = [files[n] EXCEPT !.stored = stored]
           /\ \A i \in 1 .. Len(files) :
                 i # n => [files EXCEPT ![n].stored = stored][i] = files[i]
<1>1. \A file \in File : [file EXCEPT !.stored = stored] \in File
  BY DEF File
<1>2. files[n] \in File
  OBVIOUS
<1> QED
  BY <1>1, <1>2

\* The constants are numbers of at least 1.
LEMMA Limits == MaxSessions \in Nat \ {0} /\ MaxLegs \in Nat \ {0} /\ MaxFaults \in Nat
BY FilesAssumption

\* A file and its parts.
LEMMA FileParts ==
    ASSUME NEW file \in File
    PROVE  /\ file.session \in Nat /\ file.leg \in Nat /\ file.stored \in Nat
           /\ file.token \in Token /\ file.token.size \in Nat \ {0}
BY DEF File, Token

\* The types of the variables of the files, one at a time.
LEMMA FilesTypes ==
    ASSUME FilesInv
    PROVE  /\ session.number \in Nat /\ session.token \in Token
           /\ session.token.size \in Nat \ {0} /\ active \subseteq Sides
           /\ \A s \in Sides :
                 /\ recorded[s] \in 0 .. MaxLegs /\ recorded[s] \in Nat
                 /\ dir[s] \in Seq(File) /\ Len(dir[s]) \in Nat /\ Len(dir[s]) <= MaxLegs
                 /\ \A i \in 1 .. Len(dir[s]) : i \in Numbers /\ dir[s][i] \in File
                 /\ \A i \in Numbers : host[s][i] \in File
<1>1. /\ session \in [number : 0 .. MaxSessions, token : Token] /\ active \subseteq Sides
      /\ recorded \in [Sides -> 0 .. MaxLegs] /\ dir \in [Sides -> Seq(File)]
      /\ host \in [Sides -> [Numbers -> File]]
  BY DEF FilesInv, FilesTypeOK
<1>2. session.number \in Nat /\ session.token \in Token /\ session.token.size \in Nat \ {0}
  BY <1>1, Limits DEF Token
<1>3. ASSUME NEW s \in Sides
      PROVE  /\ recorded[s] \in 0 .. MaxLegs /\ recorded[s] \in Nat
             /\ dir[s] \in Seq(File) /\ Len(dir[s]) \in Nat /\ Len(dir[s]) <= MaxLegs
  BY <1>1, Limits DEF FilesInv, FilesGood
<1>4. ASSUME NEW s \in Sides, NEW i \in 1 .. Len(dir[s])
      PROVE  i \in Numbers /\ dir[s][i] \in File
  BY <1>3, Limits DEF Numbers
<1> QED
  BY <1>1, <1>2, <1>3, <1>4

\* A new session makes what is there older.
LEMMA StartSessionKeeps ==
    ASSUME FilesInv, StartSession
    PROVE  FilesInv'
<1>1. /\ recorded' = [s \in Sides |-> 0] /\ active' = Sides /\ writing' = {}
      /\ dir' = dir /\ host' = host /\ copying' = copying /\ todo' = todo
      /\ clean' = clean /\ faults' = faults
  BY DEF StartSession, copyVars
<1>2. /\ session.number \in 0 .. MaxSessions /\ session.number < MaxSessions
      /\ session' \in [number : {session.number + 1}, token : Tokens[session.number + 1]]
  BY DEF StartSession, FilesInv, FilesTypeOK
<1>3. session.number + 1 \in 1 .. MaxSessions
  BY <1>2, Limits
<1>4. Tokens[session.number + 1] \subseteq Token
  BY <1>3, FilesAssumption
<1>5. /\ session'.number = session.number + 1
      /\ session' \in [number : 0 .. MaxSessions, token : Token]
  BY <1>2, <1>3, <1>4
<1>6. FilesTypeOK'
  BY <1>1, <1>5, Limits DEF FilesInv, FilesTypeOK
<1>7. \A s \in Sides : \A i \in 1 .. Len(dir[s]) :
         /\ dir[s][i].session \in Nat /\ dir[s][i].session <= session.number
         /\ dir[s][i].session < session'.number /\ i > 0
  <2> SUFFICES ASSUME NEW s \in Sides, NEW i \in 1 .. Len(dir[s])
               PROVE  /\ dir[s][i].session \in Nat /\ dir[s][i].session <= session.number
                      /\ dir[s][i].session < session'.number /\ i > 0
    OBVIOUS
  <2>1. /\ dir[s][i].session \in Nat /\ dir[s][i].session <= session.number
        /\ session.number \in Nat /\ Len(dir[s]) \in Nat
    BY FilesTypes, FileParts DEF FilesInv, FilesGood
  <2> QED
    BY <1>5, <2>1
<1>8. FilesGood'
  <2>1. \A s \in Sides : \A i \in 1 .. Len(dir[s]) : dir[s][i].session <= session'.number
    BY <1>5, <1>7, FilesTypes
  <2> QED
    BY <1>1, <2>1 DEF FilesInv, FilesGood, NotLonger
<1>9. NoHole'
  BY <1>1, FilesTypes DEF NoHole
<1>10. LastSessionFirst' /\ OfSession'
  <2>1. \A s \in Sides : \A i \in 1 .. Len(dir[s]) : ~(i <= recorded'[s])
    BY <1>1, <1>7, FilesTypes
  <2> QED
    BY <1>1, <1>7, <2>1 DEF LastSessionFirst, OfSession
<1>11. CopiedSoFar'
  BY <1>1 DEF FilesInv, CopiedSoFar, Current
<1> QED
  BY <1>6, <1>8, <1>9, <1>10, <1>11 DEF FilesInv

\* A step that changes nothing but file n of a side, which becomes a file of the
\* current session and is the last that the side has recorded.
LEMMA FileChanged ==
    ASSUME FilesInv, NEW s \in active, NEW n \in 1 .. MaxLegs, NEW file \in File,
           NotLonger(file), file.session = session.number, file.leg = n,
           file.token = session.token,
           NEW files \in Seq(File), n <= Len(files), Len(files) <= MaxLegs,
           \A i \in 1 .. Len(files) :
              /\ i = n => files[i] = file
              /\ i # n => i \in 1 .. Len(dir[s]) /\ files[i] = dir[s][i],
           n = recorded[s] \/ n = recorded[s] + 1,
           dir' = [dir EXCEPT ![s] = files], recorded' = [recorded EXCEPT ![s] = n],
           writing' \subseteq writing \cup {s}, clean' = FALSE, faults' \in 0 .. MaxFaults,
           UNCHANGED <<session, active, host, copying, todo>>
    PROVE  FilesInv'
<1>1. /\ s \in Sides /\ recorded \in [Sides -> 0 .. MaxLegs]
      /\ dir \in [Sides -> Seq(File)] /\ n \in Nat /\ n # 0 /\ Len(files) \in Nat
      /\ recorded[s] \in Nat
  BY FilesTypes, Limits DEF FilesInv, FilesTypeOK
<1>2. /\ dir'[s] = files /\ recorded'[s] = n /\ recorded' \in [Sides -> 0 .. MaxLegs]
      /\ dir' \in [Sides -> Seq(File)]
      /\ \A t \in Sides : t # s => dir'[t] = dir[t] /\ recorded'[t] = recorded[t]
  BY <1>1, Limits
<1>3. FilesTypeOK'
  BY <1>1, <1>2 DEF FilesInv, FilesTypeOK
<1>4. FilesGood'
  <2>1. ASSUME NEW t \in Sides, NEW i \in 1 .. Len(dir'[t])
        PROVE  NotLonger(dir'[t][i]) /\ dir'[t][i].session <= session.number
    <3>1. CASE t = s /\ i = n
      BY <1>2, <3>1, FilesTypes
    <3>2. CASE t # s \/ i # n
      BY <1>2, <3>2 DEF FilesInv, FilesGood
    <3> QED
      BY <3>1, <3>2
  <2>2. \A t \in Sides : Len(dir'[t]) <= MaxLegs
    BY <1>2 DEF FilesInv, FilesGood
  <2>3. \A t \in Sides : \A i \in Numbers : NotLonger(host'[t][i])
    BY DEF FilesInv, FilesGood
  <2> QED
    BY <2>1, <2>2, <2>3 DEF FilesGood, NotLonger
<1>5. NoHole'
  BY <1>1, <1>2, FilesTypes DEF FilesInv, FilesTypeOK, NoHole
<1>6. LastSessionFirst'
  <2> SUFFICES ASSUME NEW t \in Sides, NEW i \in 1 .. Len(dir'[t])
               PROVE  IF i <= recorded'[t]
                      THEN dir'[t][i].session = session.number /\ dir'[t][i].leg = i
                      ELSE dir'[t][i].session < session.number
    BY DEF LastSessionFirst
  <2>1. CASE t # s
    BY <1>2, <2>1 DEF FilesInv, LastSessionFirst
  <2>2. CASE t = s /\ i = n
    BY <1>1, <1>2, <2>2
  <2>3. CASE t = s /\ i # n
    <3>1. i \in 1 .. Len(dir[t]) /\ dir'[t][i] = dir[t][i]
      BY <1>2, <2>3
    <3>2. i <= recorded'[t] <=> i <= recorded[t]
      BY <1>1, <1>2, <2>3, <3>1
    <3> QED
      BY <3>1, <3>2 DEF FilesInv, LastSessionFirst
  <2> QED
    BY <2>1, <2>2, <2>3
<1>7. OfSession'
  <2> SUFFICES ASSUME NEW t \in Sides, NEW i \in 1 .. Len(dir'[t]), i <= recorded'[t]
               PROVE  dir'[t][i].token = session.token
    BY DEF OfSession
  <2>1. CASE t # s
    BY <1>2, <2>1 DEF FilesInv, OfSession
  <2>2. CASE t = s /\ i = n
    BY <1>2, <2>2
  <2>3. CASE t = s /\ i # n
    <3>1. i \in 1 .. Len(dir[t]) /\ dir'[t][i] = dir[t][i]
      BY <1>2, <2>3
    <3>2. i <= recorded[t]
      BY <1>1, <1>2, <2>3, <3>1
    <3> QED
      BY <3>1, <3>2 DEF FilesInv, OfSession
  <2> QED
    BY <2>1, <2>2, <2>3
<1>8. CopiedSoFar'
  BY DEF CopiedSoFar
<1> QED
  BY <1>3, <1>4, <1>5, <1>6, <1>7, <1>8 DEF FilesInv

\* One fault more is still within the bound.
LEMMA FaultCounts ==
    ASSUME FilesInv, NEW kind, Fault(kind) \/ UNCHANGED faults
    PROVE  faults' \in 0 .. MaxFaults
BY Limits DEF Fault, FilesInv, FilesTypeOK

\* fopen, and the crash without a file.
LEMMA OpenFileKeeps ==
    ASSUME FilesInv, NEW s \in Sides, OpenFile(s)
    PROVE  FilesInv'
<1>1. /\ session' = session /\ host' = host /\ copying' = copying /\ todo' = todo
      /\ s \in active
  BY DEF OpenFile, copyVars
<1>2. CASE Fault("open") /\ active' = active \ {s}
           /\ UNCHANGED <<recorded, writing, dir, clean>>
  <2>1. FilesTypeOK'
    BY <1>1, <1>2, FaultCounts DEF FilesInv, FilesTypeOK
  <2>2. FilesGood' /\ NoHole' /\ LastSessionFirst' /\ OfSession'
    BY <1>1, <1>2 DEF FilesInv, FilesGood, NotLonger, NoHole, LastSessionFirst, OfSession
  <2>3. CopiedSoFar'
    BY <1>1, <1>2 DEF FilesInv, CopiedSoFar, Current
  <2> QED
    BY <2>1, <2>2, <2>3 DEF FilesInv
<1>3. CASE ~(Fault("open") /\ active' = active \ {s}
             /\ UNCHANGED <<recorded, writing, dir, clean>>)
  <2> DEFINE n == recorded[s] + 1
             empty == [session |-> session.number, token |-> session.token, leg |-> n,
                       stored |-> 0]
  <2>1. /\ recorded' = [recorded EXCEPT ![s] = n] /\ writing' = writing \cup {s}
        /\ dir' = [dir EXCEPT ![s] = Opened(dir[s], n, empty)]
        /\ clean' = FALSE /\ active' = active /\ faults' = faults
    BY <1>3 DEF OpenFile
  <2>2. n \in 1 .. MaxLegs
    BY FilesTypes DEF OpenFile, Due
  <2>3. /\ empty \in File /\ empty.session = session.number /\ empty.leg = n
        /\ empty.token = session.token
    BY <2>2, FilesTypes DEF File
  <2>4. NotLonger(empty)
    BY FilesTypes DEF NotLonger
  <2>5. n \in 1 .. Len(dir[s]) + 1 /\ dir[s] \in Seq(File)
    BY <1>1, FilesTypes DEF FilesInv, NoHole
  <2>6. faults' \in 0 .. MaxFaults
    BY <2>1 DEF FilesInv, FilesTypeOK
  <2> HIDE DEF n, empty
  <2>7. /\ Opened(dir[s], n, empty) \in Seq(File)
        /\ Len(Opened(dir[s], n, empty)) \in {Len(dir[s]), n}
        /\ n <= Len(Opened(dir[s], n, empty))
        /\ \A i \in 1 .. Len(Opened(dir[s], n, empty)) :
              /\ i = n => Opened(dir[s], n, empty)[i] = empty
              /\ i # n => i \in 1 .. Len(dir[s]) /\ Opened(dir[s], n, empty)[i] = dir[s][i]
    BY ONLY <2>3, <2>5, OpenedIs, Zenon
  <2>8. Len(Opened(dir[s], n, empty)) <= MaxLegs
    BY <2>2, <2>7, FilesTypes
  <2>9. n = recorded[s] + 1
    BY DEF n
  <2> QED
    BY <1>1, <2>1, <2>2, <2>3, <2>4, <2>6, <2>7, <2>8, <2>9, FileChanged
<1> QED
  BY <1>2, <1>3

\* The file that is open gets its bytes, or some of them.
LEMMA WriteFileKeeps ==
    ASSUME FilesInv, NEW s \in Sides, WriteFile(s)
    PROVE  FilesInv'
<1>1. PICK stored \in 0 .. session.token.size :
         /\ faults' = faults \/ Fault("disk")
         /\ dir' = [dir EXCEPT ![s][recorded[s]].stored = stored]
  BY DEF WriteFile
<1>2. /\ s \in active /\ s \in writing /\ writing' = writing \ {s} /\ clean' = FALSE
      /\ session' = session /\ active' = active /\ recorded' = recorded /\ host' = host
      /\ copying' = copying /\ todo' = todo
  BY DEF WriteFile, copyVars
<1> DEFINE n == recorded[s]
           files == [dir[s] EXCEPT ![n].stored = stored]
<1>3. n \in 1 .. MaxLegs /\ n \in 1 .. Len(dir[s]) /\ dir[s] \in Seq(File) /\ stored \in Nat
  BY <1>2, FilesTypes DEF FilesInv, NoHole
<1>4. /\ files \in Seq(File) /\ Len(files) = Len(dir[s])
      /\ files[n] = [dir[s][n] EXCEPT !.stored = stored]
      /\ \A i \in 1 .. Len(dir[s]) : i # n => files[i] = dir[s][i]
  BY <1>3, WrittenIs
<1>5. n \in Nat /\ n <= n /\ recorded[s] = n
  BY <1>3, Limits
<1>6. /\ dir[s][n] \in File /\ dir[s][n].session = session.number /\ dir[s][n].leg = n
      /\ dir[s][n].token = session.token
  BY <1>3, <1>5, FilesTypes DEF FilesInv, LastSessionFirst, OfSession
<1> DEFINE file == [dir[s][n] EXCEPT !.stored = stored]
<1>7. /\ file \in File /\ file.session = session.number /\ file.leg = n
      /\ file.token = session.token /\ file.stored = stored
  BY <1>3, <1>6 DEF File
<1>8. NotLonger(file)
  BY <1>7, FilesTypes DEF NotLonger
<1>9. dir' = [dir EXCEPT ![s] = files] /\ recorded' = [recorded EXCEPT ![s] = n]
  BY <1>1, <1>2 DEF FilesInv, FilesTypeOK
<1>10. faults' \in 0 .. MaxFaults
  BY <1>1, FaultCounts
<1>11. Len(files) \in Nat /\ n <= Len(files) /\ Len(files) <= MaxLegs
  BY <1>2, <1>3, <1>4, FilesTypes
<1>12. \A i \in 1 .. Len(files) :
          /\ i = n => files[i] = file
          /\ i # n => i \in 1 .. Len(dir[s]) /\ files[i] = dir[s][i]
  BY <1>4
<1>13. writing' \subseteq writing \cup {s}
  BY <1>2
<1> HIDE DEF n, files, file
<1> QED
  BY <1>2, <1>3, <1>4, <1>5, <1>7, <1>8, <1>9, <1>10, <1>11, <1>12, <1>13, FileChanged

\* The end of a program takes nothing away.
LEMMA EndProgramKeeps ==
    ASSUME FilesInv, NEW s \in Sides, EndProgram(s)
    PROVE  FilesInv'
<1>1. /\ active' = active \ {s} /\ session' = session /\ recorded' = recorded
      /\ writing' = writing /\ dir' = dir /\ host' = host /\ copying' = copying
      /\ todo' = todo /\ clean' = clean /\ faults' = faults
  BY DEF EndProgram, copyVars
<1>2. FilesTypeOK' /\ NoHole'
  BY <1>1 DEF FilesInv, FilesTypeOK, NoHole
<1>3. FilesGood' /\ LastSessionFirst' /\ OfSession' /\ CopiedSoFar'
  BY <1>1 DEF FilesInv, FilesGood, NotLonger, LastSessionFirst, OfSession, CopiedSoFar, Current
<1> QED
  BY <1>2, <1>3 DEF FilesInv

\* make restart empties the containers and leaves the host's copies.
LEMMA RestartContainersKeeps ==
    ASSUME FilesInv, RestartContainers
    PROVE  FilesInv'
<1>1. /\ session' = session /\ recorded' = recorded /\ writing' = writing /\ host' = host
      /\ copying' = copying /\ todo' = todo /\ faults' = faults /\ active' = {}
      /\ clean' = FALSE /\ dir' = [s \in Sides |-> <<>>]
      /\ <<>> \in Seq(File) /\ \A s \in Sides : dir'[s] = <<>> /\ Len(dir'[s]) = 0
  BY DEF RestartContainers, copyVars
<1>2. FilesTypeOK' /\ NoHole'
  BY <1>1 DEF FilesInv, FilesTypeOK, NoHole
<1>3. FilesGood'
  BY <1>1, Limits DEF FilesInv, FilesGood, NotLonger
<1>4. LastSessionFirst' /\ OfSession' /\ CopiedSoFar'
  BY <1>1 DEF LastSessionFirst, OfSession, CopiedSoFar
<1> QED
  BY <1>2, <1>3, <1>4 DEF FilesInv

-----------------------------------------------------------------------------
\* What copy-tokens.sh leaves alone, and what it keeps if the files of the host
\* are still files, none longer than its token.
LEMMA CopyKeeps ==
    ASSUME FilesInv, UNCHANGED <<session, active, recorded, writing, dir>>,
           host' \in [Sides -> [Numbers -> File]],
           \A s \in Sides : \A i \in Numbers : NotLonger(host'[s][i]),
           copying' \in Sides \cup {"no"}, todo' \subseteq Numbers, clean' \in BOOLEAN,
           faults' \in 0 .. MaxFaults, CopiedSoFar'
    PROVE  FilesInv'
<1>1. FilesTypeOK' /\ NoHole' /\ LastSessionFirst' /\ OfSession'
  BY DEF FilesInv, FilesTypeOK, NoHole, LastSessionFirst, OfSession
<1>2. FilesGood'
  BY DEF FilesInv, FilesGood, NotLonger
<1> QED
  BY <1>1, <1>2 DEF FilesInv

\* A file of the host is replaced by a file that is no longer than its token.
LEMMA HostReplaced ==
    ASSUME FilesInv, NEW s \in Sides, NEW n \in Numbers, NEW file \in File,
           NotLonger(file), host' = [host EXCEPT ![s][n] = file]
    PROVE  /\ host' \in [Sides -> [Numbers -> File]]
           /\ \A t \in Sides : \A i \in Numbers : NotLonger(host'[t][i])
           /\ host'[s][n] = file
           /\ \A t \in Sides : \A i \in Numbers :
                 t # s \/ i # n => host'[t][i] = host[t][i]
<1>1. host \in [Sides -> [Numbers -> File]]
  BY DEF FilesInv, FilesTypeOK
<1>2. \A t \in Sides : \A i \in Numbers :
         host'[t][i] = IF t = s /\ i = n THEN file ELSE host[t][i]
  BY <1>1
<1>3. host' \in [Sides -> [Numbers -> File]]
  BY <1>1
<1> QED
  BY <1>2, <1>3 DEF FilesInv, FilesGood

\* What FilesInv says of the host is so as long as the host is left alone.
LEMMA HostTypes ==
    ASSUME FilesInv
    PROVE  /\ host \in [Sides -> [Numbers -> File]]
           /\ \A s \in Sides : \A i \in Numbers : NotLonger(host[s][i])
BY DEF FilesInv, FilesTypeOK, FilesGood

\* A copy that is cut short is shorter than what it is made from.
LEMMA CutShortKeeps ==
    ASSUME FilesInv, copying \in Sides, NEW i \in Numbers, CutShort(i)
    PROVE  /\ host' \in [Sides -> [Numbers -> File]]
           /\ \A s \in Sides : \A j \in Numbers : NotLonger(host'[s][j])
<1>1. CASE UNCHANGED host
  BY <1>1, HostTypes DEF NotLonger
<1>2. CASE ~UNCHANGED host
  <2>1. i \in 1 .. Len(dir[copying])
    BY <1>2, FilesTypes, Limits DEF CutShort, Numbers
  <2>2. PICK stored \in 0 .. dir[copying][i].stored - 1 :
           host' = [host EXCEPT ![copying][i] = [dir[copying][i] EXCEPT !.stored = stored]]
    BY <1>2 DEF CutShort
  <2>3. dir[copying][i] \in File /\ NotLonger(dir[copying][i])
    BY <2>1, FilesTypes DEF FilesInv, FilesGood
  <2>4. [dir[copying][i] EXCEPT !.stored = stored] \in File
    BY <2>2, <2>3 DEF File
  <2>5. NotLonger([dir[copying][i] EXCEPT !.stored = stored])
    <3>1. /\ dir[copying][i].stored \in Nat /\ dir[copying][i].token.size \in Nat
          /\ dir[copying][i].stored <= dir[copying][i].token.size
      BY <2>3, FileParts DEF NotLonger
    <3>2. /\ [dir[copying][i] EXCEPT !.stored = stored].stored = stored
          /\ [dir[copying][i] EXCEPT !.stored = stored].token = dir[copying][i].token
      BY <2>3 DEF File
    <3>3. stored <= dir[copying][i].token.size
      BY <2>2, <3>1
    <3> QED
      BY <3>2, <3>3 DEF NotLonger
  <2> QED
    BY <2>2, <2>4, <2>5, HostReplaced
<1> QED
  BY <1>1, <1>2

\* The lists of the two sides.
LEMMA MakeListKeeps ==
    ASSUME FilesInv, CopyStart \/ CopyNextSide
    PROVE  FilesInv'
<1>1. /\ session' = session /\ active' = active /\ recorded' = recorded
      /\ writing' = writing /\ dir' = dir /\ host' = host
  BY DEF CopyStart, CopyNextSide, MakeList
<1>2. /\ copying' \in Sides
      /\ \/ copying = "no" /\ copying' = "server"
         \/ copying = "server" /\ copying' = "client"
  BY DEF CopyStart, CopyNextSide, MakeList, Sides
<1>3. \A s \in Sides : Listed(s) \subseteq Numbers
  BY FilesTypes DEF Listed
<1>4. todo' \subseteq Numbers /\ clean' \in BOOLEAN
  BY <1>3 DEF FilesInv, FilesTypeOK, CopyStart, CopyNextSide, MakeList, Sides
<1>5. faults' \in 0 .. MaxFaults
  BY FaultCounts DEF CopyStart, CopyNextSide, MakeList
<1>6. CopiedSoFar'
  <2> SUFFICES ASSUME clean' PROVE CopiedSoFar'
    BY DEF CopiedSoFar
  <2>1. todo' = 1 .. Len(dir[copying'])
    BY DEF CopyStart, CopyNextSide, MakeList, Listed
  <2>2. CASE copying = "no" /\ copying' = "server"
    BY <1>1, <2>1, <2>2 DEF CopiedSoFar, Current
  <2>3. CASE copying = "server" /\ copying' = "client"
    <3>1. clean /\ todo = {}
      BY <2>3 DEF CopyStart, CopyNextSide, MakeList
    <3>2. Current("server", {})
      BY <2>3, <3>1 DEF FilesInv, CopiedSoFar
    <3> QED
      BY <1>1, <2>1, <2>3, <3>2 DEF CopiedSoFar, Current
  <2> QED
    BY <1>2, <2>2, <2>3
<1> QED
  BY <1>1, <1>2, <1>4, <1>5, <1>6, HostTypes, CopyKeeps DEF NotLonger

\* A round of the loops.
LEMMA CopyFileKeeps ==
    ASSUME FilesInv, NEW i \in Numbers, CopyFile(i)
    PROVE  FilesInv'
<1>1. /\ session' = session /\ active' = active /\ recorded' = recorded
      /\ writing' = writing /\ dir' = dir /\ copying' = copying
      /\ i \in todo /\ todo' = todo \ {i} /\ todo' \subseteq Numbers
      /\ copying \in Sides
  BY DEF CopyFile, FilesInv, FilesTypeOK
<1>2. CASE /\ i <= Len(dir[copying])
           /\ host' = [host EXCEPT ![copying][i] = dir[copying][i]]
           /\ UNCHANGED <<clean, faults>>
  <2>1. i \in 1 .. Len(dir[copying])
    BY <1>1, <1>2, FilesTypes, Limits DEF Numbers
  <2>2. dir[copying][i] \in File /\ NotLonger(dir[copying][i])
    BY <1>1, <2>1, FilesTypes DEF FilesInv, FilesGood
  <2>3. /\ host' \in [Sides -> [Numbers -> File]]
        /\ \A t \in Sides : \A j \in Numbers : NotLonger(host'[t][j])
        /\ host'[copying][i] = dir[copying][i]
        /\ \A t \in Sides : \A j \in Numbers :
              t # copying \/ j # i => host'[t][j] = host[t][j]
    <3>1. /\ FilesInv /\ copying \in Sides /\ i \in Numbers /\ dir[copying][i] \in File
          /\ NotLonger(dir[copying][i]) /\ host' = [host EXCEPT ![copying][i] = dir[copying][i]]
      BY <1>1, <1>2, <2>2
    <3> QED
      BY ONLY <3>1, HostReplaced, Zenon
  <2>4. \A s \in Sides : \A j \in 1 .. Len(dir[s]) : j \in Numbers
    BY FilesTypes
  <2>5. \A s \in Sides : \A rest \in SUBSET Numbers :
           s # copying /\ Current(s, rest) => Current(s, rest)'
    BY <1>1, <2>3, <2>4 DEF Current
  <2>6. Current(copying, todo) => Current(copying, todo)'
    BY <1>1, <2>3, <2>4 DEF Current
  <2>7. CopiedSoFar'
    <3>1. "server" \in Sides /\ "client" \in Sides /\ "server" # "client"
      BY DEF Sides
    <3> SUFFICES ASSUME clean PROVE CopiedSoFar'
      BY <1>2 DEF CopiedSoFar
    <3>2. CASE copying = "server"
      BY <1>1, <1>2, <2>6, <3>2 DEF FilesInv, CopiedSoFar, Current
    <3>3. CASE copying = "client"
      BY <1>1, <1>2, <2>5, <2>6, <3>1, <3>3 DEF FilesInv, CopiedSoFar, Current
    <3> QED
      BY <1>1, <3>2, <3>3 DEF Sides
  <2>8. clean' \in BOOLEAN /\ faults' \in 0 .. MaxFaults
    BY <1>2 DEF FilesInv, FilesTypeOK
  <2> QED
    BY <1>1, <2>3, <2>7, <2>8, CopyKeeps
<1>3. CASE clean' = FALSE /\ (UNCHANGED <<host, faults>> \/ (Fault("docker") /\ CutShort(i)))
  <2>1. /\ host' \in [Sides -> [Numbers -> File]]
        /\ \A s \in Sides : \A j \in Numbers : NotLonger(host'[s][j])
    BY <1>1, <1>3, HostTypes, CutShortKeeps DEF NotLonger
  <2>2. faults' \in 0 .. MaxFaults /\ CopiedSoFar'
    BY <1>3, FaultCounts DEF CopiedSoFar
  <2> QED
    BY <1>1, <1>3, <2>1, <2>2, CopyKeeps
<1> QED
  BY <1>2, <1>3 DEF CopyFile

\* The end of the script, and its being stopped.
LEMMA CopyEndKeeps ==
    ASSUME FilesInv, CopyEnd \/ CopyInterrupted
    PROVE  FilesInv'
<1>1. /\ session' = session /\ active' = active /\ recorded' = recorded
      /\ writing' = writing /\ dir' = dir /\ copying' = "no" /\ copying \in Sides
      /\ todo' \subseteq Numbers
  BY DEF CopyEnd, CopyInterrupted, FilesInv, FilesTypeOK, Sides
<1>2. CASE CopyEnd
  <2>1. CopiedSoFar'
    BY <1>2 DEF CopyEnd, FilesInv, CopiedSoFar, Current
  <2>2. host' = host /\ clean' \in BOOLEAN /\ faults' \in 0 .. MaxFaults
    BY <1>2 DEF CopyEnd, FilesInv, FilesTypeOK
  <2> QED
    BY <1>1, <2>1, <2>2, HostTypes, CopyKeeps DEF NotLonger
<1>3. CASE CopyInterrupted
  <2>1. host' = host \/ \E i \in Numbers : CutShort(i)
    BY <1>3 DEF CopyInterrupted, FilesInv, FilesTypeOK
  <2>2. /\ host' \in [Sides -> [Numbers -> File]]
        /\ \A s \in Sides : \A i \in Numbers : NotLonger(host'[s][i])
    BY <1>1, <2>1, HostTypes, CutShortKeeps DEF NotLonger
  <2>3. clean' = FALSE /\ faults' \in 0 .. MaxFaults /\ CopiedSoFar'
    BY <1>3, FaultCounts DEF CopyInterrupted, CopiedSoFar
  <2> QED
    BY <1>1, <2>2, <2>3, CopyKeeps
<1> QED
  BY <1>2, <1>3

\* Every step that touches files keeps the invariant of the files.
LEMMA FilesStepKeeps ==
    ASSUME FilesInv, FilesStep
    PROVE  FilesInv'
<1>1. CopyTokens => FilesInv'
  BY MakeListKeeps, CopyFileKeeps, CopyEndKeeps DEF CopyTokens
<1> QED
  BY <1>1, StartSessionKeeps, OpenFileKeeps, WriteFileKeeps, EndProgramKeeps,
     RestartContainersKeeps DEF FilesStep

-----------------------------------------------------------------------------
\* The decoder: its file is a token file, or none.
GoodInput == dfile \in File /\ dfile.stored <= dfile.token.size

\* Before the token is decoded the buffer holds what was read of it, and what
\* print_bytes gets after that belongs to an SPNEGO token.
HoldsFile ==
    /\ dbytes <= BufferSize
    /\ dpc \in {"choose", "initial"} =>
          dbytes = BytesRead(dfile) /\ dbytes # 0 /\ dshown = {} /\ dret = 0
    /\ dpc = "initial" => dtype = "gssapi"
    /\ dpc = "print" => dtype # "other" /\ dret = 0
    /\ dpc = "print" /\ dtype = "gssapi" => "token" \in dshown /\ dfile.token.mech = "spnego"

\* Where print_bytes is, and what it has printed when it gets there.
PrintedSoFar ==
    /\ dpc \in {"idle", "choose", "initial"} => di = 0 /\ dout = <<>>
    /\ dpc = "print" =>
          /\ di \in 0 .. Lines
          /\ dleft = dbytes - di * LineWidth
          /\ Len(dout) = IF di < Lines THEN di * LineWidth ELSE dbytes

\* The structures that are shown come from a token that was read whole.
ShownSoFar == dshown # {} => dfile.stored = dfile.token.size /\ dfile.token.size <= BufferSize

DecoderInv ==
    /\ DecoderTypeOK /\ GoodInput /\ HoldsFile /\ PrintedSoFar /\ ShownSoFar
    /\ PrintsBuffer /\ ShownIsWhole

IInv == FilesInv /\ DecoderInv

\* The arithmetic of the lines of print_bytes.
LEMMA LineArithmetic ==
    ASSUME NEW bytes \in Nat, NEW width \in Nat \ {0}, NEW i \in Nat,
           i < bytes \div width + 1
    PROVE  /\ i * width \in Nat /\ i * width <= bytes
           /\ (i + 1) * width = i * width + width
           /\ i + 1 < bytes \div width + 1 => i * width + width <= bytes
           /\ i + 1 = bytes \div width + 1 => i * width + width > bytes
<1> DEFINE full == bytes \div width
<1>1. full \in Nat /\ full * width <= bytes /\ bytes < full * width + width
  BY Z3T(30)
<1>2. \A m, n \in Nat : m <= n => m * width <= n * width
  BY Z3T(30)
<1>3. i * width \in Nat /\ (i + 1) * width = i * width + width
  BY Z3T(30)
<1> HIDE DEF full
<1>4. i <= full /\ (i + 1 < full + 1 => i + 1 <= full) /\ (i + 1 = full + 1 => i = full)
  BY <1>1 DEF full
<1>5. i * width <= full * width /\ full * width \in Int
  BY <1>1, <1>2, <1>4, Z3T(30)
<1>6. i + 1 <= full => (i + 1) * width <= full * width
  BY <1>1, <1>2, Z3T(30)
<1>7. i * width <= bytes
  BY <1>1, <1>3, <1>5
<1>8. i + 1 < full + 1 => i * width + width <= bytes
  BY <1>1, <1>3, <1>4, <1>5, <1>6
<1>9. i + 1 = full + 1 => i * width + width > bytes
  BY <1>1, <1>4
<1> QED
  BY <1>3, <1>7, <1>8, <1>9 DEF full

\* The first line of print_bytes starts with nothing printed.
LEMMA FirstLine ==
    ASSUME NEW bytes \in Nat, NEW width \in Nat \ {0}
    PROVE  /\ bytes \div width \in Nat /\ bytes \div width + 1 \in Nat \ {0}
           /\ 0 * width = 0 /\ bytes - 0 * width = bytes
BY Z3T(30)

\* fread gives what is stored, up to the size of the buffer.
LEMMA BytesReadIs ==
    ASSUME NEW file \in File
    PROVE  /\ BytesRead(file) \in Nat /\ BytesRead(file) <= BufferSize
           /\ BytesRead(file) <= file.stored
           /\ file.stored <= BufferSize => BytesRead(file) = file.stored
           /\ BytesRead(file) < BufferSize => BytesRead(file) = file.stored
BY DecoderAssumption DEF BytesRead, File

\* The types of the decoder's variables, one at a time.
LEMMA DecoderTypes ==
    ASSUME DecoderInv
    PROVE  /\ BufferSize \in Nat \ {0} /\ LineWidth \in Nat \ {0}
           /\ dbytes \in Nat /\ di \in Nat /\ dout \in Seq(0 .. BufferSize - 1)
           /\ dfile.token.size \in Nat /\ dfile.stored \in Nat
           /\ Len(dout) \in Nat
<1>1. dfile \in File /\ dout \in Seq(0 .. BufferSize - 1)
  BY DEF DecoderInv, GoodInput, DecoderTypeOK
<1> QED
  BY <1>1, DecoderAssumption DEF DecoderInv, DecoderTypeOK, File, Token

\* main is started with a file.
LEMMA OpenKeeps ==
    ASSUME DecoderInv, NEW file \in File, NEW type \in Types, DOpen(file, type),
           NotLonger(file)
    PROVE  DecoderInv'
<1>1. /\ dfile' = file /\ dtype' = type /\ dbytes' = BytesRead(file) /\ di' = 0
      /\ dleft' = 0 /\ dout' = <<>> /\ dshown' = {}
      /\ BytesRead(file) = 0 => dpc' = "done" /\ dret' = 1
      /\ BytesRead(file) # 0 => dpc' = "choose" /\ dret' = 0
  BY DEF DOpen
<1>2. BytesRead(file) \in Nat /\ BytesRead(file) <= BufferSize
  BY BytesReadIs
<1>3. <<>> \in Seq(0 .. BufferSize - 1) /\ Len(<<>>) = 0
  OBVIOUS
<1>4. dpc' \in {"choose", "done"} /\ (dpc' = "done" => dret' = 1)
  BY <1>1
<1>5. DecoderTypeOK' /\ GoodInput'
  <2>1. DecoderTypeOK'
    BY <1>1, <1>2, <1>3, <1>4 DEF DecoderTypeOK
  <2> QED
    BY <1>1, <2>1 DEF GoodInput, NotLonger
<1>6. HoldsFile' /\ PrintedSoFar' /\ ShownSoFar'
  BY <1>1, <1>2, <1>4 DEF HoldsFile, PrintedSoFar, ShownSoFar
<1>7. PrintsBuffer' /\ ShownIsWhole'
  BY <1>1, <1>2, <1>3, <1>4 DEF PrintsBuffer, ShownIsWhole
<1> QED
  BY <1>5, <1>6, <1>7 DEF DecoderInv

\* The choice of the parser.
LEMMA ChooseKeeps ==
    ASSUME DecoderInv, DChoose
    PROVE  DecoderInv'
<1>1. /\ dpc = "choose" /\ dbytes = BytesRead(dfile) /\ dbytes # 0 /\ dshown = {} /\ dret = 0
      /\ di = 0 /\ dout = <<>> /\ Len(dout) = 0
  BY DEF DChoose, DecoderInv, HoldsFile, PrintedSoFar
<1>2. /\ dfile' = dfile /\ dtype' = dtype /\ dbytes' = dbytes /\ di' = di /\ dout' = dout
      /\ dshown' = dshown /\ dret' = dret
  BY <1>1 DEF DChoose, DExit
<1>3. \/ dtype = "gssapi" /\ dpc' = "initial" /\ dleft' = dleft
      \/ dtype = "spnego" /\ dpc' = "print" /\ dleft' = dbytes
      \/ dtype = "other" /\ dpc' = "done" /\ dleft' = dleft
  BY DEF DChoose, DExit
<1>4. Lines \in Nat \ {0} /\ 0 * LineWidth = 0 /\ dbytes - 0 * LineWidth = dbytes
  BY DecoderTypes, FirstLine DEF Lines
<1>5. Lines' = Lines
  BY <1>2 DEF Lines
<1>6. DecoderTypeOK' /\ GoodInput'
  BY <1>2, <1>3 DEF DecoderInv, DecoderTypeOK, GoodInput
<1>7. HoldsFile' /\ ShownSoFar'
  BY <1>1, <1>2, <1>3 DEF DecoderInv, HoldsFile, ShownSoFar
<1>8. PrintedSoFar'
  BY <1>1, <1>2, <1>3, <1>4, <1>5 DEF PrintedSoFar
<1>9. PrintsBuffer'
  BY <1>1, <1>2, <1>4, <1>5 DEF DecoderInv, PrintsBuffer
<1>10. ShownIsWhole'
  BY <1>1, <1>2, <1>3 DEF ShownIsWhole
<1> QED
  BY <1>6, <1>7, <1>8, <1>9, <1>10 DEF DecoderInv

\* parse_gssapi: what decodes is whole.
LEMMA ParseGssapiKeeps ==
    ASSUME DecoderInv, DParseGssapi
    PROVE  DecoderInv'
<1>1. /\ dpc = "initial" /\ dtype = "gssapi" /\ dbytes = BytesRead(dfile) /\ dshown = {}
      /\ dret = 0 /\ di = 0 /\ dout = <<>> /\ Len(dout) = 0 /\ dfile \in File
      /\ dfile.stored <= dfile.token.size
  BY DEF DParseGssapi, DecoderInv, HoldsFile, PrintedSoFar, GoodInput
<1>2. dfile' = dfile /\ dtype' = dtype /\ di' = di /\ dout' = dout
  BY DEF DParseGssapi, DExit
<1>3. DecodesInitial =>
         /\ dfile.stored = dfile.token.size /\ dfile.token.size <= BufferSize
         /\ dfile.token.size # 0 /\ dbytes = dfile.token.size
  <2>1. /\ dfile.token.size \in Nat /\ dfile.stored \in Nat /\ BytesRead(dfile) <= dfile.stored
        /\ BytesRead(dfile) <= BufferSize /\ dbytes # 0
    BY <1>1, BytesReadIs, DecoderTypes DEF DecoderInv, HoldsFile
  <2>2. DecodesInitial => dbytes = dfile.token.size
    BY DEF DecodesInitial, ReadWhole
  <2> QED
    BY <1>1, <2>1, <2>2
<1>4. CASE DecodesInitial /\ dfile.token.mech = "spnego"
  <2>1. /\ dshown' = {"token"} /\ dpc' = "print" /\ dbytes' = dfile.token.size - 1
        /\ dleft' = dfile.token.size - 1 /\ dret' = 0
    BY <1>1, <1>4 DEF DParseGssapi, CheckIfSpnego, InnerSize
  <2>2. dbytes' \in Nat /\ dbytes' <= BufferSize
    <3>1. dfile.token.size \in Nat \ {0} /\ dfile.token.size <= BufferSize /\ BufferSize \in Nat
      BY <1>3, <1>4, DecoderTypes
    <3> QED
      BY <2>1, <3>1
  <2>3. Lines' \in Nat \ {0} /\ 0 * LineWidth = 0 /\ dbytes' - 0 * LineWidth = dbytes'
    BY <2>2, DecoderTypes, FirstLine DEF Lines
  <2>4. DecoderTypeOK' /\ GoodInput'
    BY <1>2, <2>1, <2>2 DEF DecoderInv, DecoderTypeOK, GoodInput
  <2>5. HoldsFile' /\ ShownSoFar'
    BY <1>1, <1>2, <1>3, <1>4, <2>1, <2>2 DEF HoldsFile, ShownSoFar
  <2>6. PrintedSoFar'
    BY <1>1, <1>2, <2>1, <2>3 DEF PrintedSoFar
  <2>7. PrintsBuffer'
    BY <1>1, <1>2, <2>2, <2>3 DEF PrintsBuffer
  <2>8. ShownIsWhole'
    BY <2>1 DEF ShownIsWhole
  <2> QED
    BY <2>4, <2>5, <2>6, <2>7, <2>8 DEF DecoderInv
<1>5. CASE ~(DecodesInitial /\ dfile.token.mech = "spnego")
  <2>1. /\ dpc' = "done" /\ dbytes' = dbytes /\ dleft' = dleft
        /\ \/ DecodesInitial /\ dshown' = {"token"} /\ dret' = 0
           \/ ~DecodesInitial /\ dshown' = {} /\ dret' = 1
    BY <1>1, <1>5 DEF DParseGssapi, CheckIfSpnego, DExit
  <2>2. DecoderTypeOK' /\ GoodInput'
    BY <1>2, <2>1 DEF DecoderInv, DecoderTypeOK, GoodInput
  <2>3. HoldsFile' /\ ShownSoFar' /\ ShownIsWhole' /\ PrintedSoFar'
    BY <1>2, <1>3, <2>1 DEF DecoderInv, HoldsFile, ShownSoFar, ShownIsWhole, PrintedSoFar
  <2>4. PrintsBuffer'
    BY <1>2, <2>1 DEF DecoderInv, PrintsBuffer
  <2> QED
    BY <2>2, <2>3, <2>4 DEF DecoderInv
<1> QED
  BY <1>4, <1>5

\* A line that is printed goes on where the last one ended.
Line(first, n) == [j \in 1 .. n |-> first + j - 1]

\* A line of print_bytes continues where the last one ended.
LEMMA LinePrinted ==
    ASSUME NEW S, NEW out \in Seq(S), NEW n \in Nat,
           \A j \in 1 .. n : Len(out) + j - 1 \in S,
           \A k \in 1 .. Len(out) : out[k] = k - 1
    PROVE  /\ out \o Line(Len(out), n) \in Seq(S)
           /\ Len(out \o Line(Len(out), n)) = Len(out) + n
           /\ \A k \in 1 .. Len(out) + n : (out \o Line(Len(out), n))[k] = k - 1
<1> DEFINE line == Line(Len(out), n)
<1>1. line \in Seq(S) /\ Len(line) = n /\ Len(out) \in Nat
  BY DEF Line
<1>2. \A j \in 1 .. n : line[j] = Len(out) + j - 1
  BY DEF Line
<1> HIDE DEF line
<1>3. /\ out \o line \in Seq(S) /\ Len(out \o line) = Len(out) + n
      /\ \A k \in 1 .. Len(out) + n :
            (out \o line)[k] = IF k <= Len(out) THEN out[k] ELSE line[k - Len(out)]
  <2>1. out \in Seq(S)
    OBVIOUS
  <2> QED
    BY ONLY <1>1, <2>1
<1>4. \A k \in 1 .. Len(out) + n : (out \o line)[k] = k - 1
  <2> SUFFICES ASSUME NEW k \in 1 .. Len(out) + n PROVE (out \o line)[k] = k - 1
    OBVIOUS
  <2>1. CASE k <= Len(out)
    BY <1>1, <1>3, <2>1
  <2>2. CASE k > Len(out)
    BY <1>1, <1>2, <1>3, <2>2
  <2> QED
    BY <1>1, <2>1, <2>2
<1> QED
  BY <1>3, <1>4 DEF line

\* A round of print_bytes.
LEMMA PrintLineKeeps ==
    ASSUME DecoderInv, DPrintLine
    PROVE  DecoderInv'
<1>1. /\ dpc = "print" /\ di < Lines /\ dleft' = dleft - LineWidth /\ di' = di + 1
      /\ dout' = dout \o [j \in 1 .. OnLine(dleft) |-> di * LineWidth + j - 1]
      /\ dpc' = dpc /\ dfile' = dfile /\ dtype' = dtype /\ dbytes' = dbytes
      /\ dshown' = dshown /\ dret' = dret /\ Lines' = Lines
  BY DEF DPrintLine, Lines
<1>2. /\ LineWidth \in Nat \ {0} /\ dbytes \in Nat /\ di \in Nat /\ BufferSize \in Nat
      /\ dbytes <= BufferSize /\ dout \in Seq(0 .. BufferSize - 1)
      /\ dleft = dbytes - di * LineWidth /\ Len(dout) = di * LineWidth
      /\ \A k \in 1 .. Len(dout) : dout[k] = k - 1
      /\ Lines \in Nat
  BY <1>1, DecoderTypes, FirstLine
     DEF DecoderInv, HoldsFile, PrintedSoFar, PrintsBuffer, Lines
<1> DEFINE start == di * LineWidth
           n == OnLine(dleft)
<1>3. /\ start \in Nat /\ start <= dbytes /\ (di + 1) * LineWidth = start + LineWidth
      /\ di + 1 < Lines => start + LineWidth <= dbytes
      /\ di + 1 = Lines => start + LineWidth > dbytes
  <2>1. /\ dbytes \in Nat /\ LineWidth \in Nat \ {0} /\ di \in Nat
        /\ di < dbytes \div LineWidth + 1
    BY <1>1, <1>2 DEF Lines
  <2>2. /\ di * LineWidth \in Nat /\ di * LineWidth <= dbytes
        /\ (di + 1) * LineWidth = di * LineWidth + LineWidth
        /\ di + 1 < dbytes \div LineWidth + 1 => di * LineWidth + LineWidth <= dbytes
        /\ di + 1 = dbytes \div LineWidth + 1 => di * LineWidth + LineWidth > dbytes
    BY ONLY <2>1, LineArithmetic, Zenon
  <2> QED
    BY <2>2 DEF Lines
<1>4. dleft = dbytes - start /\ Len(dout) = start
  BY <1>2
<1> HIDE DEF start
<1>5. /\ n \in Nat /\ start + n <= dbytes
      /\ di + 1 < Lines => start + n = (di + 1) * LineWidth
      /\ di + 1 = Lines => start + n = dbytes
  BY <1>2, <1>3, <1>4 DEF OnLine
<1>6. dout' = dout \o [j \in 1 .. n |-> start + j - 1]
  BY <1>1 DEF start
<1> HIDE DEF n
<1>7. /\ dout' \in Seq(0 .. BufferSize - 1) /\ Len(dout') = start + n
      /\ \A k \in 1 .. Len(dout') : dout'[k] = k - 1
  <2>1. \A j \in 1 .. n : Len(dout) + j - 1 \in 0 .. BufferSize - 1
    BY <1>2, <1>3, <1>4, <1>5
  <2>2. dout' = dout \o Line(Len(dout), n)
    BY <1>4, <1>6 DEF Line
  <2>3. /\ dout \in Seq(0 .. BufferSize - 1) /\ n \in Nat
        /\ \A k \in 1 .. Len(dout) : dout[k] = k - 1
    BY <1>2, <1>5
  <2>4. /\ dout \o Line(Len(dout), n) \in Seq(0 .. BufferSize - 1)
        /\ Len(dout \o Line(Len(dout), n)) = Len(dout) + n
        /\ \A k \in 1 .. Len(dout) + n : (dout \o Line(Len(dout), n))[k] = k - 1
    BY ONLY <2>1, <2>3, LinePrinted, Zenon
  <2> QED
    BY <1>4, <2>2, <2>4
<1>8. di' \in 0 .. Lines /\ dleft' = dbytes - di' * LineWidth /\ dleft' \in Int
  <2>1. di' \in 0 .. Lines
    BY <1>1, <1>2
  <2>2. di' * LineWidth = start + LineWidth
    BY <1>1, <1>3
  <2> QED
    BY <1>1, <1>2, <1>3, <1>4, <2>1, <2>2
<1>9. Len(dout') = IF di' < Lines THEN di' * LineWidth ELSE dbytes
  <2>1. di' < Lines \/ di' = Lines
    BY <1>2, <1>8
  <2> QED
    BY <1>1, <1>2, <1>5, <1>7, <2>1
<1>10. DecoderTypeOK' /\ GoodInput'
  BY <1>1, <1>2, <1>7, <1>8 DEF DecoderInv, DecoderTypeOK, GoodInput
<1>11. HoldsFile' /\ ShownSoFar'
  BY <1>1 DEF DecoderInv, HoldsFile, ShownSoFar
<1>12. PrintedSoFar'
  BY <1>1, <1>8, <1>9 DEF PrintedSoFar
<1>13. PrintsBuffer'
  <2>1. Len(dout') <= dbytes /\ (di' = Lines => Len(dout') = dbytes)
    BY <1>2, <1>5, <1>7, <1>9
  <2> QED
    BY <1>1, <1>7, <2>1 DEF PrintsBuffer
<1>14. ShownIsWhole'
  BY <1>1 DEF ShownIsWhole
<1> QED
  BY <1>10, <1>11, <1>12, <1>13, <1>14 DEF DecoderInv

\* parse_spnego ends the decoder.
LEMMA ParseSpnegoKeeps ==
    ASSUME DecoderInv, DParseSpnego
    PROVE  DecoderInv'
<1>1. /\ dpc = "print" /\ dpc' = "done" /\ dfile' = dfile /\ dtype' = dtype
      /\ dbytes' = dbytes /\ di' = di /\ dleft' = dleft /\ dout' = dout
      /\ \/ DecodesNegotiation /\ dshown' = dshown \cup {"negotiation"} /\ dret' = 0
         \/ ~DecodesNegotiation /\ dshown' = dshown /\ dret' = 1
  BY DEF DParseSpnego, DExit
<1>2. DecodesNegotiation => "token" \in dshown
  BY DEF DecodesNegotiation
<1>3. DecoderTypeOK' /\ GoodInput'
  BY <1>1 DEF DecoderInv, DecoderTypeOK, GoodInput
<1>4. HoldsFile' /\ PrintedSoFar' /\ PrintsBuffer'
  BY <1>1 DEF DecoderInv, HoldsFile, PrintedSoFar, PrintsBuffer
<1>5. ShownSoFar' /\ ShownIsWhole'
  BY <1>1, <1>2 DEF DecoderInv, ShownSoFar, ShownIsWhole
<1> QED
  BY <1>3, <1>4, <1>5 DEF DecoderInv

\* There is no decoder, at first and after the end of one.
LEMMA IdleIsGood ==
    ASSUME dpc = "idle", dfile = NoFile, dtype = "gssapi", dbytes = 0, di = 0, dleft = 0,
           dout = <<>>, dshown = {}, dret = 0
    PROVE  DecoderInv
<1>1. <<>> \in Seq(0 .. BufferSize - 1) /\ Len(dout) = 0
  OBVIOUS
<1>2. DecoderTypeOK /\ GoodInput
  BY <1>1 DEF DecoderTypeOK, GoodInput, NoFile, NoToken, File, Token, Mechs, NotLonger, Types
<1>3. HoldsFile /\ PrintedSoFar /\ ShownSoFar
  BY DecoderAssumption DEF HoldsFile, PrintedSoFar, ShownSoFar
<1>4. PrintsBuffer /\ ShownIsWhole
  BY <1>1 DEF PrintsBuffer, ShownIsWhole
<1> QED
  BY <1>2, <1>3, <1>4 DEF DecoderInv

\* The same of the next state.
LEMMA EndKeeps ==
    ASSUME DEnd
    PROVE  DecoderInv'
<1>1. /\ dpc' = "idle" /\ dfile' = NoFile /\ dtype' = "gssapi" /\ dbytes' = 0 /\ di' = 0
      /\ dleft' = 0 /\ dout' = <<>> /\ dshown' = {} /\ dret' = 0
  BY DEF DEnd
<1>2. <<>> \in Seq(0 .. BufferSize - 1) /\ Len(dout') = 0
  BY <1>1
<1>3. DecoderTypeOK' /\ GoodInput'
  BY <1>1, <1>2 DEF DecoderTypeOK, GoodInput, NoFile, NoToken, File, Token, Mechs, NotLonger, Types
<1>4. HoldsFile' /\ PrintedSoFar' /\ ShownSoFar'
  BY <1>1, DecoderAssumption DEF HoldsFile, PrintedSoFar, ShownSoFar
<1>5. PrintsBuffer' /\ ShownIsWhole'
  BY <1>1, <1>2 DEF PrintsBuffer, ShownIsWhole
<1> QED
  BY <1>3, <1>4, <1>5 DEF DecoderInv

-----------------------------------------------------------------------------
\* The invariant holds with empty directories and no decoder.
LEMMA InitEstablishes == Init => IInv
<1> SUFFICES ASSUME Init PROVE IInv
  OBVIOUS
<1>1. DecoderInv
  BY IdleIsGood DEF Init, DecoderInit
<1>2. /\ session = [number |-> 0, token |-> NoToken] /\ active = {}
      /\ recorded = [s \in Sides |-> 0] /\ writing = {} /\ <<>> \in Seq(File)
      /\ dir = [s \in Sides |-> <<>>] /\ host = [s \in Sides |-> [i \in Numbers |-> NoFile]]
      /\ copying = "no" /\ todo = {} /\ clean = FALSE /\ faults = 0
  BY DEF Init, FilesInit
<1>3. /\ NoFile \in File /\ NotLonger(NoFile) /\ NoToken \in Token
      /\ \A s \in Sides : Len(dir[s]) = 0
  BY <1>2 DEF NoFile, NoToken, File, Token, Mechs, NotLonger
<1>4. FilesTypeOK
  <2>1. session \in [number : 0 .. MaxSessions, token : Token] /\ faults \in 0 .. MaxFaults
    BY <1>2, <1>3, Limits
  <2>2. /\ recorded \in [Sides -> 0 .. MaxLegs] /\ dir \in [Sides -> Seq(File)]
        /\ host \in [Sides -> [Numbers -> File]]
    BY <1>2, <1>3, Limits
  <2> QED
    BY <1>2, <2>1, <2>2 DEF FilesTypeOK
<1>5. FilesGood
  BY <1>2, <1>3, Limits DEF FilesGood
<1>6. NoHole /\ LastSessionFirst /\ OfSession /\ CopiedSoFar
  BY <1>2, <1>3 DEF NoHole, LastSessionFirst, OfSession, CopiedSoFar
<1> QED
  BY <1>1, <1>4, <1>5, <1>6 DEF IInv, FilesInv

\* Files are not touched by the decoder, nor it by those who write them.
LEMMA NextPreserves == IInv /\ [Next]_vars => IInv'
<1> SUFFICES ASSUME IInv, [Next]_vars PROVE IInv'
  OBVIOUS
<1>1. UNCHANGED fileVars => FilesInv'
  <2> SUFFICES ASSUME UNCHANGED fileVars PROVE FilesInv'
    OBVIOUS
  <2>1. FilesTypeOK' /\ NoHole' /\ LastSessionFirst' /\ OfSession'
    BY DEF fileVars, copyVars, IInv, FilesInv, FilesTypeOK, NoHole, LastSessionFirst, OfSession
  <2>2. FilesGood' /\ CopiedSoFar'
    BY DEF fileVars, copyVars, IInv, FilesInv, FilesGood, NotLonger, CopiedSoFar, Current
  <2> QED
    BY <2>1, <2>2 DEF FilesInv
<1>2. UNCHANGED decoderVars => DecoderInv'
  <2> SUFFICES ASSUME UNCHANGED decoderVars PROVE DecoderInv'
    OBVIOUS
  <2>1. DecoderTypeOK' /\ GoodInput' /\ ShownSoFar'
    BY DEF decoderVars, IInv, DecoderInv, DecoderTypeOK, GoodInput, ShownSoFar
  <2>2. HoldsFile' /\ PrintedSoFar'
    BY DEF decoderVars, IInv, DecoderInv, HoldsFile, PrintedSoFar, Lines
  <2>3. PrintsBuffer' /\ ShownIsWhole'
    BY DEF decoderVars, IInv, DecoderInv, PrintsBuffer, ShownIsWhole, Lines
  <2> QED
    BY <2>1, <2>2, <2>3 DEF DecoderInv
<1>3. CASE FilesStep /\ UNCHANGED decoderVars
  BY <1>2, <1>3, FilesStepKeeps DEF IInv
<1>4. CASE Decode
  <2>1. PICK file \in HostFiles \cup {NoFile}, type \in Types : DOpen(file, type)
    BY <1>4 DEF Decode
  <2>2. file \in File /\ NotLonger(file)
    <3>1. CASE file = NoFile
      BY <3>1 DEF NoFile, NoToken, File, Token, Mechs, NotLonger
    <3>2. CASE file \in HostFiles
      BY <3>2, HostTypes DEF HostFiles, IInv
    <3> QED
      BY <2>1, <3>1, <3>2
  <2> QED
    BY <1>1, <1>4, <2>1, <2>2, OpenKeeps DEF Decode, IInv
<1>5. CASE DecoderStep /\ UNCHANGED fileVars
  BY <1>1, <1>5, EndKeeps, ChooseKeeps, ParseGssapiKeeps, PrintLineKeeps, ParseSpnegoKeeps
     DEF DecoderStep, IInv
<1>6. CASE UNCHANGED vars
  BY <1>1, <1>2, <1>6 DEF vars, IInv
<1> QED
  BY <1>3, <1>4, <1>5, <1>6 DEF Next

\* What record_token, copy-tokens.sh and the decoder keep between them.
THEOREM InspectionInvariant == Spec => []IInv
BY InitEstablishes, NextPreserves, PTL DEF Spec

\* Every variable has its type; the indexes print_bytes prints are in main's buffer.
THEOREM InspectionTypes == Spec => []TypeOK
<1>1. IInv => TypeOK
  BY DEF IInv, FilesInv, DecoderInv, GoodInput, TypeOK
<1> QED
  BY <1>1, InspectionInvariant, PTL

\* record_token's files of the last session come first in a container.
THEOREM RecordsOverwrite == Spec => []LastSessionFirst
<1>1. IInv => LastSessionFirst
  BY DEF IInv, FilesInv
<1> QED
  BY <1>1, InspectionInvariant, PTL

\* A copying in which nothing failed and beside which nothing was recorded leaves
\* the containers' files on the host, whatever happened before it.
THEOREM CopyBringsAll == Spec => []CopyIsCurrent
<1>1. IInv => CopyIsCurrent
  BY DEF IInv, FilesInv, CopiedSoFar, Current, CopyIsCurrent, Sides
<1> QED
  BY <1>1, InspectionInvariant, PTL

\* print_bytes prints its buffer, for any width of a line and any size.
THEOREM BufferIsPrinted == Spec => []PrintsBuffer
<1>1. IInv => PrintsBuffer
  BY DEF IInv, DecoderInv
<1> QED
  BY <1>1, InspectionInvariant, PTL

\* The decoder returns 0 with a structure shown only for a token that it has
\* read whole.
THEOREM OnlyWholeTokensShown == Spec => []ShownIsWhole
<1>1. IInv => ShownIsWhole
  BY DEF IInv, DecoderInv
<1> QED
  BY <1>1, InspectionInvariant, PTL
=============================================================================
