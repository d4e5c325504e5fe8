-------------------------- MODULE TokenInspection --------------------------
(***************************************************************************)
(* The inspection of tokens as gssapi/README.md and gssapi-parser/README.md *)
(* describe it: sessions with -r, copying to the host, decoding there.     *)
(***************************************************************************)
EXTENDS Decoder

vars == <<fileVars, decoderVars>>

Init == FilesInit /\ DecoderInit

HostFiles == {host[s][i] : s \in Sides, i \in Numbers}

\* The user decodes a file of the host, or one that is not there.  What the
\* programs and copy-tokens.sh do meanwhile comes before or after: the decoder
\* reads its file in one call.
Decode ==
    /\ active = {} /\ copying = "no"
    /\ \E file \in HostFiles \cup {NoFile}, type \in Types : DOpen(file, type)
    /\ UNCHANGED fileVars

Next ==
    \/ dpc = "idle" /\ FilesStep /\ UNCHANGED decoderVars
    \/ Decode
    \/ DecoderStep /\ UNCHANGED fileVars

Spec == Init /\ [][Next]_vars

-----------------------------------------------------------------------------
\* Every variable has its type.
TypeOK == FilesTypeOK /\ DecoderTypeOK /\ dfile \in File

\* record_token's overwriting: in each container the files this session has
\* written are its tokens in order, and all that is left behind them is older.
LastSessionFirst ==
    \A s \in Sides : \A i \in 1 .. Len(dir[s]) :
        IF i <= recorded[s]
        THEN dir[s][i].session = session.number /\ dir[s][i].leg = i
        ELSE dir[s][i].session < session.number

\* copy-tokens.sh: a copying in which no command failed and beside which no token
\* was recorded leaves on the host what the containers have, of both sides,
\* whatever is there from earlier sessions and from copyings that failed or were
\* interrupted.
CopyIsCurrent ==
    copying = "no" /\ clean =>
        \A s \in Sides : \A i \in 1 .. Len(dir[s]) : host[s][i] = dir[s][i]

\* print_bytes prints every byte of its buffer once, in order, and no other.
PrintsBuffer ==
    /\ Len(dout) <= dbytes
    /\ \A k \in 1 .. Len(dout) : dout[k] = k - 1
    /\ dpc = "print" /\ di = Lines => Len(dout) = dbytes

\* What the decoder shows and returns 0 for is the whole token, though the file
\* may have been cut short by a write, by a copy or by the end of a program, or
\* copied before it was written, and may be longer than the buffer.
ShownIsWhole ==
    dpc = "done" /\ dret = 0 /\ dshown # {} =>
        dfile.stored = dfile.token.size /\ dfile.token.size <= BufferSize
=============================================================================
