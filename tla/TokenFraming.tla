---------------------------- MODULE TokenFraming ----------------------------
(***************************************************************************)
(* The wire format of application/gssapi/utils.c.  send_token writes the   *)
(* length of a token as a uint32_t in network byte order and then the      *)
(* bytes of the token; recv_token reads the length, allocates that much    *)
(* and reads the bytes.  Each buffer goes through write_all or read_all, a *)
(* loop around write(2) or read(2), and the kernel may serve one buffer in *)
(* several pieces.                                                         *)
(*                                                                         *)
(* One action is one write(2) or read(2) together with the code up to the  *)
(* next one.  The loops address the next piece by the size of the LAST     *)
(* piece (buffer + bytes_read), not by the sum of the pieces: woff and     *)
(* roff below are single piece sizes, as in the code.                      *)
(*                                                                         *)
(* Buffers are sequences, so the cell at C offset i is element i + 1.      *)
(* malloc is taken to succeed.                                             *)
(***************************************************************************)
EXTENDS Integers, Sequences

CONSTANTS
    Base,          \* how many values a byte has
    Tokens,        \* the tokens one side sends to the other, in order
    HeaderPieces,  \* bound: system calls that may serve a length
    ValuePieces,   \* bound: system calls that may serve the bytes of a token
    MayFail,       \* whether a call may fail or the sender stop early
    Indeterminate  \* what a cell of memory holds before anything is written

HeaderLen == 4
Byte == 0 .. Base - 1

\* The length of every token fits its uint32_t.
ASSUME FramingAssumption ==
    /\ Base \in Nat /\ Base > 1
    /\ Tokens \in Seq(Seq(Byte))
    /\ \A t \in 1 .. Len(Tokens) : Len(Tokens[t]) < Base * Base * Base * Base
    /\ {HeaderPieces, ValuePieces} \subseteq Nat \ {0}
    /\ MayFail \in BOOLEAN
    /\ Indeterminate \notin Byte

VARIABLES
    wtok,    \* index of the token send_token is sending
    wpart,   \* the buffer write_all holds: the length or the value
    woff,    \* bytes_written, the offset of the next write
    wleft,   \* len, the bytes write_all has still to write
    wcalls,  \* write calls made for this buffer
    wire,    \* bytes the kernel holds for the receiver
    eof,     \* the sender is gone: read returns 0 once wire is empty
    rpart,   \* the buffer read_all fills, or how the receiver ended
    rbuf,    \* that buffer
    roff,    \* bytes_read, the offset of the next read
    rleft,   \* len, the bytes read_all has still to read
    rcalls,  \* read calls made for this buffer
    got      \* the tokens recv_token has returned

sendVars == <<wtok, wpart, woff, wleft, wcalls>>
recvVars == <<rpart, rbuf, roff, rleft, rcalls, got>>
vars == <<sendVars, wire, eof, recvVars>>

-----------------------------------------------------------------------------
\* htonl and ntohl: the digits of a length in base Base, the highest first.
Shift(n) == n \div Base

\* Faulty variants of HeaderOf: a length kept in one byte, and one that is not
\* cut into bytes.
NarrowHeader(n) == <<0, 0, 0, n % Base>>
UncutHeader(n) == <<0, 0, 0, n>>

HeaderOf(n) ==
    << Shift(Shift(Shift(n))) % Base, Shift(Shift(n)) % Base, Shift(n) % Base, n % Base >>

ValueOf(d) == ((d[1] * Base + d[2]) * Base + d[3]) * Base + d[4]

\* What the code may read from a stack buffer whose cells were not all written.
Completions(b) ==
    {d \in [1 .. HeaderLen -> Byte] :
        \A i \in 1 .. HeaderLen : b[i] # Indeterminate => d[i] = b[i]}

\* In how many pieces the kernel may serve a buffer.
Pieces(part) == IF part = "length" THEN HeaderPieces ELSE ValuePieces

Blank(n) == [i \in 1 .. n |-> Indeterminate]

-----------------------------------------------------------------------------
Init ==
    /\ wtok = 1 /\ wpart = "length" /\ woff = 0 /\ wleft = HeaderLen /\ wcalls = 0
    /\ wire = <<>> /\ eof = FALSE
    /\ rpart = "length" /\ rbuf = Blank(HeaderLen)
    /\ roff = 0 /\ rleft = HeaderLen /\ rcalls = 0
    /\ got = <<>>

Sending == wtok <= Len(Tokens) /\ ~eof

WriteBuffer ==
    IF wpart = "length" THEN HeaderOf(Len(Tokens[wtok])) ELSE Tokens[wtok]

\* write_all returned 0: send_token goes on from the length to the value, and
\* from the value to its caller, who sends the next token.  The value of an
\* empty token takes no write at all.
NextWriteBuffer ==
    /\ woff' = 0 /\ wcalls' = 0
    /\ IF wpart = "length" /\ Len(Tokens[wtok]) > 0
       THEN wtok' = wtok /\ wpart' = "value" /\ wleft' = Len(Tokens[wtok])
       ELSE wtok' = wtok + 1 /\ wpart' = "length" /\ wleft' = HeaderLen

\* Faulty variant of Write: len -= bytes_written left out.
WriteKeepingLength(k) ==
    /\ Sending
    /\ wcalls + 1 >= Pieces(wpart) => k = wleft
    /\ wire' = wire \o [j \in 1 .. k |-> WriteBuffer[1]]
    /\ \/ k = wleft /\ NextWriteBuffer
       \/ /\ k < wleft
          /\ woff' = k /\ wcalls' = wcalls + 1
          /\ UNCHANGED <<wtok, wpart, wleft>>
    /\ UNCHANGED <<eof, recvVars>>

\* One write(2), which takes k bytes from buffer + bytes_written.
Write(k) ==
    /\ Sending
    /\ wcalls + 1 >= Pieces(wpart) => k = wleft
    /\ wire' = wire \o [j \in 1 .. k |-> WriteBuffer[woff + j]]
    /\ \/ k = wleft /\ NextWriteBuffer
       \/ /\ k < wleft
          /\ woff' = k /\ wleft' = wleft - k /\ wcalls' = wcalls + 1
          /\ UNCHANGED <<wtok, wpart>>
    /\ UNCHANGED <<eof, recvVars>>

\* The sender is done, or write returned -1 and send_token too, or it was
\* stopped.  What it has written stays readable.
SenderExit ==
    /\ ~eof
    /\ MayFail \/ wtok > Len(Tokens)
    /\ eof' = TRUE
    /\ UNCHANGED <<sendVars, wire, recvVars>>

-----------------------------------------------------------------------------
Receiving == rpart \in {"length", "value"}

\* Faulty variant of Filled: every piece is read to the start of the buffer.
FilledAtStart(k) ==
    [i \in 1 .. Len(rbuf) |-> IF i \in 1 .. k THEN wire[i] ELSE rbuf[i]]

\* The buffer after k bytes were read to buffer + bytes_read.
Filled(k) ==
    [i \in 1 .. Len(rbuf) |->
        IF i \in roff + 1 .. roff + k THEN wire[i - roff] ELSE rbuf[i]]

\* recv_token returns the token and is called for the next, if one is due.
ReturnToken(token) ==
    /\ got' = Append(got, token)
    /\ rpart' = IF Len(got) + 1 < Len(Tokens) THEN "length" ELSE "done"
    /\ rbuf' = Blank(HeaderLen) /\ roff' = 0 /\ rleft' = HeaderLen /\ rcalls' = 0

\* The length is there: recv_token decodes it, allocates that many bytes and
\* reads them; if there are none, read_all returns at once.
LengthComplete(header) ==
    \E d \in Completions(header) :
        IF ValueOf(d) = 0
        THEN ReturnToken(<<>>)
        ELSE /\ rpart' = "value" /\ rbuf' = Blank(ValueOf(d))
             /\ roff' = 0 /\ rleft' = ValueOf(d) /\ rcalls' = 0
             /\ UNCHANGED got

\* One read(2) that returns k > 0 bytes.
Read(k) ==
    /\ Receiving /\ k <= Len(wire)
    /\ rcalls + 1 >= Pieces(rpart) => k = rleft
    /\ wire' = SubSeq(wire, k + 1, Len(wire))
    /\ \/ /\ k < rleft
          /\ rbuf' = Filled(k) /\ roff' = k /\ rleft' = rleft - k /\ rcalls' = rcalls + 1
          /\ UNCHANGED <<rpart, got>>
       \/ k = rleft /\ rpart = "length" /\ LengthComplete(Filled(k))
       \/ k = rleft /\ rpart = "value" /\ ReturnToken(Filled(k))
    /\ UNCHANGED <<sendVars, eof>>

\* read(2) returns 0 at the end of the stream.  read_all compares only with
\* -1, so it takes nothing off len and calls read again, for ever.
ReadEof ==
    /\ Receiving /\ eof /\ wire = <<>>
    /\ roff' = 0
    /\ UNCHANGED <<sendVars, wire, eof, rpart, rbuf, rleft, rcalls, got>>

\* read(2) returns -1 and recv_token returns -1.
ReadFails ==
    /\ Receiving /\ MayFail
    /\ rpart' = "failed"
    /\ UNCHANGED <<sendVars, wire, eof, rbuf, roff, rleft, rcalls, got>>

-----------------------------------------------------------------------------
SenderStep == (\E k \in 1 .. wleft : Write(k)) \/ SenderExit
ReceiverStep == (\E k \in 1 .. rleft : Read(k)) \/ ReadEof \/ ReadFails

\* Both sides have ended: nothing moves any more.
Ended == eof /\ ~Receiving /\ UNCHANGED vars

Next == SenderStep \/ ReceiverStep \/ Ended

Spec == Init /\ [][Next]_vars

\* Neither process waits for anything but its own next system call, and a call
\* with bytes or room available returns.
FairSpec ==
    /\ Spec
    /\ WF_vars(\E k \in 1 .. wleft : Write(k))
    /\ WF_vars(\E k \in 1 .. rleft : Read(k))

-----------------------------------------------------------------------------
\* Every variable has its type; the bytes in flight are bytes of the sender's
\* buffers, never an unwritten cell.
TypeOK ==
    /\ wtok \in 1 .. Len(Tokens) + 1 /\ wpart \in {"length", "value"}
    /\ woff \in Nat /\ wleft \in Nat \ {0} /\ wcalls \in Nat
    /\ wire \in Seq(Byte) /\ eof \in BOOLEAN
    /\ rpart \in {"length", "value", "done", "failed"}
    /\ rbuf \in Seq(Byte \cup {Indeterminate})
    /\ roff \in Nat /\ rleft \in Nat \ {0} /\ rcalls \in Nat
    /\ got \in Seq(Seq(Byte \cup {Indeterminate}))

\* No write(2) or read(2) of write_all and read_all, however the kernel cuts
\* the buffer, reaches past the end of the buffer: the offset is wrong from
\* the third piece on, but it only ever errs towards the start.
WithinBuffer ==
    /\ wtok <= Len(Tokens) => woff + wleft <= Len(WriteBuffer)
    /\ Receiving => roff + rleft <= Len(rbuf)

\* What recv_token returns is what send_token was given, in order and whole.
DeliveredIsPrefix ==
    /\ Len(got) <= Len(Tokens)
    /\ \A i \in 1 .. Len(got) : got[i] = Tokens[i]

\* While the lengths get through, a value that write_all or read_all garbles
\* still has its length, so the stream stays aligned: the next token starts
\* where the receiver looks for it.
LengthPreserved ==
    /\ Len(got) <= Len(Tokens)
    /\ \A i \in 1 .. Len(got) : Len(got[i]) = Len(Tokens[i])

\* The receiver never has a token the sender has not completely written.
NothingEarly == Len(got) < wtok

\* The channel the callers of send_token and recv_token rely on.
Channel == INSTANCE TokenChannel WITH sent <- wtok - 1, delivered <- got

ChannelSpec == Channel!Spec
FairChannelSpec == Channel!FairSpec
=============================================================================
