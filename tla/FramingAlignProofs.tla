------------------------- MODULE FramingAlignProofs -------------------------
(***************************************************************************)
(* As long as the four bytes of a length take at most two system calls,    *)
(* the stream of TokenFraming stays aligned, however many calls a value    *)
(* takes; and if no value takes more than two either, it is the channel    *)
(* TokenChannel.  The offset of a second piece is the size of the first,   *)
(* which is where the piece belongs.                                       *)
(***************************************************************************)
EXTENDS TokenFramingProofs

\* How many bytes a token takes on the wire, and the i-th of them.
Size(t) == HeaderLen + Len(Tokens[t])
ByteOf(t, i) ==
    IF i <= HeaderLen THEN HeaderOf(Len(Tokens[t]))[i] ELSE Tokens[t][i - HeaderLen]

\* The token recv_token is reading, and how many of its bytes are read or written.
Reading == Len(got) + 1
Taken == IF rpart = "length" THEN HeaderLen - rleft ELSE Size(Reading) - rleft
Written == IF wpart = "length" THEN HeaderLen - wleft ELSE Size(wtok) - wleft

\* What read_all is to fill its buffer with.
Wanted ==
    IF rpart = "length" THEN HeaderOf(Len(Tokens[Reading])) ELSE Tokens[Reading]

-----------------------------------------------------------------------------
\* write_all is in its first call for a buffer or addresses the right place.
WriteInPlace ==
    /\ wtok > Len(Tokens) => wpart = "length" /\ wleft = HeaderLen
    /\ wtok <= Len(Tokens) =>
         /\ wcalls = 0 => wleft = Len(WriteBuffer)
         /\ Pieces(wpart) <= 2 => woff = Len(WriteBuffer) - wleft

\* read_all too, unless the stream has ended; and what it has filled is right.
ReadInPlace ==
    /\ rpart = "length" => Len(rbuf) = HeaderLen
    /\ rpart = "value" => Reading <= Len(Tokens) /\ Len(rbuf) = Len(Tokens[Reading])
    /\ rcalls = 0 => rleft = Len(rbuf)
    /\ Pieces(rpart) <= 2 =>
         /\ roff = Len(rbuf) - rleft \/ (eof /\ wire = <<>>)
         /\ \A i \in 1 .. Len(rbuf) - rleft : rbuf[i] = Wanted[i]

\* p[t] is where token t starts on the wire; what recv_token has read of its
\* token lies before the wire, and what send_token has written ends it.
Placed(p) ==
    /\ Reading <= wtok
    /\ \A t \in Reading .. wtok : p[t] \in Int
    /\ p[Reading] = 0 - Taken
    /\ \A t \in Reading .. wtok - 1 :
          p[t + 1] = p[t] + Size(t) /\ p[t + 1] <= p[wtok]
    /\ p[wtok] + Written = Len(wire)

\* The bytes on the wire are those of the lengths, and of the values if these
\* are not garbled.
Carried(p) ==
    \A t \in Reading .. wtok :
        t <= Len(Tokens) =>
            \A i \in 1 .. Size(t) :
                /\ i <= HeaderLen \/ ValuePieces <= 2
                /\ p[t] + i \in 1 .. Len(wire)
                => wire[p[t] + i] = ByteOf(t, i)

StreamInPlace == \E p : Placed(p) /\ Carried(p)

\* The tokens delivered so far.
GotInPlace ==
    /\ LengthPreserved
    /\ ValuePieces <= 2 => \A i \in 1 .. Len(got) : got[i] = Tokens[i]

AlignInv ==
    /\ FramingInv
    /\ GotInPlace
    /\ WriteInPlace
    /\ Receiving => ReadInPlace /\ StreamInPlace

-----------------------------------------------------------------------------
\* The numbers in the invariant are numbers.
LEMMA Numbers ==
    ASSUME FramingInv
    PROVE  /\ Len(Tokens) \in Nat /\ Len(got) \in Nat /\ Len(wire) \in Nat
           /\ Len(rbuf) \in Nat /\ Reading \in Nat /\ Reading >= 1
           /\ wtok \in Nat /\ wtok >= 1 /\ wtok <= Len(Tokens) + 1
           /\ woff \in Nat /\ wleft \in Nat /\ wleft >= 1 /\ wcalls \in Nat
           /\ roff \in Nat /\ rleft \in Nat /\ rleft >= 1 /\ rcalls \in Nat
           /\ \A t \in 1 .. Len(Tokens) : Len(Tokens[t]) \in Nat /\ Size(t) \in Nat
           /\ HeaderLen = 4 /\ {HeaderPieces, ValuePieces} \subseteq Nat
<1>1. Len(Tokens) \in Nat /\ {HeaderPieces, ValuePieces} \subseteq Nat
  BY FramingAssumption
<1>2. Len(got) \in Nat /\ Len(wire) \in Nat /\ Len(rbuf) \in Nat
  BY DEF FramingInv, TypeOK
<1>3. \A t \in 1 .. Len(Tokens) : Len(Tokens[t]) \in Nat /\ Size(t) \in Nat
  BY TokensType DEF Size, HeaderLen
<1> QED
  BY <1>1, <1>2, <1>3 DEF FramingInv, TypeOK, Reading, HeaderLen

\* How far send_token is in its token.
LEMMA WrittenIs ==
    ASSUME FramingInv, WriteInPlace
    PROVE  /\ Written \in Nat
           /\ wtok > Len(Tokens) => Written = 0
           /\ wtok <= Len(Tokens) =>
                /\ Written + wleft <= Size(wtok)
                /\ wpart = "length" => Written + wleft = HeaderLen
                /\ wpart = "value" => Written + wleft = Size(wtok) /\ Written >= HeaderLen
                /\ wleft <= Len(WriteBuffer)
                /\ Len(WriteBuffer) =
                     IF wpart = "length" THEN HeaderLen ELSE Len(Tokens[wtok])
<1>1. /\ wtok \in Nat /\ Len(Tokens) \in Nat /\ wtok >= 1 /\ HeaderLen = 4
      /\ wleft \in Nat /\ wleft >= 1 /\ woff \in Nat
  BY Numbers
<1>2. CASE wtok > Len(Tokens)
  BY <1>1, <1>2 DEF WriteInPlace, Written
<1>3. CASE wtok <= Len(Tokens)
  <2>1. Len(Tokens[wtok]) \in Nat /\ Size(wtok) = HeaderLen + Len(Tokens[wtok])
    BY <1>1, <1>3, Numbers DEF Size
  <2>2. woff + wleft <= Len(WriteBuffer)
    BY <1>3 DEF FramingInv, WithinBuffer
  <2>3. CASE wpart = "length"
    <3>1. Len(WriteBuffer) = HeaderLen /\ Written = HeaderLen - wleft
      BY <2>1, <2>3, HeaderType DEF WriteBuffer, Written
    <3> QED
      BY ONLY <1>1, <1>3, <2>1, <2>2, <2>3, <3>1
  <2>4. CASE wpart = "value"
    <3>1. Len(WriteBuffer) = Len(Tokens[wtok]) /\ Written = Size(wtok) - wleft
      BY <2>4 DEF WriteBuffer, Written
    <3> QED
      BY ONLY <1>1, <1>3, <2>1, <2>2, <2>4, <3>1
  <2> QED
    BY <2>3, <2>4 DEF FramingInv, TypeOK
<1> QED
  BY ONLY <1>1, <1>2, <1>3

\* In its first two calls write_all writes the bytes that come next.
LEMMA WriteBytes ==
    ASSUME FramingInv, WriteInPlace, wtok <= Len(Tokens), Pieces(wpart) <= 2,
           NEW j \in 1 .. wleft
    PROVE  WriteBuffer[woff + j] = ByteOf(wtok, Written + j)
<1>1. woff = Len(WriteBuffer) - wleft
  BY DEF WriteInPlace
<1>2. /\ wleft \in Nat /\ j \in Nat /\ j >= 1 /\ j <= wleft /\ HeaderLen = 4
      /\ wtok \in 1 .. Len(Tokens) /\ woff \in Nat /\ Len(Tokens[wtok]) \in Nat
  <2>1. /\ wleft \in Nat /\ HeaderLen = 4 /\ wtok \in Nat /\ wtok >= 1 /\ woff \in Nat
        /\ Len(Tokens) \in Nat
    BY Numbers
  <2>2. wtok \in 1 .. Len(Tokens)
    BY <2>1
  <2> QED
    BY <2>1, <2>2, TokensType
<1>3. CASE wpart = "length"
  <2>1. Len(WriteBuffer) = HeaderLen /\ Written = HeaderLen - wleft
    BY <1>3, WrittenIs DEF Written
  <2>2. Written + j = woff + j /\ woff + j <= HeaderLen
    BY ONLY <1>1, <1>2, <2>1
  <2> QED
    BY <1>3, <2>2 DEF WriteBuffer, ByteOf
<1>4. CASE wpart = "value"
  <2>1. /\ Len(WriteBuffer) = Len(Tokens[wtok])
        /\ Written = (HeaderLen + Len(Tokens[wtok])) - wleft
    BY <1>4, WrittenIs DEF Written, Size
  <2>2. Written + j > HeaderLen /\ (Written + j) - HeaderLen = woff + j
    BY ONLY <1>1, <1>2, <2>1
  <2>3. WriteBuffer = Tokens[wtok]
    BY <1>4 DEF WriteBuffer
  <2>4. ~(Written + j <= HeaderLen)
    BY ONLY <1>2, <2>1, <2>2
  <2> QED
    BY <2>2, <2>3, <2>4 DEF ByteOf
<1> QED
  BY <1>3, <1>4 DEF FramingInv, TypeOK

\* What is written goes behind what is on the wire.
LEMMA WriteAppends ==
    ASSUME FramingInv, NEW k \in 1 .. wleft, Write(k)
    PROVE  /\ Len(wire') = Len(wire) + k
           /\ \A i \in 1 .. Len(wire) : wire'[i] = wire[i]
           /\ \A j \in 1 .. k : wire'[Len(wire) + j] = WriteBuffer[woff + j]
<1> DEFINE piece == [j \in 1 .. k |-> WriteBuffer[woff + j]]
<1>1. wire' = wire \o piece /\ k \in Nat /\ Len(wire) \in Nat /\ wtok <= Len(Tokens)
  BY Numbers DEF Write, Sending
<1>2. WriteBuffer \in Seq(Byte) /\ woff + wleft <= Len(WriteBuffer)
  BY <1>1, WriteBufferType DEF FramingInv, WithinBuffer
<1>3. piece \in Seq(Byte) /\ Len(piece) = k
  <2>1. \A j \in 1 .. k : woff + j \in 1 .. Len(WriteBuffer)
    <3>1. woff \in Nat /\ wleft \in Nat /\ k <= wleft /\ Len(WriteBuffer) \in Nat
      BY <1>2, Numbers
    <3> QED
      BY ONLY <1>1, <1>2, <3>1
  <2>2. \A j \in 1 .. k : WriteBuffer[woff + j] \in Byte
    BY <1>2, <2>1
  <2> QED
    BY <1>1, <2>2
<1>4. wire \in Seq(Byte)
  BY DEF FramingInv, TypeOK
<1>5. \A j \in 1 .. k : piece[j] = WriteBuffer[woff + j]
  OBVIOUS
<1> HIDE DEF piece
<1>6. /\ Len(wire \o piece) = Len(wire) + k
      /\ \A i \in 1 .. Len(wire) : (wire \o piece)[i] = wire[i]
      /\ \A j \in 1 .. k : (wire \o piece)[Len(wire) + j] = piece[j]
  <2>1. Len(wire \o piece) = Len(wire) + k
    BY ONLY <1>3, <1>4
  <2>2. \A i \in 1 .. Len(wire) : (wire \o piece)[i] = wire[i]
    BY ONLY <1>3, <1>4
  <2>3. \A j \in 1 .. k : (wire \o piece)[Len(wire) + j] = piece[j]
    <3>1. ASSUME NEW j \in 1 .. k PROVE (wire \o piece)[Len(wire) + j] = piece[j]
      <4>1. /\ Len(wire) + j \in 1 .. Len(wire) + Len(piece)
            /\ ~(Len(wire) + j <= Len(wire)) /\ (Len(wire) + j) - Len(wire) = j
        BY ONLY <1>1, <1>3, <3>1
      <4> QED
        BY ONLY <1>1, <1>3, <1>4, <4>1
    <3> QED
      BY <3>1
  <2> QED
    BY <2>1, <2>2, <2>3
<1> QED
  BY ONLY <1>1, <1>5, <1>6

\* A write takes send_token k bytes further, or to its next token.
LEMMA WriteAdvances ==
    ASSUME FramingInv, WriteInPlace, NEW k \in 1 .. wleft, Write(k)
    PROVE  \/ wtok' = wtok /\ Written' = Written + k
           \/ wtok' = wtok + 1 /\ Written' = 0 /\ Written + k = Size(wtok)
<1>1. /\ wtok \in Nat /\ wleft \in Nat /\ k \in Nat /\ wtok <= Len(Tokens) /\ HeaderLen = 4
      /\ Len(Tokens[wtok]) \in Nat /\ Written \in Nat /\ UNCHANGED got
      /\ wpart \in {"length", "value"}
  BY Numbers, WrittenIs DEF Write, Sending, recvVars, FramingInv, TypeOK
<1>2. CASE k < wleft /\ wleft' = wleft - k /\ UNCHANGED <<wtok, wpart>>
  <2>1. Written = (IF wpart = "length" THEN HeaderLen ELSE Size(wtok)) - wleft
    BY DEF Written
  <2>2. Written' = (IF wpart = "length" THEN HeaderLen ELSE Size(wtok)) - (wleft - k)
    BY <1>2 DEF Written, Size
  <2>3. (IF wpart = "length" THEN HeaderLen ELSE Size(wtok)) \in Nat
    BY <1>1 DEF Size
  <2> QED
    BY ONLY <1>1, <1>2, <2>1, <2>2, <2>3
<1>3. CASE k = wleft /\ NextWriteBuffer
  <2>1. CASE wpart = "length" /\ Len(Tokens[wtok]) > 0
    <3>1. wtok' = wtok /\ wpart' = "value" /\ wleft' = Len(Tokens[wtok])
      BY <1>3, <2>1 DEF NextWriteBuffer
    <3>2. Written' = (HeaderLen + Len(Tokens[wtok])) - Len(Tokens[wtok])
      BY <3>1 DEF Written, Size
    <3>3. Written + wleft = HeaderLen
      BY <1>1, <2>1, WrittenIs
    <3> QED
      BY ONLY <1>1, <1>3, <3>1, <3>2, <3>3
  <2>2. CASE ~(wpart = "length" /\ Len(Tokens[wtok]) > 0)
    <3>1. wtok' = wtok + 1 /\ wpart' = "length" /\ wleft' = HeaderLen
      BY <1>3, <2>2 DEF NextWriteBuffer
    <3>2. Written' = HeaderLen - HeaderLen
      BY <3>1 DEF Written
    <3>3. Written + wleft = Size(wtok)
      <4>1. CASE wpart = "length"
        BY <1>1, <2>2, <4>1, WrittenIs DEF Size
      <4>2. CASE wpart = "value"
        BY <1>1, <4>2, WrittenIs
      <4> QED
        BY <1>1, <4>1, <4>2
    <3> QED
      BY ONLY <1>1, <1>3, <3>1, <3>2, <3>3
  <2> QED
    BY <2>1, <2>2
<1> QED
  BY <1>2, <1>3 DEF Write

\* The next call of write_all addresses the right place again, if it is the
\* first for its buffer or the second of two.
LEMMA WriteKeepsPlace ==
    ASSUME FramingInv, WriteInPlace, NEW k \in 1 .. wleft, Write(k)
    PROVE  WriteInPlace'
<1>1. /\ wtok \in Nat /\ wleft \in Nat /\ k \in Nat /\ wtok <= Len(Tokens) /\ HeaderLen = 4
      /\ Len(Tokens) \in Nat /\ Len(Tokens[wtok]) \in Nat /\ wcalls \in Nat
  <2>1. /\ wtok \in Nat /\ wtok >= 1 /\ wleft \in Nat /\ HeaderLen = 4
        /\ Len(Tokens) \in Nat /\ wcalls \in Nat
    BY Numbers
  <2>2. wtok <= Len(Tokens)
    BY DEF Write, Sending
  <2> QED
    BY <2>1, <2>2, TokensType
<1>2. CASE k < wleft /\ woff' = k /\ wleft' = wleft - k /\ wcalls' = wcalls + 1
           /\ UNCHANGED <<wtok, wpart>>
  <2>1. WriteBuffer' = WriteBuffer /\ Pieces(wpart)' = Pieces(wpart)
    BY <1>2 DEF WriteBuffer, Pieces
  <2>2. Pieces(wpart) <= 2 => k = Len(WriteBuffer) - (wleft - k)
    <3> SUFFICES ASSUME Pieces(wpart) <= 2 PROVE k = Len(WriteBuffer) - (wleft - k)
      OBVIOUS
    <3>1. Pieces(wpart) \in Nat
      BY Numbers DEF Pieces
    <3>2. ~(wcalls + 1 >= Pieces(wpart))
      BY <1>1, <1>2 DEF Write
    <3>3. wcalls = 0
      BY ONLY <1>1, <3>1, <3>2, Pieces(wpart) <= 2
    <3>4. Len(WriteBuffer) = wleft
      BY <1>1, <3>3 DEF WriteInPlace
    <3> QED
      BY ONLY <1>1, <3>4
  <2>3. wcalls' # 0
    BY <1>1, <1>2
  <2> QED
    BY <1>1, <1>2, <2>1, <2>2, <2>3 DEF WriteInPlace
<1>3. CASE k = wleft /\ NextWriteBuffer
  <2>1. CASE wpart = "length" /\ Len(Tokens[wtok]) > 0
    <3>1. /\ wtok' = wtok /\ wpart' = "value" /\ wleft' = Len(Tokens[wtok]) /\ woff' = 0
          /\ WriteBuffer' = Tokens[wtok]
      BY <1>3, <2>1 DEF NextWriteBuffer, WriteBuffer
    <3> QED
      BY <1>1, <3>1 DEF WriteInPlace
  <2>2. CASE ~(wpart = "length" /\ Len(Tokens[wtok]) > 0)
    <3>1. /\ wtok' = wtok + 1 /\ wpart' = "length" /\ wleft' = HeaderLen /\ woff' = 0
          /\ WriteBuffer' = HeaderOf(Len(Tokens[wtok + 1]))
      BY <1>3, <2>2 DEF NextWriteBuffer, WriteBuffer
    <3>2. wtok + 1 <= Len(Tokens) => Len(WriteBuffer') = HeaderLen
      BY <1>1, <3>1, TokensType, HeaderType
    <3> QED
      BY <1>1, <3>1, <3>2 DEF WriteInPlace
  <2> QED
    BY <2>1, <2>2
<1> QED
  BY <1>2, <1>3 DEF Write

\* Where the tokens start, and that those before the last have been written.
LEMMA PlacedIs ==
    ASSUME FramingInv, WriteInPlace, NEW p, Placed(p)
    PROVE  /\ p[wtok] \in Int /\ p[wtok] <= Len(wire)
           /\ \A t \in Reading .. wtok :
                t # wtok => /\ t <= Len(Tokens) /\ p[t] \in Int /\ Size(t) \in Nat
                            /\ p[t + 1] = p[t] + Size(t)
                            /\ p[t] + Size(t) <= Len(wire)
<1>1. /\ wtok \in Nat /\ Reading \in Nat /\ Reading >= 1 /\ Len(Tokens) \in Nat
      /\ wtok <= Len(Tokens) + 1 /\ Len(wire) \in Nat /\ Written \in Nat
  BY Numbers, WrittenIs
<1>2. p[wtok] \in Int /\ p[wtok] + Written = Len(wire)
  BY <1>1 DEF Placed
<1>3. p[wtok] <= Len(wire)
  BY ONLY <1>1, <1>2
<1>4. ASSUME NEW t \in Reading .. wtok, t # wtok
      PROVE  /\ t <= Len(Tokens) /\ p[t] \in Int /\ Size(t) \in Nat
             /\ p[t + 1] = p[t] + Size(t) /\ p[t] + Size(t) <= Len(wire)
  <2>1. t \in Nat /\ t \in Reading .. wtok - 1 /\ t \in 1 .. Len(Tokens)
    BY ONLY <1>1, <1>4
  <2>2. p[t] \in Int /\ Size(t) \in Nat
    BY <1>4, <2>1, Numbers DEF Placed
  <2>3. p[t + 1] = p[t] + Size(t) /\ p[t + 1] <= p[wtok]
    BY <2>1 DEF Placed
  <2>4. p[t] + Size(t) <= Len(wire)
    BY ONLY <1>1, <1>2, <1>3, <2>2, <2>3
  <2> QED
    BY ONLY <2>1, <2>2, <2>3, <2>4
<1> QED
  BY ONLY <1>2, <1>3, <1>4

\* A write keeps the stream in its place.
LEMMA WriteKeepsStream ==
    ASSUME HeaderPieces <= 2, FramingInv, WriteInPlace, StreamInPlace,
           NEW k \in 1 .. wleft, Write(k)
    PROVE  StreamInPlace'
<1>1. PICK p : Placed(p) /\ Carried(p)
  BY DEF StreamInPlace
<1>2. /\ wtok \in Nat /\ Reading \in Nat /\ Reading >= 1 /\ wleft \in Nat
      /\ k \in Nat /\ k >= 1
      /\ Len(Tokens) \in Nat /\ wtok <= Len(Tokens) /\ Len(wire) \in Nat /\ HeaderLen = 4
      /\ Written \in Nat /\ Written + wleft <= Size(wtok) /\ Size(wtok) \in Nat
      /\ k <= wleft
  <2>1. /\ wtok \in Nat /\ Reading \in Nat /\ Reading >= 1 /\ wleft \in Nat
        /\ Len(Tokens) \in Nat /\ Len(wire) \in Nat /\ HeaderLen = 4 /\ wtok >= 1
    BY Numbers
  <2>2. wtok <= Len(Tokens)
    BY DEF Write, Sending
  <2>3. Size(wtok) \in Nat
    BY <2>1, <2>2, Numbers
  <2>4. Written \in Nat /\ Written + wleft <= Size(wtok)
    BY <2>2, WrittenIs
  <2>5. k \in Nat /\ k >= 1 /\ k <= wleft
    BY ONLY <2>1, k \in 1 .. wleft
  <2> QED
    BY <2>1, <2>2, <2>3, <2>4, <2>5
<1>3. /\ Reading' = Reading /\ Taken' = Taken
      /\ Len(wire') = Len(wire) + k
      /\ p[Reading] = 0 - Taken /\ Reading <= wtok
      /\ p[wtok] + Written = Len(wire) /\ p[wtok] \in Int /\ p[wtok] <= Len(wire)
  BY <1>1, WriteAppends, PlacedIs DEF Placed, Write, recvVars, Reading, Taken, Size
<1>4. /\ p[wtok] \in Int /\ Len(wire) \in Nat /\ Written \in Nat /\ k \in Nat
      /\ p[wtok] + Written = Len(wire) /\ Len(wire') = Len(wire) + k
  BY ONLY <1>2, <1>3
<1>5. ASSUME NEW t \in Reading .. wtok, NEW i \in 1 .. Size(t),
             i <= HeaderLen \/ ValuePieces <= 2, p[t] + i \in 1 .. Len(wire')
      PROVE  wire'[p[t] + i] = ByteOf(t, i)
  <2>1. t \in Nat /\ t \in 1 .. Len(Tokens) /\ Size(t) \in Nat /\ p[t] \in Int /\ i \in Nat
    <3>1. t \in Nat /\ t \in 1 .. Len(Tokens)
      BY ONLY <1>2, <1>5
    <3>2. p[t] \in Int
      BY <1>1, <1>5 DEF Placed
    <3> QED
      BY <1>5, <3>1, <3>2, Numbers
  <2>2. CASE p[t] + i <= Len(wire)
    <3>1. p[t] + i \in 1 .. Len(wire)
      BY ONLY <1>2, <1>3, <1>5, <2>1, <2>2
    <3>2. wire'[p[t] + i] = wire[p[t] + i]
      BY <3>1, WriteAppends
    <3>3. i <= HeaderLen \/ ValuePieces <= 2 => wire[p[t] + i] = ByteOf(t, i)
      BY ONLY <1>1, <1>2, <2>1, <3>1, t \in Reading .. wtok, i \in 1 .. Size(t) DEF Carried
    <3> QED
      BY ONLY <1>5, <3>2, <3>3
  <2>3. CASE p[t] + i > Len(wire)
    <3>1. t = wtok
      <4> SUFFICES ASSUME t # wtok PROVE FALSE
        OBVIOUS
      <4>1. p[t] + Size(t) <= Len(wire)
        BY <1>1, <1>5, PlacedIs
      <4> QED
        BY ONLY <1>2, <2>1, <2>3, <4>1, i \in 1 .. Size(t)
    <3> DEFINE j == i - Written
    <3>2. j \in 1 .. k /\ i = Written + j /\ p[t] + i = Len(wire) + j
      <4>1. i <= Size(wtok) /\ p[wtok] + i > Len(wire) /\ p[wtok] + i <= Len(wire) + k
        BY ONLY <1>2, <1>3, <2>1, <2>3, <3>1,
                i \in 1 .. Size(t), p[t] + i \in 1 .. Len(wire')
      <4>2. i > Written /\ i <= Written + k /\ i \in Nat
        BY ONLY <1>4, <2>1, <4>1
      <4>3. j \in 1 .. k /\ i = Written + j
        BY ONLY <1>4, <4>2
      <4>4. p[wtok] + (Written + j) = Len(wire) + j
        BY ONLY <1>4, <4>2
      <4> QED
        BY <3>1, <4>3, <4>4
    <3>3. wire'[p[t] + i] = WriteBuffer[woff + j]
      BY <3>2, WriteAppends
    <3>4. Pieces(wpart) <= 2
      <4>1. wpart = "value" => Written >= HeaderLen
        BY <1>2, WrittenIs
      <4>2. wpart = "value" => i > HeaderLen
        BY ONLY <1>2, <3>2, <4>1
      <4>3. wpart = "value" => ValuePieces <= 2
        BY ONLY <1>2, <1>5, <2>1, <4>2
      <4> QED
        BY <4>3 DEF Pieces, FramingInv, TypeOK
    <3>5. j \in 1 .. wleft
      BY ONLY <1>2, <3>2
    <3>6. WriteBuffer[woff + j] = ByteOf(wtok, Written + j)
      BY <1>2, <3>4, <3>5, WriteBytes
    <3> QED
      BY <3>1, <3>2, <3>3, <3>6
  <2> QED
    BY ONLY <1>2, <2>1, <2>2, <2>3
<1>6. CASE wtok' = wtok /\ Written' = Written + k
  <2>1. p[wtok] + Written' = Len(wire')
    BY ONLY <1>2, <1>3, <1>6
  <2>2. Placed(p)'
    BY <1>1, <1>3, <1>6, <2>1 DEF Placed
  <2>3. Carried(p)'
    BY <1>3, <1>5, <1>6 DEF Carried
  <2> QED
    BY <2>2, <2>3 DEF StreamInPlace
<1>7. CASE wtok' = wtok + 1 /\ Written' = 0 /\ Written + k = Size(wtok)
  <2>1. PICK q : q = [t \in Reading .. wtok + 1 |->
                        IF t = wtok + 1 THEN Len(wire) + k ELSE p[t]]
    OBVIOUS
  <2>2. q[wtok + 1] = Len(wire') /\ \A t \in Reading .. wtok : q[t] = p[t]
    BY ONLY <1>2, <1>3, <2>1
  <2>3. Placed(q)'
    <3>1. Reading <= wtok + 1 /\ q[Reading] = 0 - Taken
      BY <1>2, <1>3, <2>2
    <3>2. ASSUME NEW t \in Reading .. (wtok + 1) - 1
          PROVE  q[t + 1] = q[t] + Size(t) /\ q[t + 1] <= q[wtok + 1]
      <4>1. CASE t = wtok
        <5>1. q[wtok + 1] = p[wtok] + Size(wtok)
          BY ONLY <1>4, <1>7, <2>2
        <5> QED
          BY <1>2, <1>3, <2>2, <4>1, <5>1
      <4>2. CASE t # wtok
        <5>1. t \in Reading .. wtok /\ t + 1 \in Reading .. wtok
          BY ONLY <1>2, <3>2, <4>2
        <5>2. /\ p[t + 1] = p[t] + Size(t) /\ p[t] + Size(t) <= Len(wire)
              /\ p[t] \in Int /\ Size(t) \in Nat
          BY <1>1, <4>2, <5>1, PlacedIs
        <5>3. q[t] = p[t] /\ q[t + 1] = p[t + 1]
          BY <2>2, <5>1
        <5> QED
          BY ONLY <1>2, <1>3, <2>2, <5>2, <5>3
      <4> QED
        BY <4>1, <4>2
    <3>3. q[wtok + 1] + 0 = Len(wire')
      BY ONLY <1>4, <2>2
    <3>4. ASSUME NEW t \in Reading .. wtok + 1 PROVE q[t] \in Int
      <4>1. CASE t = wtok + 1
        BY ONLY <1>4, <2>2, <4>1
      <4>2. CASE t # wtok + 1
        <5>1. t \in Reading .. wtok
          BY ONLY <1>2, <4>2
        <5>2. p[t] \in Int
          BY <1>1, <5>1 DEF Placed
        <5> QED
          BY <2>2, <5>1, <5>2
      <4> QED
        BY <4>1, <4>2
    <3> QED
      BY <1>3, <1>7, <3>1, <3>2, <3>3, <3>4 DEF Placed
  <2>4. Carried(q)'
    <3>1. ASSUME NEW t \in Reading .. wtok + 1, NEW i \in 1 .. Size(t),
                 i <= HeaderLen \/ ValuePieces <= 2, q[t] + i \in 1 .. Len(wire')
          PROVE  wire'[q[t] + i] = ByteOf(t, i)
      <4>1. t # wtok + 1
        <5> SUFFICES ASSUME t = wtok + 1 PROVE FALSE
          OBVIOUS
        <5>1. q[wtok + 1] + i \in 1 .. Len(wire') /\ i \in 1 .. Size(wtok + 1)
          BY <3>1
        <5> QED
          BY ONLY <1>4, <2>2, <5>1
      <4>2. t \in Reading .. wtok
        BY ONLY <1>2, <4>1
      <4> QED
        BY <1>5, <2>2, <3>1, <4>2
    <3>2. Reading' = Reading /\ wtok' = wtok + 1
      BY ONLY <1>3, <1>7
    <3> QED
      BY ONLY <3>1, <3>2 DEF Carried
  <2> QED
    BY <2>3, <2>4 DEF StreamInPlace
<1> QED
  BY <1>6, <1>7, WriteAdvances

-----------------------------------------------------------------------------
\* How far recv_token is in its token.
LEMMA TakenIs ==
    ASSUME FramingInv, Receiving, ReadInPlace
    PROVE  /\ Taken \in Nat /\ rleft <= Len(rbuf)
           /\ rpart = "length" => /\ Taken + rleft = HeaderLen /\ Len(rbuf) = HeaderLen
                                  /\ Taken = Len(rbuf) - rleft
           /\ rpart = "value" => /\ Taken + rleft = Size(Reading)
                                 /\ Len(rbuf) = Len(Tokens[Reading])
                                 /\ Taken = HeaderLen + (Len(rbuf) - rleft)
<1>1. rleft \in Nat /\ roff \in Nat /\ HeaderLen = 4 /\ Len(rbuf) \in Nat
  BY Numbers
<1>2. roff + rleft <= Len(rbuf)
  BY DEF FramingInv, WithinBuffer
<1>3. CASE rpart = "length"
  <2>1. Len(rbuf) = HeaderLen /\ Taken = HeaderLen - rleft
    BY <1>3 DEF ReadInPlace, Taken
  <2> QED
    BY ONLY <1>1, <1>2, <1>3, <2>1
<1>4. CASE rpart = "value"
  <2>1. /\ Len(rbuf) = Len(Tokens[Reading]) /\ Taken = Size(Reading) - rleft
        /\ Size(Reading) = HeaderLen + Len(Tokens[Reading])
    BY <1>4 DEF ReadInPlace, Taken, Size
  <2> QED
    BY ONLY <1>1, <1>2, <1>4, <2>1
<1> QED
  BY <1>3, <1>4 DEF Receiving

\* A read takes the first bytes from the wire.
LEMMA ReadShifts ==
    ASSUME FramingInv, NEW k \in 1 .. rleft, Read(k)
    PROVE  /\ Len(wire') = Len(wire) - k /\ Len(wire') \in Nat
           /\ \A i \in 1 .. Len(wire') : wire'[i] = wire[k + i]
<1>1. /\ wire \in Seq(Byte) /\ Len(wire) \in Nat /\ k \in Nat /\ k >= 1 /\ k <= Len(wire)
      /\ wire' = SubSeq(wire, k + 1, Len(wire))
  BY Numbers DEF Read, FramingInv, TypeOK
<1>2. Len(SubSeq(wire, k + 1, Len(wire))) = Len(wire) - k
  BY ONLY <1>1
<1>3. ASSUME NEW i \in 1 .. Len(wire) - k
      PROVE  SubSeq(wire, k + 1, Len(wire))[i] = wire[k + i]
  BY ONLY <1>1, i \in 1 .. Len(wire) - k
<1>4. Len(wire) - k \in Nat
  BY ONLY <1>1
<1> QED
  BY ONLY <1>1, <1>2, <1>3, <1>4

\* Bytes on the wire belong to a token that is there, and a token that can be
\* read to its end has been written to its end.
LEMMA StreamBounds ==
    ASSUME FramingInv, WriteInPlace, Receiving, ReadInPlace, NEW p, Placed(p),
           NEW k \in 1 .. Len(wire)
    PROVE  /\ Reading <= Len(Tokens)
           /\ Taken + k = Size(Reading) => Reading < wtok
<1>1. /\ wtok \in Nat /\ Reading \in Nat /\ Reading >= 1 /\ Len(Tokens) \in Nat
      /\ wtok <= Len(Tokens) + 1 /\ Len(wire) \in Nat /\ wleft \in Nat /\ wleft >= 1
  BY Numbers
<1>2. k \in Nat /\ k >= 1 /\ k <= Len(wire)
  BY ONLY <1>1, k \in 1 .. Len(wire)
<1>3. Reading <= wtok /\ p[wtok] + Written = Len(wire) /\ p[Reading] = 0 - Taken
  BY <1>1 DEF Placed
<1>4. Written \in Nat /\ (wtok > Len(Tokens) => Written = 0) /\ Taken \in Nat
  BY WrittenIs, TakenIs
<1>5. Reading = wtok => Written >= Taken + k
  BY ONLY <1>2, <1>1, <1>3, <1>4
<1>6. Reading <= Len(Tokens)
  BY ONLY <1>1, <1>2, <1>3, <1>4, <1>5
<1>7. Taken + k = Size(Reading) => Reading < wtok
  <2>1. Reading = wtok => Written + wleft <= Size(wtok) /\ Size(wtok) \in Nat
    <3> SUFFICES ASSUME Reading = wtok
                 PROVE  Written + wleft <= Size(wtok) /\ Size(wtok) \in Nat
      OBVIOUS
    <3>1. wtok \in 1 .. Len(Tokens)
      BY ONLY <1>1, <1>6, Reading = wtok
    <3> QED
      BY <3>1, <1>1, WrittenIs, Numbers
  <2>2. Reading = wtok => Taken + k # Size(wtok)
    BY ONLY <1>1, <1>2, <1>4, <1>5, <2>1
  <2>3. Reading # wtok => Reading < wtok
    BY ONLY <1>1, <1>3
  <2> QED
    BY <2>2, <2>3
<1> QED
  BY ONLY <1>6, <1>7

\* A read moves the stream: within a token, or to the next when it is complete.
LEMMA ReadKeepsStream ==
    ASSUME FramingInv, WriteInPlace, Receiving, ReadInPlace, StreamInPlace,
           NEW k \in 1 .. rleft, Read(k),
           \/ Reading' = Reading /\ Taken' = Taken + k
           \/ Reading' = Reading + 1 /\ Taken' = 0 /\ Taken + k = Size(Reading)
    PROVE  StreamInPlace'
<1>1. PICK p : Placed(p) /\ Carried(p)
  BY DEF StreamInPlace
<1>2. /\ wtok \in Nat /\ Reading \in Nat /\ Reading >= 1 /\ Len(wire) \in Nat
      /\ rleft \in Nat /\ Taken \in Nat /\ Written \in Nat
  BY Numbers, TakenIs, WrittenIs
<1>3. k \in Nat /\ k >= 1 /\ k <= Len(wire) /\ k \in 1 .. Len(wire)
  <2>1. k <= Len(wire)
    BY DEF Read
  <2> QED
    BY ONLY <1>2, <2>1, k \in 1 .. rleft
<1>4. wtok' = wtok /\ Written' = Written
  BY DEF Read, sendVars, Written, Size
<1>5. Len(wire') = Len(wire) - k /\ Len(wire') \in Nat
  BY ReadShifts
<1>6. /\ Reading <= wtok /\ p[wtok] + Written = Len(wire) /\ p[Reading] = 0 - Taken
      /\ p[wtok] \in Int
  BY <1>1, <1>2 DEF Placed
<1>7. PICK q : q = [t \in Reading .. wtok |-> p[t] - k]
  OBVIOUS
<1>8. \A t \in Reading .. wtok : q[t] = p[t] - k /\ p[t] \in Int /\ q[t] \in Int
  <2>1. \A t \in Reading .. wtok : p[t] \in Int
    BY <1>1 DEF Placed
  <2>2. \A t \in Reading .. wtok : q[t] = p[t] - k
    BY ONLY <1>7
  <2> QED
    BY ONLY <1>3, <2>1, <2>2
<1>9. Reading' \in Reading .. wtok
  <2>1. CASE Reading' = Reading
    BY ONLY <1>2, <1>6, <2>1
  <2>2. CASE Reading' = Reading + 1 /\ Taken + k = Size(Reading)
    <3>1. Reading < wtok
      BY <1>1, <1>3, <2>2, StreamBounds
    <3> QED
      BY ONLY <1>2, <2>2, <3>1
  <2> QED
    BY <2>1, <2>2
<1>10. q[Reading'] = 0 - Taken'
  <2>1. CASE Reading' = Reading /\ Taken' = Taken + k
    <3>1. q[Reading] = p[Reading] - k
      BY ONLY <1>8, <1>9, <2>1
    <3> QED
      BY ONLY <1>2, <1>3, <1>6, <2>1, <3>1
  <2>2. CASE Reading' = Reading + 1 /\ Taken' = 0 /\ Taken + k = Size(Reading)
    <3>1. Reading # wtok /\ Reading \in Reading .. wtok
      BY ONLY <1>2, <1>6, <1>9, <2>2
    <3>2. p[Reading + 1] = p[Reading] + Size(Reading)
      BY <1>1, <3>1, PlacedIs
    <3>3. q[Reading + 1] = p[Reading + 1] - k
      BY ONLY <1>8, <1>9, <2>2
    <3> QED
      BY ONLY <1>2, <1>3, <1>6, <2>2, <3>2, <3>3
  <2> QED
    BY <2>1, <2>2
<1>11. ASSUME NEW t \in Reading .. wtok - 1
       PROVE  q[t + 1] = q[t] + Size(t) /\ q[t + 1] <= q[wtok]
  <2>1. /\ t \in Reading .. wtok /\ t + 1 \in Reading .. wtok
        /\ t # wtok /\ wtok \in Reading .. wtok
    BY ONLY <1>2, <1>6, t \in Reading .. wtok - 1
  <2>2. p[t + 1] = p[t] + Size(t) /\ Size(t) \in Nat
    BY <1>1, <2>1, PlacedIs
  <2>3. p[t + 1] <= p[wtok]
    BY <1>1 DEF Placed
  <2>4. /\ q[t] = p[t] - k /\ q[t + 1] = p[t + 1] - k /\ q[wtok] = p[wtok] - k
        /\ p[t] \in Int /\ p[t + 1] \in Int /\ p[wtok] \in Int
    BY ONLY <1>8, <2>1
  <2> QED
    BY ONLY <1>3, <2>2, <2>3, <2>4
<1>12. q[wtok] + Written = Len(wire')
  <2>1. q[wtok] = p[wtok] - k
    BY ONLY <1>2, <1>6, <1>8
  <2> QED
    BY ONLY <1>2, <1>3, <1>5, <1>6, <2>1
<1>13. Placed(q)'
  <2>1. Reading' <= wtok /\ \A t \in Reading' .. wtok : t \in Reading .. wtok
    BY ONLY <1>2, <1>6, <1>9
  <2>2. \A t \in Reading' .. wtok : q[t] \in Int
    BY ONLY <1>8, <2>1
  <2>3. \A t \in Reading' .. wtok - 1 : t \in Reading .. wtok - 1
    BY ONLY <1>2, <1>6, <1>9
  <2>4. \A t \in Reading' .. wtok - 1 : q[t + 1] = q[t] + Size(t) /\ q[t + 1] <= q[wtok]
    BY ONLY <1>11, <2>3
  <2> QED
    BY <1>4, <1>10, <1>12, <2>1, <2>2, <2>4 DEF Placed
<1>14. Carried(q)'
  <2>1. ASSUME NEW t \in Reading' .. wtok, t <= Len(Tokens), NEW i \in 1 .. Size(t),
               i <= HeaderLen \/ ValuePieces <= 2, q[t] + i \in 1 .. Len(wire')
        PROVE  wire'[q[t] + i] = ByteOf(t, i)
    <3>1. t \in Reading .. wtok /\ t \in 1 .. Len(Tokens)
      BY ONLY <1>2, <1>6, <1>9, <2>1
    <3>2. q[t] = p[t] - k /\ p[t] \in Int /\ Size(t) \in Nat
      BY <1>8, <3>1, Numbers
    <3>3. p[t] + i \in 1 .. Len(wire) /\ k + (q[t] + i) = p[t] + i
      <4>1. i \in Nat /\ i >= 1
        BY ONLY <2>1, <3>2
      <4>2. k + (q[t] + i) = p[t] + i /\ p[t] + i \in Int
        BY ONLY <1>3, <3>2, <4>1
      <4>3. q[t] + i >= 1 /\ q[t] + i <= Len(wire) - k
        BY ONLY <1>2, <1>3, <1>5, <2>1
      <4> QED
        BY ONLY <1>2, <1>3, <3>2, <4>1, <4>2, <4>3
    <3>4. wire'[q[t] + i] = wire[k + (q[t] + i)]
      BY <2>1, ReadShifts
    <3>5. wire[p[t] + i] = ByteOf(t, i)
      BY <1>1, <2>1, <3>1, <3>3 DEF Carried
    <3> QED
      BY ONLY <3>3, <3>4, <3>5
  <2> QED
    BY <1>4, <2>1 DEF Carried
<1> QED
  BY <1>13, <1>14 DEF StreamInPlace

\* In its first two calls read_all fills its buffer with what it is to hold.
LEMMA FilledRight ==
    ASSUME FramingInv, WriteInPlace, Receiving, ReadInPlace, StreamInPlace,
           NEW k \in 1 .. rleft, Read(k), Pieces(rpart) <= 2,
           NEW i \in 1 .. (Len(rbuf) - rleft) + k
    PROVE  Filled(k)[i] = Wanted[i]
<1>1. PICK p : Placed(p) /\ Carried(p)
  BY DEF StreamInPlace
<1>2. /\ Reading \in Nat /\ Reading >= 1 /\ Len(wire) \in Nat /\ Len(rbuf) \in Nat
      /\ rleft \in Nat /\ Taken \in Nat /\ HeaderLen = 4 /\ rleft <= Len(rbuf)
  BY Numbers, TakenIs
<1>3. k \in Nat /\ k >= 1 /\ k <= rleft /\ k <= Len(wire) /\ k \in 1 .. Len(wire)
  <2>1. k <= Len(wire)
    BY DEF Read
  <2> QED
    BY ONLY <1>2, <2>1, k \in 1 .. rleft
<1>4. wire # <<>>
  BY <1>2, <1>3
<1>5. roff = Len(rbuf) - rleft
  BY <1>4 DEF ReadInPlace
<1>6. i \in Nat /\ i >= 1 /\ i <= (Len(rbuf) - rleft) + k /\ i \in 1 .. Len(rbuf)
  BY ONLY <1>2, <1>3, i \in 1 .. (Len(rbuf) - rleft) + k
<1>7. Filled(k)[i] = IF i \in roff + 1 .. roff + k THEN wire[i - roff] ELSE rbuf[i]
  BY <1>6 DEF Filled
<1>8. CASE i <= Len(rbuf) - rleft
  <2>1. i \notin roff + 1 .. roff + k /\ i \in 1 .. Len(rbuf) - rleft
    BY ONLY <1>2, <1>3, <1>5, <1>6, <1>8
  <2> QED
    BY <1>7, <2>1 DEF ReadInPlace
<1>9. CASE i > Len(rbuf) - rleft
  <2> DEFINE n == Taken + (i - roff)
  <2>1. i \in roff + 1 .. roff + k /\ i - roff \in 1 .. Len(wire)
    BY ONLY <1>2, <1>3, <1>5, <1>6, <1>9
  <2>2. Reading \in 1 .. Len(Tokens)
    <3>1. Reading <= Len(Tokens) /\ Len(Tokens) \in Nat
      BY <1>1, <1>3, StreamBounds, Numbers
    <3> QED
      BY ONLY <1>2, <3>1
  <2>3. Size(Reading) \in Nat /\ Size(Reading) = HeaderLen + Len(Tokens[Reading])
    BY <2>2, Numbers DEF Size
  <2>4. /\ n \in 1 .. Size(Reading) /\ (n <= HeaderLen \/ ValuePieces <= 2)
        /\ ByteOf(Reading, n) = Wanted[i]
    <3>1. CASE rpart = "length"
      <4>1. Len(rbuf) = HeaderLen /\ Taken = Len(rbuf) - rleft
        BY <3>1, TakenIs
      <4>2. n = i /\ n \in 1 .. HeaderLen
        BY ONLY <1>2, <1>5, <1>6, <4>1
      <4>3. Len(Tokens[Reading]) \in Nat
        BY <2>2, TokensType
      <4>4. n \in 1 .. Size(Reading) /\ n <= HeaderLen
        BY ONLY <1>2, <2>3, <4>2, <4>3
      <4>5. ByteOf(Reading, n) = Wanted[n]
        BY <3>1, <4>4 DEF ByteOf, Wanted
      <4> QED
        BY ONLY <4>2, <4>4, <4>5
    <3>2. CASE rpart = "value"
      <4>1. /\ Len(rbuf) = Len(Tokens[Reading]) /\ Taken = HeaderLen + (Len(rbuf) - rleft)
        BY <3>2, TakenIs
      <4>2. ValuePieces <= 2
        BY <3>2 DEF Pieces
      <4>3. /\ n - HeaderLen = i /\ n \in 1 .. HeaderLen + Len(Tokens[Reading])
            /\ ~(n <= HeaderLen)
        <5>1. n = HeaderLen + i
          <6>1. Taken = HeaderLen + roff
            BY ONLY <1>5, <4>1
          <6>2. roff \in Nat /\ i \in Nat /\ HeaderLen \in Nat
            BY <1>2, <1>6, Numbers
          <6> QED
            BY ONLY <6>1, <6>2
        <5>2. i <= Len(Tokens[Reading]) /\ Len(Tokens[Reading]) \in Nat
          BY ONLY <1>2, <1>6, <4>1
        <5> HIDE DEF n
        <5> QED
          BY ONLY <1>2, <1>6, <5>1, <5>2
      <4>4. Wanted = Tokens[Reading]
        BY <3>2 DEF Wanted
      <4>5. ByteOf(Reading, n) = Tokens[Reading][n - HeaderLen]
        BY ONLY <4>3 DEF ByteOf
      <4> QED
        BY ONLY <2>3, <4>2, <4>3, <4>4, <4>5
    <3> QED
      BY <3>1, <3>2 DEF Receiving
  <2>5. p[Reading] + n = i - roff
    <3>1. p[Reading] = 0 - Taken
      BY <1>1 DEF Placed
    <3>2. i - roff \in Nat
      BY ONLY <1>2, <1>5, <1>6, <1>9
    <3> QED
      BY ONLY <1>2, <3>1, <3>2
  <2>6. Reading \in Reading .. wtok
    <3>1. Reading <= wtok /\ wtok \in Nat
      BY <1>1, Numbers DEF Placed
    <3> QED
      BY ONLY <1>2, <3>1
  <2> HIDE DEF n
  <2>7. wire[p[Reading] + n] = ByteOf(Reading, n)
    <3>1. p[Reading] + n \in 1 .. Len(wire)
      BY ONLY <2>1, <2>5
    <3>2. Reading <= Len(Tokens)
      BY <1>1, <1>3, StreamBounds
    <3> QED
      BY ONLY <1>1, <2>4, <2>6, <3>1, <3>2 DEF Carried
  <2> QED
    BY ONLY <1>7, <2>1, <2>4, <2>5, <2>7
<1> QED
  BY ONLY <1>2, <1>6, <1>8, <1>9

\* recv_token returns a token of the right length, and the right one if the
\* values are not garbled.
LEMMA ReturnKeepsPlace ==
    ASSUME FramingInv, GotInPlace, NEW token, ReturnToken(token), Reading <= Len(Tokens),
           Len(token) = Len(Tokens[Reading]),
           ValuePieces <= 2 => token = Tokens[Reading]
    PROVE  /\ GotInPlace' /\ Reading' = Reading + 1
           /\ rpart' \in {"length", "done"}
           /\ ReadInPlace' /\ (rpart' = "length" => Taken' = 0)
<1>1. /\ Len(got) \in Nat /\ Len(Tokens) \in Nat
      /\ got \in Seq(Seq(Cell)) /\ Reading = Len(got) + 1
  BY Numbers DEF FramingInv, TypeOK, Cell, Reading
<1>2. /\ got' = Append(got, token) /\ rpart' \in {"length", "done"}
      /\ rbuf' = Blank(HeaderLen) /\ roff' = 0 /\ rleft' = HeaderLen /\ rcalls' = 0
  BY DEF ReturnToken
<1>3. /\ Len(got') = Len(got) + 1 /\ got'[Reading] = token
      /\ \A i \in 1 .. Len(got) : got'[i] = got[i]
  BY ONLY <1>1, <1>2
<1>4. \A i \in 1 .. Len(got) + 1 : i \in 1 .. Len(got) \/ i = Reading
  BY ONLY <1>1
<1>5. GotInPlace'
  <2>1. Len(got') <= Len(Tokens)
    BY ONLY <1>1, <1>3, Reading <= Len(Tokens)
  <2>2. \A i \in 1 .. Len(got') : Len(got'[i]) = Len(Tokens[i])
    BY <1>3, <1>4 DEF GotInPlace, LengthPreserved
  <2>3. ValuePieces <= 2 => \A i \in 1 .. Len(got') : got'[i] = Tokens[i]
    BY <1>3, <1>4 DEF GotInPlace
  <2> QED
    BY <2>1, <2>2, <2>3 DEF GotInPlace, LengthPreserved
<1>6. Reading' = Reading + 1
  BY <1>1, <1>3 DEF Reading
<1>7. Len(rbuf') = HeaderLen
  BY <1>2, BlankType DEF HeaderLen
<1>8. HeaderLen - HeaderLen = 0 /\ 1 .. 0 = {} /\ HeaderLen \in Nat
  BY DEF HeaderLen
<1>9. ReadInPlace'
  BY <1>2, <1>7, <1>8 DEF ReadInPlace
<1>10. rpart' = "length" => Taken' = 0
  BY <1>2, <1>8 DEF Taken
<1> QED
  BY ONLY <1>2, <1>5, <1>6, <1>9, <1>10

\* recv_token decodes the length that send_token encoded.
LEMMA LengthDecoded ==
    ASSUME HeaderPieces <= 2, FramingInv, WriteInPlace, ReadInPlace, StreamInPlace,
           rpart = "length", Read(rleft), NEW d \in Completions(Filled(rleft)),
           Reading <= Len(Tokens)
    PROVE  ValueOf(d) = Len(Tokens[Reading])
<1> DEFINE n == Len(Tokens[Reading])
<1>1. n \in Nat /\ n < Base * Base * Base * Base
  <2>1. Reading \in 1 .. Len(Tokens)
    BY Numbers
  <2> QED
    BY <2>1, TokensType, FramingAssumption
<1>2. \A i \in 1 .. HeaderLen : Filled(rleft)[i] = HeaderOf(n)[i]
  <2>1. /\ Len(rbuf) = HeaderLen /\ Receiving /\ Pieces(rpart) <= 2
        /\ Wanted = HeaderOf(n)
    BY DEF ReadInPlace, Receiving, Pieces, Wanted
  <2>2. rleft \in Nat /\ rleft >= 1 /\ HeaderLen = 4
    BY Numbers
  <2>3. (Len(rbuf) - rleft) + rleft = HeaderLen /\ rleft \in 1 .. rleft
    BY ONLY <2>1, <2>2
  <2> QED
    BY <2>1, <2>3, FilledRight
<1>3. \A i \in 1 .. HeaderLen : HeaderOf(n)[i] \in Byte /\ HeaderOf(n)[i] # Indeterminate
  <2>1. HeaderOf(n) \in Seq(Byte) /\ Len(HeaderOf(n)) = HeaderLen
    BY <1>1, HeaderType
  <2>2. \A i \in 1 .. HeaderLen : HeaderOf(n)[i] \in Byte
    BY ONLY <2>1
  <2> QED
    BY <2>2, FramingAssumption
<1>4. \A i \in 1 .. HeaderLen : d[i] = HeaderOf(n)[i]
  BY <1>2, <1>3 DEF Completions
<1> HIDE DEF n
<1>5. d[1] = HeaderOf(n)[1] /\ d[2] = HeaderOf(n)[2] /\ d[3] = HeaderOf(n)[3]
      /\ d[4] = HeaderOf(n)[4]
  BY <1>4 DEF HeaderLen
<1>6. ValueOf(d) = ValueOf(HeaderOf(n))
  BY ONLY <1>5 DEF ValueOf
<1>7. ValueOf(HeaderOf(n)) = n
  BY <1>1, LengthRoundTrip
<1> QED
  BY <1>6, <1>7 DEF n

\* What a read does to the tokens delivered: nothing, or it adds the next one,
\* which has been written to its end.
Delivers ==
    \/ got' = got
    \/ /\ Reading < wtok /\ Reading <= Len(Tokens)
       /\ \E token : /\ got' = Append(got, token)
                     /\ ValuePieces <= 2 => token = Tokens[Reading]

\* A read keeps the stream in its place, whichever piece it is and whatever it
\* completes.
LEMMA ReadKeepsAlign ==
    ASSUME HeaderPieces <= 2, FramingInv, GotInPlace, WriteInPlace,
           Receiving, ReadInPlace, StreamInPlace,
           NEW k \in 1 .. rleft, Read(k)
    PROVE  /\ GotInPlace' /\ Delivers
           /\ Receiving' => ReadInPlace' /\ StreamInPlace'
<1>1. PICK p : Placed(p) /\ Carried(p)
  BY DEF StreamInPlace
<1>2. /\ Reading \in Nat /\ Reading >= 1 /\ Len(wire) \in Nat /\ Len(rbuf) \in Nat
      /\ rleft \in Nat /\ rleft >= 1 /\ Taken \in Nat /\ HeaderLen = 4 /\ rleft <= Len(rbuf)
      /\ rcalls \in Nat
  BY Numbers, TakenIs
<1>3. k \in Nat /\ k >= 1 /\ k <= rleft /\ k \in 1 .. Len(wire)
  <2>1. k <= Len(wire)
    BY DEF Read
  <2> QED
    BY ONLY <1>2, <2>1, k \in 1 .. rleft
<1>4. Reading <= Len(Tokens) /\ (Taken + k = Size(Reading) => Reading < wtok)
  BY <1>1, <1>3, StreamBounds
<1>5. Len(Tokens[Reading]) \in Nat /\ Size(Reading) = HeaderLen + Len(Tokens[Reading])
  <2>1. Reading \in 1 .. Len(Tokens)
    BY <1>2, <1>4, Numbers
  <2> QED
    BY <2>1, TokensType DEF Size
<1>6. CASE k < rleft /\ rbuf' = Filled(k) /\ roff' = k /\ rleft' = rleft - k
           /\ rcalls' = rcalls + 1 /\ UNCHANGED <<rpart, got>>
  <2>1. Reading' = Reading /\ GotInPlace' /\ Delivers
    BY <1>6 DEF Reading, GotInPlace, LengthPreserved, Delivers
  <2>2. Taken' = Taken + k
    <3>1. Taken = (IF rpart = "length" THEN HeaderLen ELSE Size(Reading)) - rleft
      BY DEF Taken
    <3>2. Taken' = (IF rpart = "length" THEN HeaderLen ELSE Size(Reading)) - (rleft - k)
      BY <1>6, <2>1 DEF Taken, Size
    <3>3. (IF rpart = "length" THEN HeaderLen ELSE Size(Reading)) \in Nat
      BY <1>2, <1>5
    <3> QED
      BY ONLY <1>2, <1>3, <3>1, <3>2, <3>3
  <2>3. StreamInPlace'
    BY <2>1, <2>2, ReadKeepsStream
  <2>4. Len(rbuf') = Len(rbuf) /\ Pieces(rpart)' = Pieces(rpart) /\ Wanted' = Wanted
    <3>1. Len(rbuf') = Len(rbuf)
      BY <1>3, <1>6, FilledType DEF Read
    <3> QED
      BY <1>6, <2>1, <3>1 DEF Pieces, Wanted
  <2>5. ASSUME Pieces(rpart) <= 2
        PROVE  /\ roff' = Len(rbuf') - rleft'
               /\ \A i \in 1 .. Len(rbuf') - rleft' : rbuf'[i] = Wanted'[i]
    <3>1. Len(rbuf') - rleft' = (Len(rbuf) - rleft) + k
      BY ONLY <1>2, <1>3, <1>6, <2>4
    <3>2. rleft = Len(rbuf)
      <4>1. Pieces(rpart) \in Nat
        BY Numbers DEF Pieces
      <4>2. ~(rcalls + 1 >= Pieces(rpart))
        BY <1>2, <1>3, <1>6 DEF Read
      <4>3. rcalls = 0
        BY ONLY <1>2, <2>5, <4>1, <4>2
      <4> QED
        BY <4>3 DEF ReadInPlace
    <3>3. roff' = Len(rbuf') - rleft'
      BY ONLY <1>2, <1>3, <1>6, <2>4, <3>2
    <3>4. \A i \in 1 .. (Len(rbuf) - rleft) + k : Filled(k)[i] = Wanted[i]
      BY <2>5, FilledRight
    <3> QED
      BY <1>6, <2>4, <3>1, <3>3, <3>4
  <2>6. rcalls' # 0
    BY <1>2, <1>6
  <2>7. ReadInPlace'
    BY <1>6, <2>1, <2>4, <2>5, <2>6 DEF ReadInPlace
  <2> QED
    BY <2>1, <2>3, <2>7
<1>7. CASE k = rleft /\ rpart = "length" /\ LengthComplete(Filled(k))
  <2>1. PICK d \in Completions(Filled(k)) :
            IF ValueOf(d) = 0
            THEN ReturnToken(<<>>)
            ELSE /\ rpart' = "value" /\ rbuf' = Blank(ValueOf(d))
                 /\ roff' = 0 /\ rleft' = ValueOf(d) /\ rcalls' = 0
                 /\ UNCHANGED got
    BY <1>7 DEF LengthComplete
  <2>2. ValueOf(d) = Len(Tokens[Reading])
    BY <1>4, <1>7, LengthDecoded
  <2>3. Taken + k = HeaderLen
    BY <1>7, TakenIs
  <2>4. CASE ValueOf(d) = 0
    <3>1. ReturnToken(<<>>) /\ Len(Tokens[Reading]) = 0
      BY <2>1, <2>2, <2>4
    <3>2. Tokens[Reading] = <<>>
      <4>1. Reading \in 1 .. Len(Tokens)
        BY <1>2, <1>4, Numbers
      <4>2. Tokens[Reading] \in Seq(Byte)
        BY <4>1, TokensType
      <4> QED
        BY <3>1, <4>2
    <3>3. Taken + k = Size(Reading)
      BY ONLY <1>2, <1>5, <2>3, <3>1
    <3>4. /\ GotInPlace' /\ Reading' = Reading + 1 /\ ReadInPlace'
          /\ rpart' \in {"length", "done"} /\ (rpart' = "length" => Taken' = 0)
      BY <1>4, <3>1, <3>2, ReturnKeepsPlace
    <3>5. Delivers
      BY <1>4, <3>1, <3>2, <3>3 DEF Delivers, ReturnToken
    <3>6. Receiving' => StreamInPlace'
      BY <3>3, <3>4, ReadKeepsStream DEF Receiving
    <3> QED
      BY <3>4, <3>5, <3>6
  <2>5. CASE ValueOf(d) # 0
    <3>1. /\ rpart' = "value" /\ rbuf' = Blank(Len(Tokens[Reading])) /\ roff' = 0
          /\ rleft' = Len(Tokens[Reading]) /\ rcalls' = 0 /\ UNCHANGED got
      BY <2>1, <2>2, <2>5
    <3>2. Reading' = Reading /\ GotInPlace' /\ Delivers
      BY <3>1 DEF Reading, GotInPlace, LengthPreserved, Delivers
    <3>3. Taken' = Taken + k
      <4>1. Taken' = Size(Reading) - Len(Tokens[Reading])
        BY <3>1, <3>2 DEF Taken, Size
      <4> QED
        BY ONLY <1>2, <1>5, <2>3, <4>1
    <3>4. StreamInPlace'
      BY <3>2, <3>3, ReadKeepsStream
    <3>5. Len(rbuf') = Len(Tokens[Reading])
      BY <1>5, <3>1, BlankType
    <3>6. /\ rleft' = Len(rbuf') /\ roff' = Len(rbuf') - rleft'
          /\ 1 .. Len(rbuf') - rleft' = {}
      BY ONLY <1>5, <3>1, <3>5
    <3>7. ReadInPlace'
      BY <1>4, <3>1, <3>2, <3>5, <3>6 DEF ReadInPlace
    <3> QED
      BY <3>2, <3>4, <3>7
  <2> QED
    BY <2>4, <2>5
<1>8. CASE k = rleft /\ rpart = "value" /\ ReturnToken(Filled(k))
  <2>1. Taken + k = Size(Reading) /\ Len(rbuf) = Len(Tokens[Reading])
    BY <1>8, TakenIs
  <2>2. Filled(k) \in Seq(Cell) /\ Len(Filled(k)) = Len(Tokens[Reading])
    BY <1>3, <2>1, FilledType DEF Read
  <2>3. ValuePieces <= 2 => Filled(k) = Tokens[Reading]
    <3> SUFFICES ASSUME ValuePieces <= 2 PROVE Filled(k) = Tokens[Reading]
      OBVIOUS
    <3>1. (Len(rbuf) - rleft) + k = Len(Tokens[Reading])
      BY ONLY <1>2, <1>8, <2>1
    <3>2. Pieces(rpart) <= 2 /\ Wanted = Tokens[Reading]
      BY <1>8 DEF Pieces, Wanted
    <3>3. \A i \in 1 .. Len(Tokens[Reading]) : Filled(k)[i] = Tokens[Reading][i]
      BY <3>1, <3>2, FilledRight
    <3>4. Tokens[Reading] \in Seq(Byte)
      <4>1. Reading \in 1 .. Len(Tokens)
        BY <1>2, <1>4, Numbers
      <4> QED
        BY <4>1, TokensType
    <3> QED
      BY ONLY <2>2, <3>3, <3>4
  <2>4. /\ GotInPlace' /\ Reading' = Reading + 1 /\ ReadInPlace'
        /\ rpart' \in {"length", "done"} /\ (rpart' = "length" => Taken' = 0)
    BY <1>4, <1>8, <2>2, <2>3, ReturnKeepsPlace
  <2>5. Delivers
    BY <1>4, <1>8, <2>1, <2>3 DEF Delivers, ReturnToken
  <2>6. Receiving' => StreamInPlace'
    BY <2>1, <2>4, ReadKeepsStream DEF Receiving
  <2> QED
    BY <2>4, <2>5, <2>6
<1> QED
  BY <1>6, <1>7, <1>8 DEF Read

-----------------------------------------------------------------------------
\* Nothing has been written and nothing read.
LEMMA InitAlign == Init => AlignInv
<1> SUFFICES ASSUME Init PROVE AlignInv
  OBVIOUS
<1>1. FramingInv
  BY InitInv
<1>2. /\ wtok = 1 /\ wpart = "length" /\ woff = 0 /\ wleft = HeaderLen /\ wire = <<>>
      /\ rpart = "length" /\ rbuf = Blank(HeaderLen) /\ roff = 0 /\ rleft = HeaderLen
      /\ got = <<>> /\ HeaderLen = 4
  BY DEF Init, HeaderLen
<1>3. Len(got) = 0 /\ Len(wire) = 0 /\ Len(rbuf) = HeaderLen /\ Len(Tokens) \in Nat
  <2>1. Len(rbuf) = HeaderLen
    BY <1>2, BlankType DEF HeaderLen
  <2>2. Len(Tokens) \in Nat
    BY FramingAssumption
  <2> QED
    BY ONLY <1>2, <2>1, <2>2
<1>4. GotInPlace
  <2>1. Len(got) <= Len(Tokens) /\ 1 .. Len(got) = {}
    BY ONLY <1>3
  <2> QED
    BY <2>1 DEF GotInPlace, LengthPreserved
<1>5. WriteInPlace
  <2>1. wtok <= Len(Tokens) => Len(WriteBuffer) = HeaderLen
    BY <1>2, <1>3, TokensType, HeaderType DEF WriteBuffer
  <2> QED
    BY <1>2, <2>1 DEF WriteInPlace
<1>6. ReadInPlace
  <2>1. Len(rbuf) - rleft = 0
    BY ONLY <1>2, <1>3
  <2>2. 1 .. Len(rbuf) - rleft = {} /\ roff = Len(rbuf) - rleft
    <3>1. \A n : n = 0 => 1 .. n = {}
      OBVIOUS
    <3> QED
      BY <1>2, <2>1, <3>1
  <2> QED
    BY <1>2, <1>3, <2>2 DEF ReadInPlace
<1>7. StreamInPlace
  <2>1. Reading = 1 /\ Taken = 0 /\ Written = 0
    BY <1>2, <1>3 DEF Reading, Taken, Written
  <2>2. PICK p : p = [t \in {1} |-> 0]
    OBVIOUS
  <2>3. p[1] = 0 /\ 1 .. 1 = {1} /\ 1 .. 1 - 1 = {} /\ 1 .. 0 = {}
    BY <2>2
  <2>4. Placed(p)
    BY <1>2, <1>3, <2>1, <2>3 DEF Placed
  <2>5. Carried(p)
    BY <1>3, <2>3 DEF Carried
  <2> QED
    BY <2>4, <2>5 DEF StreamInPlace
<1> QED
  BY <1>1, <1>4, <1>5, <1>6, <1>7 DEF AlignInv

\* Nothing else moves the stream.
LEMMA OtherStepsAlign ==
    ASSUME AlignInv, FramingInv', SenderExit \/ ReadEof \/ ReadFails \/ UNCHANGED vars
    PROVE  AlignInv'
<1>1. /\ UNCHANGED <<sendVars, wire, got, rbuf, rleft, rcalls>>
      /\ rpart' = rpart \/ rpart' = "failed"
  BY DEF SenderExit, ReadEof, ReadFails, vars, recvVars
<1>2. GotInPlace' /\ WriteInPlace'
  BY <1>1
  DEF AlignInv, GotInPlace, LengthPreserved, WriteInPlace, WriteBuffer, Pieces, sendVars
<1>3. ASSUME Receiving'
      PROVE  ReadInPlace' /\ StreamInPlace'
  <2>1. rpart' = rpart /\ ReadInPlace /\ StreamInPlace
    BY <1>1, <1>3 DEF AlignInv, Receiving
  <2>2. /\ Reading' = Reading /\ Taken' = Taken /\ Written' = Written /\ Wanted' = Wanted
        /\ Pieces(rpart)' = Pieces(rpart) /\ wtok' = wtok
    BY <1>1, <2>1 DEF Reading, Taken, Written, Wanted, Size, Pieces, sendVars
  <2>3. StreamInPlace'
    <3>1. PICK p : Placed(p) /\ Carried(p)
      BY <2>1 DEF StreamInPlace
    <3>2. Placed(p)' /\ Carried(p)'
      BY <1>1, <2>2, <3>1 DEF Placed, Carried
    <3> QED
      BY <3>2 DEF StreamInPlace
  <2>4. \/ roff' = roff /\ (eof => eof')
        \/ eof' /\ wire' = <<>>
    BY DEF SenderExit, ReadEof, ReadFails, vars, recvVars
  <2>5. ReadInPlace'
    BY <1>1, <2>1, <2>2, <2>4 DEF ReadInPlace
  <2> QED
    BY <2>3, <2>5
<1> QED
  BY <1>2, <1>3 DEF AlignInv

\* Every step keeps the stream in its place.
LEMMA NextAlign ==
    ASSUME HeaderPieces <= 2, AlignInv, [Next]_vars
    PROVE  AlignInv'
<1>1. CASE \E k \in 1 .. wleft : Write(k)
  <2>1. PICK k \in 1 .. wleft : Write(k)
    BY <1>1
  <2>2. FramingInv' /\ WriteInPlace'
    BY <2>1, WriteInv, WriteKeepsPlace DEF AlignInv
  <2>3. UNCHANGED <<eof, rpart, rbuf, roff, rleft, rcalls, got>> /\ ~eof
    BY <2>1 DEF Write, Sending, recvVars
  <2>4. GotInPlace' /\ (Receiving' <=> Receiving)
    BY <2>3 DEF AlignInv, GotInPlace, LengthPreserved, Receiving
  <2>5. ASSUME Receiving PROVE ReadInPlace' /\ StreamInPlace'
    <3>1. StreamInPlace'
      BY <2>1, <2>5, WriteKeepsStream DEF AlignInv
    <3>2. Reading' = Reading /\ Wanted' = Wanted /\ Pieces(rpart)' = Pieces(rpart)
      BY <2>3 DEF Reading, Wanted, Pieces
    <3>3. ReadInPlace'
      BY <2>3, <2>5, <3>2 DEF AlignInv, ReadInPlace
    <3> QED
      BY <3>1, <3>3
  <2> QED
    BY <2>2, <2>4, <2>5 DEF AlignInv
<1>2. CASE \E k \in 1 .. rleft : Read(k)
  <2>1. PICK k \in 1 .. rleft : Read(k)
    BY <1>2
  <2>2. Receiving /\ UNCHANGED sendVars
    BY <2>1 DEF Read
  <2>3. FramingInv'
    BY <2>1, ReadInv DEF AlignInv
  <2>4. GotInPlace' /\ (Receiving' => ReadInPlace' /\ StreamInPlace')
    BY <2>1, <2>2, ReadKeepsAlign DEF AlignInv
  <2>5. WriteInPlace'
    BY <2>2 DEF AlignInv, WriteInPlace, WriteBuffer, Pieces, sendVars
  <2> QED
    BY <2>3, <2>4, <2>5 DEF AlignInv
<1>3. CASE SenderExit \/ ReadEof \/ ReadFails \/ UNCHANGED vars
  BY <1>3, OtherStepsInv, OtherStepsAlign DEF AlignInv
<1> QED
  BY <1>1, <1>2, <1>3 DEF Next, SenderStep, ReceiverStep, Ended

\* In every behaviour in which a length takes at most two calls on each side,
\* the receiver is where the sender's bytes say it is, and every token it
\* returns has its length.
THEOREM StreamAligned ==
    ASSUME HeaderPieces <= 2
    PROVE  Spec => []AlignInv
<1>1. Init => AlignInv
  BY InitAlign
<1>2. AlignInv /\ [Next]_vars => AlignInv'
  BY NextAlign
<1> QED
  BY <1>1, <1>2, PTL DEF Spec

\* A garbled value keeps its length: while the lengths take at most two calls,
\* recv_token returns as many bytes as send_token was given, token by token,
\* in however many pieces the kernel serves the values.
THEOREM LengthsArePreserved ==
    ASSUME HeaderPieces <= 2
    PROVE  Spec => []LengthPreserved
<1>1. AlignInv => LengthPreserved
  BY DEF AlignInv, GotInPlace
<1> QED
  BY <1>1, StreamAligned, PTL

\* With at most two calls for every buffer, nothing is garbled: the tokens
\* returned are a prefix of the tokens sent.
THEOREM TwoPiecesAreDelivered ==
    ASSUME HeaderPieces <= 2, ValuePieces <= 2
    PROVE  Spec => []DeliveredIsPrefix
<1>1. AlignInv => DeliveredIsPrefix
  BY DEF AlignInv, GotInPlace, LengthPreserved, DeliveredIsPrefix
<1> QED
  BY <1>1, StreamAligned, PTL

\* Then the two loops implement the channel that the callers of send_token and
\* recv_token rely on, whenever either side stops or fails.
THEOREM TwoPiecesImplementChannel ==
    ASSUME HeaderPieces <= 2, ValuePieces <= 2
    PROVE  Spec => ChannelSpec
<1>1. Init => Channel!Init
  BY DEF Init, Channel!Init
<1>2. AlignInv /\ [Next]_vars => [Channel!Next]_(Channel!vars)
  <2> SUFFICES ASSUME AlignInv, [Next]_vars PROVE [Channel!Next]_(Channel!vars)
    OBVIOUS
  <2>1. CASE \E k \in 1 .. wleft : Write(k)
    <3>1. PICK k \in 1 .. wleft : Write(k)
      BY <2>1
    <3>2. /\ got' = got /\ wtok <= Len(Tokens) /\ wtok \in Nat /\ Len(Tokens) \in Nat
          /\ wtok' = wtok \/ wtok' = wtok + 1
      BY <3>1, WriteAdvances, Numbers DEF AlignInv, Write, Sending, recvVars
    <3>3. CASE wtok' = wtok
      BY <3>2, <3>3 DEF Channel!vars
    <3>4. CASE wtok' = wtok + 1
      <4>1. wtok - 1 < Len(Tokens) /\ wtok' - 1 = (wtok - 1) + 1
        BY ONLY <3>2, <3>4
      <4> QED
        BY <3>2, <4>1 DEF Channel!Next, Channel!Send
    <3> QED
      BY <3>2, <3>3, <3>4
  <2>2. CASE \E k \in 1 .. rleft : Read(k)
    <3>1. PICK k \in 1 .. rleft : Read(k)
      BY <2>2
    <3>2. wtok' = wtok /\ Receiving
      BY <3>1 DEF Read, sendVars
    <3>3. Delivers
      BY <3>1, <3>2, ReadKeepsAlign DEF AlignInv
    <3>4. CASE got' = got
      BY <3>2, <3>4 DEF Channel!vars
    <3>5. CASE Reading < wtok /\ got' = Append(got, Tokens[Reading])
      <4>1. Len(got) \in Nat /\ wtok \in Nat /\ Reading = Len(got) + 1
        BY Numbers DEF AlignInv, Reading
      <4>2. Len(got) < wtok - 1
        BY ONLY <3>5, <4>1
      <4> QED
        BY <3>2, <3>5, <4>1, <4>2 DEF Channel!Next, Channel!Deliver
    <3> QED
      BY <3>3, <3>4, <3>5 DEF Delivers
  <2>3. CASE SenderExit \/ ReadEof \/ ReadFails \/ UNCHANGED vars
    BY <2>3 DEF SenderExit, ReadEof, ReadFails, vars, sendVars, recvVars, Channel!vars
  <2> QED
    BY <2>1, <2>2, <2>3 DEF Next, SenderStep, ReceiverStep, Ended
<1> QED
  BY <1>1, <1>2, StreamAligned, PTL DEF Spec, ChannelSpec, Channel!Spec
=============================================================================
