------------------------- MODULE TokenFramingProofs -------------------------
(***************************************************************************)
(* What holds of TokenFraming for every token list, every size of a byte   *)
(* and however many pieces the kernel cuts a buffer into.                  *)
(***************************************************************************)
EXTENDS TokenFraming, TLAPS

\* ntohl undoes htonl for every length a uint32_t holds.
LEMMA LengthRoundTrip ==
    ASSUME NEW n \in Nat, n < Base * Base * Base * Base
    PROVE  ValueOf(HeaderOf(n)) = n
<1> DEFINE q == Shift(n)
           r == Shift(q)
           t == Shift(r)
<1>1. Base \in Nat /\ Base > 1
  BY FramingAssumption
<1>2. \A m \in Nat : /\ Shift(m) \in Nat /\ m % Base \in 0 .. Base - 1
                     /\ m = Base * Shift(m) + (m % Base)
  BY <1>1, Z3 DEF Shift
<1>3. /\ q \in Nat /\ r \in Nat /\ t \in Nat
      /\ n = Base * q + (n % Base) /\ q = Base * r + (q % Base) /\ r = Base * t + (r % Base)
      /\ n % Base \in Nat /\ q % Base \in Nat /\ r % Base \in Nat
  BY <1>2
<1>4. t < Base
  <2>1. Base * Base * Base * t <= n
    BY <1>1, <1>3, Z3
  <2> QED
    BY <2>1, <1>1, <1>3, Z3
<1>5. t % Base = t
  <2>1. Shift(t) \in Nat /\ t = Base * Shift(t) + (t % Base) /\ t % Base \in Nat
    BY <1>2, <1>3
  <2>2. \A b, s, m \in Nat : b * s + m < b => s = 0
    OBVIOUS
  <2>3. Shift(t) = 0
    BY <2>1, <2>2, <1>4, <1>1
  <2> QED
    BY <2>1, <2>3, <1>1, <1>3
<1> QED
  BY <1>1, <1>3, <1>5, Z3 DEF ValueOf, HeaderOf

\* The length goes out as HeaderLen bytes.
LEMMA HeaderType ==
    ASSUME NEW n \in Nat
    PROVE  HeaderOf(n) \in Seq(Byte) /\ Len(HeaderOf(n)) = HeaderLen
<1>1. Base \in Nat /\ Base > 1
  BY FramingAssumption
<1>2. \A m \in Nat : Shift(m) \in Nat /\ m % Base \in Byte
  BY <1>1, Z3 DEF Shift, Byte
<1> QED
  BY <1>2 DEF HeaderOf, HeaderLen

\* What recv_token decodes is a length.
LEMMA ValueType ==
    ASSUME NEW d \in [1 .. HeaderLen -> Byte]
    PROVE  ValueOf(d) \in Nat
<1>1. Base \in Nat
  BY FramingAssumption
<1>2. d[1] \in Nat /\ d[2] \in Nat /\ d[3] \in Nat /\ d[4] \in Nat
  BY <1>1 DEF Byte, HeaderLen
<1>3. \A a, b \in Nat : a * Base + b \in Nat
  BY <1>1
<1> QED
  BY <1>2, <1>3 DEF ValueOf

-----------------------------------------------------------------------------
\* WithinBuffer needs the types, and the types need it: only a write within
\* the buffer puts bytes on the wire.
FramingInv == TypeOK /\ WithinBuffer

Cell == Byte \cup {Indeterminate}

\* The tokens are finite sequences of bytes.
LEMMA TokensType ==
    ASSUME NEW t \in 1 .. Len(Tokens)
    PROVE  Tokens[t] \in Seq(Byte) /\ Len(Tokens[t]) \in Nat
  BY FramingAssumption

\* Fresh memory is a buffer of the size asked for.
LEMMA BlankType ==
    ASSUME NEW n \in Nat
    PROVE  Blank(n) \in Seq(Cell) /\ Len(Blank(n)) = n
  BY DEF Blank, Cell

\* Both loops start at the beginning of a length.
LEMMA InitInv == Init => FramingInv
<1> SUFFICES ASSUME Init PROVE FramingInv
  OBVIOUS
<1>1. Len(Tokens) \in Nat
  BY FramingAssumption
<1>2. rbuf \in Seq(Cell) /\ Len(rbuf) = HeaderLen
  BY BlankType DEF Init, HeaderLen
<1>3. TypeOK
  <2>1. wtok \in 1 .. Len(Tokens) + 1 /\ wpart \in {"length", "value"} /\ wcalls \in Nat
    BY <1>1 DEF Init
  <2>2. /\ woff \in Nat /\ wleft \in Nat \ {0}
        /\ roff \in Nat /\ rleft \in Nat \ {0} /\ rcalls \in Nat
    BY DEF Init, HeaderLen
  <2>3. wire \in Seq(Byte)
    BY DEF Init
  <2>4. eof \in BOOLEAN /\ rpart \in {"length", "value", "done", "failed"}
    BY DEF Init
  <2>5. got \in Seq(Seq(Cell))
    BY DEF Init
  <2> QED
    BY <1>2, <2>1, <2>2, <2>3, <2>4, <2>5 DEF TypeOK, Cell
<1>4. wtok <= Len(Tokens) => Len(WriteBuffer) = HeaderLen
  <2> SUFFICES ASSUME wtok <= Len(Tokens) PROVE Len(WriteBuffer) = HeaderLen
    OBVIOUS
  <2>1. Len(Tokens[wtok]) \in Nat
    BY <1>1, TokensType DEF Init
  <2> QED
    BY <2>1, HeaderType DEF Init, WriteBuffer
<1>5. WithinBuffer
  <2>1. woff = 0 /\ wleft = HeaderLen /\ roff = 0 /\ rleft = HeaderLen
    BY DEF Init
  <2> QED
    BY <1>2, <1>4, <2>1 DEF WithinBuffer, HeaderLen
<1> QED
  BY <1>3, <1>5 DEF FramingInv

\* The buffer write_all holds is a sequence of bytes.
LEMMA WriteBufferType ==
    ASSUME TypeOK, wtok <= Len(Tokens)
    PROVE  WriteBuffer \in Seq(Byte)
<1>1. wtok \in 1 .. Len(Tokens)
  BY FramingAssumption DEF TypeOK
<1> QED
  BY <1>1, TokensType, HeaderType DEF WriteBuffer

\* A write keeps the invariant, whichever piece it is and whatever follows it.
LEMMA WriteInv ==
    ASSUME FramingInv, NEW k \in 1 .. wleft, Write(k)
    PROVE  FramingInv'
<1> USE DEF FramingInv
<1>1. /\ wtok \in 1 .. Len(Tokens) /\ Len(Tokens) \in Nat
      /\ woff \in Nat /\ wleft \in Nat /\ k \in Nat
  BY FramingAssumption DEF TypeOK, Write, Sending
<1>2. WriteBuffer \in Seq(Byte) /\ woff + wleft <= Len(WriteBuffer)
  BY <1>1, WriteBufferType DEF WithinBuffer
<1>3. wire' \in Seq(Byte)
  <2>1. \A j \in 1 .. k : WriteBuffer[woff + j] \in Byte
    BY <1>1, <1>2
  <2>2. [j \in 1 .. k |-> WriteBuffer[woff + j]] \in Seq(Byte)
    BY <2>1, <1>1
  <2> QED
    BY <2>2 DEF Write, TypeOK
<1>4. UNCHANGED <<eof, rpart, rbuf, roff, rleft, rcalls, got>>
  BY DEF Write, recvVars
<1>5. CASE k = wleft /\ NextWriteBuffer
  <2>1. Len(Tokens[wtok]) \in Nat /\ Tokens[wtok] \in Seq(Byte)
    BY <1>1, TokensType
  <2>2. CASE wpart = "length" /\ Len(Tokens[wtok]) > 0
    <3>1. wtok' = wtok /\ wpart' = "value" /\ wleft' = Len(Tokens[wtok]) /\ woff' = 0 /\ wcalls' = 0
      BY <1>5, <2>2 DEF NextWriteBuffer
    <3>2. TypeOK'
      BY <1>1, <1>3, <1>4, <2>1, <2>2, <3>1 DEF TypeOK
    <3>3. WithinBuffer'
      BY <1>1, <1>4, <2>1, <3>1 DEF WithinBuffer, WriteBuffer, Receiving
    <3> QED
      BY <3>2, <3>3
  <2>3. CASE ~(wpart = "length" /\ Len(Tokens[wtok]) > 0)
    <3>1. wtok' = wtok + 1 /\ wpart' = "length" /\ wleft' = HeaderLen /\ woff' = 0 /\ wcalls' = 0
      BY <1>5, <2>3 DEF NextWriteBuffer
    <3>2. TypeOK'
      BY <1>1, <1>3, <1>4, <3>1 DEF TypeOK, HeaderLen
    <3>3. wtok' <= Len(Tokens) => Len(WriteBuffer') = HeaderLen
      BY <1>1, <3>1, TokensType, HeaderType DEF WriteBuffer
    <3>4. (wtok <= Len(Tokens) => woff + wleft <= Len(WriteBuffer))'
      <4>1. woff' + wleft' <= HeaderLen
        BY <3>1 DEF HeaderLen
      <4> QED
        BY <4>1, <3>3
    <3>5. (Receiving => roff + rleft <= Len(rbuf))'
      BY <1>4 DEF WithinBuffer, Receiving
    <3>6. WithinBuffer'
      BY <3>4, <3>5 DEF WithinBuffer
    <3> QED
      BY <3>2, <3>6
  <2> QED
    BY <2>2, <2>3
<1>6. CASE k < wleft /\ woff' = k /\ wleft' = wleft - k /\ wcalls' = wcalls + 1
           /\ UNCHANGED <<wtok, wpart>>
  <2>1. TypeOK'
    BY <1>1, <1>3, <1>4, <1>6 DEF TypeOK
  <2>2. WriteBuffer' = WriteBuffer
    BY <1>6 DEF WriteBuffer
  <2>3. WithinBuffer'
    BY <1>1, <1>2, <1>4, <1>6, <2>2 DEF WithinBuffer, Receiving
  <2> QED
    BY <2>1, <2>3
<1> QED
  BY <1>5, <1>6 DEF Write

\* recv_token returns a token and starts on the next one.
LEMMA ReturnTokenInv ==
    ASSUME FramingInv, NEW token \in Seq(Cell), ReturnToken(token), wire' \in Seq(Byte),
           UNCHANGED <<sendVars, eof>>
    PROVE  FramingInv'
<1> USE DEF FramingInv
<1>1. got' \in Seq(Seq(Cell))
  BY DEF ReturnToken, TypeOK, Cell
<1>2. rbuf' \in Seq(Cell) /\ Len(rbuf') = HeaderLen
  BY BlankType DEF ReturnToken, HeaderLen
<1>3. TypeOK'
  BY <1>1, <1>2 DEF ReturnToken, TypeOK, HeaderLen, sendVars, Cell
<1>4. WriteBuffer' = WriteBuffer
  BY DEF WriteBuffer, sendVars
<1>5. WithinBuffer'
  <2>1. (wtok <= Len(Tokens) => woff + wleft <= Len(WriteBuffer))'
    BY <1>4 DEF WithinBuffer, sendVars
  <2>2. roff' = 0 /\ rleft' = HeaderLen
    BY DEF ReturnToken
  <2>3. (roff + rleft <= Len(rbuf))'
    BY <1>2, <2>2 DEF HeaderLen
  <2> QED
    BY <2>1, <2>3 DEF WithinBuffer
<1> QED
  BY <1>3, <1>5

\* A read keeps the size of the buffer.
LEMMA FilledType ==
    ASSUME FramingInv, NEW k \in 1 .. rleft, k <= Len(wire), Receiving
    PROVE  Filled(k) \in Seq(Cell) /\ Len(Filled(k)) = Len(rbuf)
<1>1. /\ wire \in Seq(Byte) /\ rbuf \in Seq(Cell) /\ roff \in Nat /\ k \in Nat
      /\ Len(rbuf) \in Nat
  BY DEF FramingInv, TypeOK, Cell
<1>2. \A i \in 1 .. Len(rbuf) :
        (IF i \in roff + 1 .. roff + k THEN wire[i - roff] ELSE rbuf[i]) \in Cell
  <2> SUFFICES ASSUME NEW i \in 1 .. Len(rbuf)
               PROVE  (IF i \in roff + 1 .. roff + k THEN wire[i - roff] ELSE rbuf[i]) \in Cell
    OBVIOUS
  <2>1. CASE i \in roff + 1 .. roff + k
    <3>1. i - roff \in 1 .. Len(wire)
      BY <1>1, <2>1
    <3> QED
      BY <3>1, <2>1, <1>1 DEF Cell
  <2>2. CASE i \notin roff + 1 .. roff + k
    BY <2>2, <1>1
  <2> QED
    BY <2>1, <2>2
<1> QED
  BY <1>1, <1>2 DEF Filled

\* A read keeps the invariant, whichever piece it is and whatever it completes.
LEMMA ReadInv ==
    ASSUME FramingInv, NEW k \in 1 .. rleft, Read(k)
    PROVE  FramingInv'
<1> USE DEF FramingInv
<1>1. /\ Receiving /\ k <= Len(wire) /\ UNCHANGED <<sendVars, eof>>
      /\ wire' = SubSeq(wire, k + 1, Len(wire))
  BY DEF Read
<1>2. wire' \in Seq(Byte)
  BY <1>1 DEF TypeOK
<1>3. Filled(k) \in Seq(Cell) /\ Len(Filled(k)) = Len(rbuf)
  BY <1>1, FilledType
<1>4. WriteBuffer' = WriteBuffer /\ wtok' = wtok /\ woff' = woff /\ wleft' = wleft
  BY <1>1 DEF WriteBuffer, sendVars
<1>5. CASE k < rleft /\ rbuf' = Filled(k) /\ roff' = k /\ rleft' = rleft - k
           /\ rcalls' = rcalls + 1 /\ UNCHANGED <<rpart, got>>
  <2>1. TypeOK'
    BY <1>1, <1>2, <1>3, <1>5 DEF TypeOK, sendVars, Cell
  <2>2. WithinBuffer'
    BY <1>1, <1>3, <1>4, <1>5 DEF WithinBuffer, TypeOK, Receiving
  <2> QED
    BY <2>1, <2>2
<1>6. CASE k = rleft /\ rpart = "length" /\ LengthComplete(Filled(k))
  <2>1. PICK d \in Completions(Filled(k)) :
            IF ValueOf(d) = 0
            THEN ReturnToken(<<>>)
            ELSE /\ rpart' = "value" /\ rbuf' = Blank(ValueOf(d))
                 /\ roff' = 0 /\ rleft' = ValueOf(d) /\ rcalls' = 0
                 /\ UNCHANGED got
    BY <1>6 DEF LengthComplete
  <2>2. ValueOf(d) \in Nat
    BY ValueType DEF Completions
  <2>3. CASE ValueOf(d) = 0
    <3>1. ReturnToken(<<>>)
      BY <2>1, <2>3
    <3>2. <<>> \in Seq(Cell)
      OBVIOUS
    <3> QED
      BY <3>1, <3>2, <1>1, <1>2, ReturnTokenInv
  <2>4. CASE ValueOf(d) # 0
    <3>1. Blank(ValueOf(d)) \in Seq(Cell) /\ Len(Blank(ValueOf(d))) = ValueOf(d)
      BY <2>2, BlankType
    <3>2. TypeOK'
      BY <1>1, <1>2, <2>1, <2>2, <2>4, <3>1 DEF TypeOK, sendVars, Cell
    <3>3. WithinBuffer'
      BY <1>4, <2>1, <2>2, <2>4, <3>1 DEF WithinBuffer
    <3> QED
      BY <3>2, <3>3
  <2> QED
    BY <2>3, <2>4
<1>7. CASE k = rleft /\ rpart = "value" /\ ReturnToken(Filled(k))
  BY <1>1, <1>2, <1>3, <1>7, ReturnTokenInv
<1> QED
  BY <1>5, <1>6, <1>7 DEF Read

\* The end of the sender, the end of the stream and a failed read keep the invariant.
LEMMA OtherStepsInv ==
    ASSUME FramingInv, SenderExit \/ ReadEof \/ ReadFails \/ UNCHANGED vars
    PROVE  FramingInv'
<1> USE DEF FramingInv, vars, sendVars, recvVars
<1>1. CASE SenderExit
  BY <1>1 DEF SenderExit, TypeOK, WithinBuffer, WriteBuffer, Receiving
<1>2. CASE ReadEof
  BY <1>2 DEF ReadEof, TypeOK, WithinBuffer, WriteBuffer, Receiving
<1>3. CASE ReadFails
  BY <1>3 DEF ReadFails, TypeOK, WithinBuffer, WriteBuffer, Receiving
<1>4. CASE UNCHANGED vars
  BY <1>4 DEF TypeOK, WithinBuffer, WriteBuffer, Receiving
<1> QED
  BY <1>1, <1>2, <1>3, <1>4

\* The offset that write_all and read_all keep is wrong from the third piece
\* on, and still no call reaches past the end of the buffer it serves: the
\* loops garble a token but never touch memory outside it.
THEOREM BufferSafety == Spec => [](TypeOK /\ WithinBuffer)
<1>1. Init => FramingInv
  BY InitInv
<1>2. FramingInv /\ [Next]_vars => FramingInv'
  <2> SUFFICES ASSUME FramingInv, [Next]_vars PROVE FramingInv'
    OBVIOUS
  <2>1. CASE \E k \in 1 .. wleft : Write(k)
    BY <2>1, WriteInv
  <2>2. CASE \E k \in 1 .. rleft : Read(k)
    BY <2>2, ReadInv
  <2>3. CASE SenderExit \/ ReadEof \/ ReadFails \/ UNCHANGED vars
    BY <2>3, OtherStepsInv
  <2> QED
    BY <2>1, <2>2, <2>3 DEF Next, SenderStep, ReceiverStep, Ended
<1>3. FramingInv => TypeOK /\ WithinBuffer
  BY DEF FramingInv
<1> QED
  BY <1>1, <1>2, <1>3, PTL DEF Spec

\* In particular every variable keeps its type: only bytes of the sender's
\* buffers get on the wire.
THEOREM FramingTypes == Spec => []TypeOK
  BY BufferSafety, PTL
=============================================================================
