-------------------------- MODULE PushFramingProofs --------------------------
(***************************************************************************)
(* For which lengths Parse_Msg_Data reads what SetMsgLengthItem writes,    *)
(* and that for these lengths Msg_Process_PushData cuts a segment of any   *)
(* number of messages as it was put together, if it begins with a message. *)
(***************************************************************************)
EXTENDS PushFraming, TLAPS

\* The loop stops at the first zero byte.
LEMMA StopAtFirstZero ==
  ASSUME NEW b, NEW k \in 1 .. 4, b[k] = 0, \A j \in 1 .. k - 1 : b[j] # 0
  PROVE  StopAt(b) = k
<1> DEFINE P(i) == /\ i <= 4 => b[i] = 0
                   /\ \A j \in 1 .. i - 1 : b[j] # 0
<1>1. P(k) /\ k \in 1 .. 5
  OBVIOUS
<1>2. ASSUME NEW i \in 1 .. 5, P(i) PROVE i = k
  BY <1>2
<1> HIDE DEF P
<1>3. (CHOOSE i \in 1 .. 5 : P(i)) = k
  BY <1>1, <1>2
<1>4. StopAt(b) = CHOOSE i \in 1 .. 5 : P(i)
  BY DEF StopAt, MAX_LENGTH_SIZE, P
<1> QED
  BY <1>3, <1>4

\* A field of one byte is followed by the zero that stops the loop.
LEMMA OneByte ==
  ASSUME NEW m \in 1 .. 127
  PROVE  /\ SetMsgLengthItem(m) = <<m>>
         /\ ParseMsgData(Buffer(<<m>>)) = [len |-> m, at |-> 2]
<1> DEFINE b == Buffer(<<m>>)
<1>0. m < Weight(1)
  BY DEF Weight
<1>1. SetMsgLengthItem(m) = <<m>>
  BY <1>0 DEF SetMsgLengthItem
<1>2. b[1] = m /\ b[2] = 0
  BY DEF Buffer, MAX_LENGTH_SIZE
<1> HIDE DEF b
<1>3. StopAt(b) = 2
  BY <1>2, StopAtFirstZero
<1>4. /\ RoundAdds(b, 1) = 0 /\ RoundAdds(b, 2) = 0
      /\ RoundAdds(b, 3) = 0 /\ RoundAdds(b, 4) = 0
  BY <1>2, <1>3 DEF RoundAdds
<1>5. b[1] % 128 = m
  BY <1>2
<1>6. ParseMsgData(b) = [len |-> m, at |-> 2]
  BY <1>3, <1>4, <1>5 DEF ParseMsgData
<1> QED
  BY <1>1, <1>6 DEF b

\* A field of two bytes: of the second byte only that it is not 0 is used.
LEMMA TwoBytes ==
  ASSUME NEW m \in Nat, Weight(1) <= m, m < Weight(2)
  PROVE  /\ Len(SetMsgLengthItem(m)) = 2
         /\ ParseMsgData(Buffer(SetMsgLengthItem(m))) = [len |-> (m % 128) + 128, at |-> 3]
<1> DEFINE lo == More(ByteOf(m, 0))
           hi == Shifted(m, 1)
           b  == Buffer(<<lo, hi>>)
<1>0. 128 <= m /\ m < 128 * 128 /\ ~(m < Weight(1))
  BY DEF Weight
<1>1. SetMsgLengthItem(m) = <<lo, hi>>
  BY <1>0 DEF SetMsgLengthItem
<1>2. ByteOf(m, 0) = m % 256 /\ ByteOf(m, 1) = (m \div 256) % 256
  BY DEF ByteOf
<1>3. lo = (m % 128) + 128
  BY <1>2 DEF More
<1>4. hi = m \div 128
  BY <1>0, <1>2 DEF Shifted
<1>5. lo # 0 /\ hi # 0 /\ lo % 128 = m % 128
  BY <1>0, <1>3, <1>4
<1>6. b[1] = lo /\ b[2] = hi /\ b[3] = 0
  BY DEF Buffer, MAX_LENGTH_SIZE
<1> HIDE DEF lo, hi, b
<1>7. StopAt(b) = 3
  BY <1>5, <1>6, StopAtFirstZero
<1>8. /\ RoundAdds(b, 1) = 128 /\ RoundAdds(b, 2) = 0
      /\ RoundAdds(b, 3) = 0 /\ RoundAdds(b, 4) = 0
  BY <1>5, <1>6, <1>7 DEF RoundAdds, Weight
<1>9. ParseMsgData(b) = [len |-> (m % 128) + 128, at |-> 3]
  BY <1>5, <1>6, <1>7, <1>8 DEF ParseMsgData
<1> QED
  BY <1>1, <1>9 DEF b
-----------------------------------------------------------------------------
\* Every length from 1 to 255 is read by Parse_Msg_Data as SetMsgLengthItem
\* wrote it, although it looks for a zero byte where the field ends with a
\* small one: the only lengths for which Msg_Process_PushData finds the next
\* message.
THEOREM ShortLengthsRead ==
  ASSUME NEW m \in 1 .. 255
  PROVE  ParseMsgData(Buffer(SetMsgLengthItem(m)))
           = [len |-> m, at |-> Len(SetMsgLengthItem(m)) + 1]
<1>1. CASE m < 128
  <2>0. m \in 1 .. 127
    BY <1>1
  <2>1. /\ SetMsgLengthItem(m) = <<m>>
        /\ ParseMsgData(Buffer(<<m>>)) = [len |-> m, at |-> 2]
    BY <2>0, OneByte
  <2>2. Len(SetMsgLengthItem(m)) + 1 = 2
    BY <2>1
  <2> QED
    BY <2>1, <2>2, Zenon
<1>2. CASE m >= 128
  <2>1. m \in Nat /\ Weight(1) <= m /\ m < Weight(2) /\ (m % 128) + 128 = m
    BY <1>2 DEF Weight
  <2>2. /\ Len(SetMsgLengthItem(m)) = 2
        /\ ParseMsgData(Buffer(SetMsgLengthItem(m))) = [len |-> (m % 128) + 128, at |-> 3]
    BY <2>1, TwoBytes
  <2>3. Len(SetMsgLengthItem(m)) + 1 = 3
    BY <2>2
  <2> QED
    BY <2>1, <2>2, <2>3, Zenon
<1> QED
  BY <1>1, <1>2

\* The reference's field ends at its first byte below 128.
LEMMA FieldOfOneByte ==
  ASSUME NEW b, b[1] \in Nat, b[1] < 128
  PROVE  FieldLen(b) = 1
<1> DEFINE P(i) == b[i] < 128 /\ \A j \in 1 .. i - 1 : b[j] >= 128
<1>1. P(1) /\ 1 \in 1 .. 4
  OBVIOUS
<1>2. ASSUME NEW i \in 1 .. 4, P(i) PROVE i = 1
  BY <1>2
<1>3. FieldLen(b) = CHOOSE i \in 1 .. 4 : P(i)
  BY DEF FieldLen, MAX_LENGTH_SIZE
<1> HIDE DEF P
<1> QED
  BY <1>1, <1>2, <1>3

\* A first byte with, a second without the bit that says more follows.
LEMMA FieldOfTwoBytes ==
  ASSUME NEW b, b[1] \in Nat, b[2] \in Nat, 128 <= b[1], b[2] < 128
  PROVE  FieldLen(b) = 2
<1> DEFINE P(i) == b[i] < 128 /\ \A j \in 1 .. i - 1 : b[j] >= 128
<1>1. P(2) /\ 2 \in 1 .. 4
  OBVIOUS
<1>2. ASSUME NEW i \in 1 .. 4, P(i) PROVE i = 2
  BY <1>2
<1>3. FieldLen(b) = CHOOSE i \in 1 .. 4 : P(i)
  BY DEF FieldLen, MAX_LENGTH_SIZE
<1> HIDE DEF P
<1> QED
  BY <1>1, <1>2, <1>3

\* SetMsgLengthItem writes every length of one or two bytes, up to 16383 and
\* so every message of the program, as the protocol wants it.
THEOREM LengthsWritten ==
  ASSUME NEW m \in 0 .. 16383
  PROVE  LET b == Buffer(SetMsgLengthItem(m))
         IN  FieldLen(b) = Len(SetMsgLengthItem(m)) /\ FieldValue(b) = m
<1> DEFINE b == Buffer(SetMsgLengthItem(m))
<1>1. CASE m < 128
  <2>1. SetMsgLengthItem(m) = <<m>>
    BY <1>1 DEF SetMsgLengthItem, Weight
  <2>2. b[1] = m /\ b[2] = 0 /\ b[3] = 0 /\ b[4] = 0
    BY <2>1 DEF Buffer, MAX_LENGTH_SIZE
  <2> HIDE DEF b
  <2>3. b[1] \in Nat /\ b[1] < 128
    BY <1>1, <2>2
  <2>5. FieldLen(b) = 1
    BY <2>3, FieldOfOneByte
  <2>6. FieldValue(b) = m
    BY <1>1, <2>2, <2>5 DEF FieldValue, Weight
  <2>7. Len(SetMsgLengthItem(m)) = 1
    BY <2>1
  <2> QED
    BY <2>5, <2>6, <2>7 DEF b
<1>2. CASE m >= 128
  <2> DEFINE lo == More(ByteOf(m, 0))
             hi == Shifted(m, 1)
  <2>1. SetMsgLengthItem(m) = <<lo, hi>>
    BY <1>2 DEF SetMsgLengthItem, Weight
  <2>2. m \in Nat /\ 128 <= m /\ m < 128 * 128
    BY <1>2
  <2>3. ByteOf(m, 0) = m % 256 /\ ByteOf(m, 1) = (m \div 256) % 256
    BY DEF ByteOf
  <2>4. lo = (m % 128) + 128
    BY <2>3 DEF More
  <2>5. hi = m \div 128
    BY <2>2, <2>3 DEF Shifted
  <2> HIDE DEF lo, hi
  <2>6. lo \in 128 .. 255 /\ hi \in 1 .. 127
    BY <2>2, <2>4, <2>5
  <2>7. lo % 128 = m % 128
    BY <2>2, <2>4
  <2>8. (lo % 128) + hi * 128 = m
    BY <2>2, <2>5, <2>7
  <2>9. b[1] = lo /\ b[2] = hi /\ b[3] = 0 /\ b[4] = 0
    BY <2>1 DEF Buffer, MAX_LENGTH_SIZE
  <2>10. Len(SetMsgLengthItem(m)) = 2
    BY <2>1
  <2> HIDE DEF b
  <2>11. b[1] \in Nat /\ b[2] \in Nat /\ 128 <= b[1] /\ b[2] < 128
    BY <2>6, <2>9
  <2>13. FieldLen(b) = 2
    BY <2>11, FieldOfTwoBytes
  <2>14. hi % 128 = hi
    BY <2>6
  <2>15. FieldValue(b) = m
    BY <2>6, <2>8, <2>9, <2>13, <2>14 DEF FieldValue, Weight
  <2> QED
    BY <2>10, <2>13, <2>15 DEF b
<1> QED
  BY <1>1, <1>2

\* Of the lengths that take two bytes exactly those below 256 are read as they
\* were written; a longer one is taken for one that is at least 128 shorter.
THEOREM LongLengthsMisread ==
  ASSUME NEW m \in Nat, Weight(1) <= m, m < Weight(2)
  PROVE  /\ ParseMsgData(Buffer(SetMsgLengthItem(m))).len = m <=> m < 256
         /\ m >= 256 => ParseMsgData(Buffer(SetMsgLengthItem(m))).len + 128 <= m
<1>1. ParseMsgData(Buffer(SetMsgLengthItem(m))).len = (m % 128) + 128
  BY TwoBytes
<1>2. 128 <= m
  BY DEF Weight
<1> QED
  BY <1>1, <1>2
-----------------------------------------------------------------------------
(* The loop of Msg_Process_PushData: types *)

\* The loop of Parse_Msg_Data looks at five bytes at most.
LEMMA StopAtType == ASSUME NEW b PROVE StopAt(b) \in 1 .. 5
<1> DEFINE P(i) == /\ i <= 4 => b[i] = 0
                   /\ \A j \in 1 .. i - 1 : b[j] # 0
<1>1. \E i \in 1 .. 5 : P(i)
  <2>1. CASE b[1] = 0
    <3>1. P(1)
      BY <2>1
    <3> QED
      BY <3>1
  <2>2. CASE b[1] # 0 /\ b[2] = 0
    <3>1. P(2)
      BY <2>2
    <3> QED
      BY <3>1
  <2>3. CASE b[1] # 0 /\ b[2] # 0 /\ b[3] = 0
    <3>1. P(3)
      BY <2>3
    <3> QED
      BY <3>1
  <2>4. CASE b[1] # 0 /\ b[2] # 0 /\ b[3] # 0 /\ b[4] = 0
    <3>1. P(4)
      BY <2>4
    <3> QED
      BY <3>1
  <2>5. CASE b[1] # 0 /\ b[2] # 0 /\ b[3] # 0 /\ b[4] # 0
    <3>1. P(5)
      BY <2>5
    <3> QED
      BY <3>1
  <2> QED
    BY <2>1, <2>2, <2>3, <2>4, <2>5
<1> HIDE DEF P
<1>2. (CHOOSE i \in 1 .. 5 : P(i)) \in 1 .. 5
  BY <1>1
<1>3. StopAt(b) = CHOOSE i \in 1 .. 5 : P(i)
  BY DEF StopAt, MAX_LENGTH_SIZE, P
<1> QED
  BY <1>2, <1>3

\* Whatever the bytes are, a length is read.
LEMMA ParseType ==
  ASSUME NEW b, b[1] \in Nat
  PROVE  ParseMsgData(b).len \in Nat /\ ParseMsgData(b).at \in 1 .. 5
<1>1. StopAt(b) \in 1 .. 5
  BY StopAtType
<1>2. /\ RoundAdds(b, 1) \in Nat /\ RoundAdds(b, 2) \in Nat
      /\ RoundAdds(b, 3) \in Nat /\ RoundAdds(b, 4) \in Nat
  BY DEF RoundAdds, Weight
<1>3. b[1] % 128 \in Nat
  OBVIOUS
<1> QED
  BY <1>1, <1>2, <1>3 DEF ParseMsgData

\* A length field has a first byte, and at most four.
LEMMA FieldType ==
  ASSUME NEW n \in Nat
  PROVE  /\ SetMsgLengthItem(n)[1] \in Nat /\ Len(SetMsgLengthItem(n)) \in 1 .. 4
         /\ Buffer(SetMsgLengthItem(n))[1] \in Nat
<1> DEFINE lo == More(ByteOf(n, 0))
<1>1. lo \in Nat
  BY DEF More, ByteOf
<1> HIDE DEF lo
<1>2. CASE n < Weight(1)
  <2>1. SetMsgLengthItem(n) = <<n>>
    BY <1>2 DEF SetMsgLengthItem
  <2> QED
    BY <2>1 DEF Buffer, MAX_LENGTH_SIZE
<1>3. CASE ~(n < Weight(1)) /\ n < Weight(2)
  <2>1. SetMsgLengthItem(n) = <<lo, Shifted(n, 1)>>
    BY <1>3 DEF SetMsgLengthItem, lo
  <2> QED
    BY <1>1, <2>1 DEF Buffer, MAX_LENGTH_SIZE
<1>4. CASE ~(n < Weight(1)) /\ ~(n < Weight(2)) /\ n < Weight(3)
  <2>1. SetMsgLengthItem(n) = <<lo, More(Shifted(n, 1)), Shifted(n, 2)>>
    BY <1>4 DEF SetMsgLengthItem, lo
  <2> QED
    BY <1>1, <2>1 DEF Buffer, MAX_LENGTH_SIZE
<1>5. CASE ~(n < Weight(1)) /\ ~(n < Weight(2)) /\ ~(n < Weight(3))
  <2>1. SetMsgLengthItem(n) = <<lo, More(Shifted(n, 1)), More(Shifted(n, 2)), Shifted(n, 3)>>
    BY <1>5 DEF SetMsgLengthItem, lo
  <2> QED
    BY <1>1, <2>1 DEF Buffer, MAX_LENGTH_SIZE
<1> QED
  BY <1>2, <1>3, <1>4, <1>5

\* A message takes more bytes than its length field says.
LEMMA SizeType ==
  ASSUME NEW n \in Nat
  PROVE  Size(n) \in Nat /\ Size(n) >= n + 2
BY FieldType DEF Size

\* A pass of the loop claims at least a byte, of a message or of garbage.
LEMMA ClaimsType ==
  ASSUME TypeOK, NEW n \in Claims
  PROVE  n \in Nat \ {0}
<1>1. CASE Misaligned
  BY <1>1, FramingAssumption DEF Claims
<1>2. CASE ~Misaligned
  <2>1. PICK k \in 1 .. Len(seg) : n = Claimed(k)
    BY <1>2 DEF Claims
  <2>2. seg[k] \in Messages
    BY DEF TypeOK
  <2>3. seg[k].len \in Nat
    BY <2>2, FramingAssumption DEF Messages
  <2>4. Buffer(SetMsgLengthItem(seg[k].len))[1] \in Nat
    BY <2>3, FieldType
  <2>5. FieldAt(k)[1] \in Nat
    <3>1. 1 \in 1 .. MAX_LENGTH_SIZE + 1
      BY DEF MAX_LENGTH_SIZE
    <3>2. FieldAt(k)[1] \in {Buffer(SetMsgLengthItem(seg[k].len))[1], 0}
      BY <3>1 DEF FieldAt
    <3> QED
      BY <2>4, <3>2
  <2>6. /\ ParseMsgData(FieldAt(k)).len \in Nat
        /\ ParseMsgData(FieldAt(k)).at \in 1 .. 5
    BY <2>5, ParseType
  <2> QED
    BY <2>1, <2>6 DEF Claimed
<1> QED
  BY <1>1, <1>2

-----------------------------------------------------------------------------
(* The loop of Msg_Process_PushData: the segment *)

\* Where the k-th message ends.
End(k) == seg[k].at + Size(seg[k].len)

\* The messages lie one behind the other, without gaps, behind the rest of
\* the message cut before.
Layout ==
  /\ \A i \in 1 .. Len(seg) : End(i) <= size
  /\ \A i, j \in 1 .. Len(seg) : i < j => End(i) <= seg[j].at
  /\ \A i \in 1 .. Len(seg) - 1 : seg[i + 1].at = End(i)
  /\ seg # <<>> => seg[1].at = lead /\ End(Len(seg)) = size
  /\ seg = <<>> => size = lead
  /\ lead <= size

\* Where messages begin and end are numbers.
LEMMA MessageType ==
  ASSUME TypeOK, NEW k \in 1 .. Len(seg)
  PROVE  /\ seg[k] \in Messages /\ seg[k].at \in Nat /\ seg[k].len \in Lens \cup {0}
         /\ seg[k].len \in Nat /\ seg[k].typed \in BOOLEAN
         /\ Size(seg[k].len) \in Nat /\ Size(seg[k].len) >= seg[k].len + 2
         /\ End(k) \in Nat /\ seg[k].at < End(k)
<1>1. seg[k] \in Messages
  BY DEF TypeOK
<1>2. seg[k].at \in Nat /\ seg[k].len \in Lens \cup {0} /\ seg[k].typed \in BOOLEAN
  BY <1>1 DEF Messages
<1>3. seg[k].len \in Nat
  BY <1>2, FramingAssumption
<1>4. Size(seg[k].len) \in Nat /\ Size(seg[k].len) >= seg[k].len + 2
  BY <1>3, SizeType
<1> QED
  BY <1>1, <1>2, <1>3, <1>4 DEF End

\* A message more keeps the layout.
LEMMA LayoutPush ==
  ASSUME TypeOK, Layout, NEW len \in Lens \cup {0}, NEW typed \in BOOLEAN,
         Push(len, typed)
  PROVE  TypeOK' /\ Layout'
<1> USE FramingAssumption
<1> DEFINE msg == [at |-> size, len |-> len, typed |-> typed]
<1>0. PICK n \in Nat : n = Len(seg)
  BY DEF TypeOK
<1>1. Size(len) \in Nat
  BY SizeType
<1>2. size \in Nat /\ lead \in Nat /\ seg \in Seq(Messages) /\ n = Len(seg)
  BY <1>0 DEF TypeOK
<1>3. msg \in Messages
  BY <1>2 DEF Messages
<1>4. seg' = Append(seg, msg)
  BY DEF Push
<1>5. msg.at = size /\ msg.len = len
  OBVIOUS
<1> HIDE DEF msg
<1>6. seg' \in Seq(Messages) /\ Len(seg') = n + 1
  BY <1>2, <1>3, <1>4
<1>7. /\ size' \in Nat /\ size <= size' /\ n < MaxMsgs /\ size' = size + Size(len)
      /\ lead' = lead
  BY <1>1, <1>2 DEF Push
<1>8. TypeOK'
  <2>1. ptMsg + nMsgDataLen + cut <= size' /\ handled \subseteq 0 .. size'
    BY <1>2, <1>7 DEF TypeOK
  <2> QED
    BY <1>2, <1>6, <1>7, <2>1 DEF Push, TypeOK
<1>9. (\A i \in 1 .. n : seg'[i] = seg[i]) /\ seg'[n + 1] = msg
  BY <1>2, <1>3, <1>4
<1>10. \A i \in 1 .. n : End(i)' = End(i) /\ End(i) \in Nat /\ seg'[i].at = seg[i].at
  <2> SUFFICES ASSUME NEW i \in 1 .. n
               PROVE  End(i)' = End(i) /\ End(i) \in Nat /\ seg'[i].at = seg[i].at
    OBVIOUS
  <2>1. End(i) \in Nat
    BY <1>2, MessageType
  <2> QED
    BY <1>9, <2>1 DEF End
<1>11. End(n + 1)' = size' /\ seg'[n + 1].at = size
  BY <1>5, <1>7, <1>9 DEF End
<1>12. /\ \A i \in 1 .. n : End(i) <= size
       /\ \A i, j \in 1 .. n : i < j => End(i) <= seg[j].at
       /\ \A i \in 1 .. n - 1 : seg[i + 1].at = End(i)
       /\ n > 0 => seg[1].at = lead /\ End(n) = size
       /\ n = 0 => size = lead
       /\ lead <= size
  BY <1>2 DEF Layout
<1>13. \A i \in 1 .. Len(seg') : End(i)' <= size'
  <2> SUFFICES ASSUME NEW i \in 1 .. n + 1 PROVE End(i)' <= size'
    BY <1>6
  <2>1. size <= size' /\ size' \in Nat
    BY <1>1, <1>2, <1>7
  <2>2. CASE i = n + 1
    BY <1>11, <2>1, <2>2
  <2>3. CASE i \in 1 .. n
    <3>1. End(i)' = End(i) /\ End(i) \in Nat /\ End(i) <= size
      BY <1>10, <1>12, <2>3
    <3> QED
      BY <1>2, <2>1, <3>1
  <2> QED
    BY <2>2, <2>3
<1>14. \A i, j \in 1 .. Len(seg') : i < j => End(i)' <= seg'[j].at
  <2> SUFFICES ASSUME NEW i \in 1 .. n, NEW j \in 1 .. n + 1, i < j
               PROVE  End(i)' <= seg'[j].at
    BY <1>6
  <2>1. CASE j = n + 1
    BY <1>10, <1>11, <1>12, <2>1
  <2>2. CASE j \in 1 .. n
    BY <1>10, <1>12, <2>2
  <2> QED
    BY <2>1, <2>2
<1>15. \A i \in 1 .. Len(seg') - 1 : seg'[i + 1].at = End(i)'
  <2> SUFFICES ASSUME NEW i \in 1 .. n PROVE seg'[i + 1].at = End(i)'
    BY <1>2, <1>6
  <2>1. CASE i = n
    BY <1>10, <1>11, <1>12, <2>1
  <2>2. CASE i < n
    <3>1. i \in 1 .. n - 1 /\ i + 1 \in 1 .. n
      BY <1>2, <2>2
    <3> QED
      BY <1>10, <1>12, <3>1
  <2> QED
    BY <1>2, <2>1, <2>2
<1>16. seg'[1].at = lead' /\ End(Len(seg))' = size'
  <2>1. CASE n = 0
    BY <1>6, <1>7, <1>11, <1>12, <2>1
  <2>2. CASE n > 0
    BY <1>2, <1>6, <1>7, <1>10, <1>11, <1>12, <2>2
  <2> QED
    BY <1>2, <2>1, <2>2
<1>17. seg' # <<>>
  BY <1>0, <1>6
<1>18. lead' <= size'
  BY <1>2, <1>7, <1>12
<1> QED
  BY <1>8, <1>13, <1>14, <1>15, <1>16, <1>17, <1>18 DEF Layout

\* What is left of the last message is less than the segment.
LEMMA LastFits ==
  ASSUME TypeOK, Layout
  PROVE  LastSize \in Nat /\ LastSize <= size
<1>1. CASE seg = <<>>
  BY <1>1, FramingAssumption DEF LastSize, Layout, TypeOK
<1>2. CASE seg # <<>>
  <2>1. Len(seg) \in 1 .. Len(seg)
    BY <1>2 DEF TypeOK
  <2>2. /\ seg[Len(seg)].at \in Nat /\ Size(seg[Len(seg)].len) \in Nat
        /\ End(Len(seg)) <= size
    BY <2>1, MessageType DEF Layout
  <2> QED
    BY <1>2, <2>2 DEF LastSize, End, TypeOK
<1> QED
  BY <1>1, <1>2

\* What recv() cuts off changes nothing but the msgType of the last message.
LEMMA LayoutRecv ==
  ASSUME TypeOK, Layout, NEW c \in Cuts, Recv(c)
  PROVE  /\ TypeOK' /\ Layout' /\ Len(seg') = Len(seg)
         /\ \A k \in 1 .. Len(seg) : seg'[k].at = seg[k].at /\ seg'[k].len = seg[k].len
<1> USE FramingAssumption
<1>1. seg \in Seq(Messages) /\ size \in Nat /\ c \in Nat /\ lead \in Nat
  BY DEF TypeOK
<1>2. /\ seg' \in Seq(Messages) /\ Len(seg') = Len(seg)
      /\ \A k \in 1 .. Len(seg) : seg'[k].at = seg[k].at /\ seg'[k].len = seg[k].len
  <2>1. CASE seg' = seg
    BY <1>1, <2>1
  <2>2. CASE seg # <<>> /\ seg' = [seg EXCEPT ![Len(seg)].typed = FALSE]
    <3> DEFINE cutMsg == [seg[Len(seg)] EXCEPT !.typed = FALSE]
    <3>0. Len(seg) \in 1 .. Len(seg)
      BY <1>1, <2>2
    <3>1. seg[Len(seg)] \in Messages
      BY <1>1, <3>0
    <3>2. /\ cutMsg \in Messages
          /\ cutMsg.at = seg[Len(seg)].at /\ cutMsg.len = seg[Len(seg)].len
      BY <3>1 DEF Messages
    <3>3. seg' = [seg EXCEPT ![Len(seg)] = cutMsg]
      BY <2>2
    <3> HIDE DEF cutMsg
    <3> QED
      BY <1>1, <3>0, <3>2, <3>3
  <2> QED
    BY <2>1, <2>2 DEF Recv
<1>3. c < size
  <2>1. LastSize \in Nat /\ LastSize <= size
    BY LastFits
  <2> QED
    BY <1>1, <2>1 DEF Recv
<1>4. TypeOK'
  <2>1. /\ size' = size /\ lead' = lead /\ cut' = c /\ nMsgDataLen' = size - c
        /\ ptMsg' = 0 /\ handled' = {}
        /\ pc' \in {"start", "done", "undefined"}
    BY DEF Recv, Entry
  <2>2. size - c \in Nat /\ 0 + (size - c) + c <= size
    BY <1>1, <1>3
  <2>3. Len(seg') <= MaxMsgs /\ lead \in Cuts
    BY <1>2 DEF TypeOK
  <2> QED
    BY <1>1, <1>2, <2>1, <2>2, <2>3 DEF TypeOK
<1>5. \A k \in 1 .. Len(seg) : End(k)' = End(k)
  BY <1>2 DEF End
<1>6. size' = size /\ lead' = lead /\ lead <= size /\ (seg = <<>> <=> seg' = <<>>)
  BY <1>1, <1>2 DEF Recv, Layout
<1>7. /\ \A i \in 1 .. Len(seg') : End(i)' <= size'
      /\ \A i, j \in 1 .. Len(seg') : i < j => End(i)' <= seg'[j].at
  BY <1>2, <1>5, <1>6 DEF Layout
<1>8. \A i \in 1 .. Len(seg') - 1 : seg'[i + 1].at = End(i)'
  <2> SUFFICES ASSUME NEW i \in 1 .. Len(seg) - 1 PROVE seg'[i + 1].at = End(i)'
    BY <1>2
  <2>1. i \in 1 .. Len(seg) /\ i + 1 \in 1 .. Len(seg)
    BY <1>1
  <2> QED
    BY <1>2, <1>5, <2>1 DEF Layout
<1>9. ASSUME seg # <<>> PROVE seg'[1].at = lead' /\ End(Len(seg))' = size'
  <2>1. 1 \in 1 .. Len(seg) /\ Len(seg) \in 1 .. Len(seg)
    BY <1>1, <1>9
  <2>2. seg'[1].at = lead'
    BY <1>2, <1>6, <1>9, <2>1 DEF Layout
  <2>3. End(Len(seg)) = size
    BY <1>9 DEF Layout
  <2>4. End(Len(seg))' = seg'[Len(seg)].at + Size(seg'[Len(seg)].len)
    BY <1>2 DEF End
  <2> QED
    BY <1>2, <1>6, <2>1, <2>2, <2>3, <2>4 DEF End
<1>10. Layout'
  BY <1>6, <1>7, <1>8, <1>9 DEF Layout
<1> QED
  BY <1>2, <1>4, <1>10

\* Every step keeps the types and the layout.
LEMMA LayoutStep ==
  ASSUME TypeOK, Layout, [Next]_vars
  PROVE  TypeOK' /\ Layout'
<1> USE FramingAssumption
<1>1. ASSUME NEW len \in Lens, NEW typed \in BOOLEAN, Push(len, typed)
      PROVE  TypeOK' /\ Layout'
  BY <1>1, LayoutPush
<1>2. CASE PingResp
  BY <1>2, LayoutPush DEF PingResp
<1>3. ASSUME NEW c \in Cuts, Recv(c) PROVE TypeOK' /\ Layout'
  BY <1>3, LayoutRecv
<1>4. /\ ptMsg \in Nat /\ nMsgDataLen \in Nat /\ cut \in Nat /\ size \in Nat
      /\ ptMsg + nMsgDataLen + cut <= size
  BY DEF TypeOK
<1>5. ptMsg \in 0 .. size
  BY <1>4
<1>6. ASSUME NEW n \in Claims, DataMissed(n) \/ TypeMissed(n)
      PROVE  TypeOK' /\ Layout'
  BY <1>6 DEF DataMissed, TypeMissed, Finish, TypeOK, Layout, End
<1>7. ASSUME NEW n \in Claims, HandleLast(n) PROVE TypeOK' /\ Layout'
  BY <1>5, <1>7 DEF HandleLast, Finish, TypeOK, Layout, End
<1>8. ASSUME NEW n \in Claims, HandleAndGoOn(n) PROVE TypeOK' /\ Layout'
  <2>1. UNCHANGED <<pc, lead, seg, size, cut>> /\ handled' = handled \cup {ptMsg}
    BY <1>8 DEF HandleAndGoOn
  <2>2. n \in Nat \ {0}
    BY ClaimsType
  <2>3. /\ ptMsg' \in Nat /\ nMsgDataLen' \in Nat
        /\ ptMsg' + nMsgDataLen' + cut <= size
    BY <1>4, <1>8, <2>2 DEF HandleAndGoOn
  <2> QED
    BY <1>5, <2>1, <2>3 DEF TypeOK, Layout, End
<1>9. ASSUME Select \/ Reconnect PROVE TypeOK' /\ Layout'
  <2>1. <<>> \in Seq(Messages) /\ Len(<<>>) = 0
    OBVIOUS
  <2>2. PICK rest \in Cuts : Empty(rest)
    BY <1>9 DEF Select, Reconnect, TypeOK
  <2> QED
    BY <2>1, <2>2 DEF Empty, TypeOK, Layout, End
<1>10. ASSUME UNCHANGED vars PROVE TypeOK' /\ Layout'
  BY <1>10 DEF vars, TypeOK, Layout, End
<1> QED
  BY <1>1, <1>2, <1>3, <1>6, <1>7, <1>8, <1>9, <1>10 DEF Next

\* Types and layout in every reachable state.
LEMMA LayoutHolds == Spec => [](TypeOK /\ Layout)
<1>1. Init => TypeOK /\ Layout
  <2>1. <<>> \in Seq(Messages) /\ Len(<<>>) = 0
    OBVIOUS
  <2> QED
    BY <2>1, FramingAssumption DEF Init, TypeOK, Layout, End
<1> QED
  BY <1>1, LayoutStep, PTL DEF Spec

\* The loop never looks behind the bytes recv() has returned, whatever the
\* lengths of the messages are and however they are misread, and whatever the
\* rest of a cut message at the head of the segment is taken for.  (That the
\* bytes themselves fit into the buffer is not claimed: see Recv.)
THEOREM TypeCorrect == Spec => []TypeOK
BY LayoutHolds, PTL
-----------------------------------------------------------------------------
(* The loop of Msg_Process_PushData: which messages are handled *)

\* At the label Process_PushData_Start ptMsg is at the beginning of a message,
\* the messages in front of it have been handled, and nothing else has.
AtMessage(k) ==
  /\ ptMsg = seg[k].at /\ nMsgDataLen = size - cut - ptMsg
  /\ k > 1 => nMsgDataLen > 4
  /\ \A i \in 1 .. k - 1 : seg[i].at \in handled
  /\ \A p \in handled : \E i \in 1 .. k - 1 : seg[i].at = p

\* recv() has cut the last message only, and has taken its msgType if it
\* has left no more than its header.
CutLast ==
  seg # <<>> => /\ cut < Size(seg[Len(seg)].len)
                /\ cut > 0 /\ cut >= seg[Len(seg)].len => ~seg[Len(seg)].typed

LoopInv ==
  /\ TypeOK /\ Layout
  /\ pc \in {"start", "done"} => CutLast
  /\ pc = "start" /\ Plain => \E k \in 1 .. Len(seg) : AtMessage(k)
  /\ PartialNotHandled

\* The length field of the k-th message has arrived.
FieldArrived(k) == Len(SetMsgLengthItem(seg[k].len)) < nMsgDataLen

\* If ptMsg is at the beginning of a message, this is the one parsed there.
LEMMA AlignedClaim ==
  ASSUME TypeOK, Layout, NEW k \in 1 .. Len(seg), ptMsg = seg[k].at,
         NEW n \in Claims
  PROVE  n = Claimed(k) /\ ~Misaligned
<1>1. ~Misaligned
  BY DEF Misaligned
<1>2. PICK j \in 1 .. Len(seg) : n = Claimed(j) /\ seg[j].at = ptMsg
  BY <1>1 DEF Claims
<1>3. j = k
  <2>1. seg[j].at \in Nat /\ End(j) \in Nat /\ seg[j].at < End(j)
    BY MessageType
  <2>2. seg[k].at \in Nat /\ End(k) \in Nat /\ seg[k].at < End(k)
    BY MessageType
  <2>3. (j < k => End(j) <= seg[k].at) /\ (k < j => End(k) <= seg[j].at)
    BY DEF Layout
  <2>4. ~(j < k) /\ ~(k < j)
    BY <1>2, <2>1, <2>2, <2>3
  <2>5. j \in Nat /\ k \in Nat
    BY DEF TypeOK
  <2> QED
    BY <2>4, <2>5
<1> QED
  BY <1>1, <1>2, <1>3

\* A message of 1 to 255 bytes whose length field has arrived is claimed as
\* it is.
LEMMA ClaimedShort ==
  ASSUME TypeOK, Layout, NEW k \in 1 .. Len(seg), seg[k].len \in 1 .. 255,
         FieldArrived(k)
  PROVE  Claimed(k) = Size(seg[k].len)
<1> DEFINE f == SetMsgLengthItem(seg[k].len)
<1>0. seg[k].len \in Nat
  BY MessageType
<1>1. Len(f) \in 1 .. 4 /\ nMsgDataLen \in Nat
  <2>1. Len(f) \in 1 .. 4
    BY <1>0, FieldType
  <2> QED
    BY <2>1 DEF TypeOK
<1>2. Len(f) < nMsgDataLen
  BY DEF FieldArrived
<1>3. FieldAt(k) = Buffer(f)
  <2>1. ASSUME NEW i \in 1 .. 5
        PROVE  (IF i < nMsgDataLen THEN Buffer(f)[i] ELSE 0)
                  = (IF i <= Len(f) THEN f[i] ELSE 0)
    <3> HIDE DEF f
    <3>1. Buffer(f)[i] = IF i <= Len(f) THEN f[i] ELSE 0
      BY DEF Buffer, MAX_LENGTH_SIZE
    <3> QED
      BY <1>1, <1>2, <3>1
  <2>2. FieldAt(k) = [i \in 1 .. 5 |-> IF i < nMsgDataLen THEN Buffer(f)[i] ELSE 0]
    BY DEF FieldAt, MAX_LENGTH_SIZE
  <2>3. Buffer(f) = [i \in 1 .. 5 |-> IF i <= Len(f) THEN f[i] ELSE 0]
    BY DEF Buffer, MAX_LENGTH_SIZE
  <2> HIDE DEF f
  <2> QED
    BY <2>1, <2>2, <2>3
<1>4. ParseMsgData(Buffer(f)) = [len |-> seg[k].len, at |-> Len(f) + 1]
  BY ShortLengthsRead
<1> HIDE DEF f
<1>5. Claimed(k) = (Len(f) + 1) + seg[k].len
  BY <1>3, <1>4 DEF Claimed
<1>6. Size(seg[k].len) = 1 + Len(f) + seg[k].len
  BY DEF Size, f
<1> QED
  BY <1>1, <1>5, <1>6

\* The length field of the message at ptMsg has arrived, or this is the last
\* message, cut inside its header.
LEMMA FieldThere ==
  ASSUME TypeOK, Layout, CutLast, Lens \subseteq 1 .. 255, Plain,
         NEW k \in 1 .. Len(seg), AtMessage(k)
  PROVE  /\ seg[k].len \in 1 .. 255
         /\ \/ FieldArrived(k)
            \/ /\ k = Len(seg) /\ cut > 0 /\ cut >= seg[k].len /\ ~seg[k].typed
<1> DEFINE last == Len(seg)
           f    == Len(SetMsgLengthItem(seg[k].len))
           len  == seg[k].len
           at   == seg[k].at
<1>1. len \in 1 .. 255 /\ len \in Nat
  <2>1. len \in Lens \cup {0} /\ len # 0
    BY MessageType DEF Plain
  <2> HIDE DEF len
  <2> QED
    BY <2>1
<1>2. last \in 1 .. Len(seg) /\ seg # <<>>
  BY DEF TypeOK
<1>3. f \in 1 .. 4 /\ Size(len) = 1 + f + len
  <2>1. f \in 1 .. 4
    BY <1>1, FieldType
  <2> QED
    BY <2>1 DEF Size
<1>4. /\ cut \in Nat /\ size \in Nat /\ nMsgDataLen = size - cut - at
  BY FramingAssumption DEF TypeOK, AtMessage
<1>5. at \in Nat /\ seg[last].at \in Nat /\ Size(seg[last].len) \in Nat
  BY <1>2, MessageType
<1>6. size = seg[last].at + Size(seg[last].len) /\ cut < Size(seg[last].len)
  BY <1>2 DEF Layout, CutLast, End
<1>7. CASE k = last
  <2>1. size = at + (1 + f + len)
    BY <1>3, <1>6, <1>7
  <2>2. nMsgDataLen = 1 + f + len - cut
    <3> HIDE DEF f, len, at, last
    <3> QED
      BY <1>1, <1>3, <1>4, <1>5, <2>1
  <2>3. CASE cut = 0 \/ cut < len
    <3> HIDE DEF f, len, at, last
    <3>1. f < nMsgDataLen
      BY <1>1, <1>3, <1>4, <2>2, <2>3
    <3> QED
      BY <1>1, <3>1 DEF FieldArrived, f, len
  <2>4. CASE cut > 0 /\ cut >= len
    BY <1>1, <1>2, <1>7, <2>4 DEF CutLast
  <2>5. cut = 0 \/ cut < len \/ (cut > 0 /\ cut >= len)
    <3> HIDE DEF f, len, at, last
    <3> QED
      BY <1>1, <1>4
  <2> QED
    BY <2>3, <2>4, <2>5
<1>8. CASE k # last
  <2>1. k < last
    BY <1>8 DEF TypeOK
  <2>2. at + (1 + f + len) <= seg[last].at
    <3>1. End(k) <= seg[last].at
      BY <1>2, <2>1 DEF Layout
    <3> QED
      BY <1>3, <3>1 DEF End
  <2>3. f < nMsgDataLen
    <3> DEFINE la == seg[last].at
               ls == Size(seg[last].len)
    <3>1. la \in Nat /\ ls \in Nat /\ size = la + ls /\ cut < ls
          /\ at + (1 + f + len) <= la
      BY <1>5, <1>6, <2>2
    <3> HIDE DEF f, len, at, last, la, ls
    <3> QED
      BY <1>1, <1>3, <1>4, <1>5, <3>1
  <2> QED
    BY <1>1, <2>3 DEF FieldArrived
<1> QED
  BY <1>7, <1>8

\* So what is handled there has been claimed as it is: from a header alone no
\* msgType is found.
LEMMA HandledClaim ==
  ASSUME TypeOK, Layout, CutLast, Lens \subseteq 1 .. 255, Plain,
         NEW k \in 1 .. Len(seg), AtMessage(k), NEW n \in Claims, MayFind
  PROVE  n = Size(seg[k].len)
<1>1. n = Claimed(k) /\ ~Misaligned
  BY AlignedClaim DEF AtMessage
<1>2. PICK j \in 1 .. Len(seg) : seg[j].at >= ptMsg /\ seg[j].typed
  BY <1>1 DEF MayFind, TypeFound
<1>3. ~(j < k)
  <2>1. seg[j].at \in Nat /\ End(j) \in Nat /\ seg[j].at < End(j) /\ seg[k].at \in Nat
    BY MessageType
  <2>2. j < k => End(j) <= seg[k].at
    BY DEF Layout
  <2> QED
    BY <1>2, <2>1, <2>2 DEF AtMessage
<1>4. ~(k = Len(seg) /\ ~seg[k].typed)
  <2>1. k = Len(seg) => j = k
    BY <1>3 DEF TypeOK
  <2> QED
    BY <1>2, <2>1
<1> QED
  BY <1>1, <1>4, FieldThere, ClaimedShort

\* The messages in front of the k-th have arrived whole if ptMsg has come to it.
LEMMA FrontWhole ==
  ASSUME TypeOK, Layout, NEW k \in 1 .. Len(seg), AtMessage(k), NEW i \in 1 .. k - 1
  PROVE  i \in 1 .. Len(seg) /\ Whole(i)
<1>1. i \in 1 .. Len(seg) /\ i < k
  BY DEF TypeOK
<1>2. End(i) <= seg[k].at
  BY <1>1 DEF Layout
<1>3. End(i) \in Nat /\ seg[k].at \in Nat
  BY <1>1, MessageType
<1>4. nMsgDataLen \in Nat /\ nMsgDataLen = size - cut - seg[k].at /\ size \in Nat /\ cut \in Nat
  BY FramingAssumption DEF AtMessage, TypeOK
<1> QED
  BY <1>1, <1>2, <1>3, <1>4 DEF Whole, End

\* The loop ends at the k-th message, which it handles only if it is whole.
LEMMA PartialFinish ==
  ASSUME LoopInv, Plain, Finish, NEW k \in 1 .. Len(seg), AtMessage(k),
         handled' = handled \/ (handled' = handled \cup {ptMsg} /\ Whole(k))
  PROVE  PartialNotHandled'
<1>1. UNCHANGED <<seg, size, cut>>
  BY DEF Finish
<1>2. ASSUME NEW p \in handled'
      PROVE  \E i \in 1 .. Len(seg) : seg[i].at = p /\ Whole(i)
  <2>1. CASE p \in handled
    <3>1. PICK i \in 1 .. k - 1 : seg[i].at = p
      BY <2>1 DEF AtMessage
    <3>2. i \in 1 .. Len(seg) /\ Whole(i)
      BY FrontWhole DEF LoopInv
    <3> QED
      BY <3>1, <3>2
  <2>2. CASE p \notin handled
    <3>1. p = seg[k].at /\ Whole(k)
      BY <1>2, <2>2 DEF AtMessage
    <3> QED
      BY <3>1
  <2> QED
    BY <2>1, <2>2
<1>3. \A i \in 1 .. Len(seg) : Whole(i)' <=> Whole(i)
  BY <1>1 DEF Whole
<1> QED
  BY <1>1, <1>2, <1>3 DEF PartialNotHandled

\* A segment stays plain, or not, while the loop is at work on it.
LEMMA PlainStays ==
  ASSUME UNCHANGED <<lead, seg>> PROVE Plain' <=> Plain
BY DEF Plain

\* recv() leaves the last message cut as CutLast says, and the loop, if there
\* is one, at the first message.
LEMMA LoopRecv ==
  ASSUME LoopInv, NEW c \in Cuts, Recv(c)
  PROVE  /\ CutLast'
         /\ pc' = "start" /\ Plain' => 1 \in 1 .. Len(seg') /\ AtMessage(1)'
         /\ pc' = "done" => ~Plain'
         /\ handled' = {}
<1> USE FramingAssumption
<1>0. TypeOK /\ Layout /\ TypeOK' /\ Layout'
  BY LayoutRecv DEF LoopInv
<1>1. /\ Len(seg') = Len(seg) /\ Len(seg) \in Nat
      /\ \A k \in 1 .. Len(seg) : seg'[k].at = seg[k].at /\ seg'[k].len = seg[k].len
  <2>1. Len(seg) \in Nat
    BY <1>0 DEF TypeOK
  <2> QED
    BY <1>0, <2>1, LayoutRecv
<1>2. /\ ptMsg' = 0 /\ nMsgDataLen' = size - c /\ cut' = c /\ size' = size
      /\ handled' = {} /\ lead' = lead /\ c < LastSize
  BY DEF Recv
<1>3. seg' = <<>> <=> seg = <<>>
  BY <1>0, <1>1 DEF TypeOK
<1>4. CutLast'
  <2> SUFFICES ASSUME seg # <<>>
               PROVE  /\ c < Size(seg'[Len(seg')].len)
                      /\ c > 0 /\ c >= seg'[Len(seg')].len => ~seg'[Len(seg')].typed
    BY <1>2, <1>3 DEF CutLast
  <2>1. Len(seg) \in 1 .. Len(seg)
    BY <1>0, <1>1 DEF TypeOK
  <2>2. seg'[Len(seg')].len = seg[Len(seg)].len
    BY <1>1, <2>1
  <2>3. c < Size(seg[Len(seg)].len)
    BY <1>2 DEF LastSize
  <2>4. ASSUME c > 0, c >= seg[Len(seg)].len PROVE ~seg'[Len(seg')].typed
    <3>1. seg[Len(seg)].len \in Nat
      BY <1>0, <2>1, MessageType
    <3>2. ~(c < seg[Len(seg)].len)
      BY <2>4, <3>1
    <3>3. seg' = [seg EXCEPT ![Len(seg)].typed = FALSE]
      BY <2>4, <3>2 DEF Recv
    <3>4. seg[Len(seg)] \in Messages /\ seg \in Seq(Messages)
      BY <1>0, <2>1 DEF TypeOK
    <3> DEFINE cutMsg == [seg[Len(seg)] EXCEPT !.typed = FALSE]
    <3>5. ~cutMsg.typed
      BY <3>4 DEF Messages
    <3>6. seg' = [seg EXCEPT ![Len(seg)] = cutMsg]
      BY <3>3
    <3> HIDE DEF cutMsg
    <3>7. seg'[Len(seg)] = cutMsg
      BY <2>1, <3>4, <3>6
    <3> QED
      BY <1>1, <3>5, <3>7
  <2> QED
    BY <2>2, <2>3, <2>4
<1>5. ASSUME lead = 0 PROVE seg # <<>>
  <2>1. c \in Nat
    OBVIOUS
  <2> QED
    BY <1>2, <1>5, <2>1 DEF LastSize
<1>6. ASSUME pc' = "start", Plain' PROVE 1 \in 1 .. Len(seg') /\ AtMessage(1)'
  <2>1. lead = 0 /\ seg # <<>> /\ seg' # <<>>
    BY <1>2, <1>3, <1>5, <1>6 DEF Plain
  <2>2. 1 \in 1 .. Len(seg') /\ seg'[1].at = 0
    BY <1>0, <1>1, <1>2, <2>1 DEF Layout, TypeOK
  <2>3. AtMessage(1)'
    BY <1>0, <1>2, <2>2 DEF AtMessage, TypeOK
  <2> QED
    BY <2>2, <2>3
<1>7. ASSUME pc' = "done", Plain' PROVE FALSE
  <2>1. lead = 0 /\ seg # <<>>
    BY <1>2, <1>5, <1>7 DEF Plain
  <2>2. seg[1].len = 0
    BY <1>7, <2>1 DEF Recv, Entry
  <2>3. 1 \in 1 .. Len(seg')
    BY <1>0, <1>1, <2>1 DEF TypeOK
  <2> QED
    BY <1>1, <1>7, <2>2, <2>3 DEF Plain
<1> QED
  BY <1>2, <1>4, <1>6, <1>7

\* Every step keeps the invariant of the loop.
LEMMA LoopStep ==
  ASSUME LoopInv, Lens \subseteq 1 .. 255, [Next]_vars
  PROVE  LoopInv'
<1> USE FramingAssumption
<1>0. TypeOK /\ Layout /\ TypeOK' /\ Layout'
  BY LayoutStep DEF LoopInv
<1> DEFINE Loop == /\ pc \in {"start", "done"} => CutLast
                   /\ pc = "start" /\ Plain => \E k \in 1 .. Len(seg) : AtMessage(k)
                   /\ PartialNotHandled
<1>1. ASSUME pc' = "recv" PROVE Loop'
  BY <1>1 DEF PartialNotHandled
<1>2. ASSUME NEW c \in Cuts, Recv(c) PROVE Loop'
  BY <1>2, LoopRecv DEF PartialNotHandled
<1>3. ASSUME pc = "start", NEW n \in Claims, DataMissed(n) \/ TypeMissed(n) \/ HandleLast(n)
      PROVE  Loop'
  <2>1. Finish /\ UNCHANGED <<lead, seg, size, cut>> /\ pc' = "done"
    BY <1>3 DEF DataMissed, TypeMissed, HandleLast, Finish
  <2>2. CutLast /\ CutLast'
    BY <1>3, <2>1 DEF LoopInv, CutLast
  <2>3. Plain' <=> Plain
    BY <2>1, PlainStays
  <2>4. ASSUME Plain PROVE PartialNotHandled'
    <3>1. PICK k \in 1 .. Len(seg) : AtMessage(k)
      BY <1>3, <2>4 DEF LoopInv
    <3>2. handled' = handled \/ (handled' = handled \cup {ptMsg} /\ Whole(k))
      <4>1. CASE DataMissed(n) \/ TypeMissed(n)
        BY <4>1 DEF DataMissed, TypeMissed
      <4>2. CASE HandleLast(n)
        <5>1. handled' = handled \cup {ptMsg} /\ n <= nMsgDataLen /\ MayFind
          BY <4>2 DEF HandleLast
        <5>2. n = Size(seg[k].len)
          BY <1>0, <2>2, <2>4, <3>1, <5>1, HandledClaim
        <5>3. nMsgDataLen = size - cut - seg[k].at
          BY <3>1 DEF AtMessage
        <5>4. /\ size \in Nat /\ cut \in Nat /\ seg[k].at \in Nat
              /\ Size(seg[k].len) \in Nat
          BY <1>0, MessageType DEF TypeOK
        <5>5. Whole(k)
          BY <5>1, <5>2, <5>3, <5>4 DEF Whole
        <5> QED
          BY <5>1, <5>5
      <4> QED
        BY <1>3, <4>1, <4>2
    <3> QED
      BY <2>1, <2>4, <3>1, <3>2, PartialFinish
  <2>5. ~Plain => PartialNotHandled'
    BY <2>3 DEF PartialNotHandled
  <2> QED
    BY <2>1, <2>2, <2>4, <2>5
<1>4. ASSUME NEW n \in Claims, HandleAndGoOn(n), Plain PROVE Loop'
  <2>1. PICK k \in 1 .. Len(seg) : AtMessage(k)
    BY <1>4 DEF LoopInv, HandleAndGoOn
  <2>2. /\ pc = "start" /\ pc' = "start" /\ UNCHANGED <<lead, seg, size, cut>>
        /\ n + 4 < nMsgDataLen /\ MayFind
        /\ ptMsg' = ptMsg + n /\ nMsgDataLen' = nMsgDataLen - n
        /\ handled' = handled \cup {ptMsg}
    BY <1>4 DEF HandleAndGoOn
  <2>0. CutLast /\ CutLast'
    BY <2>2 DEF LoopInv, CutLast
  <2>3. /\ ptMsg = seg[k].at /\ nMsgDataLen = size - cut - ptMsg
        /\ n = Size(seg[k].len)
    BY <1>0, <1>4, <2>0, <2>1, <2>2, HandledClaim DEF AtMessage
  <2>4. /\ size \in Nat /\ cut \in Nat /\ seg[k].at \in Nat
        /\ Size(seg[k].len) \in Nat /\ Len(seg) \in Nat
    BY <1>0, MessageType DEF TypeOK
  <2>5. ptMsg' = End(k) /\ End(k) + 4 < size - cut /\ End(k) \in Nat
    <3>1. End(k) = ptMsg + n
      BY <2>3 DEF End
    <3>2. ptMsg \in Nat /\ n \in Nat
      BY <2>3, <2>4
    <3>3. n + 4 < size - cut - ptMsg
      BY <2>2, <2>3
    <3> QED
      BY <2>2, <2>4, <3>1, <3>2, <3>3
  <2>6. k < Len(seg)
    <3>1. End(Len(seg)) = size
      BY <1>0, <2>4 DEF Layout
    <3>2. k # Len(seg)
      BY <2>4, <2>5, <3>1
    <3> QED
      BY <2>4, <3>2
  <2>7. k + 1 \in 1 .. Len(seg) /\ seg[k + 1].at = End(k)
    <3>1. k \in 1 .. Len(seg) - 1
      BY <2>4, <2>6
    <3> QED
      BY <1>0, <2>4, <3>1 DEF Layout
  <2>8. /\ ptMsg' = seg'[k + 1].at /\ nMsgDataLen' = size' - cut' - ptMsg'
        /\ nMsgDataLen' > 4
    <3>1. ptMsg' = seg'[k + 1].at
      BY <2>2, <2>5, <2>7
    <3>2. ptMsg \in Nat /\ n \in Nat
      BY <2>3, <2>4
    <3>3. (size - cut - ptMsg) - n = size - cut - (ptMsg + n)
      BY <2>4, <3>2
    <3>4. nMsgDataLen' > 4
      <4>1. nMsgDataLen \in Nat /\ n + 4 < nMsgDataLen /\ nMsgDataLen' = nMsgDataLen - n
        BY <1>0, <2>2 DEF TypeOK
      <4> QED
        BY <3>2, <4>1
    <3> QED
      BY <2>2, <2>3, <3>1, <3>3, <3>4
  <2>9. \A i \in 1 .. (k + 1) - 1 : seg'[i].at \in handled'
    <3> SUFFICES ASSUME NEW i \in 1 .. k PROVE seg[i].at \in handled \cup {ptMsg}
      BY <2>2, <2>4
    <3>1. CASE i = k
      BY <2>3, <3>1
    <3>2. CASE i \in 1 .. k - 1
      BY <2>1, <3>2 DEF AtMessage
    <3> QED
      BY <3>1, <3>2
  <2>10. \A p \in handled' : \E i \in 1 .. (k + 1) - 1 : seg'[i].at = p
    <3> SUFFICES ASSUME NEW p \in handled' PROVE \E i \in 1 .. k : seg[i].at = p
      BY <2>2
    <3>1. CASE p \in handled
      BY <2>1, <3>1 DEF AtMessage
    <3>2. CASE p \notin handled
      BY <2>2, <2>3, <3>2
    <3> QED
      BY <3>1, <3>2
  <2>11. AtMessage(k + 1)'
    BY <2>8, <2>9, <2>10 DEF AtMessage
  <2>12. \A p \in handled' : \E i \in 1 .. Len(seg') : seg'[i].at = p /\ Whole(i)'
    <3> SUFFICES ASSUME NEW p \in handled'
                 PROVE  \E i \in 1 .. Len(seg') : seg'[i].at = p /\ Whole(i)'
      OBVIOUS
    <3>1. PICK i \in 1 .. (k + 1) - 1 : seg'[i].at = p
      BY <2>10
    <3>2. k + 1 \in 1 .. Len(seg')
      BY <2>2, <2>7
    <3>3. i \in 1 .. Len(seg') /\ Whole(i)'
      <4>1. i \in 1 .. Len(seg') /\ i < k + 1
        BY <2>4, <3>1, <3>2
      <4>2. End(i)' <= seg'[k + 1].at
        BY <1>0, <3>2, <4>1 DEF Layout
      <4>3. End(i) \in Nat
        BY <1>0, <2>2, <4>1, MessageType
      <4>4. End(i)' = End(i)
        BY <2>2 DEF End
      <4>5. End(i) <= End(k)
        BY <2>2, <2>7, <4>2, <4>4
      <4>6. End(i) <= size - cut
        BY <2>4, <2>5, <4>3, <4>5
      <4> QED
        BY <2>2, <4>1, <4>6 DEF Whole, End
    <3> QED
      BY <3>1, <3>3
  <2>13. PartialNotHandled'
    BY <2>12 DEF PartialNotHandled
  <2> QED
    BY <2>0, <2>2, <2>7, <2>11, <2>13
<1>5. ASSUME NEW n \in Claims, HandleAndGoOn(n), ~Plain PROVE Loop'
  <2>1. UNCHANGED <<pc, lead, seg, cut>> /\ pc = "start"
    BY <1>5 DEF HandleAndGoOn
  <2>2. ~Plain'
    BY <1>5, <2>1, PlainStays
  <2> QED
    BY <2>1, <2>2 DEF LoopInv, CutLast, PartialNotHandled
<1>6. ASSUME UNCHANGED vars PROVE Loop'
  BY <1>6 DEF vars, LoopInv, CutLast, Plain, AtMessage, PartialNotHandled, Whole
<1> HIDE DEF Loop
<1>7. Loop'
  BY <1>1, <1>2, <1>3, <1>4, <1>5, <1>6
  DEF Next, Push, PingResp, DataMissed, TypeMissed, HandleLast, Select, Reconnect, Empty
<1> QED
  BY <1>0, <1>7 DEF LoopInv, Loop

\* Behind a message that ends at most 4 bytes before what has arrived, or
\* later, there is no other that is whole: the shortest is 5 bytes long.
LEMMA NoneBehind ==
  ASSUME TypeOK, Layout, Lens \subseteq 3 .. 255, Plain,
         NEW k \in 1 .. Len(seg), End(k) + 4 >= size - cut,
         NEW i \in 1 .. Len(seg), k < i
  PROVE  ~Whole(i)
<1>1. seg[i].len \in 3 .. 255
  <2>1. seg[i].len \in Lens \cup {0} /\ seg[i].len # 0
    BY MessageType DEF Plain
  <2> QED
    BY <2>1
<1>2. /\ Size(seg[i].len) \in Nat /\ Size(seg[i].len) >= seg[i].len + 2
      /\ seg[i].at \in Nat /\ End(k) \in Nat
  BY MessageType
<1>3. Size(seg[i].len) >= 5
  <2>1. \A a \in 3 .. 255, b \in Nat : b >= a + 2 => b >= 5
    OBVIOUS
  <2> QED
    BY <1>1, <1>2, <2>1, Zenon
<1>4. End(k) <= seg[i].at
  BY DEF Layout
<1>5. size \in Nat /\ cut \in Nat
  BY FramingAssumption DEF TypeOK
<1>6. seg[i].at + Size(seg[i].len) > size - cut
  BY <1>2, <1>3, <1>4, <1>5
<1> QED
  BY <1>2, <1>5, <1>6 DEF Whole

\* Every end of the loop leaves no whole request behind.
LEMMA CompleteStep ==
  ASSUME LoopInv, Lens \subseteq 3 .. 255, CompleteHandled, [Next]_vars
  PROVE  CompleteHandled'
<1> USE FramingAssumption
<1>0. TypeOK /\ Layout /\ Lens \subseteq 1 .. 255
  BY DEF LoopInv
<1>1. ASSUME pc = "start", Plain, NEW n \in Claims,
             DataMissed(n) \/ TypeMissed(n) \/ HandleLast(n)
      PROVE  CompleteHandled'
  <2>1. UNCHANGED <<seg, size, cut>> /\ handled \subseteq handled'
    BY <1>1 DEF DataMissed, TypeMissed, HandleLast, Finish
  <2>2. PICK k \in 1 .. Len(seg) : AtMessage(k)
    BY <1>1 DEF LoopInv
  <2>3. CutLast
    BY <1>1 DEF LoopInv
  <2>4. ASSUME NEW i \in 1 .. Len(seg), Whole(i), seg[i].typed
        PROVE  seg[i].at \in handled'
    <3>1. CASE i < k
      <4>1. i \in 1 .. k - 1
        BY <1>0, <3>1 DEF TypeOK
      <4> QED
        BY <2>1, <2>2, <4>1 DEF AtMessage
    <3>2. CASE i >= k
      <4>1. /\ ptMsg = seg[k].at /\ nMsgDataLen = size - cut - seg[k].at
            /\ n = Claimed(k)
        BY <1>0, <2>2, AlignedClaim DEF AtMessage
      <4>2. /\ size \in Nat /\ cut \in Nat /\ seg[k].at \in Nat /\ seg[i].at \in Nat
            /\ Size(seg[k].len) \in Nat /\ End(k) \in Nat /\ seg[k].at < End(k)
        BY <1>0, MessageType DEF TypeOK
      <4>3. i = k \/ k < i
        BY <1>0, <3>2 DEF TypeOK
      <4>4. CASE DataMissed(n)
        <5>1. End(k) > size - cut
          <6>1. CASE FieldArrived(k)
            <7>1. n = Size(seg[k].len)
              BY <1>0, <1>1, <2>2, <2>3, <4>1, <6>1, FieldThere, ClaimedShort
            <7>2. Size(seg[k].len) > size - cut - seg[k].at
              BY <4>1, <4>4, <7>1 DEF DataMissed
            <7> QED
              BY <4>2, <7>2 DEF End
          <6>2. CASE ~FieldArrived(k)
            <7>1. k = Len(seg) /\ cut > 0
              BY <1>0, <1>1, <2>2, <2>3, <6>2, FieldThere
            <7>2. End(k) = size
              <8>1. seg # <<>>
                BY <1>0 DEF TypeOK
              <8> QED
                BY <1>0, <7>1, <8>1 DEF Layout
            <7> QED
              BY <4>2, <7>1, <7>2
          <6> QED
            BY <6>1, <6>2
        <5>2. ~Whole(k)
          BY <4>2, <5>1 DEF Whole, End
        <5>3. End(k) + 4 >= size - cut
          BY <4>2, <5>1
        <5> QED
          BY <1>0, <1>1, <2>4, <4>3, <5>2, <5>3, NoneBehind
      <4>5. CASE TypeMissed(n)
        <5>1. seg[i].at >= ptMsg
          <6>1. k < i => End(k) <= seg[i].at
            BY <1>0 DEF Layout
          <6> QED
            BY <4>1, <4>2, <4>3, <6>1
        <5> QED
          BY <2>4, <4>5, <5>1 DEF TypeMissed, TypeFound
      <4>6. CASE HandleLast(n)
        <5>1. n = Size(seg[k].len)
          BY <1>0, <1>1, <2>2, <2>3, <4>6, HandledClaim DEF HandleLast
        <5>2. /\ handled' = handled \cup {seg[k].at}
              /\ Size(seg[k].len) + 4 >= size - cut - seg[k].at
          BY <4>1, <4>6, <5>1 DEF HandleLast
        <5>3. End(k) + 4 >= size - cut
          BY <4>2, <5>2 DEF End
        <5> QED
          BY <1>0, <1>1, <2>4, <4>3, <5>2, <5>3, NoneBehind
      <4> QED
        BY <1>1, <4>4, <4>5, <4>6
    <3> QED
      BY <1>0, <3>1, <3>2 DEF TypeOK
  <2>5. \A i \in 1 .. Len(seg) : Whole(i)' <=> Whole(i)
    BY <2>1 DEF Whole
  <2> QED
    BY <2>1, <2>4, <2>5 DEF CompleteHandled
<1>2. ASSUME ~Plain, UNCHANGED <<lead, seg>> PROVE CompleteHandled'
  BY <1>2, PlainStays DEF CompleteHandled
<1>3. ASSUME NEW c \in Cuts, Recv(c) PROVE CompleteHandled'
  BY <1>3, LoopRecv DEF CompleteHandled
<1>4. CASE UNCHANGED vars
  BY <1>4 DEF vars, CompleteHandled, Plain, Whole
<1>5. ASSUME pc' # "done" PROVE CompleteHandled'
  BY <1>5 DEF CompleteHandled
<1> QED
  BY <1>1, <1>2, <1>3, <1>4, <1>5
  DEF Next, Push, PingResp, DataMissed, TypeMissed, HandleLast, HandleAndGoOn, Finish,
      Select, Reconnect, Empty
-----------------------------------------------------------------------------
\* If every message is at most 255 bytes long, the loop is at the beginning
\* of a message whenever it parses one.
LEMMA LoopHolds == ASSUME Lens \subseteq 1 .. 255 PROVE Spec => []LoopInv
<1>1. Init => LoopInv
  <2>1. <<>> \in Seq(Messages) /\ Len(<<>>) = 0
    OBVIOUS
  <2> QED
    BY <2>1, FramingAssumption
    DEF Init, LoopInv, CutLast, TypeOK, Layout, End, PartialNotHandled
<1>2. LoopInv /\ [Next]_vars => LoopInv'
  BY LoopStep
<1> QED
  BY <1>1, <1>2, PTL DEF Spec

\* In any sequence of segments of any number of messages of at most 255 bytes
\* each, cut anywhere, a handler is only called for a message that has arrived
\* whole, in every segment that begins with a message, fits into the buffer
\* and holds PUSH_DATA only.
THEOREM PartialNotHandledShort ==
  ASSUME Lens \subseteq 1 .. 255 PROVE Spec => []PartialNotHandled
<1>1. LoopInv => PartialNotHandled
  BY DEF LoopInv
<1> QED
  BY <1>1, LoopHolds, PTL

\* In any sequence of segments of any number of messages of 3 to 255 bytes
\* each, cut anywhere, with and without a msgType, every request that has
\* arrived whole is handled, in every segment that begins with a message, fits
\* into the buffer and holds PUSH_DATA only.  Neither bound can be dropped: a message of 256 bytes hides the
\* one behind it, and one of less than 3 is taken for rubbish at the end.
THEOREM CompleteHandledShort ==
  ASSUME Lens \subseteq 3 .. 255 PROVE Spec => []CompleteHandled
<1>0. Lens \subseteq 1 .. 255
  OBVIOUS
<1>1. Init => CompleteHandled
  BY DEF Init, CompleteHandled
<1>2. LoopInv /\ CompleteHandled /\ [Next]_vars => CompleteHandled'
  BY CompleteStep
<1>3. Spec => []LoopInv
  BY <1>0, LoopHolds
<1> QED
  BY <1>1, <1>2, <1>3, PTL DEF Spec
=============================================================================
