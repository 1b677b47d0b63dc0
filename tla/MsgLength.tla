------------------------------ MODULE MsgLength ------------------------------
(***************************************************************************)
(* The length field of a message of the platform protocol, as hert_msg.c   *)
(* writes it (SetMsgLengthItem) and reads it (Parse_Msg_Data).             *)
(*                                                                         *)
(* The protocol is MQTT-like: 7 bits a byte, the least significant first,  *)
(* the highest bit set in every byte but the last.  A field is a sequence  *)
(* of bytes.  An `or' of disjoint bits is written as a sum.                *)
(***************************************************************************)
EXTENDS Naturals, Sequences

MAX_LENGTH_SIZE == 4

\* Powers of 128: the first lengths that need one byte more.
Weight(i) == <<1, 128, 128 * 128, 128 * 128 * 128, 128 * 128 * 128 * 128>>[i + 1]

\* The k-th byte of a DWORD on this little-endian machine (pBytes[k]).
ByteOf(n, k) == (n \div <<1, 256, 256 * 256, 256 * 256 * 256>>[k + 1]) % 256

\* ((0x80 & pBytes[k-1]) >> 7) | (pBytes[k] << 1), kept in a CHAR.
Shifted(n, k) == (ByteOf(n, k - 1) \div 128 + 2 * ByteOf(n, k)) % 256

\* (0x7f & c) | 0x80
More(c) == (c % 128) + 128

SetMsgLengthItem(n) ==
  IF n < Weight(1)      THEN <<n>>
  ELSE IF n < Weight(2) THEN <<More(ByteOf(n, 0)), Shifted(n, 1)>>
  ELSE IF n < Weight(3) THEN <<More(ByteOf(n, 0)), More(Shifted(n, 1)), Shifted(n, 2)>>
  ELSE <<More(ByteOf(n, 0)), More(Shifted(n, 1)), More(Shifted(n, 2)), Shifted(n, 3)>>

\* The bytes Parse_Msg_Data looks at: a length field and what follows it.  A
\* message goes on with the high byte of the option's length, which is 0.
Buffer(field) == [i \in 1 .. MAX_LENGTH_SIZE + 1 |-> IF i <= Len(field) THEN field[i] ELSE 0]

\* Where the loop of Parse_Msg_Data stops: `(*ptData) && 0x80' is true of
\* every byte but 0.
StopAt(b) ==
  CHOOSE i \in 1 .. MAX_LENGTH_SIZE + 1 :
    /\ i <= MAX_LENGTH_SIZE => b[i] = 0
    /\ \A j \in 1 .. i - 1 : b[j] # 0

\* `((*ptData) && 0x7F) << (7 * i)' of the i-th round, if there is one.
RoundAdds(b, i) == IF i < StopAt(b) /\ b[i + 1] # 0 THEN Weight(i) ELSE 0

\* Parse_Msg_Data: the length, and where the data begin, counted from the
\* first byte of the field.
ParseMsgData(b) ==
  [len |-> (b[1] % 128) + RoundAdds(b, 1) + RoundAdds(b, 2) + RoundAdds(b, 3) + RoundAdds(b, 4),
   at  |-> StopAt(b)]

\* The reference: what the field of a well-formed message means.
FieldLen(b) == CHOOSE i \in 1 .. MAX_LENGTH_SIZE : b[i] < 128 /\ \A j \in 1 .. i - 1 : b[j] >= 128

FieldValue(b) ==
  LET part(i) == IF i <= FieldLen(b) THEN (b[i] % 128) * Weight(i - 1) ELSE 0
  IN  part(1) + part(2) + part(3) + part(4)
=============================================================================
