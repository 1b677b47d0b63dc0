----------------------------- MODULE PushFraming -----------------------------
(***************************************************************************)
(* How main() receives from the platform, once the device is registered,   *)
(* and how Msg_Process_PushData (hert_app.c) cuts what one recv() returned *)
(* into messages.                                                          *)
(*                                                                         *)
(* The messages the platform has sent since the last recv() make up a      *)
(* segment: PUSH_DATA, and the PING_RESP that answer the device's pings.   *)
(* recv() may cut the last message short.  Nothing is kept of the part     *)
(* that has arrived, and the rest of it heads the next segment (lead).     *)
(* Msg_Process_Entry looks at the type in the first byte only.  A pass of  *)
(* the loop of Msg_Process_PushData parses the length at ptMsg, refuses a  *)
(* message longer than what is left, looks for the type of the message,    *)
(* calls the handler, and goes on behind the message if more than 4 bytes  *)
(* are left there.                                                         *)
(***************************************************************************)
EXTENDS MsgLength

CONSTANTS
  Lens,      \* values of the length field of a PUSH_DATA: option and body
  Cuts,      \* how many bytes of the last message may be missing; 0 included
  Garbage,   \* what bytes that are no message may claim to take, as Claimed
  MaxMsgs,   \* bound: messages in a segment
  BufLen,    \* bytes of HERT_TRANSACTION.data
  RecvMax    \* bytes HERT_TCP_RecvTransaction asks recv() for

ASSUME FramingAssumption ==
  /\ Lens \subseteq Nat \ {0} /\ Cuts \subseteq Nat /\ 0 \in Cuts
  /\ Garbage \subseteq Nat \ {0}
  /\ MaxMsgs \in Nat \ {0} /\ BufLen \in Nat /\ RecvMax \in Nat

VARIABLES
  pc,           \* "recv", "start" (the label Process_PushData_Start), "done",
                \* "undefined": recv() has written behind the buffer
  lead,         \* bytes at the head that belong to a message cut before
  seg,          \* the messages of the segment: where they begin, the value of
                \* their length fields, and whether they contain a msgType
  size,         \* bytes of the segment
  cut,          \* how many of them are left for the next recv()
  ptMsg,        \* where the loop is, from the beginning of the segment
  nMsgDataLen,  \* bytes from there on
  handled       \* where the messages began that were passed to handlers
vars == <<pc, lead, seg, size, cut, ptMsg, nMsgDataLen, handled>>

Messages == [at : Nat, len : Lens \cup {0}, typed : BOOLEAN]

\* Every variable has its type, and the loop never looks behind what recv()
\* has returned, whatever the bytes are it takes for a length.
TypeOK ==
  /\ pc \in {"recv", "start", "done", "undefined"}
  /\ seg \in Seq(Messages) /\ Len(seg) <= MaxMsgs
  /\ size \in Nat /\ cut \in Cuts /\ lead \in Cuts
  /\ ptMsg \in Nat /\ nMsgDataLen \in Nat /\ ptMsg + nMsgDataLen + cut <= size
  /\ handled \subseteq 0 .. size

Init ==
  /\ pc = "recv" /\ lead = 0 /\ seg = <<>> /\ size = 0 /\ cut = 0
  /\ ptMsg = 0 /\ nMsgDataLen = 0 /\ handled = {}

\* Type byte, length field, option and body.
Size(len) == 1 + Len(SetMsgLengthItem(len)) + len

\* The platform sends a message, and the program has not come to recv() yet:
\* a PUSH_DATA ...
Push(len, typed) ==
  /\ pc = "recv" /\ Len(seg) < MaxMsgs
  /\ seg' = Append(seg, [at |-> size, len |-> len, typed |-> typed])
  /\ size' = size + Size(len)
  /\ UNCHANGED <<pc, lead, cut, ptMsg, nMsgDataLen, handled>>

\* ... or a PING_RESP, which is a header of two bytes.
PingResp == Push(0, FALSE)

\* What Msg_Process_Entry makes of the first byte: a PUSH_DATA, a PING_RESP,
\* upon which it returns, or a byte of another message, which has any type.
Entry ==
  IF lead > 0 THEN {"start", "done"}
  ELSE IF seg[1].len = 0 THEN {"done"} ELSE {"start"}

\* Bytes of the last message, or of the rest of the one before.
LastSize == IF seg = <<>> THEN lead ELSE Size(seg[Len(seg)].len)

\* recv() fills the buffer with all but the last c bytes: with or without the
\* msgType of the last message, or with a part of its header alone.  Nothing
\* checks that RecvMax bytes are more than the buffer holds.
Recv(c) ==
  /\ pc = "recv" /\ c < LastSize /\ size - c <= RecvMax
  /\ \/ /\ c > 0 /\ seg # <<>> => c < seg[Len(seg)].len
        /\ seg' = seg
     \/ /\ c > 0 /\ seg # <<>>
        /\ seg' = [seg EXCEPT ![Len(seg)].typed = FALSE]
  /\ cut' = c /\ nMsgDataLen' = size - c
  /\ ptMsg' = 0 /\ handled' = {}
  /\ pc' \in IF size - c <= BufLen THEN Entry ELSE {"undefined"}
  /\ UNCHANGED <<lead, size>>

\* What Parse_Msg_Data reads of the k-th message: its length field, and zeros
\* (the memset in main) behind the last byte that has arrived.
FieldAt(k) ==
  [i \in 1 .. MAX_LENGTH_SIZE + 1 |->
     IF i < nMsgDataLen THEN Buffer(SetMsgLengthItem(seg[k].len))[i] ELSE 0]

\* pMsgData - ptMsg + dwDataLen of the k-th message.
Claimed(k) == LET parsed == ParseMsgData(FieldAt(k)) IN parsed.at + parsed.len

Misaligned == \A k \in 1 .. Len(seg) : seg[k].at # ptMsg

\* What a pass of the loop may find claimed at ptMsg.
Claims ==
  IF Misaligned THEN Garbage
  ELSE {Claimed(k) : k \in {i \in 1 .. Len(seg) : seg[i].at = ptMsg}}

\* Parse_Msg_PushData_Type looks for a msgType in all that is left of the
\* segment, not only in the message at ptMsg; inside a message it may also
\* find the one of that message.
TypeFound == \E k \in 1 .. Len(seg) : seg[k].at >= ptMsg /\ seg[k].typed
MayFind == TypeFound \/ Misaligned

Finish ==
  /\ pc' = "done"
  /\ UNCHANGED <<lead, seg, size, cut, ptMsg, nMsgDataLen>>

\* Mutant: the message is handled although data are missing.
DataMissedHandled(n) ==
  /\ pc = "start"
  /\ n > nMsgDataLen
  /\ Finish
  /\ handled' = handled \cup {ptMsg}

\* "Maybe data was missed": RETCODE_INVALID_MSGDATA.
DataMissed(n) ==
  /\ pc = "start"
  /\ n > nMsgDataLen
  /\ Finish
  /\ UNCHANGED handled

\* No msgType is found: the loop ends, whatever is left.
TypeMissed(n) ==
  /\ pc = "start"
  /\ n <= nMsgDataLen /\ ~TypeFound
  /\ Finish
  /\ UNCHANGED handled

\* The message is handled and nothing, or too little, is left behind it.
HandleLast(n) ==
  /\ pc = "start"
  /\ n <= nMsgDataLen /\ n + 4 >= nMsgDataLen /\ MayFind
  /\ Finish
  /\ handled' = handled \cup {ptMsg}

\* Mutant: the rest of the segment is taken to be longer, not shorter.
HandleAndGoOnGrows(n) ==
  /\ pc = "start"
  /\ n + 4 < nMsgDataLen /\ MayFind
  /\ handled' = handled \cup {ptMsg}
  /\ ptMsg' = ptMsg + n
  /\ nMsgDataLen' = nMsgDataLen + n
  /\ UNCHANGED <<pc, lead, seg, size, cut>>

\* Mutant: ptMsg is set one byte too far.
HandleAndGoOnSkips(n) ==
  /\ pc = "start"
  /\ n + 4 < nMsgDataLen /\ MayFind
  /\ handled' = handled \cup {ptMsg}
  /\ ptMsg' = ptMsg + n + 1
  /\ nMsgDataLen' = nMsgDataLen - n - 1
  /\ UNCHANGED <<pc, lead, seg, size, cut>>

\* The message is handled and ptMsg set to what is left behind it.
HandleAndGoOn(n) ==
  /\ pc = "start"
  /\ n + 4 < nMsgDataLen /\ MayFind
  /\ handled' = handled \cup {ptMsg}
  /\ ptMsg' = ptMsg + n
  /\ nMsgDataLen' = nMsgDataLen - n
  /\ UNCHANGED <<pc, lead, seg, size, cut>>

Empty(rest) ==
  /\ pc' = "recv" /\ lead' = rest
  /\ seg' = <<>> /\ size' = rest /\ cut' = 0
  /\ ptMsg' = 0 /\ nMsgDataLen' = 0 /\ handled' = {}

\* Back to select(): the next segment begins with what was cut off this one,
\* whose part that had arrived is gone with the memset.
Select ==
  /\ pc \in {"done", "undefined"}
  /\ Empty(cut)

\* main() restarts on a socket error, or the process has died, of what it
\* wrote behind the buffer too: the next connection begins with a message.
Reconnect ==
  /\ pc \in {"recv", "done", "undefined"}
  /\ Empty(0)

Next ==
  \/ \E len \in Lens, typed \in BOOLEAN : Push(len, typed)
  \/ PingResp
  \/ \E c \in Cuts : Recv(c)
  \/ \E n \in Claims :
       DataMissed(n) \/ TypeMissed(n) \/ HandleLast(n) \/ HandleAndGoOn(n)
  \/ Select \/ Reconnect

Spec == Init /\ [][Next]_vars
-----------------------------------------------------------------------------
\* The k-th message has arrived to its last byte.
Whole(k) == seg[k].at + Size(seg[k].len) <= size - cut

\* The segment begins with a message and holds PUSH_DATA only.
Plain == lead = 0 /\ \A k \in 1 .. Len(seg) : seg[k].len # 0

\* Every request that has arrived whole has been passed to its handler when
\* the loop ends, wherever it lies in the segment, behind a message without
\* a msgType too.  Three exceptions are the code's: a segment larger than the
\* buffer ("undefined"), one that begins with the rest of a message that the
\* recv() before has cut, and one with a PING_RESP in it.
CompleteHandled ==
  pc = "done" /\ Plain =>
    \A k \in 1 .. Len(seg) : Whole(k) /\ seg[k].typed => seg[k].at \in handled

\* Nothing is passed to a handler but messages that have arrived whole, with
\* the same exceptions.
PartialNotHandled ==
  pc \in {"start", "done"} /\ Plain =>
    \A p \in handled : \E k \in 1 .. Len(seg) : seg[k].at = p /\ Whole(k)
=============================================================================
