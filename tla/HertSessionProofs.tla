-------------------------- MODULE HertSessionProofs --------------------------
(***************************************************************************)
(* Proofs for HertSession, for every set of addresses and names and every  *)
(* bound.  The invariants RegisteredOnThisConnection, NameReported and     *)
(* CountsThisConnection become inductive with three facts about what is    *)
(* left of a connection: nothing when there is none (Quiet), no            *)
(* registration when one is about to be made (Fresh), and no answer in the *)
(* receive queue that the platform has not given (Backed).                 *)
(***************************************************************************)
EXTENDS HertSession, TLAPS

Quiet == ~Connected => link = "none" /\ net = <<>> /\ verdict = "none"

Fresh == pc = "connect" => ~status /\ ~inited

Backed == \A i \in 1 .. Len(net) :
            /\ net[i] \in {"CONN_OK", "CONN_ERR"} => verdict # "none"
            /\ net[i] = "INIT_RSP" => verdict = "ok"

IInv == /\ TypeOK
        /\ Quiet /\ Fresh /\ Backed
        /\ RegisteredOnThisConnection /\ NameReported /\ CountsThisConnection
-----------------------------------------------------------------------------
\* What Append and Tail do to the messages of the receive queue.
LEMMA AppendMsg ==
  ASSUME NEW q \in Seq(Msgs), NEW m \in Msgs
  PROVE  /\ Append(q, m) \in Seq(Msgs)
         /\ Len(Append(q, m)) = Len(q) + 1
         /\ \A i \in 1 .. Len(q) : Append(q, m)[i] = q[i]
         /\ Append(q, m)[Len(q) + 1] = m
  OBVIOUS

\* The same for the message that is taken out of it.
LEMMA TailMsg ==
  ASSUME NEW q \in Seq(Msgs), q # <<>>
  PROVE  /\ Tail(q) \in Seq(Msgs)
         /\ Head(q) = q[1] /\ Head(q) \in Msgs
         /\ 1 \in 1 .. Len(q)
         /\ Len(Tail(q)) = Len(q) - 1
         /\ \A i \in 1 .. Len(Tail(q)) : i + 1 \in 1 .. Len(q) /\ Tail(q)[i] = q[i + 1]
  OBVIOUS

\* The part of TypeOK that sending and losing a connection change.
WireOK ==
  /\ pc \in {"init", "connect", "select", "internel", "killed"}
  /\ link \in {"none", "up", "silent", "stuck", "dead"}
  /\ nRecvZeroCount \in 0 .. 3
  /\ net \in Seq(Msgs)
  /\ asked \in [Asks -> 0 .. MaxAsked]
  /\ verdict \in {"none", "ok", "err"}
  /\ platName \in Names \cup {NoName}

\* The other parts: the device's data, and the environment.
DataOK == /\ localaddress \in Addrs \cup {NoAddr} /\ src \in Addrs \cup {NoAddr}
          /\ devName \in Names
FlagsOK == status \in BOOLEAN /\ inited \in BOOLEAN
EnvOK == /\ wan \in Addrs \cup {NoAddr} /\ ssid \in Names
         /\ nFault \in 0 .. MaxFault /\ nPush \in 0 .. MaxPush
         /\ nDeny \in 0 .. MaxDeny /\ nRename \in 0 .. MaxRename
UpOK == up \in BOOLEAN

\* The type invariant, split by what the actions change together.
LEMMA TypeParts ==
  /\ TypeOK <=> WireOK /\ DataOK /\ FlagsOK /\ EnvOK /\ UpOK
  /\ TypeOK' <=> WireOK' /\ DataOK' /\ FlagsOK' /\ EnvOK' /\ UpOK'
  BY Zenon DEF TypeOK, WireOK, DataOK, FlagsOK, EnvOK, UpOK

\* Closing the connection leaves nothing of it.
LEMMA ClosedWire ==
  ASSUME NEW next \in {"init", "killed"}, Closed(next), nRecvZeroCount' = 0
  PROVE  WireOK'
  BY SessionAssumption DEF Closed, WireOK, NothingAsked

\* Sending keeps the types, and the connection with them.
LEMMA SentWire ==
  ASSUME WireOK, NEW out, NEW name \in Names, NEW rest \in Seq(Msgs), NEW zero \in 0 .. 3,
         Sent(out, name, rest, zero)
  PROVE  WireOK'
<1>1. asked' \in [Asks -> 0 .. MaxAsked]
  BY SessionAssumption DEF Sent, WireOK
<1>2. platName' \in Names \cup {NoName}
  BY DEF Sent, WireOK
<1>3. /\ pc' = "select" /\ net' \in Seq(Msgs) /\ verdict' = verdict
      /\ link' \in {"none", "up", "silent", "stuck", "dead"}
      /\ nRecvZeroCount' \in 0 .. 3
  BY DEF Sent, WireOK
<1> QED
  BY <1>1, <1>2, <1>3 DEF WireOK

\* A failed send restarts the session, is overlooked, or ends the process.
LEMMA SendFailedWire ==
  ASSUME WireOK, NEW out, NEW rest \in Seq(Msgs), SendFailed(out, rest, 0)
  PROVE  WireOK'
<1>1. CASE wan # NoAddr /\ Closed("init") /\ nRecvZeroCount' = 0
  BY <1>1, ClosedWire
<1>2. CASE /\ pc' = "select" /\ net' = rest /\ nRecvZeroCount' = 0
           /\ UNCHANGED <<link, asked, verdict, platName>>
  BY <1>2 DEF WireOK
<1>3. CASE Closed("killed") /\ nRecvZeroCount' = 0
  BY <1>3, ClosedWire
<1> QED
  BY <1>1, <1>2, <1>3 DEF SendFailed

\* The invariant without its types, and what a closed connection makes of it.
Core == /\ Quiet /\ Fresh /\ Backed
        /\ RegisteredOnThisConnection /\ NameReported /\ CountsThisConnection

USE DEF Connected, RememberAddress, NameChanged, InitInfoRspSends, PushRequestSends,
        ParsedErrCode

\* Nothing is left of a closed connection that could be out of date.
LEMMA ClosedCore ==
  ASSUME NEW next \in {"init", "killed"}, Closed(next), nRecvZeroCount' = 0
  PROVE  Core'
  BY DEF Closed, Core, Quiet, Fresh, Backed, RegisteredOnThisConnection, NameReported,
     CountsThisConnection

\* A device that has just been started satisfies IInv.
LEMMA InitIInv == Init => IInv
<1> SUFFICES ASSUME Init PROVE IInv
  OBVIOUS
<1>1. WireOK
  BY SessionAssumption DEF Init, WireOK, NothingAsked
<1>2. DataOK /\ EnvOK
  BY SessionAssumption DEF Init, DataOK, EnvOK
<1>3. FlagsOK /\ UpOK
  BY Zenon DEF Init, FlagsOK, UpOK
<1>4. Core
  BY DEF Init, Core, Quiet, Fresh, Backed, RegisteredOnThisConnection, NameReported,
     CountsThisConnection
<1> QED
  BY <1>1, <1>2, <1>3, <1>4, TypeParts DEF IInv, Core
-----------------------------------------------------------------------------
\* Msg_Process_Internel runs with a count of zero and keeps the platform
\* informed of the name.
LEMMA InternelStep ==
  ASSUME IInv, NEW timers \in SUBSET Timers, MsgProcessInternel(timers)
  PROVE  IInv'
<1> DEFINE out == InternelOut(timers)
<1>1. WireOK /\ DataOK /\ FlagsOK /\ EnvOK /\ UpOK
  BY TypeParts DEF IInv
<1>2. /\ pc = "internel" /\ nRecvZeroCount = 0
      /\ UNCHANGED <<localaddress, src, status, inited, wan, up, ssid, nFault, nPush,
                     nDeny, nRename>>
  BY <1>1 DEF IInv, CountsThisConnection, MsgProcessInternel, envVars, WireOK
<1>3. CASE Sent(out, ssid, net, 0) /\ devName' = IF status THEN ssid ELSE devName
  <2>1. WireOK'
    BY <1>1, <1>3, SentWire DEF WireOK, EnvOK
  <2>2. DataOK' /\ EnvOK'
    BY <1>1, <1>2, <1>3 DEF DataOK, EnvOK
  <2>3. FlagsOK' /\ UpOK'
    BY <1>1, <1>2 DEF FlagsOK, UpOK
  <2>4. NameReported'
    BY <1>1, <1>2, <1>3 DEF Sent, InternelOut, IInv, NameReported, Timers, FlagsOK,
       RegisteredOnThisConnection
  <2>5. Quiet' /\ Fresh' /\ Backed' /\ RegisteredOnThisConnection' /\ CountsThisConnection'
    BY <1>1, <1>2, <1>3 DEF Sent, IInv, Quiet, Fresh, Backed, RegisteredOnThisConnection,
       CountsThisConnection
  <2> QED
    BY <2>1, <2>2, <2>3, <2>4, <2>5, TypeParts DEF IInv
<1>4. CASE SendFailed(out, net, 0) /\ devName' \in {devName, ssid}
  <2>1. WireOK'
    BY <1>1, <1>4, SendFailedWire DEF WireOK
  <2>2. DataOK' /\ EnvOK'
    BY <1>1, <1>2, <1>4 DEF DataOK, EnvOK
  <2>3. FlagsOK' /\ UpOK'
    BY <1>1, <1>2 DEF FlagsOK, UpOK
  <2>4. Core'
    <3>1. CASE Closed("init") /\ nRecvZeroCount' = 0
      BY <3>1, ClosedCore
    <3>2. CASE Closed("killed") /\ nRecvZeroCount' = 0
      BY <3>2, ClosedCore
    <3>3. CASE /\ pc' = "select" /\ net' = net /\ nRecvZeroCount' = 0
               /\ UNCHANGED <<link, asked, verdict, platName>>
      BY <1>2, <1>4, <3>3 DEF SendFailed, IInv, Core, Quiet, Fresh, Backed,
         RegisteredOnThisConnection, NameReported, CountsThisConnection
    <3> QED
      BY <1>4, <3>1, <3>2, <3>3 DEF SendFailed
  <2> QED
    BY <2>1, <2>2, <2>3, <2>4, TypeParts DEF IInv, Core
<1> QED
  BY <1>2, <1>3, <1>4 DEF MsgProcessInternel

\* Msg_Process_Entry registers on an answer the queue has brought, and sends
\* the name with the init data.
LEMMA EntryStep ==
  ASSUME IInv, MsgProcessEntry
  PROVE  IInv'
<1> DEFINE m == Head(net)
<1>1. WireOK /\ DataOK /\ FlagsOK /\ EnvOK /\ UpOK
  BY TypeParts DEF IInv
<1>2. /\ pc = "select" /\ net # <<>>
      /\ UNCHANGED <<localaddress, src, devName, wan, up, ssid, nFault, nPush, nDeny, nRename>>
  BY DEF MsgProcessEntry, envVars
<1>3. /\ status' \in BOOLEAN /\ status' = (status \/ Registers(m))
      /\ inited' \in BOOLEAN /\ inited' = (inited \/ (m = "INIT_RSP" /\ status))
  BY Zenon DEF MsgProcessEntry
<1>4. DataOK' /\ EnvOK'
  BY <1>1, <1>2 DEF DataOK, EnvOK
<1>5. FlagsOK' /\ UpOK'
  BY <1>1, <1>2, <1>3 DEF FlagsOK, UpOK
<1>6. Tail(net) \in Seq(Msgs) /\ m \in Msgs
  BY <1>1, <1>2, TailMsg DEF WireOK
<1>7. /\ m \in {"CONN_OK", "CONN_ERR"} => verdict # "none"
      /\ m = "INIT_RSP" => verdict = "ok"
  BY <1>1, <1>2, TailMsg DEF WireOK, IInv, Backed
<1>8. \A i \in 1 .. Len(Tail(net)) :
        /\ Tail(net)[i] \in {"CONN_OK", "CONN_ERR"} => verdict # "none"
        /\ Tail(net)[i] = "INIT_RSP" => verdict = "ok"
  BY <1>1, <1>2, TailMsg DEF WireOK, IInv, Backed
<1>9. /\ status' => verdict # "none"
      /\ inited' => status' /\ verdict = "ok"
  BY <1>1, <1>2, <1>3, <1>7 DEF FlagsOK, IInv, RegisteredOnThisConnection, Registers
<1>10. CASE Sent(Answer(m), devName, Tail(net), 0)
  <2>1. WireOK'
    <3>1. devName \in Names /\ 0 \in 0 .. 3
      BY <1>1 DEF DataOK
    <3> QED
      BY <1>1, <1>6, <1>10, <3>1, SentWire
  <2>2. NameReported'
    BY <1>1, <1>2, <1>3, <1>10 DEF Sent, Answer, FlagsOK, IInv, NameReported
  <2>3. Quiet' /\ Fresh' /\ RegisteredOnThisConnection' /\ CountsThisConnection'
    BY <1>9, <1>10 DEF Sent, Quiet, Fresh, RegisteredOnThisConnection, CountsThisConnection
  <2>4. Backed'
    BY <1>8, <1>10 DEF Sent, Backed
  <2> QED
    BY <1>4, <1>5, <2>1, <2>2, <2>3, <2>4, TypeParts DEF IInv
<1>11. CASE SendFailed(Answer(m), Tail(net), 0)
  <2>1. WireOK'
    BY <1>1, <1>6, <1>11, SendFailedWire
  <2>2. Core'
    <3>1. CASE Closed("init") /\ nRecvZeroCount' = 0
      BY <3>1, ClosedCore
    <3>2. CASE Closed("killed") /\ nRecvZeroCount' = 0
      BY <3>2, ClosedCore
    <3>3. CASE /\ pc' = "select" /\ net' = Tail(net) /\ nRecvZeroCount' = 0
               /\ UNCHANGED <<link, asked, verdict, platName>>
      <4>1. Backed'
        BY <1>8, <3>3 DEF Backed
      <4> QED
        BY <1>9, <1>11, <3>3, <4>1 DEF SendFailed, Core, Quiet, Fresh,
           RegisteredOnThisConnection, NameReported, CountsThisConnection
    <3> QED
      BY <1>11, <3>1, <3>2, <3>3 DEF SendFailed
  <2> QED
    BY <1>4, <1>5, <2>1, <2>2, TypeParts DEF IInv, Core
<1> QED
  BY <1>10, <1>11 DEF MsgProcessEntry

\* A failed receive counts against a broken connection only.
LEMMA RecvFailsStep ==
  ASSUME IInv, RecvFails
  PROVE  IInv'
<1>1. WireOK /\ DataOK /\ FlagsOK /\ EnvOK /\ UpOK
  BY TypeParts DEF IInv
<1>2. /\ pc = "select" /\ net = <<>> /\ link = "dead"
      /\ UNCHANGED <<localaddress, src, status, inited, devName, wan, up, ssid, nFault,
                     nPush, nDeny, nRename>>
  BY DEF RecvFails, envVars
<1>3. DataOK' /\ EnvOK'
  BY <1>1, <1>2 DEF DataOK, EnvOK
<1>4. FlagsOK' /\ UpOK'
  BY <1>1, <1>2 DEF FlagsOK, UpOK
<1>5. CASE Closed("init") /\ nRecvZeroCount' = 0
  BY <1>3, <1>4, <1>5, ClosedWire, ClosedCore, TypeParts DEF IInv, Core
<1>6. CASE /\ nRecvZeroCount' = IF nRecvZeroCount < 3 THEN nRecvZeroCount + 1 ELSE 3
           /\ UNCHANGED <<pc, link, net, asked, verdict, platName>>
  <2>1. WireOK'
    BY <1>1, <1>6 DEF WireOK
  <2>2. Core'
    BY <1>2, <1>6 DEF IInv, Core, Quiet, Fresh, Backed, RegisteredOnThisConnection,
       NameReported, CountsThisConnection
  <2> QED
    BY <1>3, <1>4, <2>1, <2>2, TypeParts DEF IInv, Core
<1> QED
  BY <1>5, <1>6 DEF RecvFails, platformVars

\* Starting, connecting and the timeout of select change no message.
LEMMA StartStep ==
  ASSUME IInv, HertAppInit \/ HertTcpInit \/ HertTcpInitFails \/ MonitorStart \/ SelectTimeout
  PROVE  IInv'
<1>1. WireOK /\ DataOK /\ FlagsOK /\ EnvOK /\ UpOK
  BY TypeParts DEF IInv
<1> USE DEF deviceVars, platformVars, envVars, vars
<1>2. CASE HertAppInit
  <2>1. WireOK' /\ EnvOK'
    BY <1>1, <1>2 DEF HertAppInit, WireOK, EnvOK
  <2>2. DataOK'
    BY <1>1, <1>2 DEF HertAppInit, DataOK, EnvOK
  <2>3. FlagsOK' /\ UpOK' /\ status' = FALSE /\ inited' = FALSE
    BY <1>1, <1>2, Zenon DEF HertAppInit, FlagsOK, UpOK
  <2>4. Core'
    BY <1>2, <2>3 DEF HertAppInit, IInv, Core, Quiet, Fresh, Backed,
       RegisteredOnThisConnection, NameReported, CountsThisConnection
  <2> QED
    BY <2>1, <2>2, <2>3, <2>4, TypeParts DEF IInv, Core
<1>3. CASE HertTcpInit
  <2>1. WireOK' /\ EnvOK' /\ DataOK'
    BY <1>1, <1>3 DEF HertTcpInit, WireOK, EnvOK, DataOK
  <2>2. FlagsOK' /\ UpOK'
    BY <1>1, <1>3 DEF HertTcpInit, FlagsOK, UpOK
  <2>3. Core'
    BY <1>1, <1>3 DEF HertTcpInit, WireOK, IInv, Core, Quiet, Fresh, Backed,
       RegisteredOnThisConnection, NameReported, CountsThisConnection
  <2> QED
    BY <2>1, <2>2, <2>3, TypeParts DEF IInv, Core
<1>4. CASE MonitorStart \/ SelectTimeout
  <2>1. WireOK' /\ EnvOK' /\ DataOK'
    BY <1>1, <1>4 DEF MonitorStart, SelectTimeout, WireOK, EnvOK, DataOK
  <2>2. FlagsOK' /\ UpOK'
    BY <1>1, <1>4 DEF MonitorStart, SelectTimeout, FlagsOK, UpOK
  <2>3. Core'
    BY <1>1, <1>4 DEF MonitorStart, SelectTimeout, WireOK, IInv, Core, Quiet, Fresh, Backed,
       RegisteredOnThisConnection, NameReported, CountsThisConnection
  <2> QED
    BY <2>1, <2>2, <2>3, TypeParts DEF IInv, Core
<1>5. CASE HertTcpInitFails
  BY <1>5 DEF HertTcpInitFails, IInv, TypeOK, Quiet, Fresh, Backed,
     RegisteredOnThisConnection, NameReported, CountsThisConnection
<1> QED
  BY <1>2, <1>3, <1>4, <1>5

\* A message the platform appends is backed by the verdict it leaves.
LEMMA ReceiveStep ==
  ASSUME IInv, NEW k \in Msgs, link = "up", net' = Append(net, k), UNCHANGED deviceVars,
         platName' = platName, verdict' \in {"none", "ok", "err"},
         verdict = "ok" => verdict' = "ok", verdict # "none" => verdict' # "none",
         k \in {"CONN_OK", "CONN_ERR"} => verdict' # "none",
         k = "INIT_RSP" => verdict' = "ok"
  PROVE  Core' /\ net' \in Seq(Msgs)
<1>1. WireOK /\ FlagsOK
  BY TypeParts DEF IInv
<1>2. /\ net' \in Seq(Msgs) /\ Len(net') = Len(net) + 1
      /\ \A i \in 1 .. Len(net) : net'[i] = net[i]
      /\ net'[Len(net) + 1] = k
  BY <1>1, AppendMsg DEF WireOK
<1>3. Backed'
  <2> SUFFICES ASSUME NEW i \in 1 .. Len(net')
               PROVE  /\ net'[i] \in {"CONN_OK", "CONN_ERR"} => verdict' # "none"
                      /\ net'[i] = "INIT_RSP" => verdict' = "ok"
    BY DEF Backed
  <2>1. CASE i \in 1 .. Len(net)
    BY <1>2, <2>1 DEF IInv, Backed
  <2>2. CASE i = Len(net) + 1
    BY <1>2, <2>2
  <2> QED
    BY <1>1, <1>2, <2>1, <2>2 DEF WireOK
<1>4. Quiet' /\ Fresh' /\ CountsThisConnection'
  BY DEF deviceVars, IInv, Quiet, Fresh, CountsThisConnection
<1>5. RegisteredOnThisConnection' /\ NameReported'
  BY <1>1 DEF deviceVars, FlagsOK, IInv, RegisteredOnThisConnection, NameReported
<1> QED
  BY <1>2, <1>3, <1>4, <1>5 DEF Core

\* The platform's answers and pushes preserve the invariant.
LEMMA PlatformStep ==
  ASSUME IInv, Platform
  PROVE  IInv'
<1>1. WireOK /\ DataOK /\ FlagsOK /\ EnvOK /\ UpOK
  BY TypeParts DEF IInv
<1> USE DEF deviceVars, platformVars, envVars, vars
<1>2. /\ UNCHANGED <<deviceVars, platName, wan, up, ssid, nFault, nRename>>
      /\ link = "up"
  BY DEF Platform, AcceptConn, RefuseConn, AnswerRequest, Push, Reply
<1>3. DataOK' /\ EnvOK'
  <2>1. nPush' = nPush \/ (nPush < MaxPush /\ nPush' = nPush + 1)
    BY DEF Platform, AcceptConn, RefuseConn, AnswerRequest, Push, Reply
  <2>2. nDeny' = nDeny \/ (nDeny < MaxDeny /\ nDeny' = nDeny + 1)
    BY DEF Platform, AcceptConn, RefuseConn, AnswerRequest, Push
  <2>3. DataOK'
    BY <1>1, <1>2 DEF DataOK
  <2>4. EnvOK'
    BY <1>1, <1>2, <2>1, <2>2, SessionAssumption DEF EnvOK
  <2> QED
    BY <2>3, <2>4
<1>4. FlagsOK' /\ UpOK'
  BY <1>1, <1>2 DEF FlagsOK, UpOK
<1>5. asked' \in [Asks -> 0 .. MaxAsked] /\ verdict' \in {"none", "ok", "err"}
  <2>1. asked \in [Asks -> 0 .. MaxAsked] /\ verdict \in {"none", "ok", "err"}
    BY <1>1 DEF WireOK
  <2>2. ASSUME NEW k \in Asks, NEW m \in Msgs, Reply(k, m)
        PROVE  asked' \in [Asks -> 0 .. MaxAsked]
    BY <2>1, <2>2, SessionAssumption DEF Reply
  <2>3. (\E k \in Asks, m \in Msgs : Reply(k, m)) \/ asked' = asked
    BY DEF Platform, AcceptConn, RefuseConn, AnswerRequest, Push, Asks, Msgs
  <2>4. verdict' \in {"none", "ok", "err"}
    BY <2>1 DEF Platform, AcceptConn, RefuseConn, AnswerRequest, Push
  <2> QED
    BY <2>1, <2>2, <2>3, <2>4
<1>6. \E k \in Msgs :
        /\ net' = Append(net, k)
        /\ verdict = "ok" => verdict' = "ok"
        /\ verdict # "none" => verdict' # "none"
        /\ k \in {"CONN_OK", "CONN_ERR"} => verdict' # "none"
        /\ k = "INIT_RSP" => verdict' = "ok"
  BY DEF Platform, AcceptConn, RefuseConn, AnswerRequest, Push, Reply, Msgs
<1>7. Core' /\ net' \in Seq(Msgs)
  BY <1>2, <1>5, <1>6, ReceiveStep
<1>8. WireOK'
  BY <1>1, <1>2, <1>5, <1>7 DEF WireOK
<1> QED
  BY <1>3, <1>4, <1>7, <1>8, TypeParts DEF IInv, Core

\* The environment breaks and repairs connections but makes none.
LEMMA EnvironmentStep ==
  ASSUME IInv, Environment
  PROVE  IInv'
<1>1. WireOK /\ DataOK /\ FlagsOK /\ EnvOK /\ UpOK
  BY TypeParts DEF IInv
<1> USE DEF deviceVars, platformVars, envVars, vars
<1> USE DEF Environment, WanChange, PlatformChange, Drop, Notice, Rename, Fault, Interrupted
<1>2. UNCHANGED <<pc, localaddress, src, status, inited, devName, nRecvZeroCount, net,
                  asked, verdict, platName>>
  OBVIOUS
<1>3. /\ link' \in {"none", "up", "silent", "stuck", "dead"}
      /\ link = "none" => link' = "none"
      /\ link = "dead" => link' = "dead"
  BY <1>1 DEF WireOK
<1>4. DataOK' /\ FlagsOK'
  BY <1>1, <1>2 DEF DataOK, FlagsOK
<1>5. EnvOK'
  BY <1>1, SessionAssumption DEF EnvOK
<1>6. UpOK'
  BY <1>1, Zenon DEF UpOK
<1>7. WireOK'
  BY <1>1, <1>2, <1>3 DEF WireOK
<1>8. Core'
  BY <1>2, <1>3 DEF IInv, Core, Quiet, Fresh, Backed, RegisteredOnThisConnection,
     NameReported, CountsThisConnection
<1> QED
  BY <1>4, <1>5, <1>6, <1>7, <1>8, TypeParts DEF IInv, Core

\* No step of the device, of the platform or of the environment breaks the
\* invariant.
LEMMA NextIInv == IInv /\ [Next]_vars => IInv'
<1> SUFFICES ASSUME IInv, [Next]_vars PROVE IInv'
  OBVIOUS
<1>1. CASE Device
  BY <1>1, StartStep, EntryStep, RecvFailsStep, InternelStep DEF Device
<1>2. CASE Platform
  BY <1>2, PlatformStep
<1>3. CASE Environment
  BY <1>3, EnvironmentStep
<1>4. CASE UNCHANGED vars
  BY <1>4 DEF vars, deviceVars, platformVars, envVars, IInv, TypeOK, Quiet, Fresh, Backed,
     RegisteredOnThisConnection, NameReported, CountsThisConnection
<1> QED
  BY <1>1, <1>2, <1>3, <1>4 DEF Next
-----------------------------------------------------------------------------
\* Every reachable state satisfies the inductive invariant.
THEOREM InductiveInvariant == Spec => []IInv
  BY InitIInv, NextIInv, PTL DEF Spec

\* Every variable of the session keeps its type.
THEOREM TypeCorrect == Spec => []TypeOK
<1>1. IInv => TypeOK
  BY DEF IInv
<1> QED
  BY InductiveInvariant, <1>1, PTL

\* A registered device has learned so on the connection it is using.
THEOREM RegistrationIsFresh == Spec => []RegisteredOnThisConnection
<1>1. IInv => RegisteredOnThisConnection
  BY DEF IInv
<1> QED
  BY InductiveInvariant, <1>1, PTL

\* The platform of an initialised device is told the name the device holds.
THEOREM PlatformKnowsName == Spec => []NameReported
<1>1. IInv => NameReported
  BY DEF IInv
<1> QED
  BY InductiveInvariant, <1>1, PTL

\* No failed receive is counted against another connection.
THEOREM CountIsFresh == Spec => []CountsThisConnection
<1>1. IInv => CountsThisConnection
  BY DEF IInv
<1> QED
  BY InductiveInvariant, <1>1, PTL
-----------------------------------------------------------------------------
\* How a step can change what the phases are made of.
LEMMA PhaseChange ==
  ASSUME IInv, [Next]_vars
  PROVE  \/ ~Connected'
         \/ ~Connected /\ Connected' /\ ~status'
         \/ Connected /\ Connected' /\ status' = status /\ inited' = inited
         \/ Connected /\ Connected' /\ ~status /\ ~inited /\ ~inited'
         \/ Connected /\ Connected' /\ status /\ ~inited /\ status'
<1> USE DEF deviceVars, platformVars, envVars, vars
<1>0. FlagsOK
  BY TypeParts DEF IInv
<1>1. CASE HertAppInit \/ HertTcpInitFails \/ MonitorStart \/ SelectTimeout \/ RecvFails
  BY <1>1 DEF HertAppInit, HertTcpInitFails, MonitorStart, SelectTimeout, RecvFails, Closed
<1>2. CASE HertTcpInit
  BY <1>2 DEF HertTcpInit, IInv, Fresh
<1>3. CASE MsgProcessEntry
  <2>1. status' = (status \/ Registers(Head(net)))
    BY <1>3, Zenon DEF MsgProcessEntry
  <2>2. inited' = (inited \/ (Head(net) = "INIT_RSP" /\ status))
    BY <1>3, Zenon DEF MsgProcessEntry
  <2>3. Connected /\ (inited => status)
    BY <1>3 DEF MsgProcessEntry, IInv, RegisteredOnThisConnection
  <2>4. CASE status
    BY <1>0, <2>1, <2>2, <2>3, <2>4, Zenon DEF FlagsOK
  <2>5. CASE ~status
    BY <1>0, <2>1, <2>2, <2>3, <2>5, Zenon DEF FlagsOK
  <2> QED
    BY <2>4, <2>5
<1>4. CASE \E timers \in SUBSET Timers : MsgProcessInternel(timers)
  BY <1>4 DEF MsgProcessInternel
<1>5. CASE Platform \/ Environment \/ UNCHANGED vars
  BY <1>5 DEF Platform, AcceptConn, RefuseConn, AnswerRequest, Push, Reply,
     Environment, WanChange, PlatformChange, Drop, Notice, Rename, Fault
<1> QED
  BY <1>1, <1>2, <1>3, <1>4, <1>5 DEF Next, Device

\* The session implements RegistrationPhases: the phase of a session never
\* skips one, and falls back only to "off".
THEOREM SessionPassesPhases == Spec => PassesPhases
<1> DEFINE phase == IF ~Connected THEN "off"
                    ELSE IF ~status THEN "connected"
                    ELSE IF ~inited THEN "registered" ELSE "ready"
<1>1. Init => Phases!Init
  BY DEF Init, Phases!Init
<1>2. IInv /\ [Next]_vars => [Phases!Next]_phase
  BY PhaseChange DEF Phases!Next, Phases!Connect, Phases!Register, Phases!Initialise,
     Phases!Lose
<1> QED
  BY InductiveInvariant, <1>1, <1>2, PTL DEF Spec, PassesPhases, Phases!Spec
-----------------------------------------------------------------------------
\* The two exceptions in ReconnectsUnlessLockedOut are no passing states.

\* main() does not look at the WAN's address again before it is connected: a
\* restart that has remembered an address waits for that very address, though
\* the WAN may have another one and the platform be reachable from it
\* (hert_app.c:270-284).
THEOREM StaleBindLasts ==
  Spec => [][BoundStale => BoundStale' \/ wan' = localaddress]_vars
<1>1. [Next]_vars => [BoundStale => BoundStale' \/ wan' = localaddress]_vars
  <2> SUFFICES ASSUME Next, BoundStale, wan' # localaddress PROVE BoundStale'
    OBVIOUS
  <2> USE DEF BoundStale, deviceVars, platformVars, envVars, vars
  <2>1. CASE Device
    BY <2>1 DEF Device, HertAppInit, HertTcpInit, HertTcpInitFails, MonitorStart,
       SelectTimeout, MsgProcessEntry, RecvFails, MsgProcessInternel
  <2>2. CASE Platform
    BY <2>2 DEF Platform, AcceptConn, RefuseConn, AnswerRequest, Push, Reply
  <2>3. CASE Environment
    BY <2>3 DEF Environment, WanChange, PlatformChange, Drop, Notice, Rename, Fault
  <2> QED
    BY <2>1, <2>2, <2>3 DEF Next
<1> QED
  BY <1>1, PTL DEF Spec

\* A message sent by a registered device is no request for a connection.
LEMMA NoConnReq ==
  ASSUME FlagsOK, status, NEW timers \in SUBSET Timers, NEW m
  PROVE  "CONN_REQ" \notin InternelOut(timers) /\ "CONN_REQ" \notin Answer(m)
<1>1. "CONN_REQ" \notin InternelOut(timers)
  BY DEF InternelOut, Timers
<1>2. Answer(m) \in {{"ABILITY"}, {"PUSH_RSP"}, {}}
  BY DEF Answer
<1> QED
  BY <1>1, <1>2

\* What is sent without a request for a connection leaves the refusal as it is.
LEMMA SentKeepsRefusal ==
  ASSUME IInv, Refused, status', NEW out, "CONN_REQ" \notin out, NEW name, NEW rest,
         NEW zero, Sent(out, name, rest, zero)
  PROVE  Refused'
<1>1. asked \in [Asks -> 0 .. MaxAsked] /\ "CONN_REQ" \in Asks
  BY DEF IInv, TypeOK, Asks
<1>2. asked'["CONN_REQ"] = asked["CONN_REQ"]
  BY <1>1 DEF Sent
<1>3. pc' = "select" /\ verdict' = verdict
  BY DEF Sent
<1> QED
  BY <1>2, <1>3 DEF Refused

\* Nor does a failed attempt to send, unless it ends the connection.
LEMMA FailedKeepsRefusal ==
  ASSUME Refused, status', NEW out, NEW rest, NEW zero, SendFailed(out, rest, zero)
  PROVE  Refused' \/ ~Connected'
  BY DEF SendFailed, Closed, Refused

\* A device that the platform has refused has no init data, never asks for the
\* connection again and cannot be granted one, until the connection it was
\* refused on is lost (hert_app.c:447-462, 2122-2141).
THEOREM RefusalLasts ==
  Spec => [][Refused => ~inited /\ (Refused' \/ ~Connected')]_vars
<1>1. IInv /\ [Next]_vars => [Refused => ~inited /\ (Refused' \/ ~Connected')]_vars
  <2> SUFFICES ASSUME IInv, Next, Refused PROVE ~inited /\ (Refused' \/ ~Connected')
    OBVIOUS
  <2>0. FlagsOK /\ status /\ verdict = "err" /\ Connected /\ asked["CONN_REQ"] = 0
    BY TypeParts DEF IInv, Refused
  <2>1. ~inited
    BY <2>0 DEF IInv, RegisteredOnThisConnection
  <2> SUFFICES Refused' \/ ~Connected'
    BY <2>1
  <2>2. CASE HertAppInit \/ HertTcpInit \/ HertTcpInitFails \/ MonitorStart
    BY <2>2, <2>0 DEF HertAppInit, HertTcpInit, HertTcpInitFails, MonitorStart
  <2>3. CASE SelectTimeout \/ RecvFails
    <3>1. status'
      BY <2>0, <2>3, Zenon DEF SelectTimeout, RecvFails
    <3>2. pc' \in {"internel", "init"} \/ pc' = pc
      BY <2>3 DEF SelectTimeout, RecvFails, Closed
    <3>3. pc' = "init" \/ UNCHANGED <<asked, verdict>>
      BY <2>3 DEF SelectTimeout, RecvFails, Closed, platformVars
    <3> QED
      BY <2>0, <3>1, <3>2, <3>3 DEF Refused
  <2>4. CASE MsgProcessEntry
    <3>1. status'
      BY <2>0, <2>4, Zenon DEF MsgProcessEntry
    <3>2. \/ Sent(Answer(Head(net)), devName, Tail(net), 0)
          \/ SendFailed(Answer(Head(net)), Tail(net), 0)
      BY <2>4 DEF MsgProcessEntry
    <3>3. "CONN_REQ" \notin Answer(Head(net))
      BY <2>0, NoConnReq DEF Timers
    <3>4. CASE Sent(Answer(Head(net)), devName, Tail(net), 0)
      BY <3>1, <3>3, <3>4, SentKeepsRefusal, Zenon
    <3>5. CASE SendFailed(Answer(Head(net)), Tail(net), 0)
      BY <3>1, <3>5, FailedKeepsRefusal, Zenon
    <3> QED
      BY <3>2, <3>4, <3>5
  <2>5. ASSUME NEW timers \in SUBSET Timers, MsgProcessInternel(timers)
        PROVE  Refused' \/ ~Connected'
    <3>1. status'
      BY <2>0, <2>5 DEF MsgProcessInternel
    <3>2. \/ Sent(InternelOut(timers), ssid, net, nRecvZeroCount)
          \/ SendFailed(InternelOut(timers), net, nRecvZeroCount)
      BY <2>5 DEF MsgProcessInternel
    <3>3. "CONN_REQ" \notin InternelOut(timers)
      BY <2>0, NoConnReq
    <3> QED
      BY <3>1, <3>2, <3>3, SentKeepsRefusal, FailedKeepsRefusal
  <2>6. CASE Platform
    <3>1. CASE AcceptConn \/ RefuseConn
      BY <2>0, <3>1 DEF AcceptConn, RefuseConn, Reply
    <3>2. CASE AnswerRequest
      <4>1. /\ UNCHANGED <<deviceVars, verdict>>
            /\ \E k \in Asks \ {"CONN_REQ"} : asked' = [asked EXCEPT ![k] = @ - 1]
        BY <3>2 DEF AnswerRequest, Reply, Asks
      <4>2. asked \in [Asks -> 0 .. MaxAsked]
        BY DEF IInv, TypeOK
      <4>3. asked'["CONN_REQ"] = asked["CONN_REQ"]
        BY <4>1, <4>2 DEF Asks
      <4> QED
        BY <2>0, <4>1, <4>3, Zenon DEF Refused, deviceVars
    <3>3. CASE Push
      BY <2>0, <3>3, Zenon DEF Push, Refused, deviceVars, platformVars
    <3> QED
      BY <2>6, <3>1, <3>2, <3>3 DEF Platform
  <2>7. CASE Environment
    <3>1. UNCHANGED <<pc, status, asked, verdict>>
      BY <2>7, Zenon DEF Environment, WanChange, PlatformChange, Drop, Notice, Rename,
         Fault, deviceVars, platformVars
    <3> QED
      BY <2>0, <3>1, Zenon DEF Refused
  <2> QED
    BY <2>2, <2>3, <2>4, <2>5, <2>6, <2>7 DEF Next, Device
<1> QED
  BY <1>1, InductiveInvariant, PTL DEF Spec
=============================================================================
