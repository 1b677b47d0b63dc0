----------------------------- MODULE HertSession -----------------------------
(***************************************************************************)
(* The session of `herouteapp' with the platform: main() and the message   *)
(* handlers of user/busybox/herouteapp/hert_app.c over hert_tcp.c.         *)
(*                                                                         *)
(* main() remembers the WAN address once per (re)start and retries         *)
(* HERT_TCP_Init until it is connected; then it selects: 4 s without       *)
(* input run Msg_Process_Internel (ask for the connection, for the init    *)
(* data, heartbeat, report a changed name), input is handled by            *)
(* Msg_Process_Entry.  A failed send restarts everything if the WAN has an *)
(* address, and so do three failed receives.                               *)
(*                                                                         *)
(* Of a message only its kind matters here.  `asked' and `platName' are    *)
(* what the connection has carried, or will carry, to the platform: TCP    *)
(* retransmits what is sent while the path is interrupted.  The other      *)
(* direction is the receive queue `net'.  HERT_APP_UnInit is one step:     *)
(* that it returns is the subject of DownloadWorker.                       *)
(***************************************************************************)
EXTENDS Naturals, Sequences

CONSTANTS
  Addrs,      \* WAN addresses the router may be given
  NoAddr,     \* the WAN is down: hertUtil_getWanIP returns ""
  Names,      \* values of SSID1, the name the device reports
  NoName,     \* no name has been reported on this connection
  MaxNet,     \* bound: messages in the receive queue
  MaxAsked,   \* bound: unanswered requests of a kind (more are not counted)
  MaxFault,   \* bound: changes of the WAN, of the platform and of the path
  MaxPush,    \* bound: requests the platform sends on its own
  MaxDeny,    \* bound: connection requests the platform refuses
  MaxRename   \* bound: changes of SSID1

ASSUME SessionAssumption ==
  /\ NoAddr \notin Addrs
  /\ NoName \notin Names
  /\ {MaxNet, MaxAsked, MaxFault, MaxPush, MaxDeny, MaxRename} \subseteq Nat

VARIABLES
  pc,             \* main(): see TypeOK
  localaddress,   \* g_session.localaddress
  link,           \* the connection, see TypeOK
  src,            \* the address the connection was made from
  status,         \* g_workData.status = HERT_REGISTERED
  inited,         \* g_workData.initData is not all zero
  devName,        \* g_workData.abilityData.devName
  nRecvZeroCount, \* failed receives, counted up to the 3 it is compared with
  net,            \* messages received by the kernel
  asked,          \* platform: requests of each kind to answer
  verdict,        \* platform: its last answer to CONN_REQ on this connection
  platName,       \* platform: the last name reported on this connection
  wan, up, ssid,  \* environment: WAN address, platform reachable, SSID1
  nFault, nPush, nDeny, nRename

deviceVars   == <<pc, localaddress, link, src, status, inited, devName, nRecvZeroCount>>
platformVars == <<asked, verdict, platName>>
envVars      == <<wan, up, ssid, nFault, nPush, nDeny, nRename>>
vars == <<deviceVars, net, platformVars, envVars>>

Msgs == {"CONN_OK", "CONN_ERR", "INIT_RSP", "UPGRADE_RSP", "PUSH_REQ", "PING_RESP"}
Asks == {"CONN_REQ", "INIT_REQ", "PING_REQ", "UPGRADE_REQ"}
Timers == {"PING_REQ", "UPGRADE_REQ"}

\* link: "silent" is interrupted with nothing to retransmit, "stuck" is
\* interrupted and retransmitting, "dead" is known to be broken.
TypeOK ==
  /\ pc \in {"init", "connect", "select", "internel", "killed"}
  /\ localaddress \in Addrs \cup {NoAddr}
  /\ link \in {"none", "up", "silent", "stuck", "dead"}
  /\ src \in Addrs \cup {NoAddr}
  /\ status \in BOOLEAN /\ inited \in BOOLEAN
  /\ devName \in Names
  /\ nRecvZeroCount \in 0 .. 3
  /\ net \in Seq(Msgs)
  /\ asked \in [Asks -> 0 .. MaxAsked]
  /\ verdict \in {"none", "ok", "err"}
  /\ platName \in Names \cup {NoName}
  /\ wan \in Addrs \cup {NoAddr} /\ up \in BOOLEAN /\ ssid \in Names
  /\ nFault \in 0 .. MaxFault /\ nPush \in 0 .. MaxPush
  /\ nDeny \in 0 .. MaxDeny /\ nRename \in 0 .. MaxRename

NothingAsked == [k \in Asks |-> 0]

Init ==
  /\ pc = "init" /\ localaddress = NoAddr /\ link = "none" /\ src = NoAddr
  /\ status = FALSE /\ inited = FALSE /\ nRecvZeroCount = 0
  /\ net = <<>> /\ asked = NothingAsked /\ verdict = "none" /\ platName = NoName
  /\ wan \in Addrs \cup {NoAddr} /\ up \in BOOLEAN
  /\ ssid \in Names /\ devName = ssid
  /\ nFault = 0 /\ nPush = 0 /\ nDeny = 0 /\ nRename = 0
-----------------------------------------------------------------------------
\* The address every attempt to connect will bind to.
RememberAddress == localaddress' = wan

\* Mutant: the name is not read.
HertAppInitNoName ==
  /\ pc = "init" /\ pc' = "connect"
  /\ status' = FALSE /\ inited' = FALSE /\ devName' = NoName /\ localaddress' = wan
  /\ UNCHANGED <<link, src, nRecvZeroCount, net, platformVars, envVars>>

\* Mutant: g_workData.status is not cleared.
HertAppInitKeepsStatus ==
  /\ pc = "init" /\ pc' = "connect"
  /\ inited' = FALSE /\ devName' = ssid /\ localaddress' = wan
  /\ UNCHANGED <<link, src, status, nRecvZeroCount, net, platformVars, envVars>>

\* Mutant: g_workData.initData is not cleared.
HertAppInitKeepsInit ==
  /\ pc = "init" /\ pc' = "connect"
  /\ status' = FALSE /\ devName' = ssid /\ localaddress' = wan
  /\ UNCHANGED <<link, src, inited, nRecvZeroCount, net, platformVars, envVars>>

\* HERT_APP_Init clears g_workData and g_session and reads SSID1; main() then
\* remembers the address.
HertAppInit ==
  /\ pc = "init"
  /\ pc' = "connect"
  /\ status' = FALSE /\ inited' = FALSE
  /\ devName' = ssid
  /\ RememberAddress
  /\ UNCHANGED <<link, src, nRecvZeroCount, net, platformVars, envVars>>

\* HERT_TCP_Init binds to the remembered address (any, if it is empty) and
\* connects; a failed attempt closes the socket and changes nothing else.
HertTcpInit ==
  /\ pc = "connect"
  /\ localaddress \in {NoAddr, wan}
  /\ wan # NoAddr /\ up
  /\ pc' = "select"
  /\ link' = "up"
  /\ src' = wan
  /\ UNCHANGED <<localaddress, status, inited, devName, nRecvZeroCount, net,
                 platformVars, envVars>>

\* The loop around HERT_TCP_Init: another attempt in 5 s.
HertTcpInitFails ==
  /\ pc = "connect"
  /\ localaddress \notin {NoAddr, wan} \/ wan = NoAddr \/ ~up
  /\ UNCHANGED vars

\* The connection ends with the socket: HERT_APP_UnInit and the kernel close it.
Closed(next) ==
  /\ pc' = next
  /\ link' = "none"
  /\ net' = <<>>
  /\ asked' = NothingAsked /\ verdict' = "none" /\ platName' = NoName

\* Every message of `out' is handed to the connection, `rest' stays to be
\* received and main() returns to select.  A broken connection loses them.
Sent(out, name, rest, zero) ==
  /\ pc' = "select"
  /\ net' = rest
  /\ nRecvZeroCount' = zero
  /\ link' = IF link = "silent" /\ out # {} THEN "stuck" ELSE link
  /\ asked' = IF link = "dead" THEN asked
              ELSE [k \in Asks |-> IF k \in out /\ asked[k] < MaxAsked
                                   THEN asked[k] + 1 ELSE asked[k]]
  /\ platName' = IF link # "dead" /\ "ABILITY" \in out THEN name ELSE platName
  /\ UNCHANGED verdict

\* HERT_TCP_SendTransaction fails for a message of `out'.  The application
\* restarts if the WAN has an address and goes on with the broken socket if
\* not - or SIGPIPE, which nobody handles, ends the process.
SendFailed(out, rest, zero) ==
  /\ link = "dead" /\ out # {}
  /\ \/ /\ wan # NoAddr
        /\ Closed("init")
        /\ nRecvZeroCount' = zero
     \/ /\ wan = NoAddr
        /\ pc' = "select" /\ net' = rest /\ nRecvZeroCount' = zero
        /\ UNCHANGED <<link, asked, verdict, platName>>
     \/ /\ Closed("killed")
        /\ nRecvZeroCount' = 0

\* hertMonitor finds no herouteapp in the process list and starts one.
MonitorStart ==
  /\ pc = "killed"
  /\ pc' = "init"
  /\ UNCHANGED <<localaddress, link, src, status, inited, devName, nRecvZeroCount,
                 net, platformVars, envVars>>
-----------------------------------------------------------------------------
\* select() has waited 4 s: nothing to receive, no error on the socket.
SelectTimeout ==
  /\ pc = "select"
  /\ net = <<>> /\ link # "dead"
  /\ pc' = "internel"
  /\ UNCHANGED <<localaddress, link, src, status, inited, devName, nRecvZeroCount,
                 net, platformVars, envVars>>

\* Msg_Process_Internel_UpdateParameter: SSID1 is not the name held.
NameChanged == devName # ssid

\* Mutant: the name is compared only when nothing else was to be sent.
InternelOutElse(timers) ==
  IF ~status THEN {"CONN_REQ"} ELSE IF ~inited THEN {"INIT_REQ"}
  ELSE IF timers = {} /\ devName # ssid THEN {"ABILITY"} ELSE timers

\* Mutant: no heartbeat.
InternelOutNoTimers(timers) ==
  (IF ~status THEN {"CONN_REQ"} ELSE IF ~inited THEN {"INIT_REQ"} ELSE {})
    \cup (IF status /\ devName # ssid THEN {"ABILITY"} ELSE {})

\* What Msg_Process_Internel sends: one of the two requests until they are
\* answered, then what the timers call for; and, once registered, the ability
\* data if the name they hold has changed.
InternelOut(timers) ==
  (IF ~status THEN {"CONN_REQ"} ELSE IF ~inited THEN {"INIT_REQ"} ELSE timers)
    \cup (IF status /\ NameChanged THEN {"ABILITY"} ELSE {})

\* Msg_Process_Internel.  A send that fails ends it; the name is replaced
\* before the ability data, the last message, is sent.
MsgProcessInternel(timers) ==
  LET out == InternelOut(timers)
  IN  /\ pc = "internel"
      /\ inited \/ timers = {}
      /\ \/ /\ Sent(out, ssid, net, nRecvZeroCount)
            /\ devName' = IF status THEN ssid ELSE devName
         \/ /\ SendFailed(out, net, nRecvZeroCount)
            /\ \/ out # {"ABILITY"} /\ devName' = devName
               \/ "ABILITY" \in out /\ devName' = ssid
      /\ UNCHANGED <<localaddress, src, status, inited, envVars>>

\* The init data are stored and the ability data sent.
InitInfoRspSends == {"ABILITY"}

\* A request of the platform is answered.
PushRequestSends == {"PUSH_RSP"}

\* What the handlers of Msg_Process_Entry send.  Before registration
\* PUSH_DATA is ignored.
Answer(m) == CASE m = "INIT_RSP" /\ status -> InitInfoRspSends
               [] m = "PUSH_REQ" /\ status -> PushRequestSends
               [] OTHER                    -> {}

\* nErrCode as the caller of Parse_Msg_ConnRsp sees it: the function points
\* its own copy of the parameter into the message and the caller's structure,
\* zeroed before, stays as it is.
ParsedErrCode(m) == 0

\* Msg_Process_ConnResp.
Registers(m) == m \in {"CONN_OK", "CONN_ERR"} /\ ParsedErrCode(m) = 0

\* recv() succeeds; Msg_Process_Entry handles the message.
MsgProcessEntry ==
  /\ pc = "select" /\ net # <<>>
  /\ LET m == Head(net)
     IN  /\ status' = (status \/ Registers(m))
         /\ inited' = (inited \/ (m = "INIT_RSP" /\ status))
         /\ \/ Sent(Answer(m), devName, Tail(net), 0)
            \/ SendFailed(Answer(m), Tail(net), 0)
  /\ UNCHANGED <<localaddress, src, devName, envVars>>

\* Mutant: the counter is not reset by the restart it causes.
RecvFailsNoReset ==
  /\ pc = "select" /\ net = <<>> /\ link = "dead"
  /\ nRecvZeroCount' = IF nRecvZeroCount < 3 THEN nRecvZeroCount + 1 ELSE 3
  /\ IF wan # NoAddr /\ nRecvZeroCount' >= 3
     THEN Closed("init")
     ELSE UNCHANGED <<pc, link, net, platformVars>>
  /\ UNCHANGED <<localaddress, src, status, inited, devName, envVars>>

\* recv() fails on a broken connection.  The third time in a row, and not
\* before the WAN has an address, the application restarts.
RecvFails ==
  /\ pc = "select" /\ net = <<>> /\ link = "dead"
  /\ LET n == IF nRecvZeroCount < 3 THEN nRecvZeroCount + 1 ELSE 3
     IN  \/ /\ wan # NoAddr /\ n >= 3
            /\ Closed("init")
            /\ nRecvZeroCount' = 0
         \/ /\ wan = NoAddr \/ n < 3
            /\ nRecvZeroCount' = n
            /\ UNCHANGED <<pc, link, net, platformVars>>
  /\ UNCHANGED <<localaddress, src, status, inited, devName, envVars>>
-----------------------------------------------------------------------------
\* The platform puts `m' on the connection, in answer to a request `k'.
Reply(k, m) ==
  /\ link = "up" /\ Len(net) < MaxNet
  /\ asked[k] > 0
  /\ asked' = [asked EXCEPT ![k] = @ - 1]
  /\ net' = Append(net, m)
  /\ UNCHANGED <<deviceVars, platName, wan, up, ssid, nFault, nPush, nRename>>

AcceptConn == Reply("CONN_REQ", "CONN_OK") /\ verdict' = "ok" /\ UNCHANGED nDeny

RefuseConn ==
  /\ verdict # "ok" /\ nDeny < MaxDeny
  /\ verdict' = "err"
  /\ nDeny' = nDeny + 1
  /\ Reply("CONN_REQ", "CONN_ERR")

\* A device that is not connected gets no data.
AnswerRequest ==
  /\ \/ verdict = "ok" /\ Reply("INIT_REQ", "INIT_RSP")
     \/ verdict = "ok" /\ Reply("UPGRADE_REQ", "UPGRADE_RSP")
     \/ Reply("PING_REQ", "PING_RESP")
  /\ UNCHANGED <<verdict, nDeny>>

\* The platform sends a request of its own.
Push ==
  /\ link = "up" /\ Len(net) < MaxNet /\ nPush < MaxPush
  /\ net' = Append(net, "PUSH_REQ")
  /\ nPush' = nPush + 1
  /\ UNCHANGED <<deviceVars, platformVars, wan, up, ssid, nFault, nDeny, nRename>>
-----------------------------------------------------------------------------
Fault ==
  /\ nFault < MaxFault
  /\ nFault' = nFault + 1
  /\ UNCHANGED <<pc, localaddress, src, status, inited, devName, nRecvZeroCount, net,
                 platformVars, ssid, nPush, nDeny, nRename>>

Interrupted == link \in {"silent", "stuck"}

\* The router loses its address or gets another one.  The connection is
\* interrupted, and may resume when the address it is bound to comes back.
WanChange ==
  /\ Fault
  /\ wan' \in (Addrs \cup {NoAddr}) \ {wan}
  /\ UNCHANGED up
  /\ link' \in IF link = "up" THEN {"silent"}
               ELSE IF Interrupted /\ up /\ wan' = src THEN {link, "up"} ELSE {link}

\* The platform goes away, with or without closing the connection, or comes
\* back, with or without the connection.
PlatformChange ==
  /\ Fault
  /\ up' = ~up
  /\ UNCHANGED wan
  /\ link' \in IF link = "up" THEN {"silent", "dead"}
               ELSE IF Interrupted /\ up' /\ wan = src THEN {link, "up"} ELSE {link}

\* Only the connection breaks: the platform closes it or forgets it.
Drop ==
  /\ Fault
  /\ link = "up"
  /\ link' \in {"silent", "dead"}
  /\ UNCHANGED <<wan, up>>

\* TCP gives up: what has been sent is not acknowledged.
Notice ==
  /\ link = "stuck"
  /\ link' = "dead"
  /\ UNCHANGED <<pc, localaddress, src, status, inited, devName, nRecvZeroCount, net,
                 platformVars, envVars>>

\* The web interface sets SSID1.
Rename ==
  /\ nRename < MaxRename
  /\ nRename' = nRename + 1
  /\ ssid' \in Names \ {ssid}
  /\ UNCHANGED <<deviceVars, net, platformVars, wan, up, nFault, nPush, nDeny>>
-----------------------------------------------------------------------------
Device ==
  \/ HertAppInit \/ HertTcpInit \/ HertTcpInitFails \/ MonitorStart
  \/ SelectTimeout \/ MsgProcessEntry \/ RecvFails
  \/ \E timers \in SUBSET Timers : MsgProcessInternel(timers)

Platform == AcceptConn \/ RefuseConn \/ AnswerRequest \/ Push

Environment == WanChange \/ PlatformChange \/ Drop \/ Notice \/ Rename

Next == Device \/ Platform \/ Environment

Spec == Init /\ [][Next]_vars

\* main() and hertMonitor are scheduled and every call they make returns; the
\* platform answers; TCP gives up in the end; and the heartbeat timer runs
\* out, so that not every timeout finds nothing to send.
FairSpec ==
  /\ Spec
  /\ WF_vars(Device)
  /\ SF_vars(MsgProcessInternel({"PING_REQ"}))
  /\ WF_vars(AcceptConn) /\ WF_vars(AnswerRequest)
  /\ WF_vars(Notice)
-----------------------------------------------------------------------------
Connected == pc \in {"select", "internel"}

\* What the device believes of its registration it has learned on the
\* connection it is using: g_workData survives neither `goto hert_restart'
\* nor a new process, and init data are taken only after registration.
RegisteredOnThisConnection ==
  Connected => /\ status => verdict # "none"
               /\ inited => status /\ verdict = "ok"

\* Once the init data have come, the platform has been told (or will be, when
\* TCP gets through) the name the device holds, however renames, the two
\* places that send the ability data and interruptions interleave.
NameReported ==
  Connected /\ inited /\ link # "dead" => platName = devName

\* Failed receives are counted per connection: nRecvZeroCount, a local of
\* main() that `goto hert_restart' does not reset, is zero unless the present
\* connection is broken and no message of it is waiting.
CountsThisConnection ==
  nRecvZeroCount > 0 => pc = "select" /\ link = "dead" /\ net = <<>>

\* The session passes its phases one by one and loses them only together:
\* it implements RegistrationPhases, so nothing is left over from an earlier
\* connection when HERT_TCP_Init has made a new one.
Phases == INSTANCE RegistrationPhases
            WITH phase <- IF ~Connected THEN "off"
                          ELSE IF ~status THEN "connected"
                          ELSE IF ~inited THEN "registered" ELSE "ready"
PassesPhases == Phases!Spec

\* From when on the WAN has an address and the platform is reachable, the
\* device ends up registered, initialised and known by its current name,
\* whatever broke before and whether or not TCP said so.
Reconnects ==
  <>[](wan # NoAddr /\ up) => <>[](link = "up" /\ inited /\ platName = ssid)

\* main() tries to connect from an address it no longer has.
BoundStale == pc = "connect" /\ localaddress \notin {NoAddr, wan}

\* The platform has refused the device, which takes itself for registered and
\* has no request left that could still be granted.
Refused == Connected /\ status /\ verdict = "err" /\ asked["CONN_REQ"] = 0

\* The two ways to lose the platform for good.
LockedOut == BoundStale \/ Refused

\* With any addresses and refusals, the device ends up as in Reconnects or
\* locked out in one of these two ways, and in no other.
ReconnectsUnlessLockedOut ==
  <>[](wan # NoAddr /\ up)
    => <>[](\/ link = "up" /\ inited /\ platName = ssid
           \/ LockedOut)

\* HERT_REGISTERED means that the platform has accepted the connection request.
RegisteredMeansGranted == Connected /\ status => verdict = "ok"
=============================================================================
