----------------------------- MODULE WanStatus ------------------------------
(***************************************************************************)
(* Is the Internet reachable?  Two processes work it out together.  The    *)
(* status thread of goahead looks at the WAN port and address, writes to   *)
(* /var/needping whether a check makes sense, and reports "pass" when      *)
(* /var/webspingsts says so.  The ping thread of hertMonitor reads         *)
(* /var/needping, tries a TCP connection from the WAN address to a known   *)
(* server now and then, and writes /var/webspingsts.  Each file is written *)
(* by `echo X > file', which empties it before it fills it.                *)
(***************************************************************************)
EXTENDS Integers

CONSTANTS
  Addrs,       \* the addresses the WAN interface may get
  NoIp,        \* no address
  FirstPings,  \* nFirstPingNum starts from this (10)
  HostPings,   \* then every HostPings-th call is a real check (9)
  WanTimes,    \* the values nWanTimes can get
  MaxWan,      \* bound on the changes of the WAN
  MaxRestart,  \* bound on the restarts of hertMonitor
  MaxIntr      \* bound on the checks a signal interrupts

(* hertUtil_getTimeFunc and hertUtil_getWanDectTime use one temporary file *)
(* in two threads that start together, so that nWanTimes is the configured *)
(* value, the default or what the other thread asked for.                  *)
ASSUME WanAssumption ==
  /\ NoIp \notin Addrs /\ WanTimes \subseteq Nat /\ WanTimes # {}
  /\ FirstPings \in Nat /\ HostPings \in Nat \ {0}
  /\ MaxWan \in Nat /\ MaxRestart \in Nat /\ MaxIntr \in Nat

VARIABLES
  port,        \* the cable is in the WAN port
  wanIp,       \* the address of the WAN interface
  dns,         \* a DNS server is configured
  reach,       \* the Internet works behind the WAN port
  needping,    \* /var/needping
  sts,         \* /var/webspingsts
  status,      \* the status thread: its next step
  wanted,      \* herouterStatus.wanPortStatus and WanIpStatus both pass
  pingStatus,  \* herouterStatus.pingStatus, shown by goahead
  pc,          \* the ping thread: its next step
  wanTimes,    \* nWanTimes
  wanCount,    \* nWanCount
  oldIp,       \* szOldWanIp
  bindIp,      \* g_sessionMonitor.localaddress
  resolved,    \* g_sessionMonitor.authhost is not 255.255.255.255
  hostPing,    \* nHostPingCount
  firstPing,   \* nFirstPingNum
  nReachable,  \* what upWebSiteReachable returned
  changes, restarts, interrupts

wanVars == <<port, wanIp, dns, reach>>
sessionVars == <<bindIp, resolved>>
countVars == <<hostPing, firstPing>>
bounds == <<changes, restarts, interrupts>>
goaheadVars == <<needping, status, wanted, pingStatus>>
vars == <<wanVars, goaheadVars, sts, pc, wanTimes, wanCount, oldIp,
          sessionVars, countVars, nReachable, bounds>>

Outcomes == {"reachable", "failed", "remain"}

(* Every variable of the model has its type. *)
TypeOK ==
  /\ wanIp \in Addrs \cup {NoIp}
  /\ port \in BOOLEAN /\ dns \in BOOLEAN /\ reach \in BOOLEAN
  /\ needping \in {"none", "empty", "NO_PING", "NEED_PING"}
  /\ sts \in {"none", "empty", "pass", "failed"}
  /\ status \in {"look", "echo", "read"} /\ wanted \in BOOLEAN
  /\ pingStatus \in {"pass", "failed"}
  /\ pc \in {"start", "wan", "write", "fill", "addr",
            "init", "again", "rewrite", "refill"}
  /\ wanTimes \in WanTimes /\ wanCount \in 0..wanTimes
  /\ oldIp \in Addrs \cup {NoIp} /\ bindIp \in Addrs \cup {NoIp}
  /\ resolved \in BOOLEAN
  /\ hostPing \in (-1)..(HostPings - 1) /\ firstPing \in (-1)..FirstPings
  /\ nReachable \in Outcomes
  /\ changes \in 0..MaxWan /\ restarts \in 0..MaxRestart
  /\ interrupts \in 0..MaxIntr

(* hertMonitor has just been started; the WAN may or may not be up yet.    *)
Init ==
  /\ wanIp \in Addrs \cup {NoIp}
  /\ port \in BOOLEAN /\ dns \in BOOLEAN /\ reach \in BOOLEAN
  /\ needping = "none" /\ sts = "none"
  /\ status = "look" /\ wanted = FALSE /\ pingStatus = "failed"
  /\ pc = "start" /\ wanTimes \in WanTimes /\ wanCount = 0
  /\ oldIp = NoIp /\ bindIp = NoIp /\ resolved = FALSE
  /\ hostPing = -1 /\ firstPing = FirstPings
  /\ nReachable = "failed"
  /\ changes = 0 /\ restarts = 0 /\ interrupts = 0

-----------------------------------------------------------------------------
(* Update_Ping_Status_Thread *)

(* The port and the address are there. *)
Wanted == port /\ wanIp # NoIp
Online == Wanted /\ reach
Resolves == Online /\ dns

(* check_tcp_IsReachInternet_Init: the local address is the WAN's of this  *)
(* moment, the server's name is looked up.                                 *)
CheckInit == bindIp' = wanIp /\ resolved' = Resolves

Start ==
  /\ pc = "start" /\ pc' = "wan"
  /\ CheckInit
  /\ UNCHANGED <<wanVars, goaheadVars, sts, wanTimes, wanCount, oldIp,
                 countVars, nReachable, bounds>>

(* HERT_TCP_check_ConnectTimeOut.  An unresolved server is looked up, and  *)
(* that is the check; otherwise the socket is bound to the local address   *)
(* (to any, without one), which fails if the interface has another one.    *)
CheckConnectTimeOut ==
  IF resolved THEN Online /\ bindIp \in {NoIp, wanIp} ELSE Resolves

Due == firstPing >= 0 \/ hostPing + 1 >= HostPings

(* A plausible slip: the count of skipped checks is not reset.             *)
CountedNoReset == hostPing + 1

(* nHostPingCount after this call. *)
Counted == IF Due THEN 0 ELSE hostPing + 1

(* hertUtil_getWanDnsServerIP finds a server, in nvram or /etc/resolv.conf.*)
HasDnsServer == dns

(* upWebSiteReachable: a real check FirstPings + 1 times after the WAN has *)
(* been down, then every HostPings-th time; a check that a signal          *)
(* interrupts is no check.                                                 *)
UpWebSiteReachable ==
  IF needping # "NEED_PING"
  THEN /\ nReachable' = "failed" /\ firstPing' = FirstPings
       /\ UNCHANGED <<hostPing, resolved, interrupts>>
  ELSE IF ~HasDnsServer
  THEN nReachable' = "failed" /\ UNCHANGED <<countVars, resolved, interrupts>>
  ELSE /\ hostPing' = Counted
       /\ firstPing' = IF Due /\ firstPing >= 0 THEN firstPing - 1 ELSE firstPing
       /\ \/ /\ Due
             /\ nReachable' = IF CheckConnectTimeOut THEN "reachable" ELSE "failed"
             /\ resolved' = (resolved \/ Resolves)
             /\ UNCHANGED interrupts
          \/ /\ Due /\ resolved /\ interrupts < MaxIntr
             /\ nReachable' = "remain" /\ interrupts' = interrupts + 1
             /\ UNCHANGED resolved
          \/ ~Due /\ nReachable' = "remain" /\ UNCHANGED <<resolved, interrupts>>

(* nWanCount is compared with nWanTimes only: it is kept from growing      *)
(* beyond it while there is no address.                                    *)
WanRound ==
  LET n == IF wanCount < wanTimes THEN wanCount + 1 ELSE wanTimes
      due == n >= wanTimes /\ oldIp # NoIp IN
  /\ pc = "wan"
  /\ IF due
     THEN UpWebSiteReachable /\ wanCount' = 0 /\ pc' = "write"
     ELSE /\ wanCount' = n /\ pc' = "addr"
          /\ UNCHANGED <<countVars, resolved, nReachable, interrupts>>
  /\ UNCHANGED <<wanVars, goaheadVars, sts, wanTimes, oldIp, bindIp,
                 changes, restarts>>

(* What is written to /var/webspingsts. *)
Verdict == IF nReachable = "reachable" THEN "pass" ELSE "failed"

(* echo pass / failed > /var/webspingsts: the file is emptied...           *)
WriteStatus ==
  /\ pc \in {"write", "rewrite"}
  /\ IF nReachable = "remain"
     THEN pc' = (IF pc = "write" THEN "addr" ELSE "wan") /\ UNCHANGED sts
     ELSE pc' = (IF pc = "write" THEN "fill" ELSE "refill") /\ sts' = "empty"
  /\ UNCHANGED <<wanVars, goaheadVars, wanTimes, wanCount, oldIp, sessionVars,
                 countVars, nReachable, bounds>>

(* ... and filled.                                                         *)
FillStatus ==
  /\ pc \in {"fill", "refill"} /\ pc' = (IF pc = "fill" THEN "addr" ELSE "wan")
  /\ sts' = Verdict
  /\ UNCHANGED <<wanVars, goaheadVars, wanTimes, wanCount, oldIp,
                 sessionVars, countVars, nReachable, bounds>>

(* A plausible slip: only the first address is noticed.                    *)
LookAtAddressOnce ==
  /\ pc = "addr"
  /\ IF needping = "NEED_PING" /\ wanIp # NoIp /\ oldIp = NoIp
     THEN oldIp' = wanIp /\ pc' = "init"
     ELSE /\ oldIp' = IF needping = "NEED_PING" /\ wanIp = NoIp THEN NoIp ELSE oldIp
          /\ pc' = "wan"
  /\ UNCHANGED <<wanVars, goaheadVars, sts, wanTimes, wanCount,
                 sessionVars, countVars, nReachable, bounds>>

(* A new address starts a new check; the loss of it forgets the old one,   *)
(* but only while goahead wants a check.  The round ends here otherwise.   *)
LookAtAddress ==
  /\ pc = "addr"
  /\ IF needping = "NEED_PING" /\ wanIp # NoIp /\ wanIp # oldIp
     THEN oldIp' = wanIp /\ pc' = "init"
     ELSE /\ oldIp' = IF needping = "NEED_PING" /\ wanIp = NoIp THEN NoIp ELSE oldIp
          /\ pc' = "wan"
  /\ UNCHANGED <<wanVars, goaheadVars, sts, wanTimes, wanCount,
                 sessionVars, countVars, nReachable, bounds>>

(* check_tcp_IsReachInternet_Init reads the address a second time. *)
InitForNewAddress ==
  /\ pc = "init" /\ pc' = "again"
  /\ CheckInit
  /\ UNCHANGED <<wanVars, goaheadVars, sts, wanTimes, wanCount, oldIp,
                 countVars, nReachable, bounds>>

CheckNewAddress ==
  /\ pc = "again" /\ pc' = "rewrite"
  /\ UpWebSiteReachable
  /\ UNCHANGED <<wanVars, goaheadVars, sts, wanTimes, wanCount, oldIp,
                 bindIp, changes, restarts>>

Ping ==
  \/ Start \/ WanRound \/ WriteStatus \/ FillStatus
  \/ LookAtAddress \/ InitForNewAddress \/ CheckNewAddress

-----------------------------------------------------------------------------
(* goahead *)

(* Update_Router_Status_Thread looks at the port and the address, and      *)
(* IsNoNeedPing begins to write /var/needping, which is empty then...      *)
StatusLook ==
  /\ status = "look" /\ status' = "echo"
  /\ wanted' = Wanted /\ needping' = "empty"
  /\ UNCHANGED <<wanVars, pingStatus, sts, pc, wanTimes, wanCount, oldIp,
                 sessionVars, countVars, nReachable, bounds>>

(* ... until the shell has written the word.  Without port or address the  *)
(* round ends here.                                                        *)
StatusEcho ==
  /\ status = "echo"
  /\ IF wanted
     THEN needping' = "NEED_PING" /\ status' = "read" /\ UNCHANGED pingStatus
     ELSE needping' = "NO_PING" /\ status' = "look" /\ pingStatus' = "failed"
  /\ UNCHANGED <<wanVars, wanted, sts, pc, wanTimes, wanCount, oldIp,
                 sessionVars, countVars, nReachable, bounds>>

(* Is "pass" in /var/webspingsts? *)
StatusRead ==
  /\ status = "read" /\ status' = "look"
  /\ pingStatus' = IF sts = "pass" THEN "pass" ELSE "failed"
  /\ UNCHANGED <<wanVars, needping, wanted, sts, pc, wanTimes, wanCount, oldIp,
                 sessionVars, countVars, nReachable, bounds>>

StatusRound == StatusLook \/ StatusEcho \/ StatusRead

(* hertMonitor is killed and started again (Watchdog): the files stay, and *)
(* the shell of an echo under way, a process of its own, fills the file.   *)
RestartMonitor ==
  /\ restarts < MaxRestart /\ restarts' = restarts + 1
  /\ pc' = "start" /\ wanTimes' \in WanTimes /\ wanCount' = 0
  /\ oldIp' = NoIp /\ bindIp' = NoIp /\ resolved' = FALSE
  /\ hostPing' = -1 /\ firstPing' = FirstPings /\ nReachable' = "failed"
  /\ sts' = IF sts = "empty" THEN Verdict ELSE sts
  /\ UNCHANGED <<wanVars, goaheadVars, changes, interrupts>>

-----------------------------------------------------------------------------
(* The WAN: the cable, the address, the DNS server and the Internet behind *)
(* them come and go.                                                       *)
WanChanges ==
  /\ changes < MaxWan /\ changes' = changes + 1
  /\ \/ wanIp' \in (Addrs \cup {NoIp}) \ {wanIp} /\ UNCHANGED <<port, dns, reach>>
     \/ port' = ~port /\ UNCHANGED <<wanIp, dns, reach>>
     \/ dns' = ~dns /\ UNCHANGED <<port, wanIp, reach>>
     \/ reach' = ~reach /\ UNCHANGED <<port, wanIp, dns>>
  /\ UNCHANGED <<goaheadVars, sts, pc, wanTimes, wanCount, oldIp,
                 sessionVars, countVars, nReachable, restarts, interrupts>>

Next == Ping \/ StatusRound \/ RestartMonitor \/ WanChanges

Spec == Init /\ [][Next]_vars

(* Both threads are scheduled and their commands return; the WAN and the   *)
(* restarts are free.                                                      *)
FairSpec == Spec /\ WF_vars(Ping) /\ WF_vars(StatusRound)

-----------------------------------------------------------------------------
(* What goahead should show for the WAN as it is. *)
Truth == IF Online /\ dns THEN "pass" ELSE "failed"

(* The address was changed, and changed back, around the second reading in *)
(* InitForNewAddress: the check stays bound to the address in between, and *)
(* that it fails has come through to goahead.                              *)
WrongBind ==
  /\ bindIp \notin {NoIp, wanIp} /\ wanIp # NoIp /\ oldIp = wanIp
  /\ resolved /\ pc \notin {"start", "init"}
  /\ nReachable # "reachable" /\ sts # "pass" /\ pingStatus = "failed"

(* A process reads the other's file between the moment `echo' empties it   *)
(* and the moment it fills it: hertMonitor takes the WAN to be down or     *)
(* passes over its address, goahead takes the check to have failed.        *)
TornRead ==
  \/ /\ needping = "empty"
     /\ (WanRound /\ pc' = "write") \/ CheckNewAddress \/ LookAtAddress
  \/ sts = "empty" /\ StatusRead

(* When the WAN has come to rest and no read is torn any more, what        *)
(* goahead shows comes to rest too, and it is true: a "pass" left from     *)
(* before an outage is withdrawn, a working connection is noticed, and a   *)
(* "failed" that a torn read brought about is corrected, whatever was      *)
(* skipped, interrupted or restarted in between (hertMonitor.c:116-190,    *)
(* 350-405, goahead.c:451-467).  The exception is an address that went and *)
(* came back while hertMonitor prepared the check.                         *)
SettlesOnTruth ==
  <>[][~TornRead]_vars => <>[](pingStatus = Truth \/ WrongBind)
=============================================================================
