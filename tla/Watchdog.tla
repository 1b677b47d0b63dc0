------------------------------ MODULE Watchdog ------------------------------
(***************************************************************************)
(* Who restarts whom.  hertMonitor has two threads: main() restarts the    *)
(* web server goahead, dnsmasq, proftpd, pppd and herouteapp, and the      *)
(* thread Update_Ping_Status_Thread restarts a goahead that spins and asks,*)
(* by the file /var/hertmtrst, for a restart of a hertMonitor whose main() *)
(* makes no progress.  The status thread of goahead reads that file and    *)
(* restarts hertMonitor.  What the ping thread does for the state of the   *)
(* WAN is the subject of WanStatus.                                        *)
(***************************************************************************)
EXTENDS Integers

CONSTANTS
  Services,    \* the services besides goahead that main() watches
  NoRunLimit,  \* checks without progress before a restart is asked for (10)
  BlockLimit,  \* busy looks before goahead is restarted (10)
  QosLimit,    \* rounds a restart for a QoS change waits (5)
  FtpCycle,    \* rounds between two attempts to start proftpd (30)
  FtpAt,       \* the round of a cycle that makes the attempt (15)
  PppWait,     \* rounds without pppd before internet.sh is run (30)
  RunMax,      \* g_nRunCount is reset when it exceeds RunMax (10000)
  MaxLead,     \* bound: rounds of main() between two checks of the thread
  MaxLag,      \* bound: checks of the thread during one round of main()
  MaxEvent     \* bound on the events of the environment

ASSUME LimitsAssumption ==
  /\ Services \subseteq {"dnsmasq", "proftpd", "pppd", "herouteapp"}
  /\ NoRunLimit \in Nat /\ BlockLimit \in Nat \ {0} /\ QosLimit \in Nat \ {0}
  /\ FtpCycle \in Nat \ {0} /\ FtpAt \in 1..(FtpCycle - 1) /\ PppWait \in Nat
  /\ RunMax \in Nat /\ MaxEvent \in Nat

(* Both threads sleep 3 seconds a round: neither overtakes the other by    *)
(* much while main() is not blocked.                                       *)
ASSUME PaceAssumption ==
  /\ MaxLead \in Nat \ {0} /\ MaxLead < RunMax + 2
  /\ MaxLag \in Nat \ {0} /\ MaxLag < NoRunLimit

VARIABLES
  main,        \* main() of hertMonitor: its next step, "off" without process
  qosCount,    \* nQosRstGoahead
  ftpTime,     \* time
  pppDelay,    \* delaytime
  runCount,    \* g_nRunCount
  ping,        \* the ping thread: its next step
  preRun,      \* nPreRunCount
  noRun,       \* nNoRunCount
  blockTimes,  \* goaheadBlockTimes
  goahead,     \* a goahead is running
  status,      \* the status thread of goahead: its next step
  busy,        \* goahead uses 40% of the processor or more
  up,          \* the services that are running
  hertmtrst,   \* /var/hertmtrst contains "restart"
  rstgoahead,  \* /var/rstgoahead contains "restartgoahead"
  finishstart, \* /var/finishstart contains "finishedstart"
  stuck,       \* main() does not come back from a command it runs
  drift,       \* > 0: rounds of main() since the last check; <= 0: - checks since
               \* the last round
  events       \* events of the environment so far

mainVars == <<qosCount, ftpTime, pppDelay, runCount>>
pingVars == <<preRun, noRun, blockTimes>>
goaheadVars == <<goahead, status, busy>>
fileVars == <<hertmtrst, rstgoahead, finishstart>>
vars == <<main, mainVars, ping, pingVars, goaheadVars, up, fileVars, stuck,
          drift, events>>

MainSteps == {"rm", "wait", "goahead", "gkill", "gstart", "qos", "qkill",
              "qstart", "qunlink", "dnsmasq", "proftpd", "pppd",
              "herouteapp", "sleep"}
PingSteps == {"check", "top", "pkill", "pstart"}

StepsOK ==
  /\ main \in MainSteps \cup {"off"} /\ ping \in PingSteps \cup {"off"}
  /\ status \in {"idle", "killed"} /\ up \subseteq Services
CountersOK ==
  /\ qosCount \in 0..QosLimit
  /\ ftpTime \in 1..(FtpCycle + 1) /\ pppDelay \in 0..(PppWait + 1)
  /\ runCount \in 0..(RunMax + 1) /\ preRun \in 0..(RunMax + 1)
  /\ noRun \in 0..NoRunLimit /\ blockTimes \in 0..BlockLimit
  /\ drift \in (-NoRunLimit)..MaxLead /\ events \in 0..MaxEvent
FlagsOK ==
  /\ goahead \in BOOLEAN /\ busy \in BOOLEAN /\ stuck \in BOOLEAN
  /\ hertmtrst \in BOOLEAN /\ rstgoahead \in BOOLEAN /\ finishstart \in BOOLEAN

(* Every variable of the model has its type.                               *)
TypeOK == StepsOK /\ CountersOK /\ FlagsOK

(* The variables of a hertMonitor process that has just been started.      *)
Fresh ==
  [qosCount |-> 0, ftpTime |-> 1, pppDelay |-> 0, runCount |-> 0,
   preRun |-> 0, noRun |-> 0, blockTimes |-> 0]

Init ==
  /\ main = "rm" /\ ping = "off"
  /\ qosCount = Fresh.qosCount /\ ftpTime = Fresh.ftpTime
  /\ pppDelay = Fresh.pppDelay /\ runCount = Fresh.runCount
  /\ preRun = Fresh.preRun /\ noRun = Fresh.noRun
  /\ blockTimes = Fresh.blockTimes
  /\ goahead = TRUE /\ status = "idle" /\ busy = FALSE
  /\ up = Services
  /\ hertmtrst = FALSE /\ rstgoahead = FALSE /\ finishstart = FALSE
  /\ stuck = FALSE /\ drift = 0 /\ events = 0

-----------------------------------------------------------------------------
(* main() *)

MainAt(here) == main = here /\ ~stuck

(* A plausible slip: the request that led to this start is left in place.  *)
RemoveRequestNot ==
  /\ MainAt("rm") /\ main' = "wait"
  /\ UNCHANGED <<mainVars, ping, pingVars, goaheadVars, up, fileVars, stuck,
                 drift, events>>

(* rm -rf /var/hertmtrst, before anything else. *)
RemoveRequest ==
  /\ MainAt("rm") /\ main' = "wait"
  /\ hertmtrst' = FALSE
  /\ UNCHANGED <<mainVars, ping, pingVars, goaheadVars, up, rstgoahead,
                 finishstart, stuck, drift, events>>

(* The loop ends when goahead has written /var/finishstart; then the ping  *)
(* thread is created.                                                      *)
WaitForStart ==
  /\ MainAt("wait") /\ finishstart
  /\ main' = "goahead" /\ ping' = "check"
  /\ UNCHANGED <<mainVars, pingVars, goaheadVars, up, fileVars, stuck,
                 drift, events>>

(* killall goahead: its threads go with it. *)
KillGoahead == goahead' = FALSE /\ status' = "idle" /\ busy' = FALSE
StartGoahead == goahead' = TRUE /\ UNCHANGED <<status, busy>>

(* ps | grep goahead: the answer may be out of date at the next step.      *)
WatchGoahead ==
  /\ MainAt("goahead")
  /\ main' = IF goahead THEN "qos" ELSE "gkill"
  /\ UNCHANGED <<mainVars, ping, pingVars, goaheadVars, up, fileVars, stuck,
                 drift, events>>

MainKillsGoahead ==
  /\ \/ MainAt("gkill") /\ main' = "gstart"
     \/ MainAt("qkill") /\ main' = "qstart"
  /\ KillGoahead
  /\ UNCHANGED <<mainVars, ping, pingVars, up, fileVars, stuck, drift, events>>

MainStartsGoahead ==
  /\ \/ MainAt("gstart") /\ main' = "qos"
     \/ MainAt("qstart") /\ main' = "qunlink"
  /\ StartGoahead
  /\ UNCHANGED <<mainVars, ping, pingVars, up, fileVars, stuck, drift, events>>

WatchQos ==
  /\ MainAt("qos")
  /\ qosCount' = IF rstgoahead THEN qosCount + 1 ELSE qosCount
  /\ main' = IF rstgoahead /\ qosCount' >= QosLimit THEN "qkill" ELSE "dnsmasq"
  /\ UNCHANGED <<ftpTime, pppDelay, runCount, ping, pingVars, goaheadVars, up,
                 fileVars, stuck, drift, events>>

EndQosRestart ==
  /\ MainAt("qunlink") /\ main' = "dnsmasq"
  /\ rstgoahead' = FALSE /\ qosCount' = 0
  /\ UNCHANGED <<ftpTime, pppDelay, runCount, ping, pingVars, goaheadVars, up,
                 hertmtrst, finishstart, stuck, drift, events>>

(* dnsmasq and herouteapp are started as soon as ps does not show them.    *)
WatchService(s, next) ==
  /\ MainAt(s) /\ main' = next
  /\ up' = up \cup ({s} \cap Services)
  /\ UNCHANGED <<mainVars, ping, pingVars, goaheadVars, fileVars, stuck,
                 drift, events>>

(* proftpd is only missed when the storage is mounted ("proftpd" is in     *)
(* Services), pppd when the WAN mode is PPPOE ("pppd" is in Services).     *)
ProftpdMissed == "proftpd" \in Services \ up
PppdMissed == "pppd" \in Services \ up

(* proftpd is tried once in FtpCycle rounds. *)
WatchProftpd ==
  LET t == IF ftpTime > FtpCycle THEN 1 ELSE ftpTime IN
  /\ MainAt("proftpd") /\ main' = "pppd"
  /\ ftpTime' = IF ProftpdMissed THEN t + 1 ELSE 1
  /\ up' = IF ProftpdMissed /\ t % FtpCycle = FtpAt THEN up \cup {"proftpd"} ELSE up
  /\ UNCHANGED <<qosCount, pppDelay, runCount, ping, pingVars, goaheadVars,
                 fileVars, stuck, drift, events>>

(* internet.sh starts pppd after PppWait rounds. *)
WatchPppd ==
  LET d == IF pppDelay > PppWait THEN 0 ELSE pppDelay IN
  /\ MainAt("pppd") /\ main' = "herouteapp"
  /\ pppDelay' = IF PppdMissed THEN d + 1 ELSE
                 IF "pppd" \in Services THEN 0 ELSE pppDelay
  /\ up' = IF PppdMissed /\ d = PppWait THEN up \cup {"pppd"} ELSE up
  /\ UNCHANGED <<qosCount, ftpTime, runCount, ping, pingVars, goaheadVars,
                 fileVars, stuck, drift, events>>

(* A plausible slip: the counter is never reset and leaves its range.      *)
EndRoundNoWrap ==
  /\ MainAt("sleep") /\ main' = "goahead"
  /\ drift < MaxLead
  /\ runCount' = runCount + 1
  /\ drift' = IF drift < 0 THEN 1 ELSE drift + 1
  /\ UNCHANGED <<qosCount, ftpTime, pppDelay, ping, pingVars, goaheadVars, up,
                 fileVars, stuck, events>>

(* The sleep of 3 seconds, and g_nRunCount. *)
EndRound ==
  /\ MainAt("sleep") /\ main' = "goahead"
  /\ drift < MaxLead
  /\ runCount' = IF runCount > RunMax THEN 0 ELSE runCount + 1
  /\ drift' = IF drift < 0 THEN 1 ELSE drift + 1
  /\ UNCHANGED <<qosCount, ftpTime, pppDelay, ping, pingVars, goaheadVars, up,
                 fileVars, stuck, events>>

Main ==
  \/ RemoveRequest \/ WaitForStart
  \/ WatchGoahead \/ MainKillsGoahead \/ MainStartsGoahead
  \/ WatchQos \/ EndQosRestart
  \/ WatchService("dnsmasq", "proftpd") \/ WatchProftpd \/ WatchPppd
  \/ WatchService("herouteapp", "sleep") \/ EndRound

-----------------------------------------------------------------------------
(* Update_Ping_Status_Thread *)

Checked == IF drift > 0 THEN -1 ELSE
           IF drift > -NoRunLimit THEN drift - 1 ELSE drift

(* A plausible slip: progress of main() does not reset nNoRunCount.        *)
CheckRunNoReset ==
  /\ ping = "check" /\ ping' = "top"
  /\ stuck \/ drift > -MaxLag
  /\ drift' = Checked
  /\ IF preRun = runCount
     THEN /\ noRun' = IF noRun + 1 >= NoRunLimit THEN 0 ELSE noRun + 1
          /\ hertmtrst' = (hertmtrst \/ noRun + 1 >= NoRunLimit)
          /\ UNCHANGED preRun
     ELSE preRun' = runCount /\ UNCHANGED <<noRun, hertmtrst>>
  /\ UNCHANGED <<main, mainVars, blockTimes, goaheadVars, up, rstgoahead,
                 finishstart, stuck, events>>

(* Has main() ended a round since the last check? *)
CheckRun ==
  /\ ping = "check" /\ ping' = "top"
  /\ stuck \/ drift > -MaxLag
  /\ drift' = Checked
  /\ IF preRun = runCount
     THEN /\ noRun' = IF noRun + 1 >= NoRunLimit THEN 0 ELSE noRun + 1
          /\ hertmtrst' = (hertmtrst \/ noRun + 1 >= NoRunLimit)
          /\ UNCHANGED preRun
     ELSE noRun' = 0 /\ preRun' = runCount /\ UNCHANGED hertmtrst
  /\ UNCHANGED <<main, mainVars, blockTimes, goaheadVars, up, rstgoahead,
                 finishstart, stuck, events>>

(* top -n 1: BlockLimit busy looks in a row are too many. *)
CheckBlock ==
  LET n == IF goahead /\ busy THEN blockTimes + 1 ELSE 0 IN
  /\ ping = "top"
  /\ ping' = IF n >= BlockLimit THEN "pkill" ELSE "check"
  /\ blockTimes' = IF n >= BlockLimit THEN 0 ELSE n
  /\ UNCHANGED <<main, mainVars, preRun, noRun, goaheadVars, up, fileVars,
                 stuck, drift, events>>

PingKillsGoahead ==
  /\ ping = "pkill" /\ ping' = "pstart"
  /\ KillGoahead
  /\ UNCHANGED <<main, mainVars, pingVars, up, fileVars, stuck, drift, events>>

PingStartsGoahead ==
  /\ ping = "pstart" /\ ping' = "check"
  /\ StartGoahead
  /\ UNCHANGED <<main, mainVars, pingVars, up, fileVars, stuck, drift, events>>

Ping == CheckRun \/ CheckBlock \/ PingKillsGoahead \/ PingStartsGoahead

-----------------------------------------------------------------------------
(* goahead *)

(* The server is open: /var/finishstart is written. *)
OpenServer ==
  /\ goahead /\ ~finishstart
  /\ finishstart' = TRUE
  /\ UNCHANGED <<main, mainVars, ping, pingVars, goaheadVars, up, hertmtrst,
                 rstgoahead, stuck, drift, events>>

(* DoGetMonitorCheck finds the request: killall hertMonitor. *)
KillMonitor ==
  /\ goahead /\ status = "idle" /\ hertmtrst
  /\ status' = "killed"
  /\ main' = "off" /\ ping' = "off" /\ stuck' = FALSE /\ drift' = 0
  /\ UNCHANGED <<mainVars, pingVars, goahead, busy, up, fileVars, events>>

(* hertMonitor& *)
StartMonitor ==
  /\ goahead /\ status = "killed"
  /\ status' = "idle"
  /\ main' = "rm"
  /\ qosCount' = Fresh.qosCount /\ ftpTime' = Fresh.ftpTime
  /\ pppDelay' = Fresh.pppDelay /\ runCount' = Fresh.runCount
  /\ preRun' = Fresh.preRun /\ noRun' = Fresh.noRun
  /\ blockTimes' = Fresh.blockTimes
  /\ UNCHANGED <<ping, goahead, busy, up, fileVars, stuck, drift, events>>

-----------------------------------------------------------------------------
(* The environment *)

Event == events < MaxEvent /\ events' = events + 1

(* main() hangs in one of the commands it runs by system(). *)
Block ==
  /\ Event /\ main # "off" /\ ~stuck /\ stuck' = TRUE
  /\ UNCHANGED <<main, mainVars, ping, pingVars, goaheadVars, up, fileVars, drift>>

GoaheadDies ==
  /\ Event /\ goahead /\ KillGoahead
  /\ UNCHANGED <<main, mainVars, ping, pingVars, up, fileVars, stuck, drift>>

Spin ==
  /\ Event /\ goahead /\ ~busy /\ busy' = TRUE
  /\ UNCHANGED <<main, mainVars, ping, pingVars, goahead, status, up, fileVars,
                 stuck, drift>>

(* A busy goahead may also calm down by itself. *)
Calm ==
  /\ busy /\ busy' = FALSE
  /\ UNCHANGED <<main, mainVars, ping, pingVars, goahead, status, up, fileVars,
                 stuck, drift, events>>

ServiceDies(s) ==
  /\ Event /\ s \in up /\ up' = up \ {s}
  /\ UNCHANGED <<main, mainVars, ping, pingVars, goaheadVars, fileVars, stuck,
                 drift>>

(* SetTerminal, a request of the web interface: a change of a terminal's   *)
(* QoS asks for a restart of goahead.                                      *)
QosUpdate ==
  /\ Event /\ goahead /\ rstgoahead' = TRUE
  /\ UNCHANGED <<main, mainVars, ping, pingVars, goaheadVars, up, hertmtrst,
                 finishstart, stuck, drift>>

Environment ==
  \/ Block \/ GoaheadDies \/ Spin \/ Calm \/ QosUpdate
  \/ \E s \in Services : ServiceDies(s)

Next == Main \/ Ping \/ OpenServer \/ KillMonitor \/ StartMonitor \/ Environment

Spec == Init /\ [][Next]_vars

(* The threads are scheduled, and a process that is started again and again*)
(* gets to its first command at last; the environment owes nothing.        *)
Fairness ==
  /\ WF_vars(Main) /\ WF_vars(Ping) /\ SF_vars(RemoveRequest)
  /\ WF_vars(OpenServer) /\ WF_vars(KillMonitor) /\ WF_vars(StartMonitor)

FairSpec == Spec /\ Fairness

-----------------------------------------------------------------------------
(* The ping thread asks for a restart of hertMonitor only when main() is   *)
(* really blocked: a main() that goes on, however the two threads          *)
(* interleave and wherever g_nRunCount starts again from 0, is never shot  *)
(* (hertMonitor.c:311-325 against 609).                                    *)
NoFalseAlarm == [][~hertmtrst /\ hertmtrst' => stuck]_vars

Healthy ==
  /\ goahead /\ ~busy /\ ~rstgoahead
  /\ main # "off" /\ ~stuck /\ ping # "off"
  /\ up = Services

Booting == main \in {"rm", "wait"}

(* Nobody is left who would restart anything: goahead is gone, the main()  *)
(* that would start it hangs or was killed by that very goahead, and the   *)
(* ping thread is not about to start one.                                  *)
Stranded ==
  ~goahead /\ (stuck \/ main = "off") /\ ping \notin {"pkill", "pstart"}

(* Once hertMonitor has come up, events are repaired for good, however     *)
(* they fall together: a dead or spinning goahead, dead services, a blocked*)
(* main() and requests for a restart lead back to a system in which all run*)
(* and no restart is pending (hertMonitor.c:487-611, 327-347,              *)
(* goahead.c:742-748).  The only state it does not come back from is that  *)
(* of both watchers gone; before hertMonitor is up nobody watches anybody. *)
Recovers == <>[](Healthy \/ Booting \/ Stranded)
=============================================================================
