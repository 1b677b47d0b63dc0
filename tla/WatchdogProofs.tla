--------------------------- MODULE WatchdogProofs ---------------------------
(***************************************************************************)
(* The ping thread never asks for the restart of a main() that goes on.    *)
(*                                                                         *)
(* The counters alone do not show it: that preRun = runCount means "no     *)
(* round ended" only as long as main() has not gone once round the range   *)
(* of g_nRunCount, and nNoRunCount must be tied to the checks that were    *)
(* really made since the last round.  Pace says both.                      *)
(***************************************************************************)
EXTENDS Watchdog, TLAPS

(* The value g_nRunCount has after drift rounds from preRun. *)
Ahead ==
  IF preRun + drift > RunMax + 1 THEN preRun + drift - (RunMax + 2)
                                 ELSE preRun + drift

Pace ==
  main # "off" /\ ~stuck =>
    /\ drift <= 0 => preRun = runCount /\ noRun <= -drift
    /\ drift > 0 => runCount = Ahead

(* A killed hertMonitor is without threads until the status thread starts  *)
(* it, and nQosRstGoahead is at its limit only during that restart.        *)
Off == main = "off" => ping = "off" /\ drift = 0
Killed == status = "killed" => main = "off"
Qos == qosCount = QosLimit => main \in {"qkill", "qstart", "qunlink", "off"}

IInv == StepsOK /\ CountersOK /\ Off /\ Killed /\ Qos /\ Pace

(* The invariant holds when hertMonitor is first started. *)
LEMMA InitIInv == Init => IInv
BY LimitsAssumption, PaceAssumption
   DEF Init, Fresh, IInv, StepsOK, CountersOK, Off, Killed, Qos, Pace, Ahead,
       MainSteps, PingSteps

(* A step of main() other than the end of a round. *)
LEMMA MainIInv ==
  ASSUME IInv, Main, ~EndRound PROVE IInv'
<1> USE LimitsAssumption, PaceAssumption
    DEF IInv, StepsOK, CountersOK, Off, Killed, Qos, Pace, Ahead, MainSteps,
        PingSteps, MainAt, mainVars, pingVars, goaheadVars, fileVars
<1>1. CASE RemoveRequest
  BY <1>1 DEF RemoveRequest
<1>2. CASE WaitForStart
  BY <1>2 DEF WaitForStart
<1>3. CASE WatchGoahead
  BY <1>3 DEF WatchGoahead
<1>4. CASE MainKillsGoahead
  BY <1>4 DEF MainKillsGoahead, KillGoahead
<1>5. CASE MainStartsGoahead
  BY <1>5 DEF MainStartsGoahead, StartGoahead
<1>6. CASE WatchQos
  BY <1>6 DEF WatchQos
<1>7. CASE EndQosRestart
  BY <1>7 DEF EndQosRestart
<1>8. CASE WatchService("dnsmasq", "proftpd")
  BY <1>8 DEF WatchService
<1>9. CASE WatchProftpd
  BY <1>9 DEF WatchProftpd, ProftpdMissed
<1>10. CASE WatchPppd
  BY <1>10 DEF WatchPppd, PppdMissed
<1>11. CASE WatchService("herouteapp", "sleep")
  BY <1>11 DEF WatchService
<1> QED
  BY <1>1, <1>2, <1>3, <1>4, <1>5, <1>6, <1>7, <1>8, <1>9, <1>10, <1>11, Main
     DEF Main

(* The end of a round moves g_nRunCount one further from nPreRunCount. *)
LEMMA EndRoundIInv ==
  ASSUME IInv, EndRound PROVE IInv'
<1> USE LimitsAssumption, PaceAssumption
    DEF IInv, CountersOK, MainAt, mainVars, pingVars, goaheadVars, fileVars, EndRound
<1>1. StepsOK' /\ Off' /\ Killed' /\ Qos'
  BY DEF StepsOK, Off, Killed, Qos, MainSteps, PingSteps
<1>2. CountersOK'
  OBVIOUS
<1>3. CASE drift <= 0
  <2>1. drift' = 1 /\ preRun = runCount /\ preRun' = preRun
    BY <1>3 DEF Pace
  <2>2. runCount' = Ahead'
    BY <2>1 DEF Ahead
  <2> QED BY <1>1, <1>2, <2>1, <2>2 DEF Pace
<1>4. CASE drift > 0
  <2>1. drift' = drift + 1 /\ runCount = Ahead /\ preRun' = preRun
    BY <1>4 DEF Pace
  <2>2. runCount' = Ahead'
    BY <2>1 DEF Ahead
  <2> QED BY <1>1, <1>2, <1>4, <2>1, <2>2 DEF Pace
<1> QED BY <1>3, <1>4

(* A check of a main() that goes on finds progress or counts one more, and *)
(* the count stays below the limit: no request is made.                    *)
LEMMA CheckRunQuiet ==
  ASSUME IInv, CheckRun, ~stuck
  PROVE /\ hertmtrst' => hertmtrst
        /\ preRun' = runCount' /\ noRun' \in 0..NoRunLimit
        /\ drift' \in (-NoRunLimit)..MaxLead
        /\ drift' <= 0 /\ noRun' <= -drift'
<1> USE LimitsAssumption, PaceAssumption
    DEF IInv, CountersOK, CheckRun, Checked, mainVars
<1>1. main # "off"
  BY DEF Off
<1>2. CASE drift > 0
  <2>1. preRun # runCount
    BY <1>1, <1>2 DEF Pace, Ahead
  <2> QED BY <1>2, <2>1
<1>3. CASE drift <= 0
  <2>1. preRun = runCount /\ noRun <= -drift
    BY <1>1, <1>3 DEF Pace
  <2>2. noRun + 1 < NoRunLimit
    BY <1>3, <2>1
  <2>3. drift' = drift - 1 /\ noRun' = noRun + 1 /\ preRun' = preRun
    BY <1>3, <2>1, <2>2
  <2>4. hertmtrst' => hertmtrst
    <3>1. ~(noRun + 1 >= NoRunLimit)
      BY <2>2
    <3>2. hertmtrst' = (hertmtrst \/ noRun + 1 >= NoRunLimit)
      BY <2>1, Zenon
    <3> QED BY <3>1, <3>2, Zenon
  <2> QED BY <1>3, <2>1, <2>2, <2>3, <2>4
<1> QED BY <1>2, <1>3

(* A step of the ping thread. *)
LEMMA PingIInv ==
  ASSUME IInv, Ping PROVE IInv'
<1> USE LimitsAssumption, PaceAssumption
    DEF IInv, StepsOK, CountersOK, Off, Killed, Qos, PingSteps, mainVars,
        pingVars, goaheadVars, fileVars
<1>1. CASE CheckRun
  <2>1. CASE stuck
    BY <1>1, <2>1 DEF CheckRun, Checked, Pace
  <2>2. CASE ~stuck
    <3>1. /\ preRun' = runCount' /\ noRun' \in 0..NoRunLimit
          /\ drift' \in (-NoRunLimit)..MaxLead
          /\ drift' <= 0 /\ noRun' <= -drift'
      BY <1>1, <2>2, CheckRunQuiet
    <3> QED BY <1>1, <2>2, <3>1 DEF CheckRun, Pace
  <2> QED BY <2>1, <2>2
<1>2. CASE CheckBlock
  BY <1>2 DEF CheckBlock, Pace, Ahead
<1>3. CASE PingKillsGoahead
  BY <1>3 DEF PingKillsGoahead, KillGoahead, Pace, Ahead
<1>4. CASE PingStartsGoahead
  BY <1>4 DEF PingStartsGoahead, StartGoahead, Pace, Ahead
<1> QED BY <1>1, <1>2, <1>3, <1>4 DEF Ping

(* Any step, and stuttering. *)
LEMMA NextIInv ==
  ASSUME IInv, [Next]_vars PROVE IInv'
<1> USE LimitsAssumption, PaceAssumption
    DEF IInv, StepsOK, CountersOK, Off, Killed, Qos, Pace, Ahead, MainSteps,
        mainVars, pingVars, goaheadVars, fileVars
<1>1. CASE Main
  BY <1>1, MainIInv, EndRoundIInv
<1>2. CASE Ping
  BY <1>2, PingIInv
<1>3. CASE OpenServer
  BY <1>3 DEF OpenServer
<1>4. CASE KillMonitor
  BY <1>4 DEF KillMonitor
<1>5. CASE StartMonitor
  BY <1>5 DEF StartMonitor, Fresh
<1>6. CASE Block
  BY <1>6 DEF Block, Event
<1>7. CASE GoaheadDies
  BY <1>7 DEF GoaheadDies, KillGoahead, Event
<1>8. CASE Spin
  BY <1>8 DEF Spin, Event
<1>9. CASE Calm
  BY <1>9 DEF Calm
<1>10. CASE QosUpdate
  BY <1>10 DEF QosUpdate, Event
<1>11. ASSUME NEW s \in Services, ServiceDies(s) PROVE IInv'
  BY <1>11 DEF ServiceDies, Event
<1>12. CASE UNCHANGED vars
  BY <1>12 DEF vars
<1> QED
  BY <1>1, <1>2, <1>3, <1>4, <1>5, <1>6, <1>7, <1>8, <1>9, <1>10, <1>11, <1>12
     DEF Next, Environment

(* IInv is an invariant: the tie between the two threads' counters is kept *)
(* by every step of either, by restarts and by the environment.            *)
THEOREM InductiveInvariant == Spec => []IInv
BY InitIInv, NextIInv, PTL DEF Spec

(* The flags stay Boolean. *)
LEMMA NextFlags ==
  ASSUME FlagsOK, [Next]_vars PROVE FlagsOK'
<1> USE DEF FlagsOK, fileVars, goaheadVars, KillGoahead, StartGoahead
<1>1. ASSUME Main PROVE FlagsOK'
  BY <1>1, Zenon DEF Main, RemoveRequest, WaitForStart, WatchGoahead,
     MainKillsGoahead, MainStartsGoahead, WatchQos, EndQosRestart, WatchService,
     WatchProftpd, WatchPppd, EndRound
<1>2. ASSUME CheckRun PROVE FlagsOK'
  <2>1. hertmtrst' \in BOOLEAN
    BY <1>2, Zenon DEF CheckRun
  <2> QED BY <1>2, <2>1, Zenon DEF CheckRun
<1>3. ASSUME CheckBlock \/ PingKillsGoahead \/ PingStartsGoahead PROVE FlagsOK'
  BY <1>3, Zenon DEF CheckBlock, PingKillsGoahead, PingStartsGoahead
<1>4. ASSUME OpenServer \/ KillMonitor \/ StartMonitor PROVE FlagsOK'
  BY <1>4, Zenon DEF OpenServer, KillMonitor, StartMonitor
<1>5. ASSUME Environment PROVE FlagsOK'
  BY <1>5, Zenon DEF Environment, Block, GoaheadDies, Spin, Calm, QosUpdate,
     ServiceDies
<1>6. ASSUME UNCHANGED vars PROVE FlagsOK'
  BY <1>6, Zenon DEF vars
<1> QED BY <1>1, <1>2, <1>3, <1>4, <1>5, <1>6 DEF Next, Ping

(* The counters of both threads stay in their ranges, with g_nRunCount     *)
(* starting again after RunMax (hertMonitor.c:609) and the delays of main()*)
(* starting again after their cycles (548, 573).                           *)
THEOREM TypeCorrect == Spec => []TypeOK
<1>1. Init => FlagsOK
  BY Zenon DEF Init, FlagsOK
<1>2. IInv /\ FlagsOK => TypeOK
  BY DEF IInv, TypeOK
<1> QED BY <1>1, <1>2, NextFlags, InductiveInvariant, PTL DEF Spec

(* Only CheckRun writes the request. *)
LEMMA OnlyCheckRunAsks ==
  ASSUME Next, ~hertmtrst, hertmtrst' PROVE CheckRun
<1> USE DEF fileVars
<1>1. ~Main
  BY Zenon DEF Main, RemoveRequest, WaitForStart, WatchGoahead, MainKillsGoahead,
     MainStartsGoahead, WatchQos, EndQosRestart, WatchService, WatchProftpd,
     WatchPppd, EndRound
<1>2. ~(CheckBlock \/ PingKillsGoahead \/ PingStartsGoahead)
  BY Zenon DEF CheckBlock, PingKillsGoahead, PingStartsGoahead
<1>3. ~(OpenServer \/ KillMonitor \/ StartMonitor)
  BY Zenon DEF OpenServer, KillMonitor, StartMonitor
<1>4. ~Environment
  BY Zenon DEF Environment, Block, GoaheadDies, Spin, Calm, QosUpdate, ServiceDies
<1> QED BY <1>1, <1>2, <1>3, <1>4 DEF Next, Ping

(* NoFalseAlarm for every value of the limits and every range of           *)
(* g_nRunCount: a request for the restart of hertMonitor is only ever made *)
(* when main() is blocked (hertMonitor.c:311-325, 609).                    *)
THEOREM NeverAFalseAlarm == Spec => NoFalseAlarm
<1>1. ASSUME IInv, Next PROVE ~hertmtrst /\ hertmtrst' => stuck
  BY <1>1, OnlyCheckRunAsks, CheckRunQuiet
<1>2. ASSUME UNCHANGED vars PROVE ~hertmtrst /\ hertmtrst' => stuck
  BY <1>2 DEF vars, fileVars
<1> QED BY <1>1, <1>2, InductiveInvariant, PTL DEF Spec, NoFalseAlarm

(* No step leaves the state in which both watchers are gone: main() does   *)
(* not move, the ping thread finds no goahead that is busy, and the rest   *)
(* is done by goahead.                                                     *)
LEMMA StrandedStep ==
  ASSUME IInv, Stranded, [Next]_vars PROVE Stranded'
<1> USE DEF Stranded, goaheadVars
<1>1. ASSUME Main PROVE FALSE
  BY <1>1, Zenon DEF Main, MainAt, RemoveRequest, WaitForStart, WatchGoahead,
     MainKillsGoahead, MainStartsGoahead, WatchQos, EndQosRestart, WatchService,
     WatchProftpd, WatchPppd, EndRound
<1>2. ASSUME CheckRun PROVE Stranded'
  BY <1>2 DEF CheckRun
<1>3. ASSUME CheckBlock PROVE Stranded'
  <2>1. BlockLimit > 0 /\ BlockLimit \in Nat
    BY LimitsAssumption
  <2>2. ping' = "check"
    BY <1>3, <2>1 DEF CheckBlock
  <2> QED
    BY <1>3, <2>2 DEF CheckBlock
<1>4. ASSUME PingKillsGoahead \/ PingStartsGoahead PROVE FALSE
  BY <1>4 DEF PingKillsGoahead, PingStartsGoahead
<1>5. ASSUME OpenServer \/ KillMonitor \/ StartMonitor PROVE FALSE
  BY <1>5 DEF OpenServer, KillMonitor, StartMonitor
<1>6. ASSUME Environment PROVE Stranded'
  BY <1>6 DEF Environment, Block, GoaheadDies, Spin, Calm, QosUpdate, ServiceDies
<1>7. ASSUME UNCHANGED vars PROVE Stranded'
  BY <1>7 DEF vars
<1> QED
  BY <1>1, <1>2, <1>3, <1>4, <1>5, <1>6, <1>7 DEF Next, Ping

(* The exception in Recovers is an end: with goahead gone, and the main()  *)
(* of hertMonitor blocked or killed, nothing is ever restarted, for every  *)
(* value of the limits (hertMonitor.c:311-347, 487-611, goahead.c:742-748).*)
THEOREM StrandedForGood == Spec => [](Stranded => []Stranded)
<1>1. IInv /\ Stranded /\ [Next]_vars => Stranded'
  BY StrandedStep
<1> QED
  BY <1>1, InductiveInvariant, PTL DEF Spec
=============================================================================
