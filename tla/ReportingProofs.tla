--------------------------- MODULE ReportingProofs ---------------------------
(***************************************************************************)
(* What the router says about itself: to its user, whether the Internet is *)
(* reachable (WanStatus), and to the platform once a day, that it works    *)
(* (DailyReport).                                                          *)
(***************************************************************************)
EXTENDS WanStatus, TLAPS

-----------------------------------------------------------------------------
(* WanStatus *)

(* nHostPingCount and nFirstPingNum stay within their limits.              *)
LEMMA CountRange ==
  ASSUME TypeOK, UpWebSiteReachable
  PROVE  /\ hostPing' \in (-1)..(HostPings - 1) /\ firstPing' \in (-1)..FirstPings
         /\ nReachable' \in Outcomes /\ resolved' \in BOOLEAN
         /\ interrupts' \in 0..MaxIntr
<1> USE WanAssumption
<1>1. /\ hostPing \in (-1)..(HostPings - 1) /\ firstPing \in (-1)..FirstPings
      /\ HostPings \in Nat \ {0} /\ FirstPings \in Nat /\ MaxIntr \in Nat
      /\ interrupts \in 0..MaxIntr /\ resolved \in BOOLEAN /\ dns \in BOOLEAN
      /\ port \in BOOLEAN /\ reach \in BOOLEAN
  BY DEF TypeOK
<1>2. Resolves \in BOOLEAN
  BY DEF Resolves, Online, Wanted
<1>3. Counted \in (-1)..(HostPings - 1)
  BY <1>1 DEF Counted, Due
<1>4. hostPing' = hostPing \/ hostPing' = Counted
  BY DEF UpWebSiteReachable, countVars
<1>5. \/ firstPing' = FirstPings \/ firstPing' = firstPing
      \/ firstPing >= 0 /\ firstPing' = firstPing - 1
  BY DEF UpWebSiteReachable, countVars
<1>6. \/ interrupts' = interrupts
      \/ interrupts < MaxIntr /\ interrupts' = interrupts + 1
  BY DEF UpWebSiteReachable
<1>7. nReachable' \in Outcomes
  BY DEF UpWebSiteReachable, Outcomes
<1>8. resolved' = resolved \/ resolved' = (resolved \/ Resolves)
  BY DEF UpWebSiteReachable
<1>9. hostPing' \in (-1)..(HostPings - 1)
  BY <1>1, <1>3, <1>4
<1>10. firstPing' \in (-1)..FirstPings
  BY <1>1, <1>5
<1>11. interrupts' \in 0..MaxIntr
  BY <1>1, <1>6
<1>12. resolved' \in BOOLEAN
  BY <1>1, <1>2, <1>8
<1> QED
  BY <1>7, <1>9, <1>10, <1>11, <1>12

(* What one look at the WAN port remembers is an address.                  *)
LEMMA CheckInitType ==
  ASSUME TypeOK, CheckInit
  PROVE  bindIp' \in Addrs \cup {NoIp} /\ resolved' \in BOOLEAN
<1>1. Resolves \in BOOLEAN
  BY DEF Resolves, Online, Wanted, TypeOK
<1>2. wanIp \in Addrs \cup {NoIp} /\ bindIp' = wanIp /\ resolved' = Resolves
  BY DEF TypeOK, CheckInit
<1> QED
  BY <1>1, <1>2

(* Every step leaves every variable with its type.                         *)
LEMMA WanTypeStep == ASSUME TypeOK, [Next]_vars PROVE TypeOK'
<1> USE WanAssumption
<1>1. ASSUME Start \/ InitForNewAddress PROVE TypeOK'
  <2>1. bindIp' \in Addrs \cup {NoIp} /\ resolved' \in BOOLEAN
    BY <1>1, CheckInitType DEF Start, InitForNewAddress
  <2> QED
    BY <1>1, <2>1 DEF TypeOK, Start, InitForNewAddress, wanVars, goaheadVars, countVars, bounds
<1>2. ASSUME WanRound PROVE TypeOK'
  <2> DEFINE n == IF wanCount < wanTimes THEN wanCount + 1 ELSE wanTimes
  <2>1. wanTimes \in Nat /\ wanCount \in 0..wanTimes
    BY DEF TypeOK
  <2>2. n \in 0..wanTimes /\ 0 \in 0..wanTimes
    BY <2>1
  <2>3. \/ wanCount' = n /\ pc' = "addr" /\ UNCHANGED <<countVars, resolved, nReachable, interrupts>>
        \/ wanCount' = 0 /\ pc' = "write" /\ UpWebSiteReachable
    BY <1>2 DEF WanRound
  <2>4. UNCHANGED <<wanVars, goaheadVars, sts, wanTimes, oldIp, bindIp, changes, restarts>>
    BY <1>2 DEF WanRound
  <2> HIDE DEF n
  <2>5. wanCount' \in 0..wanTimes' /\ pc' \in {"addr", "write"}
    BY <2>2, <2>3, <2>4
  <2>6. /\ hostPing' \in (-1)..(HostPings - 1) /\ firstPing' \in (-1)..FirstPings
        /\ nReachable' \in Outcomes /\ resolved' \in BOOLEAN
        /\ interrupts' \in 0..MaxIntr
    BY <2>3, CountRange DEF TypeOK, countVars
  <2> QED
    BY <2>4, <2>5, <2>6 DEF TypeOK, wanVars, goaheadVars
<1>3. ASSUME WriteStatus PROVE TypeOK'
  <2>1. sts' \in {"none", "empty", "pass", "failed"}
        /\ pc' \in {"addr", "wan", "fill", "refill"}
    BY <1>3 DEF TypeOK, WriteStatus
  <2> QED
    BY <1>3, <2>1 DEF TypeOK, WriteStatus, wanVars, goaheadVars, sessionVars, countVars, bounds
<1>4. ASSUME LookAtAddress PROVE TypeOK'
  BY <1>4 DEF TypeOK, LookAtAddress, wanVars, goaheadVars, sessionVars, countVars, bounds
<1>5. ASSUME CheckNewAddress PROVE TypeOK'
  <2>1. /\ hostPing' \in (-1)..(HostPings - 1) /\ firstPing' \in (-1)..FirstPings
        /\ nReachable' \in Outcomes /\ resolved' \in BOOLEAN
        /\ interrupts' \in 0..MaxIntr
    BY <1>5, CountRange DEF CheckNewAddress
  <2>2. /\ pc' = "rewrite"
        /\ UNCHANGED <<wanVars, goaheadVars, sts, wanTimes, wanCount, oldIp,
                       bindIp, changes, restarts>>
    BY <1>5 DEF CheckNewAddress
  <2> QED
    BY <2>1, <2>2 DEF TypeOK, wanVars, goaheadVars
<1>6. ASSUME StatusRound PROVE TypeOK'
  <2>1. Wanted \in BOOLEAN
    BY DEF Wanted, TypeOK
  <2>2. CASE StatusLook
    BY <2>1, <2>2 DEF TypeOK, StatusLook, wanVars, sessionVars, countVars, bounds
  <2>3. CASE StatusEcho
    BY <2>3 DEF TypeOK, StatusEcho, wanVars, sessionVars, countVars, bounds
  <2>4. CASE StatusRead
    BY <2>4 DEF TypeOK, StatusRead, wanVars, sessionVars, countVars, bounds
  <2> QED
    BY <1>6, <2>2, <2>3, <2>4 DEF StatusRound
<1>7. ASSUME RestartMonitor PROVE TypeOK'
  <2>1. wanTimes' \in Nat /\ wanCount' \in 0..wanTimes'
    BY <1>7 DEF RestartMonitor
  <2>2. hostPing' \in (-1)..(HostPings - 1) /\ firstPing' \in (-1)..FirstPings
    BY <1>7 DEF RestartMonitor
  <2>3. restarts' \in 0..MaxRestart
    BY <1>7 DEF RestartMonitor, TypeOK
  <2>4. sts' \in {"none", "empty", "pass", "failed"}
    BY <1>7 DEF RestartMonitor, Verdict, TypeOK
  <2> QED
    BY <1>7, <2>1, <2>2, <2>3, <2>4 DEF TypeOK, RestartMonitor, wanVars, goaheadVars, Outcomes
<1>8. ASSUME WanChanges PROVE TypeOK'
  <2>1. changes' \in 0..MaxWan
    BY <1>8 DEF WanChanges, TypeOK
  <2>2. /\ wanIp' \in Addrs \cup {NoIp}
        /\ port' \in BOOLEAN /\ dns' \in BOOLEAN /\ reach' \in BOOLEAN
    BY <1>8 DEF WanChanges, TypeOK
  <2> QED
    BY <1>8, <2>1, <2>2 DEF TypeOK, WanChanges, goaheadVars, sessionVars, countVars
<1>9. ASSUME UNCHANGED vars PROVE TypeOK'
  BY <1>9 DEF TypeOK, vars, wanVars, goaheadVars, sessionVars, countVars, bounds
<1>10. ASSUME FillStatus PROVE TypeOK'
  BY <1>10 DEF TypeOK, FillStatus, Verdict, wanVars, goaheadVars, sessionVars, countVars, bounds
<1> QED
  BY <1>1, <1>2, <1>3, <1>4, <1>5, <1>6, <1>7, <1>8, <1>9, <1>10 DEF Next, Ping

(* The counters of the ping thread stay within the limits that make a real *)
(* check come again, for every frequency of checks and every value of      *)
(* nWanTimes, the one read for the other thread included.                  *)
THEOREM TypeCorrect == Spec => []TypeOK
<1>1. Init => TypeOK
  <2> SUFFICES ASSUME Init PROVE TypeOK
    OBVIOUS
  <2>1. wanTimes \in Nat /\ wanCount \in 0..wanTimes
    BY WanAssumption DEF Init
  <2>2. hostPing \in (-1)..(HostPings - 1) /\ firstPing \in (-1)..FirstPings
    BY WanAssumption DEF Init
  <2>3. changes \in 0..MaxWan /\ restarts \in 0..MaxRestart /\ interrupts \in 0..MaxIntr
    BY WanAssumption DEF Init
  <2> QED
    BY <2>1, <2>2, <2>3 DEF Init, TypeOK, Outcomes
<1> QED
  BY <1>1, WanTypeStep, PTL DEF Spec

(* The exception in SettlesOnTruth is no passing state: once the check is  *)
(* bound to a wrong address, every check fails and goahead shows "failed", *)
(* however well the Internet works, until the WAN changes again or         *)
(* hertMonitor is restarted.                                               *)
THEOREM WrongBindLasts ==
  Spec => [][WrongBind => WrongBind' \/ WanChanges \/ RestartMonitor]_vars
<1>1. TypeOK /\ [Next]_vars
        => [WrongBind => WrongBind' \/ WanChanges \/ RestartMonitor]_vars
  <2> SUFFICES ASSUME TypeOK, Next, WrongBind, ~WanChanges, ~RestartMonitor
               PROVE  WrongBind'
    OBVIOUS
  <2> USE DEF WrongBind
  <2>1. ASSUME UpWebSiteReachable PROVE nReachable' # "reachable" /\ resolved'
    <3>1. ~CheckConnectTimeOut
      BY DEF CheckConnectTimeOut
    <3> QED
      BY <2>1, <3>1 DEF UpWebSiteReachable
  <2>2. CASE WanRound
    <3>1. /\ pc' \in {"write", "addr"}
          /\ UNCHANGED <<wanVars, goaheadVars, sts, oldIp, bindIp>>
          /\ UpWebSiteReachable \/ UNCHANGED <<resolved, nReachable>>
      BY <2>2 DEF WanRound
    <3> QED
      BY <2>1, <3>1 DEF wanVars, goaheadVars
  <2>3. CASE CheckNewAddress
    BY <2>1, <2>3 DEF CheckNewAddress, wanVars, goaheadVars
  <2>4. CASE WriteStatus
    BY <2>4 DEF WriteStatus, wanVars, goaheadVars, sessionVars
  <2>5. CASE LookAtAddress
    BY <2>5 DEF LookAtAddress, wanVars, goaheadVars, sessionVars
  <2>6. CASE StatusRound
    BY <2>6 DEF StatusRound, StatusLook, StatusEcho, StatusRead, wanVars, sessionVars
  <2>7. CASE Start \/ InitForNewAddress
    BY <2>7 DEF Start, InitForNewAddress
  <2>8. CASE FillStatus
    BY <2>8 DEF FillStatus, Verdict, wanVars, goaheadVars, sessionVars
  <2> QED
    BY <2>2, <2>3, <2>4, <2>5, <2>6, <2>7, <2>8 DEF Next, Ping
<1> QED
  BY <1>1, TypeCorrect, PTL DEF Spec

-----------------------------------------------------------------------------
(* DailyReport, for every name, every clock and every order of steps *)

VARIABLES randSourcw, informPlatHour, informPlatMin, timingComplete, clock,
          now, round, last

Daily == INSTANCE DailyReport WITH pc <- round

(* What HERT_APP_Init makes of any six characters.                         *)
LEMMA InformTimeRange ==
  ASSUME NEW sum \in Daily!Sums
  PROVE  /\ Daily!TimeHour(sum) \in 15..21 /\ Daily!TimeMin(sum) \in -50..50
         /\ sum >= 0 => /\ Daily!TimeHour(sum) \in 18..21
                        /\ Daily!TimeMin(sum) \in {0, 10, 20, 30, 40, 50}
<1>1. CASE sum >= 0
  <2> DEFINE p == sum % 24
  <2>1. p \in 0..23 /\ Daily!TimePeriod(sum) = p
    BY <1>1 DEF Daily!Sums, Daily!TimePeriod, Daily!CMod
  <2>2. p \div 6 \in 0..3 /\ p % 6 \in 0..5
    BY <2>1
  <2>3. Daily!TimeHour(sum) = 18 + p \div 6 /\ Daily!TimeMin(sum) = (p % 6) * 10
    BY <2>1 DEF Daily!TimeHour, Daily!TimeMin, Daily!CDiv, Daily!CMod
  <2> HIDE DEF p
  <2> QED
    BY <2>2, <2>3
<1>2. CASE sum < 0
  <2> DEFINE p == (-sum) % 24
  <2>1. p \in 0..23 /\ Daily!TimePeriod(sum) = -p
    BY <1>2 DEF Daily!Sums, Daily!TimePeriod, Daily!CMod
  <2>2. p \div 6 \in 0..3 /\ p % 6 \in 0..5
    BY <2>1
  <2> HIDE DEF p
  <2>3. CASE p = 0
    BY <2>1, <2>3, <1>2 DEF Daily!TimeHour, Daily!TimeMin, Daily!CDiv, Daily!CMod
  <2>4. CASE p # 0
    <3>1. -p < 0 /\ -(-p) = p
      BY <2>1, <2>4
    <3>2. Daily!TimeHour(sum) = 18 - (p \div 6) /\ Daily!TimeMin(sum) = (-(p % 6)) * 10
      BY <2>1, <2>2, <3>1 DEF Daily!TimeHour, Daily!TimeMin, Daily!CDiv, Daily!CMod
    <3>3. sum \in Int
      BY DEF Daily!Sums
    <3> QED
      BY <1>2, <2>2, <3>2, <3>3
  <2> QED
    BY <2>3, <2>4
<1> QED
  BY <1>1, <1>2 DEF Daily!Sums

(* A negative minute is no minute of the clock.                            *)
LEMMA AsDWORDRange ==
  ASSUME NEW i \in -50..50
  PROVE  /\ i >= 0 => Daily!AsDWORD(i) = i
         /\ i < 0 => Daily!AsDWORD(i) \in Int /\ Daily!AsDWORD(i) > 59
  BY DEF Daily!AsDWORD

-----------------------------------------------------------------------------
(* The minute of the report is a number a clock could be compared with,    *)
(* whatever six characters the name has.                                   *)
THEOREM ReportTypeCorrect == Daily!Spec => []Daily!TypeOK
<1>1. Daily!Init => Daily!TypeOK
  <2> SUFFICES ASSUME Daily!Init PROVE Daily!TypeOK
    OBVIOUS
  <2>1. /\ Daily!TimeHour(randSourcw) \in 15..21
        /\ Daily!TimeMin(randSourcw) \in -50..50
    BY InformTimeRange DEF Daily!Init
  <2> QED
    BY <2>1 DEF Daily!Init, Daily!TypeOK
<1>2. Daily!TypeOK /\ [Daily!Next]_(Daily!vars) => Daily!TypeOK'
  <2> SUFFICES ASSUME Daily!TypeOK, [Daily!Next]_(Daily!vars) PROVE Daily!TypeOK'
    OBVIOUS
  <2>1. CASE Daily!ReadClock
    BY <2>1 DEF Daily!TypeOK, Daily!ReadClock, Daily!appVars
  <2>2. CASE Daily!Inform
    BY <2>2 DEF Daily!TypeOK, Daily!Inform, Daily!Complete, Daily!appVars, Daily!Times
  <2>3. CASE Daily!Tick
    BY <2>3 DEF Daily!TypeOK, Daily!Tick, Daily!appVars
  <2>4. CASE Daily!Restart
    BY <2>4, InformTimeRange DEF Daily!TypeOK, Daily!Restart, Daily!SetInformTime
  <2>5. CASE UNCHANGED Daily!vars
    BY <2>5 DEF Daily!TypeOK, Daily!vars, Daily!appVars
  <2> QED
    BY <2>1, <2>2, <2>3, <2>4, <2>5 DEF Daily!Next
<1> QED
  BY <1>1, <1>2, PTL DEF Daily!Spec

(* The name and the minute come from the same HERT_APP_Init.               *)
THEOREM WindowKept == Daily!Spec => []Daily!TimeInWindow
<1>1. Daily!Init => Daily!TimeInWindow
  <2> SUFFICES ASSUME Daily!Init PROVE Daily!TimeInWindow
    OBVIOUS
  <2>1. randSourcw >= 0 \/ randSourcw < 0
    BY DEF Daily!Init, Daily!Sums
  <2>2. randSourcw >= 0 =>
          /\ Daily!TimeHour(randSourcw) \in 18..21
          /\ Daily!TimeMin(randSourcw) \in {0, 10, 20, 30, 40, 50}
    BY InformTimeRange DEF Daily!Init
  <2> QED
    BY <2>1, <2>2 DEF Daily!Init, Daily!TimeInWindow
<1>2. Daily!TimeInWindow /\ [Daily!Next]_(Daily!vars) => Daily!TimeInWindow'
  <2> SUFFICES ASSUME Daily!TimeInWindow, [Daily!Next]_(Daily!vars) PROVE Daily!TimeInWindow'
    OBVIOUS
  <2>1. CASE Daily!Restart
    <3>1. randSourcw' >= 0 \/ randSourcw' < 0
      BY <2>1 DEF Daily!Restart, Daily!SetInformTime, Daily!Sums
    <3>2. randSourcw' >= 0 =>
            /\ Daily!TimeHour(randSourcw') \in 18..21
            /\ Daily!TimeMin(randSourcw') \in {0, 10, 20, 30, 40, 50}
      BY <2>1, InformTimeRange DEF Daily!Restart, Daily!SetInformTime
    <3> QED
      BY <2>1, <3>1, <3>2 DEF Daily!TimeInWindow, Daily!Restart, Daily!SetInformTime
  <2>2. CASE UNCHANGED Daily!appVars
    BY <2>2 DEF Daily!TimeInWindow, Daily!appVars
  <2> QED
    BY <2>1, <2>2 DEF Daily!Next, Daily!ReadClock, Daily!Inform, Daily!Tick, Daily!vars, Daily!appVars
<1> QED
  BY <1>1, <1>2, PTL DEF Daily!Spec

(* With a negative minute AtInformTime never holds.                        *)
THEOREM NegativeMinuteSilent == Daily!Spec => []Daily!NoReport
<1>1. Daily!Init => Daily!NoReport
  BY DEF Daily!Init, Daily!NoReport
<1>2. Daily!TypeOK /\ Daily!NoReport /\ [Daily!Next]_(Daily!vars) => Daily!NoReport'
  <2> SUFFICES ASSUME Daily!TypeOK, Daily!NoReport, [Daily!Next]_(Daily!vars) PROVE Daily!NoReport'
    OBVIOUS
  <2>1. CASE Daily!Inform
    <3>1. informPlatMin < 0 => ~Daily!AtInformTime
      BY AsDWORDRange DEF Daily!TypeOK, Daily!AtInformTime, Daily!Times
    <3> QED
      BY <2>1, <3>1 DEF Daily!Inform, Daily!Informs, Daily!NoReport, Daily!appVars
  <2>2. CASE Daily!Restart
    BY <2>2 DEF Daily!NoReport, Daily!Restart
  <2>3. CASE UNCHANGED <<Daily!appVars, last>>
    BY <2>3 DEF Daily!NoReport, Daily!appVars
  <2> QED
    BY <2>1, <2>2, <2>3 DEF Daily!Next, Daily!ReadClock, Daily!Tick, Daily!vars, Daily!appVars
<1> QED
  BY <1>1, <1>2, ReportTypeCorrect, PTL DEF Daily!Spec

-----------------------------------------------------------------------------
(* The minute of the report is over in the latest round.                   *)
Over ==
  \/ now.hour > informPlatHour
  \/ now.hour = informPlatHour /\ now.min > informPlatMin

(* The inductive invariant: the clock does not go back, no report is of a  *)
(* day to come, and on a day with a report the minute is over, or it is    *)
(* still going on and the mark is set.                                     *)
DayInv ==
  /\ ~Daily!Later(now, clock)
  /\ last <= now.day
  /\ last = now.day =>
       \/ Over
       \/ /\ now.hour = informPlatHour /\ now.min = informPlatMin
          /\ timingComplete = 1

(* A round that would send the report of a day with a report finds the     *)
(* mark: it is in the minute, so that the mark was not taken away.         *)
LEMMA NoSecondReport ==
  ASSUME Daily!TypeOK, Daily!NoReport, DayInv, Daily!Informs
  PROVE  now.day # last
<1> SUFFICES ASSUME now.day = last PROVE FALSE
  OBVIOUS
<1>1. informPlatMin >= 0 /\ informPlatHour >= 0
  BY DEF Daily!TypeOK, Daily!NoReport, Daily!Times
<1>2. Daily!AsDWORD(informPlatHour) = informPlatHour /\ Daily!AsDWORD(informPlatMin) = informPlatMin
  BY <1>1 DEF Daily!AsDWORD
<1>3. now.hour = informPlatHour /\ now.min = informPlatMin
  BY <1>2 DEF Daily!Informs, Daily!AtInformTime
<1>4. timingComplete = 1
  BY <1>3 DEF DayInv, Over, Daily!TypeOK, Daily!Times
<1>5. ~Daily!PastInformTime
  BY <1>2, <1>3 DEF Daily!PastInformTime, Daily!TypeOK, Daily!Times
<1> QED
  BY <1>4, <1>5 DEF Daily!Informs, Daily!Complete

(* Every step keeps it: the clock goes forward within the day, and a mark  *)
(* is taken away only in a later minute.                                   *)
LEMMA DayInvStep == Daily!TypeOK /\ Daily!NoReport /\ DayInv /\ [Daily!Next]_(Daily!vars) => DayInv'
<1> SUFFICES ASSUME Daily!TypeOK, Daily!NoReport, DayInv, [Daily!Next]_(Daily!vars) PROVE DayInv'
  OBVIOUS
<1>1. CASE Daily!ReadClock
  <2>1. now' = clock /\ clock' = clock /\ last' = last
        /\ timingComplete' = timingComplete
        /\ informPlatHour' = informPlatHour /\ informPlatMin' = informPlatMin
    BY <1>1 DEF Daily!ReadClock, Daily!appVars
  <2>2. ~Daily!Later(now', clock')
    BY <2>1 DEF Daily!Later, Daily!TypeOK, Daily!Times
  <2>3. now.day <= clock.day
    BY DEF DayInv, Daily!Later, Daily!TypeOK, Daily!Times
  <2>4. last' <= now'.day
    BY <2>1, <2>3 DEF DayInv, Daily!TypeOK, Daily!Times
  <2>5. ASSUME last' = now'.day
        PROVE  \/ Over'
               \/ /\ now'.hour = informPlatHour' /\ now'.min = informPlatMin'
                  /\ timingComplete' = 1
    <3>1. last = now.day /\ clock.day = now.day
      BY <2>1, <2>3, <2>5 DEF DayInv, Daily!TypeOK, Daily!Times
    <3>2. \/ clock.hour > now.hour
          \/ clock.hour = now.hour /\ clock.min >= now.min
      BY <3>1 DEF DayInv, Daily!Later, Daily!TypeOK, Daily!Times
    <3> QED
      BY <2>1, <3>1, <3>2 DEF DayInv, Over, Daily!TypeOK, Daily!Times
  <2> QED
    BY <2>2, <2>4, <2>5 DEF DayInv
<1>2. CASE Daily!Inform
  <2>1. UNCHANGED <<now, clock, informPlatHour, informPlatMin>>
    BY <1>2 DEF Daily!Inform, Daily!appVars
  <2>2. CASE Daily!Informs
    <3>1. last' = now.day /\ timingComplete' = 1
      BY <1>2, <2>2 DEF Daily!Inform
    <3>2. informPlatMin >= 0 /\ informPlatHour >= 0
      BY <2>2, AsDWORDRange DEF Daily!TypeOK, Daily!Informs, Daily!AtInformTime, Daily!Times
    <3>3. now.hour = informPlatHour /\ now.min = informPlatMin
      BY <2>2, <3>2 DEF Daily!Informs, Daily!AtInformTime, Daily!AsDWORD
    <3> QED
      BY <2>1, <3>1, <3>3 DEF DayInv, Daily!Later, Over, Daily!TypeOK, Daily!Times
  <2>3. CASE ~Daily!Informs
    <3>1. last' = last /\ timingComplete' = Daily!Complete
      BY <1>2, <2>3 DEF Daily!Inform
    <3>2. CASE timingComplete = 1 /\ Daily!PastInformTime
      <4>1. last = now.day => Over
        <5> SUFFICES ASSUME last = now.day PROVE Over
          OBVIOUS
        <5>1. informPlatMin >= 0 /\ informPlatHour >= 0
          BY DEF Daily!TypeOK, Daily!NoReport, Daily!Times
        <5> QED
          BY <3>2, <5>1 DEF Daily!PastInformTime, Daily!AsDWORD, Over, Daily!TypeOK, Daily!Times
      <4> QED
        BY <2>1, <3>1, <4>1 DEF DayInv, Over, Daily!Later
    <3>3. CASE ~(timingComplete = 1 /\ Daily!PastInformTime)
      BY <2>1, <3>1, <3>3 DEF DayInv, Over, Daily!Later, Daily!Complete
    <3> QED
      BY <3>2, <3>3
  <2> QED
    BY <2>2, <2>3
<1>3. CASE Daily!Tick
  <2>1. UNCHANGED <<now, last, timingComplete, informPlatHour, informPlatMin>>
        /\ clock' \in Daily!Times /\ Daily!Later(clock', clock)
    BY <1>3 DEF Daily!Tick, Daily!appVars
  <2>2. ~Daily!Later(now, clock')
    BY <2>1 DEF DayInv, Daily!Later, Daily!TypeOK, Daily!Times
  <2> QED
    BY <2>1, <2>2 DEF DayInv, Over
<1>4. CASE Daily!Restart
  BY <1>4 DEF Daily!Restart, DayInv, Daily!Later, Daily!TypeOK, Daily!Times
<1>5. CASE UNCHANGED Daily!vars
  BY <1>5 DEF DayInv, Over, Daily!Later, Daily!vars, Daily!appVars
<1> QED
  BY <1>1, <1>2, <1>3, <1>4, <1>5 DEF Daily!Next

(* A process reports at most once a day, for every name and every schedule *)
(* of its rounds.                                                          *)
THEOREM ReportedOncePerDay == Daily!Spec => Daily!OncePerDay
<1>1. Daily!Init => DayInv
  BY DEF Daily!Init, DayInv, Daily!Later, Daily!Times
<1>2. Daily!TypeOK /\ Daily!NoReport /\ DayInv /\ [Daily!Next]_(Daily!vars)
        => [Daily!Informs /\ Daily!Inform => now.day # last]_(Daily!vars)
  BY NoSecondReport
<1> QED
  BY <1>1, <1>2, DayInvStep, ReportTypeCorrect, NegativeMinuteSilent, PTL
     DEF Daily!Spec, Daily!OncePerDay
=============================================================================
