----------------------------- MODULE DailyReport -----------------------------
(***************************************************************************)
(* The daily report of the router's status to the platform (hert_app.c).   *)
(* HERT_APP_Init derives the minute of the day from the name of the        *)
(* router; Msg_Process_Internel reads the clock early in a round, does     *)
(* other work, and reports if the clock then showed that minute.           *)
(***************************************************************************)
EXTENDS Integers

VARIABLES
  randSourcw,     \* the sum of six characters of the name
  informPlatHour, informPlatMin, timingComplete,   \* of g_workData
  clock,          \* the local time: a day, an hour and a minute
  now,            \* sz_systime: what the clock showed in the latest round
  pc,             \* "read" the clock, or "inform"
  last            \* the day of the latest report of this process, or -1

appVars == <<randSourcw, informPlatHour, informPlatMin>>
vars == <<appVars, timingComplete, clock, now, pc, last>>

Times == [day : Nat, hour : 0..23, min : 0..59]

(* Six characters, which are signed.                                       *)
Sums == -768..762

(* Every variable of the model has its type.                               *)
TypeOK ==
  /\ randSourcw \in Sums /\ informPlatHour \in 0..21
  /\ informPlatMin \in -50..50 /\ timingComplete \in {0, 1}
  /\ clock \in Times /\ now \in Times /\ pc \in {"read", "inform"}
  /\ last \in Nat \cup {-1}

-----------------------------------------------------------------------------
(* / and % of C truncate. *)
CDiv(a, n) == IF a >= 0 THEN a \div n ELSE -((-a) \div n)
CMod(a, n) == IF a >= 0 THEN a % n ELSE -((-a) % n)

(* An int that is compared with a DWORD becomes one: 2^32 is added to it.  *)
AsDWORD(i) == IF i >= 0 THEN i ELSE i + 65536 * 65536

TimePeriod(sum) == CMod(sum, 24)
TimeHour(sum) == 18 + CDiv(TimePeriod(sum), 6)
TimeMin(sum) == CMod(TimePeriod(sum), 6) * 10

(* HERT_APP_Init: it returns before the time is set if the MAC address     *)
(* cannot be read, with a g_workData of zeros.                             *)
SetInformTime ==
  /\ randSourcw' \in Sums
  /\ \/ /\ informPlatHour' = TimeHour(randSourcw')
        /\ informPlatMin' = TimeMin(randSourcw')
     \/ informPlatHour' = 0 /\ informPlatMin' = 0

Init ==
  /\ randSourcw \in Sums
  /\ \/ /\ informPlatHour = TimeHour(randSourcw)
        /\ informPlatMin = TimeMin(randSourcw)
     \/ informPlatHour = 0 /\ informPlatMin = 0
  /\ timingComplete = 0 /\ clock \in Times /\ now = clock
  /\ pc = "read" /\ last = -1

(* time(), localtime() *)
ReadClock ==
  /\ pc = "read" /\ pc' = "inform" /\ now' = clock
  /\ UNCHANGED <<appVars, timingComplete, clock, last>>

PastInformTime ==
  now.hour >= AsDWORD(informPlatHour) /\ now.min > AsDWORD(informPlatMin)
AtInformTime ==
  now.hour = AsDWORD(informPlatHour) /\ now.min = AsDWORD(informPlatMin)

(* The mark of the last report is taken away first; it is set whether or   *)
(* not the report could be sent.  Behind the report the code frees         *)
(* szDstAddress, which malloc has not given it: if the process dies of     *)
(* that, Restart follows; what else a spoilt heap does is left out.        *)
Complete == IF timingComplete = 1 /\ PastInformTime THEN 0 ELSE timingComplete
Informs == pc = "inform" /\ Complete = 0 /\ AtInformTime

Inform ==
  /\ pc = "inform" /\ pc' = "read"
  /\ IF Informs THEN timingComplete' = 1 /\ last' = now.day
                ELSE timingComplete' = Complete /\ UNCHANGED last
  /\ UNCHANGED <<appVars, clock, now>>

(* t is later than u.                                                      *)
Later(t, u) ==
  \/ t.day > u.day
  \/ t.day = u.day /\ (t.hour > u.hour \/ (t.hour = u.hour /\ t.min > u.min))

(* Time passes.                                                            *)
Tick ==
  /\ clock' \in Times /\ Later(clock', clock)
  /\ UNCHANGED <<appVars, timingComplete, now, pc, last>>

(* Another process, perhaps with another name.                             *)
Restart ==
  /\ SetInformTime /\ timingComplete' = 0 /\ now' = clock
  /\ pc' = "read" /\ last' = -1
  /\ UNCHANGED clock

Next == ReadClock \/ Inform \/ Tick \/ Restart

Spec == Init /\ [][Next]_vars

-----------------------------------------------------------------------------
(* Properties *)

(* A process reports at most once a day, however its rounds fall and how   *)
(* long they take: the mark is not taken away before the minute is over.   *)
OncePerDay == [][Informs /\ Inform => now.day # last]_vars

(* The minute lies between 18:00 and 21:50, as the comment in              *)
(* HERT_APP_Init says, if the characters of the name add up to a number    *)
(* that is not negative and the MAC address could be read.                 *)
TimeInWindow ==
  \/ informPlatHour \in 18..21 /\ informPlatMin \in {0, 10, 20, 30, 40, 50}
  \/ randSourcw < 0
  \/ informPlatHour = 0 /\ informPlatMin = 0

(* With a negative minute, which names with characters beyond ASCII can    *)
(* give, no report is ever sent.                                           *)
NoReport == informPlatMin < 0 => last = -1
=============================================================================
