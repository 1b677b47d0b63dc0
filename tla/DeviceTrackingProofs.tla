------------------------ MODULE DeviceTrackingProofs -------------------------
(***************************************************************************)
(* A departure is asked about once and answered once, for every number of  *)
(* devices, every size of the queue and any number of events.              *)
(***************************************************************************)
EXTENDS DeviceTracking, FiniteSetTheorems, SequenceTheorems, TLAPS

(* herouteapp will ask, or may still find out that it must.                *)
ToBeAsked(m) ==
  \/ m \in (macList \cup devs) \ present
  \/ pc = "ask" /\ m \in macList \ devs

Debt(m) == IF ToBeAsked(m) THEN 1 ELSE 0

(* A departure is either still to be found or on its way, never both.      *)
DebtInv == \A m \in Macs : Outstanding(m) + Debt(m) <= left[m]

(* A device on a wire is in neither list.                                  *)
ListedInv == macList \cap Hidden = {} /\ devs \cap Hidden = {}

Inv == TypeOK /\ ListedInv /\ DebtInv

-----------------------------------------------------------------------------
(* Counting the messages of a queue *)

(* The places of a queue are finitely many.                                *)
LEMMA CountType ==
  ASSUME NEW S, NEW q \in Seq(S), NEW m
  PROVE  /\ IsFiniteSet({i \in 1..Len(q) : q[i] = m})
         /\ Count(q, m) \in Nat
<1>1. Len(q) \in Nat
  OBVIOUS
<1>2. IsFiniteSet(1..Len(q))
  BY <1>1, FS_Interval
<1>3. {i \in 1..Len(q) : q[i] = m} \in SUBSET (1..Len(q))
  OBVIOUS
<1>4. IsFiniteSet({i \in 1..Len(q) : q[i] = m})
  BY <1>2, <1>3, FS_Subset
<1> QED
  BY <1>4, FS_CardinalityType DEF Count

(* Nothing is in an empty queue.                                           *)
LEMMA CountEmpty == \A m : Count(<<>>, m) = 0
<1> SUFFICES ASSUME NEW m PROVE Count(<<>>, m) = 0
  OBVIOUS
<1>1. {i \in 1..Len(<<>>) : (<<>>)[i] = m} = {}
  OBVIOUS
<1> QED
  BY <1>1, FS_EmptySet DEF Count

(* msgsnd() adds one message.                                              *)
LEMMA CountAppend ==
  ASSUME NEW S, NEW q \in Seq(S), NEW x \in S, NEW m
  PROVE  Count(Append(q, x), m) = Count(q, m) + (IF x = m THEN 1 ELSE 0)
<1> DEFINE new == Len(q) + 1
           I   == {i \in 1..Len(q) : q[i] = m}
           J   == {i \in 1..Len(Append(q, x)) : Append(q, x)[i] = m}
<1>1. IsFiniteSet(I) /\ Cardinality(I) = Count(q, m) /\ Count(q, m) \in Nat
  BY CountType DEF Count
<1>2. Count(Append(q, x), m) = Cardinality(J)
  BY DEF Count
<1>3. new \notin I
  OBVIOUS
<1>4. CASE x = m
  <2>1. J = I \cup {new}
    BY <1>4
  <2> HIDE DEF I, J, new
  <2>2. Cardinality(J) = Cardinality(I) + 1
    BY <1>1, <1>3, <2>1, FS_AddElement
  <2> QED
    BY <1>1, <1>2, <1>4, <2>2
<1>5. CASE x # m
  <2>1. J = I
    BY <1>5
  <2> HIDE DEF I, J, new
  <2> QED
    BY <1>1, <1>2, <1>5, <2>1
<1> QED
  BY <1>4, <1>5

(* msgrcv() takes one message.                                             *)
LEMMA CountTail ==
  ASSUME NEW S, NEW q \in Seq(S), q # <<>>, NEW m
  PROVE  Count(q, m) = Count(Tail(q), m) + (IF Head(q) = m THEN 1 ELSE 0)
<1> DEFINE I == {i \in 1..Len(q) : q[i] = m}
           J == {i \in 1..Len(Tail(q)) : Tail(q)[i] = m}
           K == {i \in 2..Len(q) : q[i] = m}
           f == [i \in J |-> i + 1]
<1>1. Tail(q) \in Seq(S) /\ Len(q) \in Nat \ {0} /\ Len(Tail(q)) = Len(q) - 1
  OBVIOUS
<1>2. \A i \in 1..Len(Tail(q)) : Tail(q)[i] = q[i + 1]
  OBVIOUS
<1>3. /\ IsFiniteSet(I) /\ Cardinality(I) = Count(q, m)
      /\ IsFiniteSet(J) /\ Cardinality(J) = Count(Tail(q), m)
      /\ Count(Tail(q), m) \in Nat
  BY <1>1, CountType DEF Count
<1>4. f \in Bijection(J, K)
  <2>1. \A i \in J : i + 1 \in K
    BY <1>1, <1>2
  <2>2. \A k \in K : k - 1 \in J /\ (k - 1) + 1 = k
    BY <1>1, <1>2
  <2>3. \A i, j \in J : i + 1 = j + 1 => i = j
    BY <1>1
  <2> HIDE DEF J, K
  <2>4. f \in [J -> K]
    BY <2>1
  <2>5. \A i, j \in J : f[i] = f[j] => i = j
    BY <2>3
  <2>6. \A k \in K : \E i \in J : f[i] = k
    BY <2>2
  <2> QED
    BY <2>4, <2>5, <2>6 DEF Bijection, Injection, Surjection, IsInjective
<1>5. IsFiniteSet(K) /\ Cardinality(K) = Count(Tail(q), m)
  <2> HIDE DEF J, K, f
  <2>1. ExistsBijection(J, K)
    BY <1>4 DEF ExistsBijection
  <2> QED
    BY <2>1, <1>3, FS_Bijection
<1>6. 1 \notin K
  OBVIOUS
<1>7. CASE Head(q) = m
  <2>1. I = K \cup {1}
    BY <1>1, <1>7
  <2> HIDE DEF I, J, K
  <2>2. Cardinality(I) = Cardinality(K) + 1
    BY <1>5, <1>6, <2>1, FS_AddElement
  <2> QED
    BY <1>3, <1>5, <1>7, <2>2
<1>8. CASE Head(q) # m
  <2>1. I = K
    BY <1>1, <1>8
  <2> HIDE DEF I, J, K
  <2> QED
    BY <1>3, <1>5, <1>8, <2>1
<1> QED
  BY <1>7, <1>8

-----------------------------------------------------------------------------
(* Types *)

(* What is left of tcpdump's list is a list of devices.                    *)
LEMMA UnlinkedType ==
  ASSUME flows \in Seq(Macs), NEW k \in 1..Len(flows)
  PROVE  Unlinked(k) \in Seq(Macs)
<1>1. SubSeq(flows, 1, k - 1) \in Seq(Macs)
  OBVIOUS
<1>2. SubSeq(flows, k + 1, Len(flows)) \in Seq(Macs)
  OBVIOUS
<1> QED
  BY <1>1, <1>2 DEF Unlinked

(* A tcpdump that ends takes its state with it; its pid stays in the queue.*)
LEMMA GoneType ==
  ASSUME TypeOK, NEW next, Gone(next)
  PROVE  /\ pids' \in Seq({"cur", "old"}) /\ Len(pids') = Len(pids)
         /\ lost' \subseteq Macs /\ flows' \in Seq(Macs)
         /\ sig' \in BOOLEAN /\ answer' = NoMac /\ dump' = next
<1> DEFINE aged == [i \in 1..Len(pids) |-> "old"]
<1>1. Len(pids) \in Nat
  BY DEF TypeOK
<1>2. aged \in Seq({"cur", "old"}) /\ Len(aged) = Len(pids)
  BY <1>1
<1>3. pids' = aged
  BY DEF Gone
<1> HIDE DEF aged
<1>4. lost' \subseteq Macs
  BY DEF Gone, Lose, TypeOK
<1>5. flows' = <<>> /\ sig' = FALSE /\ answer' = NoMac /\ dump' = next
  BY DEF Gone
<1>6. <<>> \in Seq(Macs)
  OBVIOUS
<1> QED
  BY <1>2, <1>3, <1>4, <1>5, <1>6

(* Events are counted up to their bound.                                   *)
LEMMA EventType ==
  ASSUME TypeOK, Event \/ events' = events
  PROVE  events' \in 0..MaxEvent
<1>1. events \in 0..MaxEvent /\ MaxEvent \in Nat
  BY TrackingAssumption DEF TypeOK
<1>2. events' = events \/ (events < MaxEvent /\ events' = events + 1)
  BY DEF Event
<1> QED
  BY <1>1, <1>2

(* Every step leaves every variable with its type and the queue within its *)
(* limit: msgsnd() is only called, or only succeeds, where there is room.  *)
LEMMA TypeStep == ASSUME TypeOK, [Next]_vars PROVE TypeOK'
<1> USE TrackingAssumption
<1>1. ASSUME ReadPids PROVE TypeOK'
  BY <1>1 DEF TypeOK, ReadPids, appVars, queueVars, dumpVars, envVars
<1>2. ASSUME CheckTcpdump PROVE TypeOK'
  <2>1. CASE tcpdump_pid = "cur"
    BY <1>2, <2>1 DEF TypeOK, CheckTcpdump, appVars, queueVars, dumpVars, envVars
  <2>2. CASE tcpdump_pid # "cur" /\ due
    <3>1. Gone("start")
      BY <1>2, <2>2 DEF CheckTcpdump
    <3> QED
      BY <1>2, <2>2, <3>1, GoneType DEF TypeOK, CheckTcpdump, appVars, queueVars, dumpVars, envVars
  <2>3. CASE tcpdump_pid # "cur" /\ ~due
    BY <1>2, <2>3 DEF TypeOK, CheckTcpdump, appVars, queueVars, dumpVars, envVars
  <2> QED
    BY <2>1, <2>2, <2>3
<1>3. ASSUME ListDevices PROVE TypeOK'
  <2>1. left' \in [Macs -> Nat]
    <3> DEFINE more(m) == IF m \in macList \cap present THEN 1 ELSE 0
    <3>1. \A m \in Macs : left[m] + more(m) \in Nat
      BY DEF TypeOK
    <3>2. left' = left \/ left' = [m \in Macs |-> left[m] + more(m)]
      BY <1>3 DEF ListDevices
    <3>3. left \in [Macs -> Nat]
      BY DEF TypeOK
    <3> HIDE DEF more
    <3> QED
      BY <3>1, <3>2, <3>3
  <2>2. events' \in 0..MaxEvent
    BY <1>3, EventType DEF ListDevices
  <2>3. names' \in Nat /\ names' <= names /\ devs' \subseteq Macs
    BY <1>3 DEF TypeOK, ListDevices
  <2> QED
    BY <1>3, <2>1, <2>2, <2>3 DEF TypeOK, ListDevices, appVars, queueVars, dumpVars, envVars
<1>4. ASSUME NEW m \in Macs, AskFlow(m) PROVE TypeOK'
  <2>1. /\ reqs' \in Seq(Macs) /\ lost' \subseteq Macs /\ sig' \in BOOLEAN
        /\ Len(pids) + names + Len(reqs') + Len(rsps) <= MaxQueue
    <3>1. CASE tcpdump_pid = "cur" /\ Room
      <4>1. reqs' = Append(reqs, m) /\ lost' = lost /\ sig' = TRUE
        BY <1>4, <3>1 DEF AskFlow
      <4> QED
        BY <3>1, <4>1 DEF TypeOK, Room
    <3>2. CASE ~(tcpdump_pid = "cur" /\ Room)
      <4>1. reqs' = reqs /\ lost' = lost \cup {m} /\ (sig' = TRUE \/ sig' = sig)
        BY <1>4, <3>2 DEF AskFlow, Lose
      <4> QED
        BY <4>1 DEF TypeOK
    <3> QED
      BY <3>1, <3>2
  <2> QED
    BY <1>4, <2>1 DEF TypeOK, AskFlow, appVars, queueVars, dumpVars, envVars
<1>5. ASSUME Remember PROVE TypeOK'
  BY <1>5 DEF TypeOK, Remember, appVars, queueVars, dumpVars, envVars
<1>6. ASSUME ReadFlows PROVE TypeOK'
  <2>1. \A m \in Macs : Count(rsps, m) \in Nat
    BY CountType DEF TypeOK
  <2>2. told' \in [Macs -> Nat]
    <3>1. told \in [Macs -> Nat]
      BY DEF TypeOK
    <3>2. told' = [m \in Macs |-> told[m] + Count(rsps, m)] \/ told' = told
      BY <1>6 DEF ReadFlows
    <3>3. \A m \in Macs : told[m] + Count(rsps, m) \in Nat
      BY <2>1, <3>1
    <3> QED BY <3>1, <3>2, <3>3
  <2>3. {rsps[i] : i \in 1..Len(rsps)} \subseteq Macs
    BY DEF TypeOK
  <2>4. lost' \subseteq Macs
    BY <1>6, <2>3 DEF TypeOK, ReadFlows, Lose
  <2>5. events' \in 0..MaxEvent
    BY <1>6, EventType DEF ReadFlows
  <2>6. /\ pc' = "select" /\ rsps' = <<>> /\ rsps' \in Seq(Macs) /\ Len(rsps') = 0
        /\ tcpdump_pid' = tcpdump_pid /\ due' = due /\ macList' = macList
        /\ devs' = devs /\ pids' = pids /\ names' = names /\ reqs' = reqs
        /\ dump' = dump /\ sig' = sig /\ answer' = answer /\ flows' = flows
        /\ present' = present /\ open' = open /\ left' = left
    BY <1>6 DEF ReadFlows, dumpVars, envVars
  <2> QED
    BY <2>2, <2>4, <2>5, <2>6 DEF TypeOK
<1>7. ASSUME Announce PROVE TypeOK'
  BY <1>7 DEF TypeOK, Announce, Room, appVars, queueVars, dumpVars, envVars
<1>8. ASSUME NEW m \in Macs, Capture(m) PROVE TypeOK'
  <2>1. flows' \in Seq(Macs)
    <3>1. flows \in Seq(Macs) /\ <<m>> \o flows \in Seq(Macs)
      BY DEF TypeOK
    <3> QED BY <1>8, <3>1 DEF Capture
  <2>2. /\ dump' \in {"run", "block"}
        /\ names' = names \/ (Room /\ names' = names + 1)
    BY <1>8 DEF Capture
  <2>3. names' \in Nat /\ Len(pids) + names' + Len(reqs) + Len(rsps) <= MaxQueue
    <3>1. /\ Len(pids) \in Nat /\ names \in Nat /\ Len(reqs) \in Nat /\ Len(rsps) \in Nat
          /\ MaxQueue \in Nat
          /\ Len(pids) + names + Len(reqs) + Len(rsps) <= MaxQueue
      BY DEF TypeOK, TrackingAssumption
    <3> QED BY <2>2, <3>1 DEF Room
  <2>4. UNCHANGED <<pc, tcpdump_pid, due, macList, devs, pids, reqs, rsps, sig, answer,
                    present, open, left, told, lost, events>>
    BY <1>8 DEF Capture, appVars, envVars
  <2> QED
    BY <2>1, <2>2, <2>3, <2>4 DEF TypeOK
<1>9. ASSUME SendName PROVE TypeOK'
  BY <1>9 DEF TypeOK, SendName, Room, appVars, queueVars, dumpVars, envVars
<1>10. ASSUME Handle PROVE TypeOK'
  BY <1>10 DEF TypeOK, Handle, appVars, queueVars, dumpVars, envVars
<1>11. ASSUME ReadFlow PROVE TypeOK'
  <2> DEFINE m == Head(reqs)
  <2>1. m \in Macs /\ reqs' \in Seq(Macs) /\ Len(reqs') <= Len(reqs)
    BY <1>11 DEF TypeOK, ReadFlow
  <2>2. flows' \in Seq(Macs)
    BY <1>11, UnlinkedType DEF TypeOK, ReadFlow
  <2>3. lost' \subseteq Macs /\ answer' \in Macs \cup {NoMac}
    BY <1>11, <2>1 DEF TypeOK, ReadFlow, Lose
  <2>4. UNCHANGED <<appVars, pids, names, rsps, dump, sig, envVars, told, events>>
    BY <1>11 DEF ReadFlow
  <2> HIDE DEF m
  <2> QED
    BY <2>1, <2>2, <2>3, <2>4 DEF TypeOK, appVars, envVars
<1>12. ASSUME SendAnswer PROVE TypeOK'
  <2>1. answer \in Macs
    BY <1>12 DEF TypeOK, SendAnswer
  <2>2. /\ rsps' \in Seq(Macs) /\ lost' \subseteq Macs
        /\ Len(pids) + names + Len(reqs) + Len(rsps') <= MaxQueue
    <3>1. CASE Room
      <4>1. rsps' = Append(rsps, answer) /\ lost' = lost
        BY <1>12, <3>1 DEF SendAnswer
      <4> QED
        BY <2>1, <3>1, <4>1 DEF TypeOK, Room
    <3>2. CASE ~Room
      <4>1. rsps' = rsps /\ lost' = lost \cup {answer}
        BY <1>12, <3>2 DEF SendAnswer, Lose
      <4> QED
        BY <2>1, <4>1 DEF TypeOK
    <3> QED
      BY <3>1, <3>2
  <2> QED
    BY <1>12, <2>2 DEF TypeOK, SendAnswer, appVars, queueVars, dumpVars, envVars
<1>13. ASSUME HandlerReturns PROVE TypeOK'
  BY <1>13 DEF TypeOK, HandlerReturns, appVars, queueVars, dumpVars, envVars
<1>14. ASSUME NEW m \in Macs, Join(m) PROVE TypeOK'
  BY <1>14 DEF TypeOK, Join, Event, appVars, queueVars, dumpVars, envVars
<1>15. ASSUME NEW m \in Macs, Leave(m) PROVE TypeOK'
  BY <1>15 DEF TypeOK, Leave, Event, appVars, queueVars, dumpVars, envVars
<1>16. ASSUME TimerRuns PROVE TypeOK'
  BY <1>16 DEF TypeOK, TimerRuns, appVars, queueVars, dumpVars, envVars
<1>17. ASSUME WrongUptime PROVE TypeOK'
  BY <1>17 DEF TypeOK, WrongUptime, Event, appVars, queueVars, dumpVars, envVars
<1>18. ASSUME TcpdumpDies PROVE TypeOK'
  <2>1. Gone("off")
    BY <1>18 DEF TcpdumpDies
  <2> QED
    BY <1>18, <2>1, GoneType DEF TypeOK, TcpdumpDies, Event, Aged, appVars, queueVars, dumpVars, envVars
<1>19. ASSUME AppDies PROVE TypeOK'
  BY <1>19 DEF TypeOK, AppDies, Event, Lose, appVars, queueVars, dumpVars, envVars
<1>20. ASSUME Switch PROVE TypeOK'
  BY <1>20 DEF TypeOK, Switch, Event, appVars, queueVars, dumpVars, envVars
<1>21. CASE UNCHANGED vars
  BY <1>21 DEF TypeOK, vars, appVars, queueVars, dumpVars, envVars
<1> QED
  BY <1>1, <1>2, <1>3, <1>4, <1>5, <1>6, <1>7, <1>8, <1>9, <1>10, <1>11, <1>12, <1>13, <1>14, <1>15, <1>16, <1>17, <1>18, <1>19, <1>20, <1>21
  DEF Next, AppStep, HandlerStep




-----------------------------------------------------------------------------
(* A departure is counted once *)

(* What is on its way is a number.                                         *)
LEMMA OutstandingType ==
  ASSUME TypeOK, NEW m \in Macs
  PROVE  /\ Outstanding(m) \in Nat /\ left[m] \in Nat /\ told[m] \in Nat
         /\ Count(rsps, m) \in Nat /\ Count(reqs, m) \in Nat
<1>1. Count(rsps, m) \in Nat /\ Count(reqs, m) \in Nat
  BY CountType DEF TypeOK
<1>2. told[m] \in Nat /\ left[m] \in Nat
  BY DEF TypeOK
<1> QED
  BY <1>1, <1>2 DEF Outstanding

(* A step that leaves the questions and the answers alone.                 *)
LEMMA DebtFrame ==
  ASSUME TypeOK, TypeOK', DebtInv,
         rsps' = rsps, reqs' = reqs, told' = told,
         answer' = answer \/ answer' = NoMac,
         \A m \in Macs : /\ left[m] <= left'[m]
                         /\ ToBeAsked(m)' => ToBeAsked(m) \/ left[m] < left'[m]
  PROVE  DebtInv'
<1> SUFFICES ASSUME NEW m \in Macs
             PROVE  (Outstanding(m) + Debt(m) <= left[m])'
  BY DEF DebtInv
<1>1. Outstanding(m) + Debt(m) <= left[m]
  BY DEF DebtInv
<1>2. /\ Outstanding(m) \in Nat /\ left[m] \in Nat /\ told[m] \in Nat
      /\ Count(rsps, m) \in Nat /\ Count(reqs, m) \in Nat
  BY OutstandingType
<1>3. left'[m] \in Nat
  BY DEF TypeOK
<1>4. m # NoMac
  BY TrackingAssumption
<1>5. Outstanding(m)' <= Outstanding(m) /\ Outstanding(m)' \in Nat
  <2>1. Outstanding(m)' = told[m] + Count(rsps, m) + Count(reqs, m)
                            + (IF answer' = m THEN 1 ELSE 0)
    BY DEF Outstanding
  <2> QED
    BY <1>2, <1>4, <2>1 DEF Outstanding
<1>6. ToBeAsked(m)' => ToBeAsked(m) \/ left[m] < left'[m]
  OBVIOUS
<1>7. left[m] <= left'[m]
  OBVIOUS
<1>8. (Debt(m) = IF ToBeAsked(m) THEN 1 ELSE 0) /\ (Debt(m)' = IF ToBeAsked(m)' THEN 1 ELSE 0)
  BY DEF Debt
<1> QED
  BY <1>1, <1>2, <1>3, <1>5, <1>6, <1>7, <1>8

(* A device that was not listed this time is asked about, once.            *)
LEMMA DebtAskFlow ==
  ASSUME Inv, TypeOK', NEW d \in Macs, AskFlow(d)
  PROVE  DebtInv'
<1> SUFFICES ASSUME NEW m \in Macs
             PROVE  (Outstanding(m) + Debt(m) <= left[m])'
  BY DEF DebtInv
<1>1. Outstanding(m) + Debt(m) <= left[m]
  BY DEF DebtInv, Inv
<1>2. /\ Outstanding(m) \in Nat /\ left[m] \in Nat /\ told[m] \in Nat
      /\ Count(rsps, m) \in Nat /\ Count(reqs, m) \in Nat
  BY OutstandingType DEF Inv
<1>3. /\ pc = "ask" /\ pc' = pc /\ d \in macList \ devs /\ macList' = macList \ {d}
      /\ UNCHANGED <<devs, present, left, rsps, told, answer>>
      /\ reqs' = reqs \/ reqs' = Append(reqs, d)
  BY DEF AskFlow, envVars
<1>4. Count(reqs', m) <= Count(reqs, m) + (IF d = m THEN 1 ELSE 0)
  <2>1. reqs \in Seq(Macs)
    BY DEF Inv, TypeOK
  <2>2. CASE reqs' = reqs
    BY <1>2, <2>2
  <2>3. CASE reqs' = Append(reqs, d)
    BY <1>2, <2>1, <2>3, CountAppend
  <2> QED
    BY <1>3, <2>2, <2>3
<1>5. Count(reqs', m) \in Nat
  BY CountType DEF TypeOK
<1>6. Outstanding(m)' = told[m] + Count(rsps, m) + Count(reqs', m)
                          + (IF answer = m THEN 1 ELSE 0)
  BY <1>3 DEF Outstanding
<1>7. Debt(m)' + (IF d = m THEN 1 ELSE 0) <= Debt(m)
  BY <1>3 DEF Debt, ToBeAsked
<1>8. Debt(m) \in {0, 1} /\ Debt(m)' \in {0, 1} /\ left'[m] = left[m]
  BY <1>3 DEF Debt
<1>9. Outstanding(m) = told[m] + Count(rsps, m) + Count(reqs, m)
                          + (IF answer = m THEN 1 ELSE 0)
  BY DEF Outstanding
<1> QED
  BY <1>1, <1>2, <1>4, <1>5, <1>6, <1>7, <1>8, <1>9

(* The answers are taken out of the queue, and told or lost.               *)
LEMMA DebtReadFlows ==
  ASSUME Inv, ReadFlows
  PROVE  DebtInv'
<1> SUFFICES ASSUME NEW m \in Macs
             PROVE  (Outstanding(m) + Debt(m) <= left[m])'
  BY DEF DebtInv
<1>1. Outstanding(m) + Debt(m) <= left[m]
  BY DEF DebtInv, Inv
<1>2. /\ Outstanding(m) \in Nat /\ left[m] \in Nat /\ told[m] \in Nat
      /\ Count(rsps, m) \in Nat /\ Count(reqs, m) \in Nat
  BY OutstandingType DEF Inv
<1>3. /\ pc = "flow" /\ pc' = "select" /\ rsps' = <<>>
      /\ UNCHANGED <<devs, macList, present, left, reqs, answer>>
  BY DEF ReadFlows, envVars, dumpVars
<1>4. told'[m] \in Nat /\ told'[m] <= told[m] + Count(rsps, m)
  <2>1. \/ told' = [x \in Macs |-> told[x] + Count(rsps, x)]
        \/ told' = told
    BY DEF ReadFlows
  <2> QED
    BY <1>2, <2>1
<1>5. Outstanding(m)' = told'[m] + Count(reqs, m) + (IF answer = m THEN 1 ELSE 0)
  <2>1. Count(rsps', m) = 0
    BY <1>3, CountEmpty
  <2>2. Outstanding(m)' = told'[m] + Count(rsps', m) + Count(reqs, m)
                          + (IF answer = m THEN 1 ELSE 0)
    BY <1>3 DEF Outstanding
  <2> QED
    BY <1>2, <1>4, <2>1, <2>2
<1>6. Debt(m)' = Debt(m)
  BY <1>3 DEF Debt, ToBeAsked
<1>7. Debt(m) \in {0, 1} /\ left'[m] = left[m]
  BY <1>3 DEF Debt
<1>8. Outstanding(m) = told[m] + Count(rsps, m) + Count(reqs, m)
                          + (IF answer = m THEN 1 ELSE 0)
  BY DEF Outstanding
<1> QED
  BY <1>1, <1>2, <1>4, <1>5, <1>6, <1>7, <1>8

(* A question becomes at most one answer.                                  *)
LEMMA DebtReadFlow ==
  ASSUME Inv, ReadFlow
  PROVE  DebtInv'
<1> SUFFICES ASSUME NEW m \in Macs
             PROVE  (Outstanding(m) + Debt(m) <= left[m])'
  BY DEF DebtInv
<1>1. Outstanding(m) + Debt(m) <= left[m]
  BY DEF DebtInv, Inv
<1>2. /\ Outstanding(m) \in Nat /\ left[m] \in Nat /\ told[m] \in Nat
      /\ Count(rsps, m) \in Nat /\ Count(reqs, m) \in Nat
  BY OutstandingType DEF Inv
<1>3. UNCHANGED <<appVars, rsps, envVars, told>>
  BY DEF ReadFlow
<1>4. answer = NoMac /\ reqs # <<>> /\ reqs' = Tail(reqs)
  BY DEF ReadFlow
<1>5. answer' = NoMac \/ answer' = Head(reqs)
  BY DEF ReadFlow
<1>6. reqs \in Seq(Macs) /\ m # NoMac
  BY TrackingAssumption DEF Inv, TypeOK
<1>7. Count(reqs, m) = Count(Tail(reqs), m) + (IF Head(reqs) = m THEN 1 ELSE 0)
  BY <1>4, <1>6, CountTail
<1>8. Count(Tail(reqs), m) \in Nat
  <2>1. Tail(reqs) \in Seq(Macs)
    BY <1>4, <1>6
  <2> QED
    BY <2>1, CountType
<1>9. Outstanding(m)' = told[m] + Count(rsps, m) + Count(Tail(reqs), m)
                          + (IF answer' = m THEN 1 ELSE 0)
  BY <1>3, <1>4 DEF Outstanding
<1>10. Debt(m)' = Debt(m) /\ left'[m] = left[m]
  BY <1>3 DEF Debt, ToBeAsked, appVars, envVars
<1>11. Outstanding(m) = told[m] + Count(rsps, m) + Count(reqs, m)
  BY <1>2, <1>4, <1>6 DEF Outstanding
<1>12. Debt(m) \in {0, 1}
  BY DEF Debt
<1> QED
  BY <1>1, <1>2, <1>5, <1>6, <1>7, <1>8, <1>9, <1>10, <1>11, <1>12

(* An answer goes into the queue, or is lost.                              *)
LEMMA DebtSendAnswer ==
  ASSUME Inv, SendAnswer
  PROVE  DebtInv'
<1> SUFFICES ASSUME NEW m \in Macs
             PROVE  (Outstanding(m) + Debt(m) <= left[m])'
  BY DEF DebtInv
<1>1. Outstanding(m) + Debt(m) <= left[m]
  BY DEF DebtInv, Inv
<1>2. /\ Outstanding(m) \in Nat /\ left[m] \in Nat /\ told[m] \in Nat
      /\ Count(rsps, m) \in Nat /\ Count(reqs, m) \in Nat
  BY OutstandingType DEF Inv
<1>3. UNCHANGED <<appVars, reqs, envVars, told>> /\ answer' = NoMac
  BY DEF SendAnswer
<1>4. answer \in Macs /\ rsps \in Seq(Macs) /\ m # NoMac
  BY TrackingAssumption DEF SendAnswer, Inv, TypeOK
<1>5. rsps' = rsps \/ rsps' = Append(rsps, answer)
  BY DEF SendAnswer
<1>6. /\ Count(rsps', m) <= Count(rsps, m) + (IF answer = m THEN 1 ELSE 0)
      /\ Count(rsps', m) \in Nat
  <2>1. CASE rsps' = rsps
    BY <1>2, <2>1
  <2>2. CASE rsps' = Append(rsps, answer)
    BY <1>2, <1>4, <2>2, CountAppend
  <2> QED
    BY <1>5, <2>1, <2>2
<1>7. Outstanding(m)' = told[m] + Count(rsps', m) + Count(reqs, m)
  <2>1. Outstanding(m)' = told[m] + Count(rsps', m) + Count(reqs, m)
                            + (IF answer' = m THEN 1 ELSE 0)
    BY <1>3 DEF Outstanding
  <2> QED
    BY <1>2, <1>3, <1>4, <1>6, <2>1
<1>8. Debt(m)' = Debt(m) /\ left'[m] = left[m]
  BY <1>3 DEF Debt, ToBeAsked, appVars, envVars
<1>9. Debt(m) \in {0, 1}
  BY DEF Debt
<1> QED
  BY <1>1, <1>2, <1>6, <1>7, <1>8, <1>9 DEF Outstanding

(* Every step keeps the invariant.  Only ListDevices and Leave make a      *)
(* device one that will be asked about, and both count a departure.        *)
LEMMA InvStep == ASSUME Inv, [Next]_vars PROVE Inv'
<1> USE TrackingAssumption
<1>0. TypeOK /\ ListedInv /\ DebtInv /\ TypeOK'
  BY TypeStep DEF Inv
<1> DEFINE Kept == /\ rsps' = rsps /\ reqs' = reqs /\ told' = told
                   /\ answer' = answer \/ answer' = NoMac
           Owed(m) == /\ left[m] <= left'[m]
                      /\ ToBeAsked(m)' => ToBeAsked(m) \/ left[m] < left'[m]
<1>a. ASSUME Kept, \A m \in Macs : Owed(m) PROVE DebtInv'
  BY <1>0, <1>a, DebtFrame
<1>b. ASSUME Kept, left' = left, \A m \in Macs : ToBeAsked(m)' => ToBeAsked(m)
      PROVE  DebtInv'
  <2>1. \A m \in Macs : left[m] \in Nat
    BY <1>0 DEF TypeOK
  <2>2. ASSUME NEW m \in Macs PROVE Owed(m)
    <3>1. left[m] <= left'[m]
      BY <1>b, <2>1
    <3> QED
      BY <1>b, <3>1
  <2> QED
    BY <1>a, <1>b, <2>2
<1>1. ASSUME ReadPids PROVE ListedInv' /\ DebtInv'
  <2>1. ListedInv'
    BY <1>0, <1>1 DEF ListedInv, ReadPids, appVars, queueVars, dumpVars, envVars
  <2>2. Kept
    BY <1>1 DEF ReadPids, appVars, queueVars, dumpVars, envVars
  <2>3. left' = left /\ \A m \in Macs : ToBeAsked(m)' => ToBeAsked(m)
    BY <1>1 DEF ReadPids, ToBeAsked, appVars, envVars
  <2> QED
    BY <1>b, <2>1, <2>2, <2>3
<1>2. ASSUME CheckTcpdump PROVE ListedInv' /\ DebtInv'
  <2>1. ListedInv'
    BY <1>0, <1>2 DEF ListedInv, CheckTcpdump, appVars, queueVars, dumpVars, envVars
  <2>2. Kept
    BY <1>2 DEF CheckTcpdump, Gone, Lose, appVars, queueVars, dumpVars, envVars
  <2>3. left' = left /\ \A m \in Macs : ToBeAsked(m)' => ToBeAsked(m)
    BY <1>2 DEF CheckTcpdump, ToBeAsked, appVars, envVars
  <2> QED
    BY <1>b, <2>1, <2>2, <2>3
<1>3. ASSUME ListDevices PROVE ListedInv' /\ DebtInv'
  <2>1. ListedInv'
    BY <1>0, <1>3 DEF ListedInv, ListDevices, appVars, queueVars, dumpVars, envVars
  <2>2. Kept
    BY <1>3 DEF ListDevices, appVars, queueVars, dumpVars, envVars
  <2>3. ASSUME NEW m \in Macs PROVE Owed(m)
    <3>1. left[m] \in Nat
      BY <1>0 DEF TypeOK
    <3>2. UNCHANGED <<macList, present>> /\ pc' = "ask"
      BY <1>3 DEF ListDevices
    <3>3. CASE devs' = present \ Hidden /\ left' = left
      BY <1>0, <3>1, <3>2, <3>3 DEF ToBeAsked, ListedInv
    <3>4. CASE /\ devs' = {}
               /\ left' = [x \in Macs |->
                    left[x] + IF x \in macList \cap present THEN 1 ELSE 0]
      <4>1. left'[m] = left[m] + IF m \in macList \cap present THEN 1 ELSE 0
        BY <3>4
      <4> QED
        BY <3>1, <3>2, <3>4, <4>1 DEF ToBeAsked
    <3> QED
      BY <1>3, <3>3, <3>4 DEF ListDevices
  <2> QED
    BY <1>a, <2>1, <2>2, <2>3
<1>4. ASSUME NEW d \in Macs, AskFlow(d) PROVE ListedInv' /\ DebtInv'
  <2>1. ListedInv'
    BY <1>0, <1>4 DEF ListedInv, AskFlow, appVars, queueVars, dumpVars, envVars
  <2>2. DebtInv'
    BY <1>0, <1>4, DebtAskFlow DEF Inv
  <2> QED
    BY <2>1, <2>2
<1>5. ASSUME Remember PROVE ListedInv' /\ DebtInv'
  <2>1. ListedInv'
    BY <1>0, <1>5 DEF ListedInv, Remember, appVars, queueVars, dumpVars, envVars
  <2>2. Kept
    BY <1>5 DEF Remember, appVars, queueVars, dumpVars, envVars
  <2>3. left' = left /\ \A m \in Macs : ToBeAsked(m)' => ToBeAsked(m)
    BY <1>5 DEF Remember, ToBeAsked, appVars, envVars
  <2> QED
    BY <1>b, <2>1, <2>2, <2>3
<1>6. ASSUME ReadFlows PROVE ListedInv' /\ DebtInv'
  <2>1. ListedInv'
    BY <1>0, <1>6 DEF ListedInv, ReadFlows, appVars, queueVars, dumpVars, envVars
  <2>2. DebtInv'
    BY <1>0, <1>6, DebtReadFlows DEF Inv
  <2> QED
    BY <2>1, <2>2
<1>7. ASSUME Announce PROVE ListedInv' /\ DebtInv'
  <2>1. ListedInv'
    BY <1>0, <1>7 DEF ListedInv, Announce, appVars, queueVars, dumpVars, envVars
  <2>2. Kept
    BY <1>7 DEF Announce, appVars, queueVars, dumpVars, envVars
  <2>3. left' = left /\ \A m \in Macs : ToBeAsked(m)' => ToBeAsked(m)
    BY <1>7 DEF Announce, ToBeAsked, appVars, envVars
  <2> QED
    BY <1>b, <2>1, <2>2, <2>3
<1>8. ASSUME NEW d \in Macs, Capture(d) PROVE ListedInv' /\ DebtInv'
  <2>1. ListedInv'
    BY <1>0, <1>8 DEF ListedInv, Capture, appVars, queueVars, dumpVars, envVars
  <2>2. Kept
    BY <1>8 DEF Capture, appVars, queueVars, dumpVars, envVars
  <2>3. left' = left /\ \A m \in Macs : ToBeAsked(m)' => ToBeAsked(m)
    BY <1>8 DEF Capture, ToBeAsked, appVars, envVars
  <2> QED
    BY <1>b, <2>1, <2>2, <2>3
<1>9. ASSUME SendName PROVE ListedInv' /\ DebtInv'
  <2>1. ListedInv'
    BY <1>0, <1>9 DEF ListedInv, SendName, appVars, queueVars, dumpVars, envVars
  <2>2. Kept
    BY <1>9 DEF SendName, appVars, queueVars, dumpVars, envVars
  <2>3. left' = left /\ \A m \in Macs : ToBeAsked(m)' => ToBeAsked(m)
    BY <1>9 DEF SendName, ToBeAsked, appVars, envVars
  <2> QED
    BY <1>b, <2>1, <2>2, <2>3
<1>10. ASSUME Handle PROVE ListedInv' /\ DebtInv'
  <2>1. ListedInv'
    BY <1>0, <1>10 DEF ListedInv, Handle, appVars, queueVars, dumpVars, envVars
  <2>2. Kept
    BY <1>10 DEF Handle, appVars, queueVars, dumpVars, envVars
  <2>3. left' = left /\ \A m \in Macs : ToBeAsked(m)' => ToBeAsked(m)
    BY <1>10 DEF Handle, ToBeAsked, appVars, envVars
  <2> QED
    BY <1>b, <2>1, <2>2, <2>3
<1>11. ASSUME ReadFlow PROVE ListedInv' /\ DebtInv'
  <2>1. ListedInv'
    BY <1>0, <1>11 DEF ListedInv, ReadFlow, appVars, queueVars, dumpVars, envVars
  <2>2. DebtInv'
    BY <1>0, <1>11, DebtReadFlow DEF Inv
  <2> QED
    BY <2>1, <2>2
<1>12. ASSUME SendAnswer PROVE ListedInv' /\ DebtInv'
  <2>1. ListedInv'
    BY <1>0, <1>12 DEF ListedInv, SendAnswer, appVars, queueVars, dumpVars, envVars
  <2>2. DebtInv'
    BY <1>0, <1>12, DebtSendAnswer DEF Inv
  <2> QED
    BY <2>1, <2>2
<1>13. ASSUME HandlerReturns PROVE ListedInv' /\ DebtInv'
  <2>1. ListedInv'
    BY <1>0, <1>13 DEF ListedInv, HandlerReturns, appVars, queueVars, dumpVars, envVars
  <2>2. Kept
    BY <1>13 DEF HandlerReturns, appVars, queueVars, dumpVars, envVars
  <2>3. left' = left /\ \A m \in Macs : ToBeAsked(m)' => ToBeAsked(m)
    BY <1>13 DEF HandlerReturns, ToBeAsked, appVars, envVars
  <2> QED
    BY <1>b, <2>1, <2>2, <2>3
<1>14. ASSUME NEW d \in Macs, Join(d) PROVE ListedInv' /\ DebtInv'
  <2>1. ListedInv'
    BY <1>0, <1>14 DEF ListedInv, Join, appVars, queueVars, dumpVars, envVars
  <2>2. Kept
    BY <1>14 DEF Join, appVars, queueVars, dumpVars, envVars
  <2>3. left' = left /\ \A m \in Macs : ToBeAsked(m)' => ToBeAsked(m)
    BY <1>14 DEF Join, ToBeAsked, appVars, envVars
  <2> QED
    BY <1>b, <2>1, <2>2, <2>3
<1>15. ASSUME NEW d \in Macs, Leave(d) PROVE ListedInv' /\ DebtInv'
  <2>1. ListedInv'
    BY <1>0, <1>15 DEF ListedInv, Leave, appVars, queueVars, dumpVars, envVars
  <2>2. Kept
    BY <1>15 DEF Leave, appVars, queueVars, dumpVars, envVars
  <2>3. ASSUME NEW m \in Macs PROVE Owed(m)
    <3>1. left[m] \in Nat
      BY <1>0 DEF TypeOK
    <3>2. UNCHANGED <<macList, devs, pc>> /\ present' = present \ {d}
      BY <1>15 DEF Leave, appVars
    <3>3. left'[m] = IF m = d THEN left[m] + 1 ELSE left[m]
      BY <1>0, <1>15 DEF Leave, TypeOK
    <3> QED
      BY <3>1, <3>2, <3>3 DEF ToBeAsked
  <2> QED
    BY <1>a, <2>1, <2>2, <2>3
<1>16. ASSUME TimerRuns PROVE ListedInv' /\ DebtInv'
  <2>1. ListedInv'
    BY <1>0, <1>16 DEF ListedInv, TimerRuns, appVars, queueVars, dumpVars, envVars
  <2>2. Kept
    BY <1>16 DEF TimerRuns, appVars, queueVars, dumpVars, envVars
  <2>3. left' = left /\ \A m \in Macs : ToBeAsked(m)' => ToBeAsked(m)
    BY <1>16 DEF TimerRuns, ToBeAsked, appVars, envVars
  <2> QED
    BY <1>b, <2>1, <2>2, <2>3
<1>17. ASSUME WrongUptime PROVE ListedInv' /\ DebtInv'
  <2>1. ListedInv'
    BY <1>0, <1>17 DEF ListedInv, WrongUptime, appVars, queueVars, dumpVars, envVars
  <2>2. Kept
    BY <1>17 DEF WrongUptime, appVars, queueVars, dumpVars, envVars
  <2>3. left' = left /\ \A m \in Macs : ToBeAsked(m)' => ToBeAsked(m)
    BY <1>17 DEF WrongUptime, ToBeAsked, appVars, envVars
  <2> QED
    BY <1>b, <2>1, <2>2, <2>3
<1>18. ASSUME TcpdumpDies PROVE ListedInv' /\ DebtInv'
  <2>1. ListedInv'
    BY <1>0, <1>18 DEF ListedInv, TcpdumpDies, appVars, queueVars, dumpVars, envVars
  <2>2. Kept
    BY <1>18 DEF TcpdumpDies, Gone, appVars, queueVars, dumpVars, envVars
  <2>3. left' = left /\ \A m \in Macs : ToBeAsked(m)' => ToBeAsked(m)
    BY <1>18 DEF TcpdumpDies, ToBeAsked, appVars, envVars
  <2> QED
    BY <1>b, <2>1, <2>2, <2>3
<1>19. ASSUME AppDies PROVE ListedInv' /\ DebtInv'
  <2>1. ListedInv'
    BY <1>0, <1>19 DEF ListedInv, AppDies, appVars, queueVars, dumpVars, envVars
  <2>2. Kept
    BY <1>19 DEF AppDies, appVars, queueVars, dumpVars, envVars
  <2>3. left' = left /\ \A m \in Macs : ToBeAsked(m)' => ToBeAsked(m)
    BY <1>19 DEF AppDies, ToBeAsked, appVars, envVars
  <2> QED
    BY <1>b, <2>1, <2>2, <2>3
<1>20. ASSUME Switch PROVE ListedInv' /\ DebtInv'
  <2>1. ListedInv'
    BY <1>0, <1>20 DEF ListedInv, Switch, appVars, queueVars, dumpVars, envVars
  <2>2. Kept
    BY <1>20 DEF Switch, appVars, queueVars, dumpVars, envVars
  <2>3. left' = left /\ \A m \in Macs : ToBeAsked(m)' => ToBeAsked(m)
    BY <1>20 DEF Switch, ToBeAsked, appVars, envVars
  <2> QED
    BY <1>b, <2>1, <2>2, <2>3
<1>21. ASSUME UNCHANGED vars PROVE ListedInv' /\ DebtInv'
  <2>1. ListedInv' /\ Kept /\ left' = left
    BY <1>0, <1>21 DEF ListedInv, vars, appVars, queueVars, dumpVars, envVars
  <2>2. \A m \in Macs : ToBeAsked(m)' => ToBeAsked(m)
    BY <1>21 DEF ToBeAsked, vars, appVars, envVars
  <2> QED
    BY <1>b, <2>1, <2>2
<1> HIDE DEF Kept, Owed
<1>22. ListedInv' /\ DebtInv'
  BY <1>1, <1>2, <1>3, <1>4, <1>5, <1>6, <1>7, <1>8, <1>9, <1>10, <1>11, <1>12, <1>13, <1>14, <1>15, <1>16, <1>17, <1>18, <1>19, <1>20, <1>21
  DEF Next, AppStep, HandlerStep
<1> QED
  BY <1>0, <1>22 DEF Inv

-----------------------------------------------------------------------------
(* At the start nothing is owed and the queue is empty.                    *)
LEMMA InvInit == Init => Inv
<1> SUFFICES ASSUME Init PROVE Inv
  OBVIOUS
<1>1. TypeOK
  <2>1. <<>> \in Seq(Macs) /\ <<>> \in Seq({"cur", "old"}) /\ Len(<<>>) = 0
    OBVIOUS
  <2>2. left \in [Macs -> Nat] /\ told \in [Macs -> Nat]
    BY DEF Init
  <2>3. Len(pids) + names + Len(reqs) + Len(rsps) <= MaxQueue
    BY <2>1, TrackingAssumption DEF Init
  <2>4. /\ pids \in Seq({"cur", "old"}) /\ names \in Nat
        /\ reqs \in Seq(Macs) /\ rsps \in Seq(Macs) /\ flows \in Seq(Macs)
    BY <2>1 DEF Init
  <2>5. /\ macList \subseteq Macs /\ devs \subseteq Macs /\ present \subseteq Macs
        /\ lost \subseteq Macs /\ events \in 0..MaxEvent /\ answer \in Macs \cup {NoMac}
    BY TrackingAssumption DEF Init
  <2>6. /\ pc \in {"select", "check", "list", "ask", "flow"}
        /\ tcpdump_pid \in {"none", "cur", "old"}
        /\ dump \in {"off", "start", "run", "block", "handler"}
        /\ due \in BOOLEAN /\ sig \in BOOLEAN /\ open \in BOOLEAN
    BY DEF Init
  <2> QED
    BY <2>2, <2>3, <2>4, <2>5, <2>6 DEF TypeOK
<1>2. ListedInv
  BY DEF Init, ListedInv
<1>3. ASSUME NEW m \in Macs PROVE Outstanding(m) + Debt(m) <= left[m]
  <2>1. told[m] = 0 /\ left[m] = 0 /\ answer # m
    BY TrackingAssumption DEF Init
  <2>2. Count(rsps, m) = 0 /\ Count(reqs, m) = 0
    BY CountEmpty DEF Init
  <2>3. Debt(m) = 0
    BY DEF Init, Debt, ToBeAsked
  <2> QED
    BY <2>1, <2>2, <2>3 DEF Outstanding
<1> QED
  BY <1>1, <1>2, <1>3 DEF Inv, DebtInv

(* The inductive invariant holds in every reachable state.                 *)
THEOREM InvHolds == Spec => []Inv
<1> QED
  BY InvInit, InvStep, PTL DEF Spec

(* The message queue never holds more than it can, with herouteapp and     *)
(* tcpdump both sending to it, and every variable keeps its type.          *)
THEOREM TypeCorrect == Spec => []TypeOK
<1>1. Inv => TypeOK
  BY DEF Inv
<1> QED
  BY <1>1, InvHolds, PTL

(* For every set of devices, every size of the queue and any number of     *)
(* deaths, restarts and failures of the driver, the platform is not told   *)
(* more often that a device has left than it left or seemed to.            *)
THEOREM OncePerDepartureSafe == Spec => []OncePerDeparture
<1>1. Inv => OncePerDeparture
  <2> SUFFICES ASSUME Inv, NEW m \in Macs PROVE Outstanding(m) <= left[m]
    BY DEF OncePerDeparture
  <2>1. Outstanding(m) + Debt(m) <= left[m]
    BY DEF Inv, DebtInv
  <2>2. Debt(m) \in {0, 1}
    BY DEF Debt
  <2>3. Outstanding(m) \in Nat /\ left[m] \in Nat
    BY OutstandingType DEF Inv
  <2> QED
    BY <2>1, <2>2, <2>3
<1> QED
  BY <1>1, InvHolds, PTL

-----------------------------------------------------------------------------
(* The refinement *)

(* What is on the way, before and after a step.                            *)
LEMMA WayType ==
  ASSUME TypeOK, TypeOK', NEW m \in Macs
  PROVE  /\ Outstanding(m) - told[m] \in Nat
         /\ Outstanding(m) - told[m] =
              Count(rsps, m) + Count(reqs, m) + (IF answer = m THEN 1 ELSE 0)
         /\ Outstanding(m)' - told'[m] \in Nat
         /\ Outstanding(m)' - told'[m] =
              Count(rsps', m) + Count(reqs', m) + (IF answer' = m THEN 1 ELSE 0)
<1>1. told[m] \in Nat /\ told'[m] \in Nat
  BY DEF TypeOK
<1>2. Count(rsps, m) \in Nat /\ Count(reqs, m) \in Nat
  BY CountType DEF TypeOK
<1>3. Count(rsps', m) \in Nat /\ Count(reqs', m) \in Nat
  <2>1. rsps' \in Seq(Macs) /\ reqs' \in Seq(Macs)
    BY DEF TypeOK
  <2> QED
    BY <2>1, CountType
<1>4. Outstanding(m)' = told'[m] + Count(rsps', m) + Count(reqs', m)
                          + (IF answer' = m THEN 1 ELSE 0)
  BY DEF Outstanding
<1> QED
  BY <1>1, <1>2, <1>3, <1>4 DEF Outstanding

(* A step that puts nothing new on the way, tells nothing and notes what   *)
(* it takes off the way is a step Miss, or none.                           *)
LEMMA MissStep ==
  ASSUME TypeOK, TypeOK', left' = left, told' = told, lost \subseteq lost',
         \A m \in Macs :
           /\ Outstanding(m)' - told'[m] <= Outstanding(m) - told[m]
           /\ Outstanding(m)' - told'[m] < Outstanding(m) - told[m] => m \in lost'
  PROVE  Reports!Miss
  BY DEF Reports!Miss

(* The same for a step that moves no message.                              *)
LEMMA NoMessageStep ==
  ASSUME TypeOK, TypeOK', left' = left, told' = told, lost \subseteq lost',
         rsps' = rsps, reqs' = reqs,
         answer' = answer \/ (answer' = NoMac /\ {answer} \ {NoMac} \subseteq lost')
  PROVE  Reports!Miss
<1>1. ASSUME NEW m \in Macs
      PROVE  /\ Outstanding(m)' - told'[m] <= Outstanding(m) - told[m]
             /\ Outstanding(m)' - told'[m] < Outstanding(m) - told[m] => m \in lost'
  <2>1. /\ Outstanding(m) - told[m] =
             Count(rsps, m) + Count(reqs, m) + (IF answer = m THEN 1 ELSE 0)
        /\ Outstanding(m)' - told'[m] =
             Count(rsps, m) + Count(reqs, m) + (IF answer' = m THEN 1 ELSE 0)
    BY WayType
  <2>2. Count(rsps, m) \in Nat /\ Count(reqs, m) \in Nat
    BY CountType DEF TypeOK
  <2>3. m # NoMac
    BY TrackingAssumption
  <2> QED
    BY <2>1, <2>2, <2>3
<1> QED
  BY <1>1, MissStep

(* herouteapp asks about a device that owes a departure, or misses it.     *)
LEMMA AskRefines ==
  ASSUME Inv, TypeOK', NEW d \in Macs, AskFlow(d)
  PROVE  Reports!Next
<1> USE DEF Inv
<1>1. /\ left' = left /\ told' = told /\ rsps' = rsps /\ answer' = answer
      /\ pc = "ask" /\ d \in macList \ devs
  BY DEF AskFlow, envVars
<1>2. CASE reqs' = reqs /\ lost' = lost \cup {d}
  <2>1. Reports!Miss
    BY <1>1, <1>2, NoMessageStep
  <2> QED
    BY <2>1 DEF Reports!Next
<1>3. CASE reqs' = Append(reqs, d) /\ lost' = lost
  <2>1. reqs \in Seq(Macs) /\ told[d] \in Nat /\ left[d] \in Nat
    BY DEF TypeOK
  <2>2. ASSUME NEW m \in Macs
        PROVE  Outstanding(m)' - told'[m]
                 = (Outstanding(m) - told[m]) + (IF m = d THEN 1 ELSE 0)
    <3>1. /\ Outstanding(m) - told[m] =
               Count(rsps, m) + Count(reqs, m) + (IF answer = m THEN 1 ELSE 0)
          /\ Outstanding(m)' - told'[m] =
               Count(rsps', m) + Count(reqs', m) + (IF answer' = m THEN 1 ELSE 0)
      BY WayType
    <3>2. Count(rsps, m) \in Nat /\ Count(reqs, m) \in Nat
      BY CountType DEF TypeOK
    <3>3. Count(reqs', m) = Count(reqs, m) + (IF d = m THEN 1 ELSE 0)
      BY <1>3, <2>1, CountAppend
    <3> QED
      BY <1>1, <3>1, <3>2, <3>3
  <2>3. told[d] + (Outstanding(d) - told[d]) < left[d]
    <3>1. Outstanding(d) + Debt(d) <= left[d]
      BY DEF DebtInv
    <3>2. Debt(d) = 1
      BY <1>1 DEF Debt, ToBeAsked
    <3>3. Outstanding(d) \in Nat
      BY OutstandingType
    <3> QED
      BY <2>1, <3>1, <3>2, <3>3
  <2> DEFINE W == [m \in Macs |-> Outstanding(m) - told[m]]
             V == [m \in Macs |-> Outstanding(m)' - told'[m]]
  <2>4. V = [W EXCEPT ![d] = @ + 1]
    <3>1. ASSUME NEW m \in Macs
          PROVE  V[m] = [W EXCEPT ![d] = @ + 1][m]
      <4>1. W[m] \in Nat
        BY WayType
      <4>2. V[m] = W[m] + (IF m = d THEN 1 ELSE 0)
        BY <2>2
      <4> HIDE DEF W, V
      <4>3. W = [x \in Macs |-> W[x]]
        BY DEF W
      <4> QED
        BY <4>1, <4>2, <4>3
    <3> HIDE DEF W, V
    <3>2. V = [x \in Macs |-> V[x]] /\ W = [x \in Macs |-> W[x]]
      BY DEF V, W
    <3> QED
      BY <3>1, <3>2
  <2>5. told[d] + W[d] < left[d]
    BY <2>3
  <2>6. Reports!Ask(d)
    BY <1>1, <1>3, <2>4, <2>5 DEF Reports!Ask
  <2> QED
    BY <2>6 DEF Reports!Next
<1> QED
  BY <1>2, <1>3 DEF AskFlow, Lose

(* A message to the platform tells what the answers in the queue say; if   *)
(* it is not sent, they are missed.                                        *)
LEMMA ReadFlowsRefines ==
  ASSUME Inv, TypeOK', ReadFlows
  PROVE  Reports!Next
<1> USE DEF Inv
<1>1. left' = left /\ reqs' = reqs /\ answer' = answer /\ rsps' = <<>>
  BY DEF ReadFlows, dumpVars, envVars
<1>2. ASSUME NEW m \in Macs
      PROVE  /\ Count(rsps, m) \in Nat /\ told[m] \in Nat
             /\ Outstanding(m) - told[m] \in Nat
             /\ Outstanding(m)' - told'[m] \in Nat
             /\ Outstanding(m) - told[m] =
                  (Outstanding(m)' - told'[m]) + Count(rsps, m)
  <2>1. /\ Outstanding(m) - told[m] =
             Count(rsps, m) + Count(reqs, m) + (IF answer = m THEN 1 ELSE 0)
        /\ Outstanding(m)' - told'[m] =
             Count(rsps', m) + Count(reqs', m) + (IF answer' = m THEN 1 ELSE 0)
    BY WayType
  <2>2. Count(rsps, m) \in Nat /\ Count(reqs, m) \in Nat /\ told[m] \in Nat
    BY CountType DEF TypeOK
  <2>3. Count(rsps', m) = 0
    BY <1>1, CountEmpty
  <2> DEFINE w == Outstanding(m) - told[m]
             v == Outstanding(m)' - told'[m]
  <2>4. w \in Nat /\ v \in Nat
    BY WayType
  <2>5. /\ w = Count(rsps, m) + Count(reqs, m) + (IF answer = m THEN 1 ELSE 0)
        /\ v = 0 + Count(reqs, m) + (IF answer = m THEN 1 ELSE 0)
    BY <1>1, <2>1, <2>3
  <2> HIDE DEF w, v
  <2>6. w = v + Count(rsps, m)
    BY <2>2, <2>5
  <2> QED
    BY <2>2, <2>4, <2>6 DEF w, v
<1>3. CASE told' = [m \in Macs |-> told[m] + Count(rsps, m)] /\ lost' = lost
  <2>1. told' \in [Macs -> Nat]
    BY DEF TypeOK
  <2>2. ASSUME NEW m \in Macs
        PROVE  /\ told[m] <= told'[m]
               /\ told'[m] + (Outstanding(m)' - told'[m])
                    = told[m] + (Outstanding(m) - told[m])
    <3>1. told'[m] = told[m] + Count(rsps, m)
      BY <1>3
    <3> DEFINE w == Outstanding(m) - told[m]
               v == Outstanding(m)' - told'[m]
    <3>2. /\ Count(rsps, m) \in Nat /\ told[m] \in Nat /\ w \in Nat /\ v \in Nat
          /\ w = v + Count(rsps, m)
      BY <1>2
    <3> HIDE DEF w, v
    <3>3. told[m] <= told'[m] /\ told'[m] + v = told[m] + w
      BY <3>1, <3>2
    <3> QED
      BY <3>3 DEF w, v
  <2>3. Reports!Tell
    BY <1>1, <1>3, <2>1, <2>2 DEF Reports!Tell
  <2> QED
    BY <2>3 DEF Reports!Next
<1>4. CASE told' = told /\ Lose({rsps[i] : i \in 1..Len(rsps)})
  <2>1. ASSUME NEW m \in Macs
        PROVE  /\ Outstanding(m)' - told'[m] <= Outstanding(m) - told[m]
               /\ Outstanding(m)' - told'[m] < Outstanding(m) - told[m] => m \in lost'
    <3>1. Count(rsps, m) # 0 => m \in lost'
      <4> SUFFICES ASSUME m \notin lost' PROVE Count(rsps, m) = 0
        OBVIOUS
      <4>1. {i \in 1..Len(rsps) : rsps[i] = m} = {}
        BY <1>4 DEF Lose
      <4> QED
        BY <4>1, FS_EmptySet DEF Count
    <3> DEFINE w == Outstanding(m) - told[m]
               v == Outstanding(m)' - told'[m]
    <3>2. Count(rsps, m) \in Nat /\ w \in Nat /\ v \in Nat /\ w = v + Count(rsps, m)
      BY <1>2
    <3> HIDE DEF w, v
    <3>3. v <= w /\ (v < w => m \in lost')
      BY <3>1, <3>2
    <3> QED
      BY <3>3 DEF w, v
  <2>2. lost \subseteq lost'
    BY <1>4 DEF Lose
  <2>3. Reports!Miss
    BY <1>1, <1>4, <2>1, <2>2, MissStep
  <2> QED
    BY <2>3 DEF Reports!Next
<1> QED
  BY <1>3, <1>4 DEF ReadFlows

(* tcpdump takes a question, and has the answer or notes that there is     *)
(* none.                                                                   *)
LEMMA ReadFlowRefines ==
  ASSUME Inv, TypeOK', ReadFlow
  PROVE  Reports!Miss
<1> USE DEF Inv
<1>1. /\ left' = left /\ told' = told /\ rsps' = rsps
      /\ answer = NoMac /\ reqs # <<>> /\ reqs' = Tail(reqs)
  BY DEF ReadFlow, envVars
<1>2. \/ answer' = answer /\ lost' = lost \cup {Head(reqs)}
      \/ answer' = Head(reqs) /\ lost' = lost
  BY DEF ReadFlow, Lose
<1>3. ASSUME NEW m \in Macs
      PROVE  /\ Outstanding(m)' - told'[m] <= Outstanding(m) - told[m]
             /\ Outstanding(m)' - told'[m] < Outstanding(m) - told[m] => m \in lost'
  <2>1. /\ Outstanding(m) - told[m] =
             Count(rsps, m) + Count(reqs, m) + (IF answer = m THEN 1 ELSE 0)
        /\ Outstanding(m)' - told'[m] =
             Count(rsps', m) + Count(reqs', m) + (IF answer' = m THEN 1 ELSE 0)
    BY WayType
  <2>2. Count(rsps, m) \in Nat /\ reqs \in Seq(Macs)
    BY CountType DEF TypeOK
  <2>3. Count(reqs, m) = Count(reqs', m) + (IF Head(reqs) = m THEN 1 ELSE 0)
    BY <1>1, <2>2, CountTail
  <2>4. Count(reqs', m) \in Nat
    BY CountType DEF TypeOK
  <2>5. m # NoMac
    BY TrackingAssumption
  <2> DEFINE w == Outstanding(m) - told[m]
             v == Outstanding(m)' - told'[m]
             h == Head(reqs)
  <2>6. w = Count(rsps, m) + Count(reqs', m) + (IF h = m THEN 1 ELSE 0)
    BY <1>1, <2>1, <2>2, <2>3, <2>4, <2>5
  <2>7. v = Count(rsps, m) + Count(reqs', m) + (IF answer' = m THEN 1 ELSE 0)
    BY <1>1, <2>1
  <2>8. (answer' = NoMac /\ h \in lost') \/ answer' = h
    BY <1>1, <1>2
  <2> HIDE DEF w, v, h
  <2>9. v <= w /\ (v < w => m \in lost')
    BY <2>2, <2>4, <2>5, <2>6, <2>7, <2>8
  <2> QED
    BY <2>9 DEF w, v
<1>4. lost \subseteq lost'
  BY <1>2
<1> QED
  BY <1>1, <1>3, <1>4, MissStep

(* The answer goes into the queue, or the queue is full and it is missed.  *)
LEMMA SendAnswerRefines ==
  ASSUME Inv, TypeOK', SendAnswer
  PROVE  Reports!Miss
<1> USE DEF Inv
<1>1. /\ left' = left /\ told' = told /\ reqs' = reqs
      /\ answer # NoMac /\ answer' = NoMac
  BY DEF SendAnswer, envVars
<1>2. \/ rsps' = Append(rsps, answer) /\ lost' = lost
      \/ rsps' = rsps /\ lost' = lost \cup {answer}
  BY DEF SendAnswer, Lose
<1>3. ASSUME NEW m \in Macs
      PROVE  /\ Outstanding(m)' - told'[m] <= Outstanding(m) - told[m]
             /\ Outstanding(m)' - told'[m] < Outstanding(m) - told[m] => m \in lost'
  <2>1. /\ Outstanding(m) - told[m] =
             Count(rsps, m) + Count(reqs, m) + (IF answer = m THEN 1 ELSE 0)
        /\ Outstanding(m)' - told'[m] =
             Count(rsps', m) + Count(reqs', m) + (IF answer' = m THEN 1 ELSE 0)
    BY WayType
  <2>2. Count(rsps, m) \in Nat /\ Count(reqs, m) \in Nat
    BY CountType DEF TypeOK
  <2>3. m # NoMac /\ answer \in Macs /\ rsps \in Seq(Macs)
    BY <1>1, TrackingAssumption DEF TypeOK
  <2>4. \/ Count(rsps', m) = Count(rsps, m) + (IF answer = m THEN 1 ELSE 0)
        \/ rsps' = rsps /\ answer \in lost'
    <3>1. Count(Append(rsps, answer), m) = Count(rsps, m) + (IF answer = m THEN 1 ELSE 0)
      BY <2>3, CountAppend
    <3> QED
      BY <1>2, <3>1
  <2> DEFINE w == Outstanding(m) - told[m]
             v == Outstanding(m)' - told'[m]
  <2>5. v = Count(rsps', m) + Count(reqs, m)
    BY <1>1, <2>1, <2>2, <2>3, <2>4
  <2>6. w = Count(rsps, m) + Count(reqs, m) + (IF answer = m THEN 1 ELSE 0)
    BY <2>1
  <2> HIDE DEF w, v
  <2>7. v <= w /\ (v < w => m \in lost')
    BY <2>2, <2>4, <2>5, <2>6
  <2> QED
    BY <2>7 DEF w, v
<1>4. lost \subseteq lost'
  BY <1>2
<1> QED
  BY <1>1, <1>3, <1>4, MissStep

(* A device leaves, or all seem to.                                        *)
LEMMA DepartRefines ==
  ASSUME Inv, TypeOK', NEW ms \in SUBSET Macs,
         left' = [m \in Macs |-> left[m] + IF m \in ms THEN 1 ELSE 0],
         UNCHANGED <<rsps, reqs, answer, told, lost>>
  PROVE  Reports!Next
<1>1. [m \in Macs |-> Outstanding(m)' - told'[m]] = [m \in Macs |-> Outstanding(m) - told[m]]
  BY DEF Outstanding
<1>2. Reports!Depart(ms)
  BY <1>1 DEF Reports!Depart
<1> QED
  BY <1>2 DEF Reports!Next

(* Every step of the detailed specification is one of the abstract one, or *)
(* changes nothing that it speaks of.                                      *)
LEMMA StepRefines == ASSUME Inv, [Next]_vars PROVE Reports!Next
<1>0. TypeOK /\ TypeOK'
  BY TypeStep DEF Inv
<1> DEFINE Quiet == /\ left' = left /\ told' = told /\ rsps' = rsps /\ reqs' = reqs
                    /\ lost \subseteq lost'
                    /\ \/ answer' = answer
                       \/ answer' = NoMac /\ {answer} \ {NoMac} \subseteq lost'
<1>a. ASSUME Quiet PROVE Reports!Next
  <2>1. Reports!Miss
    BY <1>0, <1>a, NoMessageStep
  <2> QED
    BY <2>1 DEF Reports!Next
<1>1. ASSUME ReadPids \/ Remember \/ TimerRuns \/ WrongUptime \/ Switch PROVE Quiet
  BY <1>1 DEF ReadPids, Remember, TimerRuns, WrongUptime, Switch,
              queueVars, dumpVars, envVars
<1>2. ASSUME Announce \/ SendName \/ Handle \/ HandlerReturns PROVE Quiet
  BY <1>2 DEF Announce, SendName, Handle, HandlerReturns, queueVars, envVars
<1>3. ASSUME CheckTcpdump PROVE Quiet
  BY <1>3 DEF CheckTcpdump, Gone, Lose, dumpVars, envVars
<1>4. ASSUME TcpdumpDies PROVE Quiet
  BY <1>4 DEF TcpdumpDies, Gone, Lose, envVars
<1>5. ASSUME AppDies PROVE Quiet
  BY <1>5 DEF AppDies, Lose, queueVars, dumpVars, envVars
<1>6. ASSUME NEW d \in Macs, Capture(d) \/ Join(d) PROVE Quiet
  BY <1>6 DEF Capture, Join, queueVars, dumpVars, envVars
<1>7. ASSUME ListDevices PROVE Reports!Next
  <2>1. UNCHANGED <<rsps, reqs, answer, told, lost>>
    BY <1>7 DEF ListDevices, dumpVars
  <2>2. CASE left' = left
    <3>1. Quiet
      BY <2>1, <2>2
    <3> QED
      BY <1>a, <3>1
  <2>3. CASE left' = [m \in Macs |->
                        left[m] + IF m \in macList \cap present THEN 1 ELSE 0]
    <3>1. macList \cap present \in SUBSET Macs
      BY <1>0 DEF TypeOK
    <3> QED
      BY <1>0, <2>1, <2>3, <3>1, DepartRefines
  <2> QED
    BY <1>7, <2>2, <2>3 DEF ListDevices
<1>8. ASSUME NEW d \in Macs, Leave(d) PROVE Reports!Next
  <2>1. UNCHANGED <<rsps, reqs, answer, told, lost>>
    BY <1>8 DEF Leave, queueVars, dumpVars
  <2>2. left' = [m \in Macs |-> left[m] + IF m \in {d} THEN 1 ELSE 0]
    <3>1. left \in [Macs -> Nat] /\ left' = [left EXCEPT ![d] = @ + 1]
      BY <1>0, <1>8 DEF TypeOK, Leave
    <3>2. left' = [m \in Macs |-> left'[m]]
      BY <3>1
    <3>3. ASSUME NEW m \in Macs
          PROVE  left'[m] = left[m] + IF m \in {d} THEN 1 ELSE 0
      <4>1. left[m] \in Nat /\ left'[m] = IF m = d THEN left[m] + 1 ELSE left[m]
        BY <3>1
      <4> QED
        BY <4>1
    <3> QED
      BY <3>2, <3>3
  <2> QED
    BY <1>0, <2>1, <2>2, DepartRefines
<1>9. ASSUME NEW d \in Macs, AskFlow(d) PROVE Reports!Next
  BY <1>0, <1>9, AskRefines
<1>10. ASSUME ReadFlows PROVE Reports!Next
  BY <1>0, <1>10, ReadFlowsRefines
<1>11. ASSUME ReadFlow \/ SendAnswer PROVE Reports!Next
  <2>1. Reports!Miss
    BY <1>0, <1>11, ReadFlowRefines, SendAnswerRefines
  <2> QED
    BY <2>1 DEF Reports!Next
<1>12. ASSUME UNCHANGED vars PROVE Quiet
  BY <1>12 DEF vars, queueVars, dumpVars, envVars
<1> HIDE DEF Quiet
<1> QED
  BY <1>a, <1>1, <1>2, <1>3, <1>4, <1>5, <1>6, <1>7, <1>8, <1>9, <1>10, <1>11, <1>12
  DEF Next, AppStep, HandlerStep

(* For every set of devices, every size of the queue and any number of     *)
(* deaths and failures, the tracking of devices implements Departures: no  *)
(* report that does not come from a question, no question without a        *)
(* departure of its own, and no question without a report that is not      *)
(* noted in lost.                                                          *)
THEOREM TrackingImplementsDepartures == Spec => ImplementsDepartures
<1> DEFINE way == [m \in Macs |-> Outstanding(m) - told[m]]
<1>1. Init => Reports!Init
  <2> SUFFICES ASSUME Init PROVE Reports!Init
    OBVIOUS
  <2>1. ASSUME NEW m \in Macs PROVE Outstanding(m) - told[m] = 0
    <3>1. told[m] = 0 /\ answer # m
      BY TrackingAssumption DEF Init
    <3>2. Count(rsps, m) = 0 /\ Count(reqs, m) = 0
      BY CountEmpty DEF Init
    <3> QED
      BY <3>1, <3>2 DEF Outstanding
  <2>2. way = [m \in Macs |-> 0]
    BY <2>1
  <2> QED
    BY <2>2 DEF Init, Reports!Init, Reports!None
<1>2. Inv /\ [Next]_vars => [Reports!Next]_<<left, way, told, lost>>
  BY StepRefines
<1> QED
  BY <1>1, <1>2, InvHolds, PTL DEF Spec, ImplementsDepartures, Reports!Spec
=============================================================================
