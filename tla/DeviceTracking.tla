--------------------------- MODULE DeviceTracking ----------------------------
(***************************************************************************)
(* How herouteapp learns from tcpdump what the devices on the LAN do, and  *)
(* reports to the platform how long a device that has left was connected:  *)
(* the last part of Msg_Process_Internel (hert_app.c), and what has been   *)
(* added to tcpdump (tcpdump.c, print-ip.c, print-tcp.c).                  *)
(*                                                                         *)
(* The two talk through one System V queue with messages of four types:    *)
(* "P" tcpdump's pid, "F" a domain name some device has visited, "R" the   *)
(* question about a device that has left, "A" the answer.  SIGUSR2 makes   *)
(* tcpdump look for questions.                                             *)
(***************************************************************************)
EXTENDS Integers, Sequences, FiniteSets

CONSTANTS
  Macs,      \* the devices
  Hidden,    \* those the list of clients does not show: they use a wire
  NoMac,     \* no device
  MaxQueue,  \* messages the queue holds
  MaxEvent   \* bound on the events of the environment

ASSUME TrackingAssumption ==
  /\ IsFiniteSet(Macs) /\ Hidden \subseteq Macs /\ NoMac \notin Macs
  /\ MaxQueue \in Nat \ {0} /\ MaxEvent \in Nat

VARIABLES
  pc,          \* the next step of herouteapp, "select" between two rounds
  tcpdump_pid, \* "cur" that of the running tcpdump, "old", or "none"
  due,         \* 30 s have passed since tcpdump was started (now_sec)
  macList,     \* devices of the last round that were not asked about yet
  devs,        \* pdevindex: the devices of this round
  pids,        \* the queue: messages of type P
  names,       \* the number of those of type F
  reqs,        \* those of type R
  rsps,        \* those of type A
  dump,        \* tcpdump: its state
  sig,         \* SIGUSR2 is pending
  answer,      \* the answer tcpdump is about to send
  flows,       \* flow_head: the devices tcpdump has seen, the latest first
  present,     \* the devices on the LAN
  open,        \* TcpdumpSwitch is OPEN
  left,        \* how often a device has left, or seemed to
  told,        \* how often the platform was told so
  lost,        \* the devices a departure of which was lost on the way
  events       \* events so far

appVars == <<pc, tcpdump_pid, due, macList, devs>>
queueVars == <<pids, names, reqs, rsps>>
dumpVars == <<dump, sig, answer, flows>>
envVars == <<present, open, left>>
vars == <<appVars, queueVars, dumpVars, envVars, told, lost, events>>

(* Every variable of the model has its type, and the queue its limit.      *)
TypeOK ==
  /\ pc \in {"select", "check", "list", "ask", "flow"}
  /\ tcpdump_pid \in {"none", "cur", "old"}
  /\ dump \in {"off", "start", "run", "block", "handler"}
  /\ due \in BOOLEAN /\ sig \in BOOLEAN /\ open \in BOOLEAN
  /\ macList \subseteq Macs /\ devs \subseteq Macs /\ present \subseteq Macs
  /\ pids \in Seq({"cur", "old"}) /\ names \in Nat
  /\ reqs \in Seq(Macs) /\ rsps \in Seq(Macs) /\ flows \in Seq(Macs)
  /\ Len(pids) + names + Len(reqs) + Len(rsps) <= MaxQueue
  /\ answer \in Macs \cup {NoMac}
  /\ left \in [Macs -> Nat] /\ told \in [Macs -> Nat]
  /\ lost \subseteq Macs /\ events \in 0..MaxEvent

Init ==
  /\ pc = "select" /\ tcpdump_pid = "none" /\ due = TRUE
  /\ macList = {} /\ devs = {}
  /\ pids = <<>> /\ names = 0 /\ reqs = <<>> /\ rsps = <<>>
  /\ dump = "off" /\ sig = FALSE /\ answer = NoMac /\ flows = <<>>
  /\ present \in SUBSET Macs /\ open = TRUE
  /\ left = [m \in Macs |-> 0] /\ told = [m \in Macs |-> 0]
  /\ lost = {} /\ events = 0

Event == events < MaxEvent /\ events' = events + 1
Room == Len(pids) + names + Len(reqs) + Len(rsps) < MaxQueue
Seen == {flows[i] : i \in 1..Len(flows)}
(* How many messages of the queue q are about m.                           *)
Count(q, m) == Cardinality({i \in 1..Len(q) : q[i] = m})
(* The pid of a tcpdump that is no more.                                   *)
Aged(pid) == IF pid = "cur" THEN "old" ELSE pid
(* Of the devices ms the platform will not be told.                        *)
Lose(ms) == lost' = lost \cup ms
(* The answer it was about to send goes with it.                           *)
Gone(next) ==
  /\ dump' = next /\ sig' = FALSE /\ answer' = NoMac /\ flows' = <<>>
  /\ pids' = [i \in 1..Len(pids) |-> "old"] /\ Lose({answer} \ {NoMac})

-----------------------------------------------------------------------------
(* A round of herouteapp *)

(* hertUtil_TcpdumpFlag(); every P in the queue is taken, the last counts. *)
ReadPids ==
  /\ pc = "select" /\ open /\ pc' = "check"
  /\ tcpdump_pid' = IF pids = <<>> THEN tcpdump_pid ELSE pids[Len(pids)]
  /\ pids' = <<>>
  /\ UNCHANGED <<due, macList, devs, names, reqs, rsps, dumpVars, envVars,
                 told, lost, events>>

(* A plausible slip: killall comes after the start.                        *)
CheckTcpdumpKills ==
  /\ pc = "check" /\ pc' = "list"
  /\ \/ /\ tcpdump_pid = "cur" /\ sig' = TRUE
        /\ UNCHANGED <<tcpdump_pid, due, pids, dump, answer, flows, lost>>
     \/ /\ tcpdump_pid # "cur" /\ tcpdump_pid' = "none"
        /\ IF due THEN due' = FALSE /\ Gone("off")
                  ELSE UNCHANGED <<due, pids, dumpVars, lost>>
  /\ UNCHANGED <<macList, devs, names, reqs, rsps, envVars, told, events>>

(* hertUtil_isTcpdumpOn(): /proc has no entry for a pid that is old.  Then *)
(* killall tcpdump and a new one, at most every 30 s; else SIGUSR2.        *)
CheckTcpdump ==
  /\ pc = "check" /\ pc' = "list"
  /\ \/ /\ tcpdump_pid = "cur" /\ sig' = TRUE
        /\ UNCHANGED <<tcpdump_pid, due, pids, dump, answer, flows, lost>>
     \/ /\ tcpdump_pid # "cur" /\ tcpdump_pid' = "none"
        /\ IF due THEN due' = FALSE /\ Gone("start")
                  ELSE UNCHANGED <<due, pids, dumpVars, lost>>
  /\ UNCHANGED <<macList, devs, names, reqs, rsps, envVars, told, events>>

(* hertUtil_GetDeviceList(): the wireless clients, none when the driver    *)
(* does not answer, which nobody notices.  Names are read, and sent, only  *)
(* if there is a device.                                                   *)
ListDevices ==
  /\ pc = "list" /\ pc' = "ask"
  /\ \/ devs' = present \ Hidden /\ UNCHANGED <<left, events>>
     \/ /\ Event /\ devs' = {}
        /\ left' = [m \in Macs |->
                      left[m] + IF m \in macList \cap present THEN 1 ELSE 0]
  /\ names' = IF devs' = {} THEN names ELSE 0
  /\ UNCHANGED <<tcpdump_pid, due, macList, pids, reqs, rsps, dumpVars,
                 present, open, told, lost>>

(* A plausible slip: tcpdump is asked about every device of the last round.*)
AskFlowUnchecked(m) ==
  /\ pc = "ask" /\ m \in macList /\ macList' = macList \ {m}
  /\ tcpdump_pid = "cur" /\ sig' = TRUE
  /\ IF Room THEN reqs' = Append(reqs, m) /\ UNCHANGED lost
             ELSE Lose({m}) /\ UNCHANGED reqs
  /\ UNCHANGED <<pc, tcpdump_pid, due, devs, pids, names, rsps, dump, answer,
                 flows, envVars, told, events>>

(* A device of the last round is not in this one: tcpdump is asked, if it  *)
(* is there; a full queue (IPC_NOWAIT) takes no question.                  *)
AskFlow(m) ==
  /\ pc = "ask" /\ m \in macList \ devs /\ macList' = macList \ {m}
  /\ \/ /\ tcpdump_pid = "cur" /\ sig' = TRUE /\ UNCHANGED tcpdump_pid
        /\ IF Room THEN reqs' = Append(reqs, m) /\ UNCHANGED lost
                   ELSE Lose({m}) /\ UNCHANGED reqs
     \/ /\ tcpdump_pid # "cur" /\ tcpdump_pid' = "none"
        /\ Lose({m}) /\ UNCHANGED <<sig, reqs>>
  /\ UNCHANGED <<pc, due, devs, pids, names, rsps, dump, answer, flows,
                 envVars, told, events>>

(* A plausible slip: the loop over the last round ends early.              *)
RememberEarly ==
  /\ pc = "ask"
  /\ pc' = "flow" /\ macList' = devs /\ devs' = {}
  /\ UNCHANGED <<tcpdump_pid, due, queueVars, dumpVars, envVars, told, lost,
                 events>>

(* The devices of this round are remembered for the next.                  *)
Remember ==
  /\ pc = "ask" /\ macList \subseteq devs
  /\ pc' = "flow" /\ macList' = devs /\ devs' = {}
  /\ UNCHANGED <<tcpdump_pid, due, queueVars, dumpVars, envVars, told, lost,
                 events>>

(* Every A in the queue is taken, and the platform told: a message that    *)
(* cannot be built or sent is lost.                                        *)
ReadFlows ==
  /\ pc = "flow" /\ pc' = "select" /\ rsps' = <<>>
  /\ \/ /\ told' = [m \in Macs |-> told[m] + Count(rsps, m)]
        /\ UNCHANGED <<lost, events>>
     \/ rsps # <<>> /\ Event /\ Lose({rsps[i] : i \in 1..Len(rsps)}) /\ UNCHANGED told
  /\ UNCHANGED <<tcpdump_pid, due, macList, devs, pids, names, reqs, dumpVars,
                 envVars>>

AppStep ==
  \/ ReadPids \/ CheckTcpdump \/ ListDevices \/ Remember \/ ReadFlows
  \/ \E m \in Macs : AskFlow(m)

-----------------------------------------------------------------------------
(* tcpdump *)

(* A plausible slip: the pid goes beyond the limit of the queue.           *)
AnnounceAnyway ==
  /\ dump = "start" /\ dump' = "run" /\ pids' = Append(pids, "cur")
  /\ UNCHANGED <<appVars, names, reqs, rsps, sig, answer, flows, envVars, told,
                 lost, events>>

(* main() sends the pid, if the queue has room (IPC_NOWAIT).               *)
Announce ==
  /\ dump = "start" /\ dump' = "run"
  /\ pids' = IF Room THEN Append(pids, "cur") ELSE pids
  /\ UNCHANGED <<appVars, names, reqs, rsps, sig, answer, flows, envVars, told,
                 lost, events>>

(* A packet of a device: ip_print adds an unknown device to the list,      *)
(* tcp_print sends the domain name, if there is one, and waits for room.   *)
Capture(m) ==
  /\ dump = "run" /\ m \in present
  /\ flows' = IF m \in Seen THEN flows ELSE <<m>> \o flows
  /\ \/ UNCHANGED <<dump, names>>
     \/ Room /\ names' = names + 1 /\ UNCHANGED dump
     \/ ~Room /\ dump' = "block" /\ UNCHANGED names
  /\ UNCHANGED <<appVars, pids, reqs, rsps, sig, answer, envVars, told, lost,
                 events>>

SendName ==
  /\ dump = "block" /\ Room /\ dump' = "run" /\ names' = names + 1
  /\ UNCHANGED <<appVars, pids, reqs, rsps, sig, answer, flows, envVars, told,
                 lost, events>>

(* SIGUSR2: send_flowLength() begins.  A blocked msgsnd() is given up.     *)
Handle ==
  /\ dump \in {"run", "block"} /\ sig /\ sig' = FALSE /\ dump' = "handler"
  /\ UNCHANGED <<appVars, queueVars, answer, flows, envVars, told, lost, events>>

(* The list without its k-th device.                                       *)
Unlinked(k) == SubSeq(flows, 1, k - 1) \o SubSeq(flows, k + 1, Len(flows))

(* A plausible slip: the answer is made from the entry behind the one that *)
(* was unlinked.                                                           *)
ReadFlowNext ==
  /\ dump = "handler" /\ answer = NoMac /\ reqs # <<>> /\ reqs' = Tail(reqs)
  /\ LET m == Head(reqs)
     IN \/ m \notin Seen /\ Lose({m}) /\ UNCHANGED <<answer, flows>>
        \/ \E k \in 1..Len(flows) :
             /\ flows[k] = m /\ flows' = Unlinked(k)
             /\ \/ k = Len(flows) /\ Lose({m}) /\ UNCHANGED answer
                \/ k < Len(flows) /\ answer' = flows[k + 1] /\ UNCHANGED lost
  /\ UNCHANGED <<appVars, pids, names, rsps, dump, sig, envVars, told, events>>

(* hertUtil_ReadFlow(): the device is removed from the list, and there is  *)
(* an answer unless it was not there, or was the last of the list.         *)
ReadFlow ==
  /\ dump = "handler" /\ answer = NoMac /\ reqs # <<>> /\ reqs' = Tail(reqs)
  /\ LET m == Head(reqs)
     IN \/ m \notin Seen /\ Lose({m}) /\ UNCHANGED <<answer, flows>>
        \/ \E k \in 1..Len(flows) :
             /\ flows[k] = m /\ \A j \in 1..(k - 1) : flows[j] # m
             /\ flows' = Unlinked(k)
             /\ \/ k = Len(flows) /\ Lose({m}) /\ UNCHANGED answer
                \/ k < Len(flows) /\ answer' = m /\ UNCHANGED lost
  /\ UNCHANGED <<appVars, pids, names, rsps, dump, sig, envVars, told, events>>

(* The answer goes into the queue if it has room (IPC_NOWAIT).             *)
SendAnswer ==
  /\ dump = "handler" /\ answer # NoMac /\ answer' = NoMac
  /\ IF Room THEN rsps' = Append(rsps, answer) /\ UNCHANGED lost
             ELSE Lose({answer}) /\ UNCHANGED rsps
  /\ UNCHANGED <<appVars, pids, names, reqs, dump, sig, flows, envVars, told,
                 events>>

HandlerReturns ==
  /\ dump = "handler" /\ answer = NoMac /\ reqs = <<>> /\ dump' = "run"
  /\ UNCHANGED <<appVars, queueVars, sig, answer, flows, envVars, told, lost,
                 events>>

HandlerStep == Handle \/ ReadFlow \/ SendAnswer \/ HandlerReturns

-----------------------------------------------------------------------------
(* The environment *)

Join(m) ==
  /\ m \notin present /\ Event /\ present' = present \cup {m}
  /\ UNCHANGED <<appVars, queueVars, dumpVars, open, left, told, lost>>

Leave(m) ==
  /\ m \in present /\ Event /\ present' = present \ {m}
  /\ left' = [left EXCEPT ![m] = @ + 1]
  /\ UNCHANGED <<appVars, queueVars, dumpVars, open, told, lost>>

(* 30 s are longer than a round, and than tcpdump needs to send its pid.   *)
TimerRuns ==
  /\ ~due /\ pc = "select" /\ dump # "start" /\ due' = TRUE
  /\ UNCHANGED <<pc, tcpdump_pid, macList, devs, queueVars, dumpVars, envVars,
                 told, lost, events>>

(* getUptime() fails: tcpdump writes the same file /tmp/SysUptime.         *)
WrongUptime ==
  /\ ~due /\ Event /\ due' = TRUE
  /\ UNCHANGED <<pc, tcpdump_pid, macList, devs, queueVars, dumpVars, envVars,
                 told, lost>>

TcpdumpDies ==
  /\ dump # "off" /\ Event /\ Gone("off") /\ tcpdump_pid' = Aged(tcpdump_pid)
  /\ UNCHANGED <<pc, due, macList, devs, names, reqs, rsps, envVars, told>>

(* Another herouteapp: the static variables start anew.                    *)
AppDies ==
  /\ Event /\ Lose(macList)
  /\ pc' = "select" /\ tcpdump_pid' = "none" /\ due' = TRUE
  /\ macList' = {} /\ devs' = {}
  /\ UNCHANGED <<queueVars, dumpVars, envVars, told>>

Switch ==
  /\ Event /\ open' = ~open
  /\ UNCHANGED <<appVars, queueVars, dumpVars, present, left, told, lost>>

Next ==
  \/ AppStep \/ Announce \/ (\E m \in Macs : Capture(m)) \/ SendName
  \/ HandlerStep \/ (\E m \in Macs : Join(m) \/ Leave(m)) \/ TimerRuns
  \/ WrongUptime \/ TcpdumpDies \/ AppDies \/ Switch

Spec == Init /\ [][Next]_vars

(* Both processes run, and time passes.                                    *)
Fairness ==
  /\ WF_vars(AppStep) /\ WF_vars(Announce) /\ WF_vars(SendName)
  /\ WF_vars(HandlerStep) /\ SF_vars(TimerRuns)
FairSpec == Spec /\ Fairness

-----------------------------------------------------------------------------
(* Properties *)

Outstanding(m) ==
  told[m] + Count(rsps, m) + Count(reqs, m) + (IF answer = m THEN 1 ELSE 0)

(* The platform is not told more often that a device has left than it left *)
(* or seemed to, whatever is lost or restarted: a departure is asked about *)
(* once, and answered once.                                                *)
OncePerDeparture == \A m \in Macs : Outstanding(m) <= left[m]

(* The tracking implements Departures: every step of herouteapp, tcpdump   *)
(* and the queue between them asks about a departure not asked about yet,  *)
(* tells what was on the way, or misses something and notes it in lost.    *)
Reports == INSTANCE Departures WITH
  way <- [m \in Macs |-> Outstanding(m) - told[m]]
ImplementsDepartures == Reports!Spec

(* A device of the last round that has left is reported, unless it comes   *)
(* back or the switch is closed, and unless its departure was lost in one  *)
(* of eight ways: the device was the last of tcpdump's list, or not on it; *)
(* the queue had no room for the question, or for the answer; tcpdump was  *)
(* not there to be asked, or was killed or died with the answer;           *)
(* herouteapp died; the message to the platform was not sent.  A question  *)
(* may also stay for ever in a queue that is full again and again.         *)
DepartureReported ==
  \A m \in Macs \ Hidden, k \in 0..(MaxEvent - 1) :
    m \in macList \ present /\ told[m] = k
      ~> told[m] > k \/ m \in present \/ ~open \/ m \in lost \/ []<>~Room

(* While the switch is open herouteapp gets to know a running tcpdump      *)
(* again, whatever died, unless the queue is full again and again: the pid *)
(* is sent once, without waiting for room, herouteapp takes the names out  *)
(* of the queue after it has started tcpdump, and only if a device is      *)
(* listed.                                                                 *)
TcpdumpKnown == <>[]open => []<>(tcpdump_pid = "cur" \/ ~Room)
=============================================================================
