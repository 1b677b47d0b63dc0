------------------------ MODULE DownloadWorkerProofs ------------------------
(***************************************************************************)
(* Safety of DownloadWorker for every set of items and every bound.        *)
(*                                                                         *)
(* NoLostWakeup and InitWithoutWorker are not inductive by themselves: the *)
(* restart must be known to find the worker gone, which the values the two *)
(* threads leave in bStopRun encode (StopHandshake).                       *)
(* The last part says under which conditions an accepted request is kept,  *)
(* and what becomes of a restart without a worker.                         *)
(***************************************************************************)
EXTENDS DownloadWorker, TLAPS

\* The buffers an edit or an answer uses hold an item.
ItemHeld ==
  /\ pc["main"] \in Waiting \cup Editing \cup {"unlock", "reply"}
       => item["main"] \in Items
  /\ pc["worker"] \in Waiting \cup Editing \cup
                      {"check", "mkdir", "curl", "perform", "size", "notify"}
       => item["worker"] \in Items

\* What bStopRun says about where the two threads are.
StopHandshake ==
  /\ bStopRun = 1 => pc["main"] \in {"unlockStop", "waitStop"}
  /\ bStopRun = 2 => /\ pc["worker"] = "none"
                     /\ pc["main"] \in {"unlockStop", "waitStop", "init"}
  /\ pc["worker"] = "exit" => bStopRun = 1

\* There is no connected descriptor before HERT_TCP_Init has succeeded.
NoSocketYet == pc["main"] \in {"off", "init", "tcpinit"} => ~sock

IInv == /\ TypeOK
        /\ ItemHeld
        /\ StopHandshake
        /\ NoSocketYet
        /\ InitWithoutWorker
        /\ NoLostWakeup

USE DEF Threads, Waiting, Editing, MainLabels, WorkerLabels

\* A device that has just been started satisfies IInv.
LEMMA InitIInv == Init => IInv
<1> SUFFICES ASSUME Init PROVE IInv
  OBVIOUS
<1>1. TypeOK
  <2>1. /\ pc \in [Threads -> MainLabels \cup WorkerLabels]
        /\ pc["main"] \in MainLabels /\ pc["worker"] \in WorkerLabels
    BY DEF Init
  <2>2. /\ item \in [Threads -> Items \cup {NoItem}]
        /\ rest \in [Threads -> Seq(Items)]
    BY DEF Init
  <2>3. /\ nRetry \in 0 .. 3 /\ bStopRun \in 0 .. 2 /\ nRet \in 0 .. 2
        /\ nReqs \in 0 .. MaxReqs /\ nCrash \in 0 .. MaxCrash
        /\ nUnplug \in 0 .. MaxUnplug
    BY BoundAssumption DEF Init
  <2>4. sizeOk \in BOOLEAN /\ locked \in BOOLEAN /\ sock \in BOOLEAN /\ storage \in BOOLEAN
    BY DEF Init
  <2>5. /\ list \in Seq(Items) /\ temp \in Seq(Items)
        /\ accepted \in SUBSET Items /\ fetched \in SUBSET Items
    BY DEF Init
  <2> QED
    BY <2>1, <2>2, <2>3, <2>4, <2>5 DEF TypeOK
<1>2. pc["main"] = "off" /\ pc["worker"] = "none" /\ bStopRun = 0
  BY DEF Init
<1>3. ~sock
  BY DEF Init
<1>4. ItemHeld /\ StopHandshake /\ InitWithoutWorker /\ NoLostWakeup
  BY <1>2 DEF ItemHeld, StopHandshake, InitWithoutWorker, NoLostWakeup
<1> QED
  BY <1>1, <1>3, <1>4 DEF IInv, NoSocketYet

\* The steps of an edit, by either thread, preserve the type invariant.
LEMMA EditType ==
  ASSUME TypeOK, ItemHeld, NEW t \in Threads, Edit(t)
  PROVE  TypeOK'
<1> USE StoredAssumption DEF TypeOK, ItemHeld, Goto, AfterEdit, AddOrDel,
        threadVars, memVars, fileVars, envVars, history
<1>1. CASE EditTest(t)    BY <1>1 DEF EditTest
<1>2. CASE EditBusy(t)    BY <1>2 DEF EditBusy
<1>3. CASE EditSet(t)     BY <1>3 DEF EditSet
<1>4. CASE EditRmTemp(t)  BY <1>4 DEF EditRmTemp
<1>5. CASE EditCp(t)      BY <1>5 DEF EditCp
<1>6. CASE EditRmList(t)  BY <1>6 DEF EditRmList
<1>7. CASE EditOpen(t)    BY <1>7 DEF EditOpen
<1>8. CASE EditCopy(t)
  <2>1. CASE rest[t] = <<>>  BY <1>8, <2>1 DEF EditCopy
  <2>2. CASE rest[t] # <<>>
    <3>1. /\ rest[t] \in Seq(Items)
          /\ Head(rest[t]) \in Items /\ Tail(rest[t]) \in Seq(Items)
      BY <2>2
    <3>2. rest' \in [Threads -> Seq(Items)]
      BY <1>8, <2>2, <3>1 DEF EditCopy
    <3>3. list' \in Seq(Items)
      <4>1. Stored[Head(rest[t])] \in Items
        BY <3>1
      <4>2. list' \in {list, Append(list, Stored[Head(rest[t])])}
        BY <1>8, <2>2 DEF EditCopy
      <4>3. \A x \in Items : Append(list, x) \in Seq(Items)
        OBVIOUS
      <4>4. CASE list' = list  BY <4>4
      <4>5. CASE list' = Append(list, Stored[Head(rest[t])])  BY <4>1, <4>3, <4>5
      <4> QED BY <4>2, <4>4, <4>5
    <3> QED
      BY <1>8, <2>2, <3>2, <3>3 DEF EditCopy
  <2> QED BY <2>1, <2>2
<1>9. CASE EditAppend(t)  BY <1>9 DEF EditAppend
<1>10. CASE EditRelease(t) BY <1>10 DEF EditRelease
<1> QED BY <1>1, <1>2, <1>3, <1>4, <1>5, <1>6, <1>7, <1>8, <1>9, <1>10 DEF Edit

\* The other steps of the main thread preserve the type invariant.
LEMMA MainType ==
  ASSUME TypeOK, ItemHeld,
         \/ ProcessStart \/ HertAppInit \/ TcpConnected \/ DownLoadImgReq
         \/ DownLoadImgUnlock \/ DownLoadImgRsp \/ LinkError
         \/ UnInitStop \/ UnInitUnlock \/ UnInitDone
  PROVE  TypeOK'
<1> USE StoredAssumption, BoundAssumption
    DEF TypeOK, ItemHeld, Goto, threadVars, memVars, fileVars, envVars, history
<1>1. CASE ProcessStart       BY <1>1 DEF ProcessStart
<1>2. CASE HertAppInit
  <2>1. sock' \in BOOLEAN /\ locked' \in BOOLEAN
    BY <1>2 DEF HertAppInit
  <2>2. /\ pc' \in [Threads -> MainLabels \cup WorkerLabels]
        /\ pc'["main"] = "tcpinit" /\ pc'["worker"] \in {pc["worker"], "top"}
    BY <1>2 DEF HertAppInit
  <2>3. item' \in [Threads -> Items \cup {NoItem}]
    BY <1>2 DEF HertAppInit
  <2> QED BY <1>2, <2>1, <2>2, <2>3 DEF HertAppInit
<1>3. CASE TcpConnected       BY <1>3 DEF TcpConnected
<1>4. CASE DownLoadImgReq     BY <1>4 DEF DownLoadImgReq
<1>5. CASE DownLoadImgUnlock  BY <1>5 DEF DownLoadImgUnlock
<1>6. CASE DownLoadImgRsp     BY <1>6 DEF DownLoadImgRsp
<1>7. CASE LinkError          BY <1>7 DEF LinkError
<1>8. CASE UnInitStop         BY <1>8 DEF UnInitStop
<1>9. CASE UnInitUnlock       BY <1>9 DEF UnInitUnlock
<1>10. CASE UnInitDone        BY <1>10 DEF UnInitDone
<1> QED BY <1>1, <1>2, <1>3, <1>4, <1>5, <1>6, <1>7, <1>8, <1>9, <1>10

\* The line hertUtil_GetDownReqItemList takes is an item of the list.
LEMMA GetItem ==
  ASSUME TypeOK, NEW k \in 1 .. Len(list)
  PROVE  Stored[list[k]] \in Items
BY StoredAssumption DEF TypeOK

\* Whatever line the worker reads, it takes an item out of it.
LEMMA GetType ==
  ASSUME TypeOK, NEW label, NEW none \in WorkerLabels, WorkerGet(label, none)
  PROVE  TypeOK'
<1>1. item' \in [Threads -> Items \cup {NoItem}]
  <2>1. CASE item' = item  BY <2>1 DEF TypeOK
  <2>2. CASE \E k \in 1 .. Len(list) :
               item' = [item EXCEPT !["worker"] = Stored[list[k]]]
    BY <2>2, GetItem DEF TypeOK
  <2> QED BY <2>1, <2>2 DEF WorkerGet
<1>2. /\ pc' \in [Threads -> MainLabels \cup WorkerLabels]
      /\ pc'["main"] \in MainLabels /\ pc'["worker"] \in WorkerLabels
  BY DEF TypeOK, WorkerGet, Goto
<1>3. UNCHANGED <<rest, nRetry, sizeOk, memVars, fileVars, sock, envVars, history>>
  BY DEF WorkerGet
<1> QED
  BY <1>1, <1>2, <1>3 DEF TypeOK, memVars, fileVars, envVars, history

\* The other steps of the worker preserve the type invariant.
LEMMA WorkerType ==
  ASSUME TypeOK, ItemHeld, WorkerStep \/ WorkerPerform, ~Edit("worker")
  PROVE  TypeOK'
<1> USE StoredAssumption
    DEF TypeOK, ItemHeld, Goto, threadVars, memVars, fileVars, envVars, history
<1>1. CASE WorkerTop     BY <1>1 DEF WorkerTop
<1>2. CASE WorkerGet("get1", "lock")  BY <1>2, GetType
<1>3. CASE WorkerGet("get2", "top")   BY <1>3, GetType
<1>4. CASE WorkerLock    BY <1>4 DEF WorkerLock
<1>5. CASE WorkerCheck
  <2>1. sizeOk' \in BOOLEAN
    BY <1>5 DEF WorkerCheck
  <2> QED BY <1>5, <2>1 DEF WorkerCheck
<1>6. CASE WorkerMkdir   BY <1>6 DEF WorkerMkdir
<1>7. CASE WorkerCurl \/ WorkerPerform
  <2>1. sizeOk' \in BOOLEAN
    BY <1>7 DEF WorkerCurl, WorkerPerform, SizeFound
  <2> QED BY <1>7, <2>1 DEF WorkerCurl, WorkerPerform
<1>8. CASE WorkerSize    BY <1>8 DEF WorkerSize
<1>9. CASE WorkerNotify  BY <1>9 DEF WorkerNotify
<1>10. CASE WorkerExit   BY <1>10 DEF WorkerExit
<1> QED
  BY <1>1, <1>2, <1>3, <1>4, <1>5, <1>6, <1>7, <1>8, <1>9, <1>10 DEF WorkerStep

\* So do the steps of the environment.
LEMMA EnvironmentType ==
  ASSUME TypeOK, Killed \/ InitSemFails \/ NullClose \/ Unplug \/ Plug
  PROVE  TypeOK'
<1> USE BoundAssumption DEF TypeOK, threadVars, memVars, fileVars, envVars, history
<1>1. ASSUME ProcessDies, nCrash' \in 0 .. MaxCrash
      PROVE  TypeOK'
  <2>1. sizeOk' \in BOOLEAN /\ locked' \in BOOLEAN /\ sock' \in BOOLEAN
    BY <1>1 DEF ProcessDies
  <2>2. /\ pc' \in [Threads -> MainLabels \cup WorkerLabels]
        /\ pc'["main"] = "off" /\ pc'["worker"] = "none"
        /\ item' \in [Threads -> Items \cup {NoItem}]
        /\ rest' \in [Threads -> Seq(Items)]
    BY <1>1 DEF ProcessDies
  <2> QED BY <1>1, <2>1, <2>2 DEF ProcessDies
<1>2. CASE Killed        BY <1>1, <1>2 DEF Killed
<1>3. CASE InitSemFails  BY <1>1, <1>3 DEF InitSemFails
<1>4. CASE NullClose     BY <1>1, <1>4 DEF NullClose
<1>5. CASE Unplug
  <2>1. storage' \in BOOLEAN
    BY <1>5 DEF Unplug
  <2> QED BY <1>5, <2>1 DEF Unplug
<1>6. CASE Plug          BY <1>6 DEF Plug
<1> QED BY <1>2, <1>3, <1>4, <1>5, <1>6

\* Every step preserves the type invariant.
LEMMA NextType == TypeOK /\ ItemHeld /\ [Next]_vars => TypeOK'
<1> SUFFICES ASSUME TypeOK, ItemHeld, [Next]_vars PROVE TypeOK'
  OBVIOUS
<1>1. CASE \E t \in Threads : Edit(t)  BY <1>1, EditType
<1>2. CASE WorkerStep \/ WorkerPerform  BY <1>1, <1>2, WorkerType
<1>3. CASE UNCHANGED vars
  BY <1>3 DEF vars, threadVars, memVars, fileVars, envVars, history, TypeOK
<1> QED
  BY <1>1, <1>2, <1>3, MainType, EnvironmentType DEF Next, MainStep

\* Each thread's buffer holds an item from the step that fills it on.
LEMMA NextItemHeld == IInv /\ [Next]_vars => ItemHeld'
<1> SUFFICES ASSUME IInv, [Next]_vars PROVE ItemHeld'
  OBVIOUS
<1> USE StoredAssumption DEF IInv, TypeOK, ItemHeld, Goto, AfterEdit, AddOrDel
<1>1. ASSUME NEW t \in Threads, Edit(t) PROVE ItemHeld'
  BY <1>1 DEF Edit, EditTest, EditBusy, EditSet, EditRmTemp, EditCp, EditRmList,
     EditOpen, EditCopy, EditAppend, EditRelease
<1>2. CASE ProcessStart \/ HertAppInit \/ TcpConnected \/ LinkError
  BY <1>2 DEF ProcessStart, HertAppInit, TcpConnected, LinkError
<1>3. CASE DownLoadImgReq \/ DownLoadImgUnlock \/ DownLoadImgRsp
  BY <1>3 DEF DownLoadImgReq, DownLoadImgUnlock, DownLoadImgRsp
<1>4. CASE UnInitStop \/ UnInitUnlock \/ UnInitDone
  BY <1>4 DEF UnInitStop, UnInitUnlock, UnInitDone
<1>5. CASE WorkerGet("get1", "lock") \/ WorkerGet("get2", "top")
  BY <1>5, GetItem DEF WorkerGet
<1>6. CASE WorkerTop \/ WorkerLock \/ WorkerCheck \/ WorkerMkdir
           \/ WorkerCurl \/ WorkerPerform
  BY <1>6 DEF WorkerTop, WorkerLock, WorkerCheck, WorkerMkdir, WorkerCurl,
     WorkerPerform
<1>7. CASE WorkerSize \/ WorkerNotify \/ WorkerExit
  BY <1>7 DEF WorkerSize, WorkerNotify, WorkerExit
<1>8. CASE Killed \/ InitSemFails \/ NullClose \/ Unplug \/ Plug
  BY <1>8 DEF Killed, InitSemFails, NullClose, ProcessDies, Unplug, Plug, threadVars
<1>9. CASE UNCHANGED vars
  BY <1>9 DEF vars, threadVars
<1> QED
  BY <1>1, <1>2, <1>3, <1>4, <1>5, <1>6, <1>7, <1>8, <1>9
     DEF Next, MainStep, WorkerStep

\* What an edit leaves alone: the other thread, the flag, the mutex and the
\* socket; and where it may lead.
LEMMA EditFrame ==
  ASSUME TypeOK, NEW t \in Threads, Edit(t)
  PROVE  /\ pc[t] \in Waiting \cup Editing
         /\ pc'[t] \in Waiting \cup Editing \cup {AfterEdit(t)}
         /\ \A u \in Threads \ {t} : pc'[u] = pc[u]
         /\ bStopRun' = bStopRun /\ locked' = locked /\ sock' = sock
BY DEF TypeOK, Goto, AddOrDel, memVars, Edit, EditTest, EditBusy, EditSet,
       EditRmTemp, EditCp, EditRmList, EditOpen, EditCopy, EditAppend, EditRelease

\* bStopRun keeps telling where the threads are: the worker answers a 1 with
\* a 2 as its last step, and only then does HERT_APP_UnInit return.
LEMMA NextStop ==
  IInv /\ [Next]_vars => StopHandshake' /\ InitWithoutWorker' /\ NoSocketYet'
<1> SUFFICES ASSUME IInv, [Next]_vars
             PROVE  StopHandshake' /\ InitWithoutWorker' /\ NoSocketYet'
  OBVIOUS
<1> DEFINE Goal == StopHandshake' /\ InitWithoutWorker' /\ NoSocketYet'
<1> USE DEF IInv, TypeOK, StopHandshake, InitWithoutWorker, NoSocketYet, Goto,
            AfterEdit, AddOrDel, memVars, envVars
<1>1. ASSUME NEW t \in Threads, Edit(t) PROVE Goal
  BY <1>1, EditFrame
<1>2. CASE ProcessStart \/ HertAppInit \/ TcpConnected \/ LinkError
  BY <1>2 DEF ProcessStart, HertAppInit, TcpConnected, LinkError
<1>3. CASE DownLoadImgReq \/ DownLoadImgUnlock \/ DownLoadImgRsp
  BY <1>3 DEF DownLoadImgReq, DownLoadImgUnlock, DownLoadImgRsp
<1>4. CASE UnInitStop \/ UnInitUnlock \/ UnInitDone
  BY <1>4 DEF UnInitStop, UnInitUnlock, UnInitDone
<1>5. CASE WorkerGet("get1", "lock") \/ WorkerGet("get2", "top")
  BY <1>5 DEF WorkerGet
<1>6. CASE WorkerTop \/ WorkerLock \/ WorkerCheck \/ WorkerMkdir
           \/ WorkerCurl \/ WorkerPerform
  BY <1>6 DEF WorkerTop, WorkerLock, WorkerCheck, WorkerMkdir, WorkerCurl,
     WorkerPerform
<1>7. CASE WorkerSize \/ WorkerNotify \/ WorkerExit
  BY <1>7 DEF WorkerSize, WorkerNotify, WorkerExit
<1>8. CASE Killed \/ InitSemFails \/ NullClose \/ Unplug \/ Plug
  BY <1>8 DEF Killed, InitSemFails, NullClose, ProcessDies, Unplug, Plug, threadVars
<1>9. CASE UNCHANGED vars
  BY <1>9 DEF vars, threadVars
<1> QED
  BY <1>1, <1>2, <1>3, <1>4, <1>5, <1>6, <1>7, <1>8, <1>9
     DEF Next, MainStep, WorkerStep

\* A sleeping worker with work is always owed an unlock.  The list gets work
\* while the worker sleeps only from the main thread's edit, which an unlock
\* follows; the worker falls asleep only on a list it found without work; and
\* the mutex is locked by the worker itself or when there is no worker.
LEMMA NextWakeup == IInv /\ [Next]_vars => NoLostWakeup'
<1> SUFFICES ASSUME IInv, [Next]_vars PROVE NoLostWakeup'
  OBVIOUS
<1> USE DEF IInv, TypeOK, InitWithoutWorker, NoLostWakeup, Adding, Goto,
            memVars, fileVars, envVars
<1>1. CASE Edit("main")
  <2>1. pc'["main"] \in Waiting \cup Editing \cup {"unlock"}
    BY <1>1, EditFrame DEF AfterEdit
  <2> QED BY <2>1
<1>2. CASE Edit("worker")
  <2>1. pc'["worker"] # "lock"
    BY <1>2, EditFrame DEF AfterEdit
  <2> QED BY <2>1
<1>3. CASE ProcessStart \/ TcpConnected \/ LinkError \/ DownLoadImgRsp
           \/ UnInitStop \/ UnInitDone \/ Unplug \/ Plug \/ UNCHANGED vars
  <2>1. /\ locked' = locked /\ list' = list /\ pc'["worker"] = pc["worker"]
        /\ Adding => pc'["main"] = pc["main"]
    BY <1>3 DEF ProcessStart, TcpConnected, LinkError, DownLoadImgRsp, UnInitStop,
       UnInitDone, Unplug, Plug, vars, threadVars
  <2>2. HasWork' = HasWork
    BY <2>1 DEF HasWork
  <2> QED BY <2>1, <2>2
<1>4. CASE HertAppInit
  BY <1>4 DEF HertAppInit
<1>5. CASE DownLoadImgReq
  <2>1. /\ locked' = locked /\ list' = list /\ pc'["worker"] = pc["worker"]
        /\ ~Adding
    BY <1>5 DEF DownLoadImgReq
  <2>2. HasWork' = HasWork
    BY <2>1 DEF HasWork
  <2> QED BY <2>1, <2>2
<1>6. CASE DownLoadImgUnlock \/ UnInitUnlock
  BY <1>6 DEF DownLoadImgUnlock, UnInitUnlock
<1>7. CASE WorkerGet("get1", "lock")
  <2>1. CASE ~HasWork
    <3>1. ~HasWork'
      BY <1>7, <2>1 DEF WorkerGet, HasWork
    <3> QED BY <3>1
  <2>2. CASE HasWork
    <3>1. pc'["worker"] # "lock"
      BY <1>7, <2>2 DEF WorkerGet
    <3> QED BY <3>1
  <2> QED BY <2>1, <2>2
<1>8. CASE \/ WorkerTop \/ WorkerLock \/ WorkerCheck \/ WorkerMkdir
           \/ WorkerCurl \/ WorkerPerform
           \/ WorkerSize \/ WorkerNotify \/ WorkerExit \/ WorkerGet("get2", "top")
           \/ Killed \/ InitSemFails \/ NullClose
  <2>1. pc'["worker"] # "lock"
    BY <1>8 DEF WorkerTop, WorkerLock, WorkerCheck, WorkerMkdir, WorkerCurl,
       WorkerPerform, WorkerSize, WorkerNotify, WorkerExit, WorkerGet, Killed, InitSemFails,
       NullClose, ProcessDies
  <2> QED BY <2>1
<1> QED
  BY <1>1, <1>2, <1>3, <1>4, <1>5, <1>6, <1>7, <1>8 DEF Next, MainStep, WorkerStep

\* IInv is an invariant: every reachable state of the two threads satisfies
\* it, for any items, any bounds and with or without a readable MAC.
THEOREM InductiveInvariant == Spec => []IInv
<1>1. IInv /\ [Next]_vars => IInv'
  BY NextType, NextItemHeld, NextStop, NextWakeup DEF IInv
<1> QED
  BY InitIInv, <1>1, PTL DEF Spec

\* The variables of the model keep their types: in particular a list line is
\* always an item, also when two edits interleave.
THEOREM TypeCorrect == Spec => []TypeOK
BY InductiveInvariant, PTL DEF IInv

\* No download request is forgotten by a sleeping worker: see NoLostWakeup.
THEOREM WakeupNotLost == Spec => []NoLostWakeup
BY InductiveInvariant, PTL DEF IInv

\* HERT_APP_Init never runs while a worker lives: see InitWithoutWorker.
THEOREM WorkerJoined == Spec => []InitWithoutWorker
BY InductiveInvariant, PTL DEF IInv

\* UnInit closes the socket only after the worker's end: see
\* SocketOutlivesWorker.
THEOREM SocketSafe == Spec => SocketOutlivesWorker
<1>1. IInv /\ [Next]_vars => [sock /\ ~sock' => pc'["worker"] = "none"]_vars
  <2> SUFFICES ASSUME IInv, Next, sock, ~sock' PROVE pc'["worker"] = "none"
    OBVIOUS
  <2> USE DEF IInv, TypeOK, NoSocketYet, StopHandshake, Goto
  <2>1. ASSUME NEW t \in Threads, Edit(t) PROVE FALSE
    BY <2>1, EditFrame
  <2>2. CASE UnInitDone
    BY <2>2 DEF UnInitDone
  <2>3. CASE HertAppInit
    BY <2>3 DEF HertAppInit
  <2>4. CASE Killed \/ InitSemFails \/ NullClose
    BY <2>4 DEF Killed, InitSemFails, NullClose, ProcessDies
  <2>5. CASE \/ ProcessStart \/ TcpConnected \/ LinkError \/ DownLoadImgReq
             \/ DownLoadImgUnlock \/ DownLoadImgRsp \/ UnInitStop \/ UnInitUnlock
             \/ Unplug \/ Plug
    BY <2>5 DEF ProcessStart, TcpConnected, LinkError, DownLoadImgReq,
       DownLoadImgUnlock, DownLoadImgRsp, UnInitStop, UnInitUnlock, Unplug, Plug
  <2>6. CASE \/ WorkerTop \/ WorkerLock \/ WorkerCheck \/ WorkerMkdir
             \/ WorkerCurl \/ WorkerPerform
             \/ WorkerSize \/ WorkerNotify \/ WorkerExit
             \/ WorkerGet("get1", "lock") \/ WorkerGet("get2", "top")
    BY <2>6 DEF WorkerTop, WorkerLock, WorkerCheck, WorkerMkdir, WorkerCurl,
       WorkerPerform, WorkerSize, WorkerNotify, WorkerExit, WorkerGet
  <2> QED
    BY <2>1, <2>2, <2>3, <2>4, <2>5, <2>6 DEF Next, MainStep, WorkerStep
<1> QED
  BY <1>1, InductiveInvariant, PTL DEF Spec, SocketOutlivesWorker

\* Strengthening of StopIsHeard: the threads a restart meets.  The mutex that
\* HERT_APP_UnInit has unlocked is locked again only by a worker on its way to
\* a look at bStopRun, which does not lead it back to sleep.
StopInv ==
  /\ pc["main"] \notin {"off", "init"} => bStopRun = 2 \/ pc["worker"] # "none"
  /\ pc["main"] \in {"unlockStop", "waitStop"} => bStopRun # 0
  /\ pc["main"] = "waitStop" /\ bStopRun = 1 /\ locked
       => pc["worker"] \in {"get2", "top", "check", "exit"}

\* With a MAC that can be read, HERT_APP_UnInit never waits for a worker that
\* is not there or that sleeps: the counterpart of NoMacNoRestart.
THEOREM StopHeard ==
  ASSUME MacReadable
  PROVE  Spec => []StopIsHeard
<1> USE DEF StopInv, IInv, TypeOK, StopHandshake, Goto
<1>1. Init => StopInv
  BY DEF Init
<1>2. ASSUME IInv, StopInv, [Next]_vars PROVE StopInv'
  <2>1. ASSUME NEW t \in Threads, Edit(t) PROVE StopInv'
    BY <1>2, <2>1, EditFrame DEF AfterEdit
  <2>2. CASE ProcessStart \/ HertAppInit \/ TcpConnected \/ LinkError
    BY <1>2, <2>2, MacReadable
       DEF ProcessStart, HertAppInit, TcpConnected, LinkError, memVars
  <2>3. CASE DownLoadImgReq \/ DownLoadImgUnlock \/ DownLoadImgRsp
    BY <1>2, <2>3 DEF DownLoadImgReq, DownLoadImgUnlock, DownLoadImgRsp, memVars
  <2>4. CASE UnInitStop \/ UnInitUnlock \/ UnInitDone
    BY <1>2, <2>4 DEF UnInitStop, UnInitUnlock, UnInitDone, memVars
  <2>5. CASE WorkerGet("get1", "lock") \/ WorkerGet("get2", "top")
    BY <1>2, <2>5 DEF WorkerGet, memVars
  <2>6. CASE WorkerTop \/ WorkerLock \/ WorkerCheck \/ WorkerMkdir
           \/ WorkerCurl \/ WorkerPerform
    BY <1>2, <2>6 DEF WorkerTop, WorkerLock, WorkerCheck, WorkerMkdir, WorkerCurl,
       WorkerPerform, memVars
  <2>7. CASE WorkerSize \/ WorkerNotify \/ WorkerExit
    BY <1>2, <2>7 DEF WorkerSize, WorkerNotify, WorkerExit, memVars
  <2>8. CASE Killed \/ InitSemFails \/ NullClose \/ Unplug \/ Plug
    BY <1>2, <2>8 DEF Killed, InitSemFails, NullClose, ProcessDies, Unplug, Plug,
       threadVars, memVars
  <2>9. CASE UNCHANGED vars
    BY <1>2, <2>9 DEF vars, threadVars, memVars
  <2> QED
    BY <1>2, <2>1, <2>2, <2>3, <2>4, <2>5, <2>6, <2>7, <2>8, <2>9
       DEF Next, MainStep, WorkerStep
<1>3. IInv /\ StopInv => StopIsHeard
  BY DEF StopIsHeard
<1> QED
  BY <1>1, <1>2, <1>3, InductiveInvariant, PTL DEF Spec
-----------------------------------------------------------------------------
(* When is an accepted request kept?  AcceptedKept does not hold in        *)
(* general: two edits may overlap, and a death of the process may find the *)
(* list file removed.  These are the only two reasons.                     *)

InFunction(t) == pc[t] \in Waiting \cup Editing

\* The threads execute hertUtil_EditDownReqItemList one at a time.
OneEditor == \E t \in Threads : ~InFunction(t)

\* From the removal of the list file to the last line written back.
Rewriting == {"open", "copy", "append"}

\* The process does not die while the list file is being rewritten.
DeathSpares == pc'["main"] = "off" => \A t \in Threads : pc[t] \notin Rewriting

\* The lines of a file as they are read back.
Lines(s) == {Stored[s[k]] : k \in 1 .. Len(s)}

\* The items accepted, and the one about to be.
Pledged == accepted \cup
  {i \in {item["main"]} : pc["main"] \in {"release", "unlock", "reply"}}

Kept(S) == \A i \in Pledged : Stored[i] \in S \cup fetched

\* Without overlap the static nRet works: nobody meets it at 2.
GuardInv ==
  /\ nRet = 2 => \E t \in Threads : pc[t] \in Editing \ {"set"}
  /\ \A t \in Threads : pc[t] # "busy"

\* The worker removes what it has dealt with.
FetchedInv == InFunction("worker") => item["worker"] \in fetched

\* The backup is complete before the list is removed.
BackupInv ==
  \A t \in Threads :
    /\ pc[t] = "cp" => temp = <<>>
    /\ pc[t] = "rmlist" => temp = list

\* Where the items are while the list is being rewritten ...
WindowInv ==
  \A t \in Threads :
    /\ pc[t] = "open" => Kept(Lines(temp))
    /\ pc[t] = "copy" => Kept(Lines(list) \cup Lines(rest[t]) \cup {item[t]})
    /\ pc[t] = "append" => Kept(Lines(list) \cup {item[t]})

\* ... and otherwise.
ListInv == (\A t \in Threads : pc[t] \notin Rewriting) => Kept(Lines(list))

KInv == GuardInv /\ FetchedInv /\ BackupInv /\ WindowInv /\ ListInv

\* What is read back of a file: of an empty one, after a line is appended,
\* and when its first line is taken.
LEMMA LinesEmpty == Lines(<<>>) = {}
BY DEF Lines

LEMMA LinesAppend ==
  ASSUME NEW s \in Seq(Items), NEW x \in Items
  PROVE  Lines(Append(s, x)) = Lines(s) \cup {Stored[x]}
BY DEF Lines

LEMMA LinesHead ==
  ASSUME NEW s \in Seq(Items), s # <<>>
  PROVE  Lines(s) = {Stored[Head(s)]} \cup Lines(Tail(s))
<1>1. Len(s) \in Nat \ {0} /\ Head(s) = s[1] /\ Len(Tail(s)) = Len(s) - 1
  OBVIOUS
<1>2. \A k \in 1 .. Len(s) - 1 : Tail(s)[k] = s[k + 1]
  OBVIOUS
<1>3. ASSUME NEW k \in 1 .. Len(s)
      PROVE  Stored[s[k]] \in {Stored[Head(s)]} \cup Lines(Tail(s))
  <2>1. CASE k = 1
    BY <1>1, <2>1
  <2>2. CASE k # 1
    <3>1. k - 1 \in 1 .. Len(s) - 1 /\ (k - 1) + 1 = k
      BY <1>1, <2>2
    <3>2. Tail(s)[k - 1] = s[k]
      BY <1>2, <3>1
    <3> QED BY <1>1, <3>1, <3>2 DEF Lines
  <2> QED BY <2>1, <2>2
<1>4. ASSUME NEW k \in 1 .. Len(s) - 1
      PROVE  Stored[Tail(s)[k]] \in Lines(s)
  BY <1>1, <1>2 DEF Lines
<1>5. Stored[Head(s)] \in Lines(s)
  BY <1>1 DEF Lines
<1>6. Lines(Tail(s)) \subseteq Lines(s)
  BY <1>1, <1>4 DEF Lines
<1>7. Lines(s) \subseteq {Stored[Head(s)]} \cup Lines(Tail(s))
  BY <1>3 DEF Lines
<1> QED BY <1>5, <1>6, <1>7

\* An item read back twice is read back once; what is kept is an item.
LEMMA PledgedItems ==
  ASSUME IInv
  PROVE  \A i \in Pledged : i \in Items /\ Stored[i] \in Items
                            /\ Stored[Stored[i]] = Stored[i]
BY StoredAssumption DEF IInv, TypeOK, ItemHeld, Pledged

\* At the start nothing has been accepted.
LEMMA InitKInv == Init => KInv
<1> SUFFICES ASSUME Init PROVE KInv
  OBVIOUS
<1>1. /\ pc["main"] = "off" /\ pc["worker"] = "none"
      /\ nRet = 1 /\ accepted = {}
  BY DEF Init
<1>2. Pledged = {}
  BY <1>1 DEF Pledged
<1> QED
  BY <1>1, <1>2 DEF KInv, GuardInv, FetchedInv, BackupInv, WindowInv, ListInv,
     Kept, InFunction

\* Steps outside hertUtil_EditDownReqItemList leave the files alone.  They
\* lead into the function at its first test only.
LEMMA OutsideFrame ==
  ASSUME IInv, [Next]_vars, ~Edit("main"), ~Edit("worker"),
         ~Killed, ~InitSemFails, ~NullClose
  PROVE  /\ list' = list /\ temp' = temp /\ rest' = rest /\ nRet' = nRet
         /\ fetched \subseteq fetched'
         /\ \A t \in Threads : \/ pc'[t] = pc[t] /\ item'[t] = item[t]
                               \/ /\ ~InFunction(t)
                                  /\ pc'[t] \notin Editing \cup {"busy"}
         /\ Pledged' \subseteq Pledged
         /\ pc'["worker"] = "test" => item'["worker"] \in fetched' \/ pc["worker"] = "test"
<1> USE DEF IInv, TypeOK, Goto, memVars, fileVars, envVars, history, InFunction, Pledged
<1>1. CASE ProcessStart \/ TcpConnected \/ LinkError
  BY <1>1 DEF ProcessStart, TcpConnected, LinkError
<1>2. CASE DownLoadImgReq
  BY <1>2 DEF DownLoadImgReq
<1>10. CASE HertAppInit
  BY <1>10 DEF HertAppInit, InitWithoutWorker
<1>3. CASE DownLoadImgUnlock \/ DownLoadImgRsp
  BY <1>3 DEF DownLoadImgUnlock, DownLoadImgRsp
<1>4. CASE UnInitStop \/ UnInitUnlock \/ UnInitDone
  BY <1>4 DEF UnInitStop, UnInitUnlock, UnInitDone
<1>5. CASE WorkerGet("get1", "lock") \/ WorkerGet("get2", "top")
  BY <1>5 DEF WorkerGet
<1>6. CASE WorkerTop \/ WorkerLock \/ WorkerCheck \/ WorkerMkdir
           \/ WorkerCurl \/ WorkerPerform
  BY <1>6 DEF WorkerTop, WorkerLock, WorkerCheck, WorkerMkdir, WorkerCurl,
     WorkerPerform
<1>7. CASE WorkerSize
  BY <1>7 DEF WorkerSize
<1>8. CASE WorkerNotify \/ WorkerExit
  BY <1>8 DEF WorkerNotify, WorkerExit
<1>9. CASE Unplug \/ Plug \/ UNCHANGED vars
  BY <1>9 DEF Unplug, Plug, vars, threadVars
<1> QED
  BY <1>1, <1>2, <1>3, <1>4, <1>5, <1>6, <1>7, <1>8, <1>9, <1>10
     DEF Next, MainStep, WorkerStep

\* Steps outside the edit, short of a death, lose no item.
LEMMA OutsideKeeps ==
  ASSUME IInv, KInv, [Next]_vars, ~Edit("main"), ~Edit("worker"),
         ~Killed, ~InitSemFails, ~NullClose
  PROVE  KInv'
<1>1. /\ list' = list /\ temp' = temp /\ rest' = rest /\ nRet' = nRet
      /\ fetched \subseteq fetched' /\ Pledged' \subseteq Pledged
  BY OutsideFrame
<1>2. \A t \in Threads : \/ pc'[t] = pc[t] /\ item'[t] = item[t]
                         \/ ~InFunction(t) /\ pc'[t] \notin Editing \cup {"busy"}
  BY OutsideFrame
<1>3. \A S : Kept(S) => Kept(S)'
  BY <1>1 DEF Kept
<1>4. GuardInv'
  BY <1>1, <1>2 DEF KInv, GuardInv, InFunction
<1>5. FetchedInv'
  BY <1>1, <1>2, OutsideFrame DEF KInv, FetchedInv, InFunction
<1>6. BackupInv'
  BY <1>1, <1>2 DEF KInv, BackupInv, InFunction
<1>7. WindowInv'
  <2> SUFFICES ASSUME NEW t \in Threads, pc'[t] \in Rewriting
               PROVE  /\ pc'[t] = "open" => Kept(Lines(temp))'
                      /\ pc'[t] = "copy" => Kept(Lines(list) \cup Lines(rest[t]) \cup {item[t]})'
                      /\ pc'[t] = "append" => Kept(Lines(list) \cup {item[t]})'
    BY DEF WindowInv, Rewriting
  <2>1. pc'[t] = pc[t] /\ item'[t] = item[t]
    BY <1>2 DEF Rewriting
  <2> QED
    BY <1>1, <2>1 DEF KInv, WindowInv, Kept
<1>8. ListInv'
  <2>1. (\A t \in Threads : pc'[t] \notin Rewriting)
          => \A t \in Threads : pc[t] \notin Rewriting
    BY <1>2 DEF InFunction, Rewriting
  <2> QED
    BY <1>1, <2>1 DEF KInv, ListInv, Kept
<1> QED
  BY <1>4, <1>5, <1>6, <1>7, <1>8 DEF KInv

\* A death that spares the rewriting finds the list in the file, and leaves
\* it there.
LEMMA DeathKeeps ==
  ASSUME IInv, KInv, Killed \/ InitSemFails \/ NullClose, DeathSpares
  PROVE  KInv'
<1>1. /\ pc'["main"] = "off" /\ pc'["worker"] = "none" /\ nRet' = 1
      /\ list' = list /\ accepted' = accepted /\ fetched' = fetched
  BY DEF Killed, InitSemFails, NullClose, ProcessDies, fileVars, history
<1>2. Pledged' \subseteq Pledged
  BY <1>1 DEF Pledged
<1>3. Kept(Lines(list))
  BY <1>1 DEF DeathSpares, KInv, ListInv
<1>4. Kept(Lines(list))'
  BY <1>1, <1>2, <1>3 DEF Kept
<1> QED
  BY <1>1, <1>4 DEF KInv, GuardInv, FetchedInv, BackupInv, WindowInv, ListInv,
     InFunction

\* While t edits alone, the other thread is elsewhere, and no edit changes
\* the thread's item, what is accepted and what is fetched.
LEMMA EditAlone ==
  ASSUME IInv, KInv, OneEditor, NEW t \in Threads, Edit(t)
  PROVE  /\ item' = item /\ accepted' = accepted /\ fetched' = fetched
         /\ item[t] \in Items
         /\ \A u \in Threads \ {t} : ~InFunction(u) /\ pc'[u] = pc[u]
         /\ t = "worker" => item[t] \in fetched
         /\ pc'[t] \notin Editing => pc[t] = "release" /\ pc'[t] = AfterEdit(t)
<1>1. /\ pc[t] \in Waiting \cup Editing
      /\ \A u \in Threads \ {t} : pc'[u] = pc[u]
  BY EditFrame DEF IInv
<1>2. \A u \in Threads \ {t} : ~InFunction(u)
  BY <1>1 DEF OneEditor, InFunction
<1>3. item' = item /\ accepted' = accepted /\ fetched' = fetched
  BY DEF history, Edit, EditTest, EditBusy, EditSet, EditRmTemp, EditCp, EditRmList,
     EditOpen, EditCopy, EditAppend, EditRelease
<1>4. item[t] \in Items
  BY <1>1 DEF IInv, ItemHeld
<1>5. t = "worker" => item[t] \in fetched
  BY <1>1 DEF KInv, FetchedInv, InFunction
<1>6. pc[t] = "test" => nRet # 2
  BY <1>2 DEF KInv, GuardInv, InFunction
<1>7. pc'[t] \notin Editing => pc[t] = "release" /\ pc'[t] = AfterEdit(t)
  <2> USE DEF IInv, TypeOK, Goto
  <2>1. CASE EditTest(t) \/ EditBusy(t)
    BY <1>6, <2>1 DEF KInv, GuardInv, EditTest, EditBusy
  <2>2. CASE \/ EditSet(t) \/ EditRmTemp(t) \/ EditCp(t) \/ EditRmList(t)
             \/ EditOpen(t) \/ EditAppend(t) \/ EditRelease(t)
    BY <2>2 DEF EditSet, EditRmTemp, EditCp, EditRmList, EditOpen, EditAppend, EditRelease
  <2>3. CASE EditCopy(t)
    BY <2>3 DEF EditCopy
  <2> QED BY <2>1, <2>2, <2>3 DEF Edit
<1> QED
  BY <1>1, <1>2, <1>3, <1>4, <1>5, <1>7

\* The invariant, as far as the thread t that edits alone is concerned.
AloneInv(t) ==
  /\ nRet = 2 => pc[t] \in Editing \ {"set"}
  /\ pc[t] \notin Waiting
  /\ pc[t] = "cp" => temp = <<>>
  /\ pc[t] = "rmlist" => temp = list
  /\ pc[t] = "open" => Kept(Lines(temp))
  /\ pc[t] = "copy" => Kept(Lines(list) \cup Lines(rest[t]) \cup {item[t]})
  /\ pc[t] = "append" => Kept(Lines(list) \cup {item[t]})
  /\ pc[t] \notin Rewriting => Kept(Lines(list))

\* Under OneEditor it is enough to follow the thread that edits.
LEMMA AloneSuffices ==
  ASSUME IInv, KInv, OneEditor, NEW t \in Threads, Edit(t), AloneInv(t)'
  PROVE  KInv'
<1>1. \A u \in Threads \ {t} : pc'[u] \notin Waiting \cup Editing
  BY EditAlone DEF InFunction
<1>2. GuardInv' /\ BackupInv' /\ WindowInv'
  BY <1>1 DEF AloneInv, GuardInv, BackupInv, WindowInv
<1>3. ListInv'
  BY DEF AloneInv, ListInv
<1>4. FetchedInv'
  BY <1>1, EditAlone DEF FetchedInv, InFunction
<1> QED
  BY <1>2, <1>3, <1>4 DEF KInv

\* What an edit pledges: the item of the main thread, at its end.
LEMMA EditPledges ==
  ASSUME IInv, KInv, OneEditor, NEW t \in Threads, Edit(t)
  PROVE  /\ pc'[t] # "release" => Pledged' \subseteq Pledged
         /\ Pledged' \subseteq Pledged \cup {item[t]}
         /\ t = "worker" => Pledged' = Pledged
<1>1. /\ item' = item /\ accepted' = accepted
      /\ \A u \in Threads \ {t} : pc'[u] = pc[u]
  BY EditAlone
<1>2. t = "worker" => Pledged' = Pledged
  BY <1>1 DEF Pledged
<1>3. CASE t = "main"
  <2>1. pc[t] = "release" \/ pc'[t] \in Editing
    BY EditAlone
  <2> QED BY <1>1, <1>3, <2>1 DEF Pledged
<1> QED BY <1>2, <1>3

\* One step of an edit by t alone.
LEMMA EditKeeps ==
  ASSUME IInv, KInv, OneEditor, NEW t \in Threads, Edit(t)
  PROVE  AloneInv(t)'
<1> USE DEF Goto
<1>1. /\ pc \in [Threads -> MainLabels \cup WorkerLabels]
      /\ rest \in [Threads -> Seq(Items)] /\ list \in Seq(Items) /\ temp \in Seq(Items)
  BY DEF IInv, TypeOK
<1>2. /\ item' = item /\ fetched' = fetched /\ item[t] \in Items
      /\ \A u \in Threads \ {t} : ~InFunction(u)
      /\ t = "worker" => item[t] \in fetched
      /\ pc'[t] \notin Editing => pc[t] = "release" /\ pc'[t] = AfterEdit(t)
  BY EditAlone
<1>3. /\ pc'[t] # "release" => Pledged' \subseteq Pledged
      /\ Pledged' \subseteq Pledged \cup {item[t]}
      /\ t = "worker" => Pledged' = Pledged
  BY EditPledges
<1>4. pc[t] \notin Rewriting => Kept(Lines(list))
  BY <1>2 DEF KInv, ListInv, InFunction, Rewriting
<1>5. pc'[t] \notin Waiting
  BY <1>2 DEF AfterEdit
<1>6. CASE EditTest(t) \/ EditBusy(t)
  <2>1. pc[t] \in Waiting /\ pc'[t] = "set"
    BY <1>1, <1>2, <1>6 DEF EditTest, EditBusy, AfterEdit
  <2>2. nRet # 2 /\ nRet' = nRet /\ list' = list
    BY <1>2, <1>6, <2>1 DEF EditTest, EditBusy, KInv, GuardInv, memVars, fileVars, InFunction
  <2>3. Kept(Lines(list))'
    BY <1>2, <1>3, <1>4, <2>1, <2>2 DEF Kept, Rewriting
  <2> QED BY <2>1, <2>2, <2>3 DEF AloneInv
<1>7. CASE EditSet(t)
  <2>1. pc[t] = "set" /\ pc'[t] = "rmtemp" /\ list' = list
    BY <1>1, <1>7 DEF EditSet, fileVars
  <2>2. Kept(Lines(list))'
    BY <1>2, <1>3, <1>4, <2>1 DEF Kept, Rewriting
  <2> QED BY <2>1, <2>2 DEF AloneInv
<1>8. CASE EditRmTemp(t)
  <2>1. pc[t] = "rmtemp" /\ pc'[t] = "cp" /\ list' = list /\ temp' = <<>>
    BY <1>1, <1>8 DEF EditRmTemp
  <2>2. Kept(Lines(list))'
    BY <1>2, <1>3, <1>4, <2>1 DEF Kept, Rewriting
  <2> QED BY <2>1, <2>2 DEF AloneInv
<1>9. CASE EditCp(t)
  <2>1. pc[t] = "cp" /\ pc'[t] = "rmlist" /\ list' = list
    BY <1>1, <1>9 DEF EditCp
  <2>2. temp' = list'
    BY <1>9, <2>1 DEF EditCp, KInv, BackupInv
  <2>3. Kept(Lines(list))'
    BY <1>2, <1>3, <1>4, <2>1 DEF Kept, Rewriting
  <2> QED BY <2>1, <2>2, <2>3 DEF AloneInv
<1>10. CASE EditRmList(t)
  <2>1. pc[t] = "rmlist" /\ pc'[t] = "open" /\ temp' = temp
    BY <1>1, <1>10 DEF EditRmList
  <2>2. temp = list
    BY <2>1 DEF KInv, BackupInv
  <2>3. Kept(Lines(temp))'
    BY <1>2, <1>3, <1>4, <2>1, <2>2 DEF Kept, Rewriting
  <2> QED BY <2>1, <2>3 DEF AloneInv, Rewriting
<1>11. CASE EditOpen(t)
  <2>1. pc[t] = "open" /\ pc'[t] = "copy" /\ rest'[t] = temp
    BY <1>1, <1>11 DEF EditOpen
  <2>2. Kept(Lines(temp))
    BY <2>1 DEF KInv, WindowInv
  <2>3. Kept(Lines(list) \cup Lines(rest[t]) \cup {item[t]})'
    BY <1>2, <1>3, <2>1, <2>2 DEF Kept
  <2> QED BY <2>1, <2>3 DEF AloneInv, Rewriting
<1>12. CASE EditCopy(t) /\ rest[t] # <<>>
  <2>1. /\ pc[t] = "copy" /\ pc'[t] = "copy" /\ rest'[t] = Tail(rest[t])
        /\ list' = IF Stored[Head(rest[t])] = item[t] THEN list
                   ELSE Append(list, Stored[Head(rest[t])])
    BY <1>1, <1>12 DEF EditCopy
  <2>2. Lines(rest[t]) = {Stored[Head(rest[t])]} \cup Lines(rest'[t])
    BY <1>1, <1>12, <2>1, LinesHead
  <2>3. /\ Head(rest[t]) \in Items /\ Stored[Head(rest[t])] \in Items
        /\ Stored[Stored[Head(rest[t])]] = Stored[Head(rest[t])]
    BY <1>1, <1>12, StoredAssumption
  <2>4. Lines(list) \subseteq Lines(list')
    BY <1>1, <2>1, <2>3, LinesAppend
  <2>5. Stored[Head(rest[t])] \in Lines(list') \cup {item[t]}
    BY <1>1, <2>1, <2>3, LinesAppend
  <2>6. Kept(Lines(list) \cup Lines(rest[t]) \cup {item[t]})
    BY <2>1 DEF KInv, WindowInv
  <2>7. Kept(Lines(list) \cup Lines(rest[t]) \cup {item[t]})'
    BY <1>2, <1>3, <2>1, <2>2, <2>4, <2>5, <2>6 DEF Kept
  <2> QED BY <2>1, <2>7 DEF AloneInv, Rewriting
<1>13. CASE EditCopy(t) /\ rest[t] = <<>>
  <2>1. /\ pc[t] = "copy" /\ list' = list
        /\ pc'[t] = IF t = "main" THEN "append" ELSE "release"
    BY <1>1, <1>13 DEF EditCopy, AddOrDel
  <2>2. Kept(Lines(list) \cup {item[t]})
    BY <1>13, <2>1, LinesEmpty DEF KInv, WindowInv
  <2>3. Kept(Lines(list) \cup {item[t]})'
    BY <1>2, <1>3, <2>1, <2>2 DEF Kept
  <2>4. t = "worker" => Kept(Lines(list))'
    BY <1>2, <2>3 DEF Kept
  <2> QED BY <2>1, <2>3, <2>4 DEF AloneInv, Rewriting
<1>14. CASE EditAppend(t)
  <2>1. pc[t] = "append" /\ pc'[t] = "release" /\ list' = Append(list, item[t])
    BY <1>1, <1>14 DEF EditAppend
  <2>2. Lines(list') = Lines(list) \cup {Stored[item[t]]}
    BY <1>1, <1>2, <2>1, LinesAppend
  <2>3. Kept(Lines(list) \cup {item[t]})
    BY <2>1 DEF KInv, WindowInv
  <2>4. ASSUME NEW i \in Pledged' PROVE Stored[i] \in Lines(list') \cup fetched'
    <3>1. CASE i = item[t]
      BY <2>2, <3>1
    <3>2. CASE i # item[t]
      <4>1. i \in Pledged
        BY <1>3, <3>2
      <4>2. Stored[Stored[i]] = Stored[i]
        BY <4>1, PledgedItems
      <4> QED BY <1>2, <2>2, <2>3, <4>1, <4>2 DEF Kept
    <3> QED BY <3>1, <3>2
  <2>5. Kept(Lines(list))'
    BY <2>4 DEF Kept
  <2> QED BY <2>1, <2>5 DEF AloneInv, Rewriting
<1>15. CASE EditRelease(t)
  <2>1. pc[t] = "release" /\ pc'[t] = AfterEdit(t) /\ list' = list /\ nRet' = 0
    BY <1>1, <1>15 DEF EditRelease, fileVars
  <2>2. Pledged' \subseteq Pledged
    BY <1>3, <2>1 DEF AfterEdit
  <2>3. Kept(Lines(list))'
    BY <1>2, <1>4, <2>1, <2>2 DEF Kept, Rewriting
  <2> QED BY <2>1, <2>3 DEF AloneInv, AfterEdit
<1> QED
  BY <1>6, <1>7, <1>8, <1>9, <1>10, <1>11, <1>12, <1>13, <1>14, <1>15 DEF Edit

\* An item the platform was told is accepted stays on the list, through any
\* number of requests, downloads, restarts and deaths, until the worker has
\* dealt with it (hert_util.c:938-1009), provided that the two threads do
\* not edit the list at the same time and the process does not die between
\* the removal of the file and the last line written back.  Neither can be
\* dropped: the function locks nothing, and the backup is never read again.
THEOREM KeptUnlessDisturbed ==
  Spec /\ []OneEditor /\ [][DeathSpares]_vars => []AcceptedKept
<1>1. IInv /\ KInv /\ OneEditor /\ [Next]_vars /\ [DeathSpares]_vars => KInv'
  <2> SUFFICES ASSUME IInv, KInv, OneEditor, [Next]_vars, [DeathSpares]_vars PROVE KInv'
    OBVIOUS
  <2>1. ASSUME NEW t \in Threads, Edit(t) PROVE KInv'
    BY <2>1, EditKeeps, AloneSuffices
  <2>2. CASE Killed \/ InitSemFails \/ NullClose
    <3>1. pc' # pc
      BY <2>2 DEF Killed, InitSemFails, NullClose, ProcessDies
    <3>2. DeathSpares
      BY <3>1 DEF vars, threadVars
    <3> QED BY <2>2, <3>2, DeathKeeps
  <2> QED BY <2>1, <2>2, OutsideKeeps
<1>2. KInv => AcceptedKept
  BY DEF KInv, ListInv, Kept, Pledged, Lines, AcceptedKept, OnList, InEdit, Rewriting
<1> QED
  BY InductiveInvariant, InitKInv, <1>1, <1>2, PTL DEF Spec

\* No worker, and no sign of one that has stopped.
NoMacInv == pc["worker"] = "none" /\ bStopRun # 2

\* Without a MAC there is never a worker, and nobody writes the 2 that
\* HERT_APP_UnInit waits for: a restart (hert_app.c:136, 208) stays in this
\* wait until the process dies.
THEOREM NoMacNoRestart ==
  ASSUME ~MacReadable
  PROVE  Spec => /\ []NoMacInv
                 /\ [][pc["main"] = "waitStop" => pc'["main"] \in {"waitStop", "off"}]_vars
<1> USE DEF NoMacInv, IInv, TypeOK, Goto
<1>1. Init => NoMacInv
  BY DEF Init
<1>2. ASSUME IInv, NoMacInv, [Next]_vars
      PROVE  NoMacInv' /\ (pc["main"] = "waitStop" => pc'["main"] \in {"waitStop", "off"})
  <2>1. CASE Edit("main")
    BY <1>2, <2>1, EditFrame DEF AfterEdit
  <2>2. CASE WorkerStep \/ WorkerPerform
    BY <1>2, <2>2 DEF WorkerStep, Edit, EditTest, EditBusy, EditSet, EditRmTemp,
       EditCp, EditRmList, EditOpen, EditCopy, EditAppend, EditRelease, WorkerTop,
       WorkerGet, WorkerLock, WorkerCheck, WorkerMkdir, WorkerCurl,
       WorkerPerform, WorkerSize, WorkerNotify, WorkerExit
  <2>3. CASE ProcessStart \/ HertAppInit \/ TcpConnected \/ LinkError
    BY <1>2, <2>3 DEF ProcessStart, HertAppInit, TcpConnected, LinkError, memVars
  <2>4. CASE DownLoadImgReq \/ DownLoadImgUnlock \/ DownLoadImgRsp
    BY <1>2, <2>4 DEF DownLoadImgReq, DownLoadImgUnlock, DownLoadImgRsp, memVars
  <2>5. CASE UnInitStop \/ UnInitUnlock \/ UnInitDone
    BY <1>2, <2>5 DEF UnInitStop, UnInitUnlock, UnInitDone, memVars
  <2>6. CASE Killed \/ InitSemFails \/ NullClose \/ Unplug \/ Plug
    BY <1>2, <2>6 DEF Killed, InitSemFails, NullClose, ProcessDies, Unplug, Plug,
       threadVars, memVars
  <2>7. CASE UNCHANGED vars
    BY <1>2, <2>7 DEF vars, threadVars, memVars
  <2> QED
    BY <1>2, <2>1, <2>2, <2>3, <2>4, <2>5, <2>6, <2>7 DEF Next, MainStep
<1> QED
  BY <1>1, <1>2, InductiveInvariant, PTL DEF Spec
\* While HERT_APP_UnInit waits for a worker that is downloading, nothing but
\* the return of that download or the death of the process ends the wait: the
\* exception RestartCompletes names is one the code has no way out of.
THEOREM StallHolds == Spec => [][StallStep]_vars
<1>1. IInv /\ [Next]_vars => [StallStep]_vars
  <2> SUFFICES ASSUME IInv, Next, pc["main"] = "waitStop", pc["worker"] = "perform"
               PROVE  pc' = pc \/ WorkerPerform \/ pc'["main"] = "off"
    BY DEF StallStep
  <2> USE DEF IInv, TypeOK, StopHandshake, threadVars
  <2>1. bStopRun # 2
    OBVIOUS
  <2>2. ~MainStep /\ ~TcpConnected /\ ~DownLoadImgReq /\ ~LinkError
    BY <2>1 DEF MainStep, Edit, EditTest, EditBusy, EditSet, EditRmTemp, EditCp,
       EditRmList, EditOpen, EditCopy, EditAppend, EditRelease, ProcessStart,
       HertAppInit, DownLoadImgUnlock, DownLoadImgRsp, UnInitStop, UnInitUnlock,
       UnInitDone, TcpConnected, DownLoadImgReq, LinkError
  <2>3. ~WorkerStep
    BY DEF WorkerStep, Edit, EditTest, EditBusy, EditSet, EditRmTemp, EditCp,
       EditRmList, EditOpen, EditCopy, EditAppend, EditRelease, WorkerTop,
       WorkerGet, WorkerLock, WorkerCheck, WorkerMkdir, WorkerCurl, WorkerSize,
       WorkerNotify, WorkerExit
  <2>4. CASE Killed \/ InitSemFails \/ NullClose \/ Unplug \/ Plug
    BY <2>4 DEF Killed, InitSemFails, NullClose, ProcessDies, Unplug, Plug
  <2> QED BY <2>2, <2>3, <2>4 DEF Next
<1> QED
  BY <1>1, InductiveInvariant, PTL DEF Spec

=============================================================================
