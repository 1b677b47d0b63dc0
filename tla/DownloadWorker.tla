--------------------------- MODULE DownloadWorker ---------------------------
(***************************************************************************)
(* The two threads of the process `herouteapp' that serve the platform's   *)
(* download requests, from user/busybox/herouteapp:                        *)
(*                                                                         *)
(*   "main"    main() and HERT_APP_Init/UnInit: receives a request         *)
(*             (Msg_Process_PushData_DownLoadImgReq), adds it to the file  *)
(*             /var/platDownReqList.txt, unlocks mutex_cc, answers; on a   *)
(*             socket error it stops the worker and starts over;           *)
(*   "worker"  Msg_Process_PushData_DownLoad_Thread: takes the first item  *)
(*             of the file, downloads it, removes it from the file and     *)
(*             notifies the platform; it sleeps in                         *)
(*             pthread_mutex_lock(mutex_cc) while the file is empty.       *)
(*                                                                         *)
(* mutex_cc is used as a binary semaphore: HERT_APP_Init locks it, only    *)
(* the main thread unlocks it and only the worker locks it again.          *)
(* Both threads rewrite the file with hertUtil_EditDownReqItemList, a      *)
(* sequence of shell commands, each one step here, guarded by a static int *)
(* that is tested and set without a lock.                                  *)
(*                                                                         *)
(* An item (content id, name, URL) is a value.  What sscanf reads back     *)
(* from the line written for it is Stored[i]: i itself, unless a field     *)
(* holds a blank, which cuts the line.  Incomplete are the read-back items *)
(* with an empty field, which hertUtil_GetDownReqItemList skips.           *)
(***************************************************************************)
EXTENDS Naturals, Sequences

CONSTANTS
  Items,        \* requests the platform may send
  Stored,       \* Items -> Items: an item as its line is parsed back
  NoItem,       \* the zeroed item memset leaves in a buffer
  Incomplete,   \* read-back items with an empty field
  MacReadable,  \* does hertUtil_readMac succeed in HERT_APP_Init?
  MaxReqs,      \* bound: download requests received
  MaxCrash,     \* bound: kills and failed starts of the process
  MaxUnplug     \* bound: removals of the USB storage

ASSUME StoredAssumption ==
  /\ Stored \in [Items -> Items]
  /\ \A i \in Items : Stored[Stored[i]] = Stored[i]
  /\ Incomplete \subseteq Items
  /\ NoItem \notin Items
ASSUME BoundAssumption ==
  /\ MacReadable \in BOOLEAN
  /\ MaxReqs \in Nat /\ MaxCrash \in Nat /\ MaxUnplug \in Nat

VARIABLES
  pc,         \* thread -> the statement it is about to execute
  item,       \* thread -> g_workData.downData / tDownItem of the worker
  rest,       \* thread -> lines of the temp file its edit has not copied yet
  nRetry,     \* the worker's retry count
  sizeOk,     \* hertUtil_getFileSize(szOutfilename) > 0 when last asked
  bStopRun,   \* g_workData.bStopRun: 0, 1, 2
  locked,     \* mutex_cc is locked
  nRet,       \* the static int of hertUtil_EditDownReqItemList
  list,       \* lines of /var/platDownReqList.txt; <<>>: no such file
  temp,       \* lines of ..._temp; <<>>: no such file
  sock,       \* g_session.listensock is a connected descriptor
  storage,    \* the USB storage is mounted
  accepted,   \* history: items answered with errorCode 0
  fetched,    \* history: items whose download the worker has finished with
  nReqs, nCrash, nUnplug  \* counters of the bounds

threadVars == <<pc, item, rest, nRetry, sizeOk>>
memVars    == <<bStopRun, locked, nRet>>
fileVars   == <<list, temp>>
envVars    == <<storage, nReqs, nCrash, nUnplug>>
history    == <<accepted, fetched>>
vars == <<threadVars, memVars, fileVars, sock, envVars, history>>

Threads == {"main", "worker"}
AddOrDel(t) == t = "main"   \* bAddorDel: main adds, the worker deletes

\* Labels inside hertUtil_EditDownReqItemList and its two retrying callers.
Waiting == {"test", "busy"}
Editing == {"set", "rmtemp", "cp", "rmlist", "open", "copy", "append", "release"}
MainLabels == {"off", "init", "tcpinit", "loop", "unlock", "reply",
               "stop", "unlockStop", "waitStop"} \cup Waiting \cup Editing
WorkerLabels == {"none", "top", "get1", "lock", "get2", "check", "mkdir",
                 "curl", "perform", "size", "notify", "exit"} \cup Waiting \cup Editing

TypeOK ==
  /\ pc \in [Threads -> MainLabels \cup WorkerLabels]
  /\ pc["main"] \in MainLabels
  /\ pc["worker"] \in WorkerLabels
  /\ item \in [Threads -> Items \cup {NoItem}]
  /\ rest \in [Threads -> Seq(Items)]
  /\ nRetry \in 0 .. 3
  /\ sizeOk \in BOOLEAN
  /\ bStopRun \in 0 .. 2
  /\ locked \in BOOLEAN
  /\ nRet \in 0 .. 2
  /\ list \in Seq(Items) /\ temp \in Seq(Items)
  /\ sock \in BOOLEAN /\ storage \in BOOLEAN
  /\ accepted \in SUBSET Items /\ fetched \in SUBSET Items
  /\ nReqs \in 0 .. MaxReqs
  /\ nCrash \in 0 .. MaxCrash
  /\ nUnplug \in 0 .. MaxUnplug

\* The process is not running yet; hertMonitor will start it.
Init ==
  /\ pc = [t \in Threads |-> IF t = "main" THEN "off" ELSE "none"]
  /\ item = [t \in Threads |-> NoItem]
  /\ rest = [t \in Threads |-> <<>>]
  /\ nRetry = 0 /\ sizeOk = FALSE
  /\ bStopRun = 0 /\ locked = FALSE /\ nRet = 1
  /\ list = <<>> /\ temp = <<>>
  /\ sock = FALSE /\ storage = TRUE
  /\ accepted = {} /\ fetched = {}
  /\ nReqs = 0 /\ nCrash = 0 /\ nUnplug = 0

Goto(t, l) == pc' = [pc EXCEPT ![t] = l]

\* The line hertUtil_GetDownReqItemList returns is the first complete one.
IsFirst(k) == /\ k \in 1 .. Len(list)
              /\ Stored[list[k]] \notin Incomplete
              /\ \A j \in 1 .. k-1 : Stored[list[j]] \in Incomplete
HasWork == \E k \in 1 .. Len(list) : Stored[list[k]] \notin Incomplete
-----------------------------------------------------------------------------
(* hertUtil_EditDownReqItemList, executed by either thread.                *)

\* 2 == nRet ?  The test and the assignment that follows it are two steps.
EditTest(t) ==
  /\ pc[t] = "test"
  /\ Goto(t, IF nRet = 2 THEN "busy" ELSE "set")
  /\ UNCHANGED <<item, rest, nRetry, sizeOk, memVars, fileVars, sock, envVars, history>>

\* Mutant: the caller of the edit forgets to unlock mutex_cc.
AfterEditNoUnlock(t) == IF t = "main" THEN "reply" ELSE "notify"

AfterEdit(t) == IF t = "main" THEN "unlock" ELSE "notify"

\* "Still process...": after the log call `return nRet' reads the static
\* again; the caller sleeps and tries again only if it is still 2.
EditBusy(t) ==
  /\ pc[t] = "busy"
  /\ Goto(t, IF nRet = 2 THEN "test" ELSE AfterEdit(t))
  /\ UNCHANGED <<item, rest, nRetry, sizeOk, memVars, fileVars, sock, envVars, history>>

EditSet(t) ==
  /\ pc[t] = "set"
  /\ nRet' = 2
  /\ Goto(t, "rmtemp")
  /\ UNCHANGED <<item, rest, nRetry, sizeOk, bStopRun, locked, fileVars, sock, envVars, history>>

EditRmTemp(t) ==
  /\ pc[t] = "rmtemp"
  /\ temp' = <<>>
  /\ Goto(t, "cp")
  /\ UNCHANGED <<item, rest, nRetry, sizeOk, memVars, list, sock, envVars, history>>

\* cp fails, and leaves the temp file as it is, when there is no list file.
EditCp(t) ==
  /\ pc[t] = "cp"
  /\ temp' = IF list = <<>> THEN temp ELSE list
  /\ Goto(t, "rmlist")
  /\ UNCHANGED <<item, rest, nRetry, sizeOk, memVars, list, sock, envVars, history>>

EditRmList(t) ==
  /\ pc[t] = "rmlist"
  /\ list' = <<>>
  /\ Goto(t, "open")
  /\ UNCHANGED <<item, rest, nRetry, sizeOk, memVars, temp, sock, envVars, history>>

\* fopen and the first fgets fill the stdio buffer with the whole file.
EditOpen(t) ==
  /\ pc[t] = "open"
  /\ rest' = [rest EXCEPT ![t] = temp]
  /\ Goto(t, "copy")
  /\ UNCHANGED <<item, nRetry, sizeOk, memVars, fileVars, sock, envVars, history>>

\* Mutant: the edited item is copied like every other line.
EditCopyKeepsItem(t) ==
  /\ pc[t] = "copy"
  /\ \/ /\ rest[t] # <<>>
        /\ rest' = [rest EXCEPT ![t] = Tail(rest[t])]
        /\ list' = Append(list, Stored[Head(rest[t])])
        /\ UNCHANGED pc
     \/ /\ rest[t] = <<>>
        /\ Goto(t, IF AddOrDel(t) THEN "append" ELSE "release")
        /\ UNCHANGED <<rest, list>>
  /\ UNCHANGED <<item, nRetry, sizeOk, memVars, temp, sock, envVars, history>>

\* One line: dropped if it is the edited item, else written as it was parsed.
EditCopy(t) ==
  /\ pc[t] = "copy"
  /\ \/ /\ rest[t] # <<>>
        /\ rest' = [rest EXCEPT ![t] = Tail(rest[t])]
        /\ LET line == Stored[Head(rest[t])]
           IN  list' = IF line = item[t] THEN list ELSE Append(list, line)
        /\ UNCHANGED pc
     \/ /\ rest[t] = <<>>
        /\ Goto(t, IF AddOrDel(t) THEN "append" ELSE "release")
        /\ UNCHANGED <<rest, list>>
  /\ UNCHANGED <<item, nRetry, sizeOk, memVars, temp, sock, envVars, history>>

EditAppend(t) ==
  /\ pc[t] = "append"
  /\ list' = Append(list, item[t])
  /\ Goto(t, "release")
  /\ UNCHANGED <<item, rest, nRetry, sizeOk, memVars, temp, sock, envVars, history>>

EditRelease(t) ==
  /\ pc[t] = "release"
  /\ nRet' = 0
  /\ Goto(t, AfterEdit(t))
  /\ UNCHANGED <<item, rest, nRetry, sizeOk, bStopRun, locked, fileVars, sock, envVars, history>>

Edit(t) ==
  \/ EditTest(t) \/ EditBusy(t) \/ EditSet(t) \/ EditRmTemp(t) \/ EditCp(t)
  \/ EditRmList(t) \/ EditOpen(t) \/ EditCopy(t) \/ EditAppend(t) \/ EditRelease(t)
-----------------------------------------------------------------------------
(* The main thread.                                                        *)

\* hertMonitor finds no herouteapp process and starts one.
ProcessStart ==
  /\ pc["main"] = "off"
  /\ Goto("main", "init")
  /\ UNCHANGED <<item, rest, nRetry, sizeOk, memVars, fileVars, sock, envVars, history>>

\* HERT_APP_Init: g_workData and g_session are cleared.  Without a MAC it
\* returns RETCODE_SUCCESS there and then, with no worker; otherwise it locks
\* mutex_cc and starts the worker.
HertAppInit ==
  /\ pc["main"] = "init"
  /\ bStopRun' = 0
  /\ sock' = FALSE
  /\ item' = [item EXCEPT !["main"] = NoItem]
  /\ locked' = MacReadable
  /\ pc' = IF MacReadable
             THEN [pc EXCEPT !["main"] = "tcpinit", !["worker"] = "top"]
             ELSE [pc EXCEPT !["main"] = "tcpinit"]
  /\ UNCHANGED <<rest, nRetry, sizeOk, nRet, fileVars, envVars, history>>

\* HERT_TCP_Init succeeds (a failed attempt sleeps 5 s and changes nothing).
TcpConnected ==
  /\ pc["main"] = "tcpinit"
  /\ sock' = TRUE
  /\ Goto("main", "loop")
  /\ UNCHANGED <<item, rest, nRetry, sizeOk, memVars, fileVars, envVars, history>>

\* A MSG_DOWNLOAD_IMG_REQ.  Without storage it is answered with errorCode 1;
\* the send may report a socket error, which main() turns into a restart.
DownLoadImgReq ==
  /\ pc["main"] = "loop"
  /\ nReqs < MaxReqs
  /\ nReqs' = nReqs + 1
  /\ \/ /\ ~storage
        /\ \/ UNCHANGED pc
           \/ Goto("main", "stop")
        /\ UNCHANGED item
     \/ /\ storage
        /\ \E i \in Items : item' = [item EXCEPT !["main"] = i]
        /\ Goto("main", "test")
  /\ UNCHANGED <<rest, nRetry, sizeOk, memVars, fileVars, sock, storage, nCrash, nUnplug, history>>

DownLoadImgUnlock ==
  /\ pc["main"] = "unlock"
  /\ locked' = FALSE
  /\ Goto("main", "reply")
  /\ UNCHANGED <<item, rest, nRetry, sizeOk, bStopRun, nRet, fileVars, sock, envVars, history>>

\* Build_Msg_DownloadRsq and the send: errorCode 0 was left from memset.
\* (downData is not used again before the next request; it is cleared.)
DownLoadImgRsp ==
  /\ pc["main"] = "reply"
  /\ item' = [item EXCEPT !["main"] = NoItem]
  /\ \/ /\ accepted' = accepted \cup {item["main"]}
        /\ Goto("main", "loop")
     \/ /\ Goto("main", "stop")
        /\ UNCHANGED accepted
  /\ UNCHANGED <<rest, nRetry, sizeOk, memVars, fileVars, sock, envVars, fetched>>

\* Some other exchange with the platform fails while the WAN has an address.
LinkError ==
  /\ pc["main"] = "loop"
  /\ Goto("main", "stop")
  /\ UNCHANGED <<item, rest, nRetry, sizeOk, memVars, fileVars, sock, envVars, history>>

\* Mutant: the socket is closed before the worker has stopped.
UnInitStopClosesFirst ==
  /\ pc["main"] = "stop"
  /\ bStopRun' = 1
  /\ sock' = FALSE
  /\ Goto("main", "unlockStop")
  /\ UNCHANGED <<item, rest, nRetry, sizeOk, locked, nRet, fileVars, envVars, history>>

\* HERT_APP_UnInit: raise the stop flag ...
UnInitStop ==
  /\ pc["main"] = "stop"
  /\ bStopRun' = 1
  /\ Goto("main", "unlockStop")
  /\ UNCHANGED <<item, rest, nRetry, sizeOk, locked, nRet, fileVars, sock, envVars, history>>

\* Mutant: the mutex is destroyed without being unlocked.
UnInitNoUnlock ==
  /\ pc["main"] = "unlockStop"
  /\ Goto("main", "waitStop")
  /\ UNCHANGED <<item, rest, nRetry, sizeOk, memVars, fileVars, sock, envVars, history>>

\* ... unlock and destroy the mutex (destroying an unlocked mutex does not
\* change it, so that a later lock still succeeds) ...
UnInitUnlock ==
  /\ pc["main"] = "unlockStop"
  /\ locked' = FALSE
  /\ Goto("main", "waitStop")
  /\ UNCHANGED <<item, rest, nRetry, sizeOk, bStopRun, nRet, fileVars, sock, envVars, history>>

\* Mutant: the restart does not wait for the worker.
UnInitNoWait ==
  /\ pc["main"] = "waitStop"
  /\ sock' = FALSE
  /\ Goto("main", "init")
  /\ UNCHANGED <<item, rest, nRetry, sizeOk, memVars, fileVars, envVars, history>>

\* ... wait for the worker's 2, close the socket, `goto hert_restart'.
UnInitDone ==
  /\ pc["main"] = "waitStop"
  /\ bStopRun = 2
  /\ sock' = FALSE
  /\ Goto("main", "init")
  /\ UNCHANGED <<item, rest, nRetry, sizeOk, memVars, fileVars, envVars, history>>

MainStep ==
  \/ Edit("main") \/ ProcessStart \/ HertAppInit \/ DownLoadImgUnlock
  \/ DownLoadImgRsp \/ UnInitStop \/ UnInitUnlock \/ UnInitDone
-----------------------------------------------------------------------------
(* The worker thread.                                                      *)

WorkerTop ==
  /\ pc["worker"] = "top"
  /\ Goto("worker", IF bStopRun = 0 THEN "get1" ELSE "exit")
  /\ item' = [item EXCEPT !["worker"] = NoItem]
  /\ UNCHANGED <<rest, nRetry, sizeOk, memVars, fileVars, sock, envVars, history>>

\* hertUtil_GetDownReqItemList, before (get1) and after (get2) the lock.
WorkerGet(label, none) ==
  /\ pc["worker"] = label
  /\ \/ /\ ~HasWork
        /\ Goto("worker", none)
        /\ UNCHANGED item
     \/ \E k \in 1 .. Len(list) :
          /\ IsFirst(k)
          /\ item' = [item EXCEPT !["worker"] = Stored[list[k]]]
          /\ Goto("worker", "check")
  /\ UNCHANGED <<rest, nRetry, sizeOk, memVars, fileVars, sock, envVars, history>>

WorkerLock ==
  /\ pc["worker"] = "lock"
  /\ ~locked
  /\ locked' = TRUE
  /\ Goto("worker", "get2")
  /\ UNCHANGED <<item, rest, nRetry, sizeOk, bStopRun, nRet, fileVars, sock, envVars, history>>

WorkerCheck ==
  /\ pc["worker"] = "check"
  /\ Goto("worker", IF bStopRun = 0 THEN "mkdir" ELSE "exit")
  /\ nRetry' = 0
  /\ sizeOk' = FALSE
  /\ UNCHANGED <<item, rest, memVars, fileVars, sock, envVars, history>>

\* hertUtil_createDirIfNoExist writes and reads back a test file.
WorkerMkdir ==
  /\ pc["worker"] = "mkdir"
  /\ Goto("worker", IF storage THEN "curl" ELSE "top")
  /\ UNCHANGED <<item, rest, nRetry, sizeOk, memVars, fileVars, sock, envVars, history>>

\* What hertUtil_getFileSize may find afterwards: a file that is empty or
\* not (an older download of that name included), none without storage.
SizeFound == sizeOk' \in IF storage THEN BOOLEAN ELSE {FALSE}

\* DoDownLoad: curl_easy_init and fopen.  Without a curl handle nothing is
\* downloaded and the size is asked at once.  Without storage fopen returns
\* NULL and fclose(NULL) kills the process: that is NullClose below.
WorkerCurl ==
  /\ pc["worker"] = "curl"
  /\ \/ /\ SizeFound
        /\ Goto("worker", "size")
     \/ /\ storage
        /\ Goto("worker", "perform")
        /\ UNCHANGED sizeOk
  /\ UNCHANGED <<item, rest, nRetry, memVars, fileVars, sock, envVars, history>>

\* curl_easy_perform returns, well or with an error.  It has no time limit:
\* on a connection that has gone silent it need not return at all.
WorkerPerform ==
  /\ pc["worker"] = "perform"
  /\ SizeFound
  /\ Goto("worker", "size")
  /\ UNCHANGED <<item, rest, nRetry, memVars, fileVars, sock, envVars, history>>

\* Mutant: the retry count is compared before it is incremented.
WorkerSizeExtraRetry ==
  /\ pc["worker"] = "size"
  /\ \/ /\ ~sizeOk
        /\ nRetry <= 3
        /\ nRetry' = nRetry + 1
        /\ Goto("worker", "curl")
        /\ UNCHANGED fetched
     \/ /\ sizeOk \/ nRetry > 3
        /\ nRetry' = 0
        /\ Goto("worker", "test")
        /\ fetched' = fetched \cup {item["worker"]}
  /\ UNCHANGED <<item, rest, sizeOk, memVars, fileVars, sock, envVars, accepted>>

\* An empty file is downloaded again, three times at most; then the item
\* counts as done either way (nRetry is dead from there on and is cleared).
WorkerSize ==
  /\ pc["worker"] = "size"
  /\ \/ /\ ~sizeOk
        /\ nRetry + 1 <= 3
        /\ nRetry' = nRetry + 1
        /\ Goto("worker", "curl")
        /\ UNCHANGED fetched
     \/ /\ sizeOk \/ nRetry + 1 > 3
        /\ nRetry' = 0
        /\ Goto("worker", "test")
        /\ fetched' = fetched \cup {item["worker"]}
  /\ UNCHANGED <<item, rest, sizeOk, memVars, fileVars, sock, envVars, accepted>>

\* Msg_Process_PushData_DoDownloadCompReq; its return code is ignored.  The
\* locals of this round are dead from here on and are cleared.
WorkerNotify ==
  /\ pc["worker"] = "notify"
  /\ Goto("worker", "top")
  /\ sizeOk' = FALSE
  /\ UNCHANGED <<item, rest, nRetry, memVars, fileVars, sock, envVars, history>>

WorkerExit ==
  /\ pc["worker"] = "exit"
  /\ bStopRun' = 2
  /\ Goto("worker", "none")
  /\ UNCHANGED <<item, rest, nRetry, sizeOk, locked, nRet, fileVars, sock, envVars, history>>

WorkerStep ==
  \/ Edit("worker") \/ WorkerTop
  \/ WorkerGet("get1", "lock") \/ WorkerGet("get2", "top")
  \/ WorkerLock \/ WorkerCheck \/ WorkerMkdir \/ WorkerCurl \/ WorkerSize
  \/ WorkerNotify \/ WorkerExit
-----------------------------------------------------------------------------
(* The environment.                                                        *)

\* The process dies: both threads, the statics and the descriptors are gone,
\* the files under /var stay.
ProcessDies ==
  /\ pc' = [t \in Threads |-> IF t = "main" THEN "off" ELSE "none"]
  /\ rest' = [t \in Threads |-> <<>>]
  /\ bStopRun' = 0 /\ locked' = FALSE /\ nRet' = 1
  /\ sock' = FALSE
  /\ item' = [t \in Threads |-> NoItem]
  /\ nRetry' = 0 /\ sizeOk' = FALSE
  /\ UNCHANGED <<fileVars, storage, nReqs, nUnplug, history>>

\* A signal (HERT_APP_OnSignal, SIGPIPE, kill) ends a running process.
Killed ==
  /\ pc["main"] # "off"
  /\ nCrash < MaxCrash
  /\ nCrash' = nCrash + 1
  /\ ProcessDies

\* hertUtil_InitSem cannot open the switch device: main() returns -1.
InitSemFails ==
  /\ pc["main"] = "init"
  /\ MacReadable
  /\ nCrash < MaxCrash
  /\ nCrash' = nCrash + 1
  /\ ProcessDies

\* fopen failed: fflush, fsync and fclose are applied to a null FILE*.
NullClose ==
  /\ pc["worker"] = "curl"
  /\ ~storage
  /\ ProcessDies
  /\ UNCHANGED nCrash

Unplug ==
  /\ storage
  /\ nUnplug < MaxUnplug
  /\ nUnplug' = nUnplug + 1
  /\ storage' = FALSE
  /\ UNCHANGED <<threadVars, memVars, fileVars, sock, nReqs, nCrash, history>>

Plug ==
  /\ ~storage
  /\ storage' = TRUE
  /\ UNCHANGED <<threadVars, memVars, fileVars, sock, nReqs, nCrash, nUnplug, history>>

Next ==
  \/ MainStep \/ TcpConnected \/ DownLoadImgReq \/ LinkError
  \/ WorkerStep \/ WorkerPerform
  \/ Killed \/ InitSemFails \/ NullClose \/ Unplug \/ Plug

Spec == Init /\ [][Next]_vars

\* Both threads keep being scheduled, and a removed storage is plugged in
\* again.  WorkerPerform is in no fairness condition: nothing is assumed of
\* the platform or of the network, and a download may never return.
FairSpec == Spec /\ WF_vars(MainStep) /\ WF_vars(WorkerStep \/ NullClose) /\ WF_vars(Plug)
-----------------------------------------------------------------------------
(* Properties.                                                             *)

InEdit(t) == pc[t] \in Editing

\* Between the receipt of a request and the unlock that announces it.
Adding == pc["main"] \in Waiting \cup Editing \cup {"unlock"}

\* No wake-up is lost: when the worker sleeps on a locked mutex_cc and the
\* main thread is not on its way to unlock it, the list holds nothing to
\* download - whatever the two threads' edits of the file did to each other.
NoLostWakeup ==
  pc["worker"] = "lock" /\ locked /\ HasWork => Adding

\* HERT_APP_Init clears g_workData (the mutex, the stop flag) and starts a
\* worker only when the previous worker is gone: HERT_APP_UnInit's wait for
\* bStopRun = 2 really joins it.
InitWithoutWorker ==
  pc["main"] \in {"off", "init"} => pc["worker"] = "none"

\* The descriptor is closed (UnInit) and reopened only while no worker lives,
\* so that a worker's notification can meet a closed descriptor only before
\* the first connection is up.
SocketOutlivesWorker ==
  [][sock /\ ~sock' => pc'["worker"] = "none"]_vars

\* HERT_APP_UnInit and the worker never wait for each other: while the main
\* thread waits for the 2 in bStopRun, it is there, or there is a worker to
\* write it, which has seen or will see the 1 and does not sleep on the mutex.
StopIsHeard ==
  pc["main"] = "waitStop" =>
    \/ bStopRun = 2
    \/ /\ bStopRun = 1 /\ pc["worker"] # "none"
       /\ ~(pc["worker"] = "lock" /\ locked)

\* No download hangs for ever in curl_easy_perform.
CurlReturns == []<>(pc["worker"] # "perform")

\* HERT_APP_UnInit returns: a restart requested by main() always reaches
\* HERT_APP_Init again, when the worker is editing the list or asleep on the
\* mutex, and also when it is downloading - unless that download never
\* returns, for which UnInit waits without a limit (StallHolds).
RestartCompletes ==
  CurlReturns => (pc["main"] = "stop" ~> pc["main"] \in {"init", "off"})

\* Every complete line of the list is taken out of it in the end, also after
\* failed downloads, restarts and deaths of the process: once the link errors
\* that restart the threads cease, and unless a download hangs for ever, the
\* worker ends up with nothing to do.  (An endless series of restarts can
\* starve it: each one stops the worker before its download.)
ListDrains ==
  CurlReturns /\ <>[](pc["main"] # "stop") => <>[]~HasWork

\* While UnInit waits and the worker hangs in curl_easy_perform, the only
\* ways on are the return of the download and the death of the process: no
\* step of main() ends the wait.
StallStep ==
  pc["main"] = "waitStop" /\ pc["worker"] = "perform" =>
    \/ pc' = pc
    \/ WorkerPerform
    \/ pc'["main"] = "off"

\* The lines an item accepted by the main thread may be found in.
OnList(i) == \E k \in 1 .. Len(list) : Stored[list[k]] = Stored[i]

\* hert_util.c:971 "backup saved list items": an edit keeps the items it is
\* not about, so that an item answered with errorCode 0 is on the list, or
\* the worker has dealt with it, whenever nobody edits the file.
AcceptedKept ==
  (\A t \in Threads : ~InEdit(t)) =>
    \A i \in accepted : OnList(i) \/ Stored[i] \in fetched
=============================================================================
