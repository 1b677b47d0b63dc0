# Herouter: a TLA+ model of the router's own services

The repository is the firmware of a home router on the Ralink/MediaTek SDK. Most
of it is vendored (kernel, busybox, curl, dnsmasq, the SDK's drivers and
tools). What is this product's own, and what this project is about, lives in

- `user/busybox/herouteapp/`: the programs **herouteapp** (the device's session
  with the operator's platform) and **hertMonitor** (the watchdog),
- `user/busybox/dnsmasq-2.40/goahead/`: the web server **goahead** with the
  product's handlers and its status thread,
- `user/busybox/rt2880_app/nvram/`, `lib/libnvram/`: the configuration and
  the programs that reset it,
- what has been added to `user/busybox/tcpdump-4.5.1/` to observe the LAN.

Paths below are relative to `src/`; `hert_*.c` and `hertMonitor.c` are in
`user/busybox/herouteapp/`, `goahead.c`, `herouter.c`, `cgi.c`, `management.c` in
`goahead/src/`, `upload.cgi.c`, `upload_settings.cgi.c` in `goahead/cgi-src/`.

## 1. Inventory

| Component | State | Operations | Talks to |
|---|---|---|---|
| Platform session (`hert_app.c`, `hert_tcp.c`) | `g_session` (socket, remembered WAN address), `g_workData` (registered?, init data, device name, timers), `nRecvZeroCount` | connect, register, init data, heartbeat, report of a new name, restart after errors | platform over TCP; worker thread; hertMonitor restarts it |
| Download worker (`hert_app.c`, `hert_util.c`) | list file `/var/platDownReqList.txt` and its temp file, mutex `mutex_cc`, `bStopRun`, static `nRet` | accept a request, edit the list, download with curl, notify, stop and join | main thread through mutex and files; USB storage |
| Message codec (`hert_msg.c`) | none | write and read the length field, format and parse JSON bodies | session |
| Dispatch of pushed requests (`hert_app.c`) | position in the receive buffer | cut a segment into messages, call the handler of each | session, all handlers |
| hertMonitor (`hertMonitor.c`, `hert_util.c`) | `g_nRunCount`, round counters, `/var/hertmtrst`, `/var/rstgoahead` | restart goahead, dnsmasq, proftpd, pppd, herouteapp; notice that its own main() hangs | goahead's status thread through files; everybody through `ps`, `killall` |
| WAN status (`hertMonitor.c`, `hert_tcp.c`, `goahead.c`) | `/var/needping`, `/var/webspingsts`, `szOldWanIp`, the check's session, `nHostPingCount`, `nFirstPingNum` | check whether the Internet is reachable, report it | two processes through two files |
| LAN client list (`hertMonitor.c`) | the DHCP lease file | filter it by who answers | DHCP server |
| Firmware upgrade (`hert_app.c`, `herouter.c`, `goahead.c`, `cgi.c`, `upload.cgi.c`) | `g_upgradeState`, `/var/downloadnow`, `/var/fmdownresult`, `/var/imgfile`, `/var/upgraderesult`, `HE_ROUTE_VER`, `HE_ROUTE_UPIMAG` | request, download, poll, check, write the flash, reboot | browser, two threads of goahead, herouteapp, `upload.cgi` processes, through files |
| Tracking of devices (`hert_app.c`, `hert_com.c`, tcpdump) | `macList`, `tcpdump_pid`, tcpdump's list of flows, a System V queue | start tcpdump, compare device lists, ask, answer, report | herouteapp and tcpdump through the queue and SIGUSR2; the wireless driver |
| Daily report (`hert_app.c`) | minute of the report, mark of the last one | derive the minute from the name, report | session |
| nvram (`nvram_daemon.c`, `ralink_init.c`, `nvram_env.c`, `management.c`, `upload_settings.cgi.c`) | the kernel's copy and the flash of each block; a cache of names per process | set, commit, clear, renew from a file, reset by button or form, import, load the defaults at boot | every process |
| Web handlers (`herouter.c`, `heroute_util.c`) | nvram values | read and write settings | browser, nvram |
| Ping, DES, readers of status | none | - | - |

What makes it hard: two threads in herouteapp and two in hertMonitor share
globals, static locals and temporary files without locks; processes talk
through files that are removed, copied and rewritten by shell commands; TCP may
be interrupted without notice, break, or deliver any part of the stream; the
WAN address changes; processes die and are restarted by each other; and each
restart has to forget exactly what belongs to the old connection or process.
The hazards, each at its line, are in `PROJECT.json`.

What correctness means, per component:

- *Session*: what it believes about its registration was learned on the present
  connection; it gets back to a registered, initialised session after anything
  that may break; the platform knows the current name.
- *Worker*: no request is forgotten by a sleeping worker; a restart really
  joins the worker before it clears what the worker uses; the list is worked off.
- *Codec, dispatch*: a length is read as it was written; every complete message
  of a segment is handled and no partial one.
- *hertMonitor*: whatever dies comes back; nothing healthy is shot.
- *WAN status*: what is shown becomes true, and stays true.
- *Upgrade*: a result is that of this download; what is written is what was
  checked; nothing is recorded that did not happen; every request and every
  upgrade ends.
- *Tracking*: a departure is reported once; tcpdump is found again.
- *Daily report*: at most one a day, in its window.
- *nvram*: the serial number survives a reset; a block taken for initialised is
  complete; the device ends up usable.
- *LAN client list*: a lease is not lost. (Not modelled.)

## 2. Modules

| Module | Stands for | Checked by | Proved in |
|---|---|---|---|
| `DownloadWorker` | both threads of herouteapp around the download list | `download`, `download_accepted_kept` | `DownloadWorkerProofs` |
| `RegistrationPhases` | abstract: what the session promises | as property `PassesPhases` | `HertSessionProofs` |
| `HertSession` | main() of herouteapp, TCP, platform | `session`, `session_stale_bind`, `session_granted` | `HertSessionProofs` |
| `MsgLength` | the length field, against the protocol's definition | through `PushFraming` | `PushFramingProofs` |
| `PushFraming` | the loop that cuts a segment into messages | `framing_short`, `framing_two_requests` | `PushFramingProofs` |
| `Watchdog` | main() of hertMonitor, the supervising half of its ping thread, goahead's restart of hertMonitor | `watchdog` | `WatchdogProofs` |
| `WanStatus` | the checking half of the ping thread, goahead's status round | `wan_status` | `ReportingProofs` |
| `Upgrade` | goahead's two threads, herouteapp's download, `upload.cgi` | `upgrade` | `UpgradeProofs` |
| `NvramReset` | who empties and refills the configuration, and the power | `nvram_reset` | `NvramResetProofs` |
| `Departures` | abstract: what the tracking of devices promises | as property `ImplementsDepartures` | `DeviceTrackingProofs` |
| `DeviceTracking` | second half of a round of herouteapp, tcpdump, their queue | `device_tracking` | `DeviceTrackingProofs` |
| `DailyReport` | the minute of the report and its mark | - | `ReportingProofs` |

`MC...` modules give the constants their values. `PushFraming` is composed from
`MsgLength`; `HertSession` is shown to implement
`RegistrationPhases`, `DeviceTracking` to implement `Departures`; the restart
of herouteapp by hertMonitor is an action of every module with herouteapp in it, the
restart of hertMonitor an action of `WanStatus`, that of goahead one of `Upgrade`. In the modules, an
operator commented as a slip or a mutant is a wrong variant of the definition
behind it; it is used only to see that a property can fail.

### DownloadWorker

`pc["main"]`, `pc["worker"]` are the statements the threads are about to
execute. `mutex_cc` is a pthread mutex used as a binary semaphore: the main
thread unlocks it, the worker locks it. `hertUtil_EditDownReqItemList` is eight
steps (`EditTest` ... `EditRelease`), one per shell command or file access,
because the static `nRet` that guards it is tested and set without a lock. The
copy of the temp file is one line per step; stdio has read the temp file, which
is smaller than its buffer, as a whole by then. An item is a value; `Stored` says
what `sscanf` reads back from the line written for it (a blank in a field cuts
it), `Incomplete` which lines are never taken for a download. A caller that
finds `nRet = 2` logs and returns `nRet`, read again (`hert_util.c:945`), hence
`EditTest` and `EditBusy`; the `return nRet` of line 1008 always yields 0 in
the model, since the same thread has just set it.
`pthread_mutex_destroy` has no effect on this platform. Locals that are dead are
reset, to keep states together. Killing the process (`Killed`), a failed start
and the storage's removal are actions of the environment; a removed storage
makes `fopen` fail and the process die in `fflush(NULL-file)` (`NullClose`).
`curl_easy_perform` (`WorkerPerform`) is a step of its own: the code gives it no time
limit, so that it need not come. Without a curl handle the worker goes straight to the
size of the file (`WorkerCurl`).

### HertSession

`pc` is main(): `init` (HERT_APP_Init), `connect` (HERT_TCP_Init in its retry
loop), `select`, `internel` (Msg_Process_Internel after a timeout of select),
`killed`. `link` is the connection: up; *silent* (interrupted, nothing to
retransmit, so that nobody will notice); *stuck* (interrupted and
retransmitting); *dead* (known to be broken). `asked` and `platName` contain what
TCP has carried or will carry to the platform. A send on a dead connection
raises SIGPIPE, which ends the process; hertMonitor starts it again
(`MonitorStart`). Static variables and locals survive exactly the `goto`s they
survive in C. Every receive returns one message here; several in one
segment are the subject of `PushFraming`. HERT_APP_UnInit is a single step: that it
returns, unless a download hangs, is what `DownloadWorker` shows, and
`ReconnectsUnlessLockedOut` takes it from there; HERT_APP_Init's failures and
signals are there as well. What Msg_Process_Internel does after the name report is
the subject of `Upgrade`, `DeviceTracking` and `DailyReport`; none of it changes
the state of this module other than by a failed send, which is here for
every message. A device the platform has refused never asks again (`Registers`).

### MsgLength, PushFraming

`SetMsgLengthItem` builds the bytes of the length field, `ParseMsgData` reads
them, with C's logical `&&` where the bitwise `&` was meant. `FieldLen` and
`FieldValue` define what the protocol wants. Lengths of 16384 and more are encoded wrongly too, but no
buffer of the program holds such a message. `PushFraming` follows main() from recv() into
Msg_Process_PushData: `seg` has, for each message the platform has sent since the last
recv(), where it begins, what its length field says (0 for a PING_RESP, which is a header
alone), and whether it contains a `msgType`; `cut` bytes of the last one are missing. Nothing
is kept of the part that has arrived, and the missing bytes head the next segment (`lead`,
set by `Select`) unless the connection is made again (`Reconnect`). `Entry` is what
Msg_Process_Entry makes of the first byte: behind a cut it may be of any type. recv() is asked
for `RecvMax` (2400) bytes and the buffer has `BufLen` (1204): a larger segment ends in
`pc = "undefined"`, from which the process goes on or dies. `ptMsg` and `nMsgDataLen` are those of the
code, counted from the beginning of the segment. A pass of the loop ends in one of
four ways: too little is left for what the length claims (`DataMissed`), no
`msgType` is found (`TypeMissed`), the message is handled and the loop goes on behind it
(`HandleAndGoOn`) or not (`HandleLast`). Where `ptMsg` is not at a message (`Misaligned`),
the claimed length is any of `Garbage`, and what is found there any type or none. The type is searched in
all the rest of the segment, so that a message without one passes for the type of the next (`TypeFound`).

### Watchdog

`main` and `ping` are the next steps of hertMonitor's threads, `status` that of
goahead's status thread. Each watched service is one step of main(), a restart
of goahead two (kill, start), so that the other thread gets in between. The
literals of the code (10 checks, 10 busy looks, 5 rounds, 15 of 30, 30, 10000)
are constants. `drift` counts rounds of main() since the last check or checks
since the last round; both threads sleep 3 seconds a round, so that neither
overtakes the other by more than `MaxLead`, `MaxLag` while main() is not blocked.
The model knows whether a goahead runs, which is what `ps` says, not how many do.
Left out: the debugging switches (`/var/norungoahead`, `/var/nopingthread`), and
goahead's count of hertMonitor processes, since there is never more than one here.
hertMonitor itself is restarted only on request: its death is not repaired by
anybody, and is not an event of the model.

### WanStatus

The ping thread's steps are `WanRound` (is a check due?), `WriteStatus`,
`LookAtAddress`, `InitForNewAddress` and `CheckNewAddress`. The address is read
twice, by `LookAtAddress` and by `InitForNewAddress`. `UpWebSiteReachable` keeps
the counters that skip checks; `CheckConnectTimeOut` gives the result, with its
peculiarity that looking up an unresolved server is taken for a check. The
counter `nWanCount` is only compared with `nWanTimes`, and kept from
growing beyond it. `nWanTimes` may have one of several values: the thread reads it
through a temp file that main() uses at the same moment. goahead's `StatusRound` is three
steps: `StatusLook` at port and address, which also empties `/var/needping`, `StatusEcho`, which
fills it, and `StatusRead`. The other file is emptied by `WriteStatus` and filled by `FillStatus`: `echo X > file`
truncates before it writes, and a reader in between (`TornRead`) sees neither value: hertMonitor
then counts a failed check, goahead a failed status.

### Upgrade

`web` is the web thread, which serves one request at a time; `status` is
DoUpgrade in the status thread; `cgi` are the `upload.cgi` processes, that of
DoUpgrade (`child`) and those a browser starts; `app` is
Msg_Process_Internel_DownloadForUpgrade. Every shell command that touches a file
is a step of its own. An image is *good* (check() accepts it), *part* or *empty*;
the flash is *old*, *new*, or *bad* while it is written and after two writers, or a
writer and herouteapp's `fopen(, "wb")`, have met (`clash`). The two
ways to ask, websHertAppPro_RouteUpgrade and the form `upload.cgiauto`, differ
only in the questions they ask first, and share the steps behind. upload.cgi
looks at `/var/fmdownresult` twice in a row (main() and do_upgaredeByHerouteApp),
which is one step here. `retry` counts from 0 to `MaxRetry`, 3 in the code.
`system("reboot")` returns at once: until `Reboot` happens, everything else still may.
`cgiList` are the `upload.cgi` of browsers that goahead waits for: when one has ended with
status 0, `CgiCleanup` calls for a reboot three seconds later. `Reboot` and `PowerCut` may come at any
step; in the middle of a write they leave a ruined flash, and the device stays off (`Dead`).
herouteapp's `Download` is curl_easy_perform without a time limit, and need not come.

`cause` remembers which events have happened that the code has no guard
against: *form* (`upload.cgiauto` during an upgrade), *manual* (an upload from
the browser that overlaps an upgrade or another upload), *goahead* (its end with
work under way), *mtd* (a failed write), *result* (herouteapp died
between its last two commands), *power* and *reboot* (the device went down in the middle of a write). The properties say which of them each one excludes.

### NvramReset

Of block 2860 the model has `WebInit` (the first entry of the file of defaults), one
entry for all settings, and the serial number; of block uboot the copy of
the serial number. `mem` is the kernel's copy, `flash` what survives. Each process
is the sequence of the commands it runs: look for the copy, save it (set,
commit), `ralink_init clear`, `ralink_init renew` (set the entries, commit), and, for the
button only, copy the number back: the form's handler has that part in a
comment. `ralink_init renew` gives up on an imported file without its
first line (`RenewInit`), and at a line without `=`, after a commit of what it has
set (`RenewBadLine`); a file that ends early it commits as it is (`RenewShort`). A command that prints less than 20 characters counts as failed
and is repeated three times (`SeeUboot`, `See2860`, `ReadBack`), so a serial
number has at least 19 characters here. `SerialOf` is how herouteapp finds its number
(hertUtil_getSN: uboot first). `cause` again names the unguarded events: *overlap*
of two resets, a *commit* by another process while the block is being filled, an *import*
before the first reset, a *torn* commit, a failed *read*, a bad or short *file*, a set, clear or commit the kernel
*refused* (`Refused`: no caller looks at the result), a reset that was *left* behind its clear, because goahead or
upload_settings.cgi died there (`Killed`; hertMonitor does `killall goahead`) or because WebInit or the commit was
refused. *left* is forgotten at the next boot, which loads the defaults if WebInit is missing. A torn commit
may take the other block with it, 8 kB away in the same part of the flash. The wizard of the
SDK, which also clears the block, is not in this product's build.

### DeviceTracking

One round of herouteapp is `ReadPids`, `CheckTcpdump`, `ListDevices`, `AskFlow` for
each device that is gone, `Remember`, `ReadFlows`. The queue holds at most
`MaxQueue` messages of the four types; within a type they are received in order.
msgsnd has IPC_NOWAIT for pids, questions and answers, which are dropped when
there is no room, and waits for names (`Capture`, `SendName`). SIGUSR2 interrupts a
waiting tcpdump; its handler removes the device from the list of flows and
answers, except that the removal of the last entry of the list returns -1 and no
answer is sent (`ReadFlow`). Only wireless clients are listed (`Hidden` are the
others); when the driver does not answer, the list is empty and everybody seems to have
left. `left`, `told`, `lost` are the book-keeping of the properties. `Departures` says
what the tracking promises: a departure may be asked about once, is then on the way, and
is told, or missed with a note in `lost`. Under the mapping a device's departures are on the way
while a question or an answer about it is in the queue or in the hands of a process. The handler
is not interrupted by other work of tcpdump, and a pid is not reused.

### DailyReport

`randSourcw` is the sum of six signed characters of the device's name; hour and minute are
derived with C's truncating division, and compared as DWORD with the clock,
which is read at the start of a round (`ReadClock`) and used at its end (`Inform`).
The mark `timingComplete` is removed in a minute later than that of the report, of the
same or a later hour. `clock` only goes forward; a clock set back may give a second report.
Behind the report the code frees `g_workData.szDstAddress`, an array that malloc has not given it
(`hert_app.c:2441`): a death of the process there is `Restart`, a spoilt heap is not modelled.

## 3. Runs

| Run | Expect | Distinct states | What it shows |
|---|---|---|---|
| `download` | pass | 1.07 M | no lost wake-up (`NoLostWakeup`), the worker is joined (`InitWithoutWorker`, `SocketOutlivesWorker`) and can be (`StopIsHeard`), every restart completes (`RestartCompletes`) and the list is worked off once restarts cease (`ListDrains`) unless a download hangs for ever, with two requests of four kinds of items, a death of the process, a removal of the storage |
| `download_accepted_kept` | violation | | an accepted request is dropped: the caller is told 0 by a flag that changed after the test (`AcceptedKept`) |
| `session` | pass | 0.74 M | `NameReported`, `CountsThisConnection`, `RegisteredOnThisConnection`, the refinement `PassesPhases`, and that the session always comes back unless it is bound to an address the WAN no longer has, or was refused (`ReconnectsUnlessLockedOut`) |
| `session_stale_bind` | violation | | with two addresses it may not: every attempt binds to the address of the start |
| `session_granted` | violation | | a refused device counts itself registered (`RegisteredMeansGranted`) |
| `framing_short` | pass | 1.75 M | messages of up to 255 bytes: all complete ones with a type handled (`CompleteHandled`), no partial one (`PartialNotHandled`), in segments that begin with a message, have no PING_RESP and fit into the buffer; in every segment the loop stays within what recv() returned (`TypeOK`) |
| `framing_two_requests` | violation | | behind a message of 256 bytes or more the next one is dropped |
| `watchdog` | pass | 0.37 M | `NoFalseAlarm`; three events in any order are repaired for good unless both watchers are gone (`Recovers`) |
| `wan_status` | pass | 1.61 M | after three changes of the WAN, a restart of hertMonitor and an interrupted check the status becomes and stays true, once torn reads of the two files cease (`SettlesOnTruth`) |
| `upgrade` | pass | 0.16 M | four requests, uploads, deaths or power failures: `SafeFlash`, `ResultOfThisRequest`, `RecordsFollowFlash`, nobody waits for what nobody owes (`AnswerOwed`, `VerdictOwed`), `RequestAnswered`, `UpgradeEnds` |
| `nvram_reset` | pass | 0.33 M | three resets, imports, settings, failed readings, refusals, deaths or power failures: `SerialKept`, `InitialisedIsComplete`, `IdleIsInitialised`, `EndsInitialised` |
| `device_tracking` | pass | 0.29 M | three joins, departures, deaths or failures: `OncePerDeparture`, the refinement `ImplementsDepartures`, `DepartureReported`, `TcpdumpKnown` |

Bounds, and why they are enough. *Download*: two requests are what the two
threads need to edit the list at the same time with an item of each on it; the
four items are two good ones, one read back as another and one never read; one
crash falls between any two steps. *Session*: two messages in the queue allow an
answer behind a request; two addresses and two names are the least that can be
confused; two faults interrupt a recovery. Unanswered requests beyond
`MaxAsked` are not counted, as the platform answers each alike. *Framing*: `framing_short` takes the
values around 128 and up to 255, with and without a type, with nothing, one byte, nine or all but a part of the header missing, and up to five messages: any may be first, inner or last, and five of 255 bytes are more than the buffer holds. Of what stray bytes claim (`Garbage`) it has a length beyond the segment and the one that two bytes of a PING_RESP before a PUSH_DATA are misread as. *Watchdog*:
limits of 2 to 4 keep the code's order (a limit is reached by counting, and
reset), three events put one event into the repair of another and a third into
that; `RunMax = 1` makes the counter wrap all the time. *WAN*: three changes take an
address away and back with a loss of the Internet in between; one real check after
`FirstPings + 1` and every second one leave checks to skip. *Upgrade*: two
`upload.cgi` are what it takes to write the flash twice at a time; the message that
an upgrade is due, two requests and one event between them are four; one retry has
a first and a last download. *nvram*: three events are a reset
with a foreign setting, a refusal or a death in it and a failure of the power in what follows, or a first reset, an import
and a failure; one other serial number is enough, since any other than the real one counts as lost.
*Tracking*: with two messages the queue is full after one question and one name;
two devices are a list with a last and another entry, a wired one among them, since only
that keeps its place on tcpdump's list without being asked about; three
events are a departure, a return and a failure.

Fairness. Threads are scheduled and the calls they make return: nothing in
the code waits on a lock held by a blocked thread, and the scheduler is
preemptive. The exception are the two calls of curl_easy_perform, for which
the code sets no time limit: they are in no fairness condition, and the properties that need them
to return say so (`CurlReturns`: `RestartCompletes`, `ListDrains`, `RequestAnswered`). A removed storage
is taken to be plugged in again. `session` takes HERT_APP_UnInit to return, and adds that the
platform answers, TCP gives up on an interrupted connection with data to
retransmit, and, as strong fairness, that the heartbeat's timer runs out at
some of infinitely many timeouts. `upgrade` and `nvram_reset` assume that commands
return and hertMonitor restarts what has died; for `upgrade` also that a lost session is
registered again, for `nvram_reset` that a process goes on unless it is killed. `wan_status`
takes torn reads to cease (a hypothesis of `SettlesOnTruth`, not a fairness condition): the file is empty
for the milliseconds of an `echo`, in rounds of seconds, but nothing in the code rules out that the two processes meet
there again and again, and TLC shows the status flipping for ever then. `device_tracking` adds strong fairness for the 30 s timer
(`TimerRuns`), which in the model can be seen to run out only between two rounds
and after tcpdump has come to its announcement; both take less than 30 s in the code.
No device has to send packets. `watchdog` needs strong fairness for
`RemoveRequest`: a process that is killed and started again and again comes to
its first command at last, which in the code takes milliseconds out of
goahead's 3 seconds. Nothing is assumed of events, faults, restarts and changes.

`CHECK_DEADLOCK FALSE` is used where the system may really stop: in `watchdog` a goahead
that dies before it has opened its server leaves hertMonitor waiting for
`/var/finishstart` for ever; in `upgrade` and `nvram_reset` nothing is left to do when the
events are used up, and a device with a ruined flash is off; in `device_tracking` likewise when the switch is closed.

Results without a run of their own, found with other constants of the same modules:

- `DownloadWorker` with `MacReadable = FALSE`: HERT_APP_Init returns success
  without a worker, and the next restart waits for it for ever (`RestartCompletes`).
- A crash between the removal and the rewriting of the list file loses the list;
  both threads can edit at the same time; a failed download is announced as
  done after four attempts.
- `Watchdog` without `Stranded` in `Recovers`: if goahead dies while main() hangs,
  or between kill and start of hertMonitor, nobody is left to restart anything.
- `WanStatus` without `WrongBind`: an address that changes between its two
  readings and changes back leaves the check bound to the wrong address, and the
  status "failed" for as long as the address stays.
- `HertSession` with one WAN address and a platform that accepts satisfies `Reconnects`.
- `Upgrade` without its exceptions: `upload.cgiauto` during an upgrade makes herouteapp
  overwrite the image while it is written to flash; an upload from the browser
  after a successful download writes the downloaded image; after a restart of goahead
  the old download answers the new request; a missing result of the download leaves no
  verdict, and DoUpgrade waits for ever.
- `NvramReset` without its exceptions: a foreign commit during a reset makes the next boot
  take a part of the defaults for all of them, an imported file does the same that
  has a line without `=` or ends early; an import before the first reset replaces the serial
  number for good; a goahead that is killed between clear and renew leaves an empty block
  until somebody cuts the power.
- `DownloadWorker` and `Upgrade` without `CurlReturns`: one download on a connection that has
  gone silent keeps HERT_APP_UnInit, or the web thread, waiting for ever.
- `PushFraming` without `Plain`: whole requests behind the rest of a cut message, or behind a
  PING_RESP, are lost with short messages too.
- `Upgrade` without *power* and *reboot*: a browser's upload that ends calls for a reboot, which
  comes three seconds later in the middle of the next one's write.
- `DeviceTracking` without its exceptions: on a busy LAN the names fill the queue before
  the pid is announced, and tcpdump is killed and started every 30 s.
- `DailyReport` with a small clock satisfies the formulas of its theorems in TLC.

## 4. Proofs

TLAPS proves, for every value of the constants that satisfies the assumptions:

| Module | Theorems |
|---|---|
| `DownloadWorkerProofs` | `TypeCorrect`, `WakeupNotLost`, `WorkerJoined`, `SocketSafe`, `StopHeard`, `KeptUnlessDisturbed`, `NoMacNoRestart`, `StallHolds` |
| `HertSessionProofs` | `TypeCorrect`, `RegistrationIsFresh`, `PlatformKnowsName`, `CountIsFresh`, `SessionPassesPhases`, `StaleBindLasts`, `RefusalLasts` |
| `PushFramingProofs` | `LengthsWritten`, `ShortLengthsRead`, `LongLengthsMisread`, `TypeCorrect`, `PartialNotHandledShort`, `CompleteHandledShort` |
| `WatchdogProofs` | `TypeCorrect`, `NeverAFalseAlarm`, `StrandedForGood` |
| `UpgradeProofs` | `TypeCorrect`, `ResultSafe`, `RecordsSafe`, `FlashSafe`, `AnswerIsOwed`, `LostAnswerLasts`, `VerdictIsOwed`, `DownloadHangs` |
| `NvramResetProofs` | `TypeCorrect`, `SerialSafe`, `CompleteSafe`, `EmptyIsFilled` |
| `DeviceTrackingProofs` | `TypeCorrect`, `OncePerDepartureSafe`, `TrackingImplementsDepartures` |
| `ReportingProofs` | of `WanStatus`: `TypeCorrect`, `WrongBindLasts`; of `DailyReport`: `ReportTypeCorrect`, `WindowKept`, `ReportedOncePerDay`, `NegativeMinuteSilent` |

Liveness is out of this prover's reach, but two things around it are not. Several liveness
properties name states in which they give up; theorems say that these are ends and not
passing states (`StrandedForGood`, `StaleBindLasts`, `RefusalLasts`, `LostAnswerLasts`,
`WrongBindLasts`), or can be left only by what the property supposes (`StallHolds`, `DownloadHangs`), so that a property with such an exception does not excuse more than
it must. And somebody who waits must wait for something that somebody else still owes: that
is an invariant (`StopIsHeard`, `AnswerOwed`, `VerdictOwed`, `IdleIsInitialised`), proved
as such; the liveness property adds only that who owes it is scheduled.

*DownloadWorker*. Assumed: `StoredAssumption` (reading back is idempotent) and natural
bounds. `NoLostWakeup` and `InitWithoutWorker` are not inductive: when the
main thread leaves the wait for `bStopRun = 2`, only `StopHandshake` (what each
value of `bStopRun` says about where the two threads are) tells that the worker is
gone; `ItemHeld` says that a thread inside an edit has an item, and `NoSocketYet`
that there is no descriptor before the connection. One lemma per part,
one step per action.

`AcceptedKept` is false (`download_accepted_kept`), and `KeptUnlessDisturbed` says how
false: it holds in every behaviour in which the two threads are never both inside
hertUtil_EditDownReqItemList (`OneEditor`) and the process does not die between the
removal of the list file and the last line written back (`DeathSpares`). Both are
hypotheses of the theorem, not assumptions of the model, and TLC finds the item lost
when either is dropped. `KInv` follows an item through the edit: on the list,
in the backup, among the lines still to be copied or in the editing thread's own
buffer (`WindowInv`), the backup being complete when the list is removed
(`BackupInv`); under `OneEditor` the static `nRet` is never met at 2 (`GuardInv`).
`StopHeard` (hypothesis: the MAC can be read) needs `StopInv`: the mutex that HERT_APP_UnInit
has unlocked is locked again only by a worker that looks at `bStopRun` next and does not
go back to sleep. The lemmas on `Lines` say what appending and taking a line does to what is read back.
`NoMacNoRestart` (hypothesis: the MAC cannot be read) says that there is never a
worker, and that main() does not come out of HERT_APP_UnInit but by the death of the process.
`StallHolds` says the same of a worker in curl_easy_perform, until that returns.

*HertSession*. Assumed: the special values are no addresses or names, bounds are
natural. The strengthening is `Quiet` (nothing is left of a connection that is
closed), `Fresh` (registration and init data are cleared before connecting) and
`Backed` (an answer in the receive queue is one the platform has given on this
connection), without which the receipt of an answer would not preserve
`RegisteredOnThisConnection`. The refinement follows from the same invariant: each
action changes the phase by one step of `RegistrationPhases` or not at all. `StaleBindLasts`
and `RefusalLasts` say that each of the two ways of being locked out lasts: until the WAN
gets back the very address of the start, and until the connection the device was refused on
is lost; before that it has no init data.

*MsgLength*. `StopAtFirstZero`, `OneByte`, `TwoBytes` say what the reader's loop
does on a field of one and of two bytes; the theorems are arithmetic from there.
`LengthsWritten` compares the writer with the protocol's definition for all
lengths a buffer can hold.

*PushFraming*. Assumed: `FramingAssumption` (lengths are not 0, bounds are natural).
`Layout` says that the messages of a segment lie one behind the other without gaps, behind
the rest of a message that was cut. `LoopInv` is the invariant of the loop in a segment that begins with
a message and has no PING_RESP (`Plain`): at Process_PushData_Start `ptMsg` is at the
beginning of the k-th message for some k, those in front of it have been handled, and nothing else has
(`AtMessage`). That needs the length of each message to be read right, which
`ShortLengthsRead` gives for lengths up to 255; hence the hypothesis `Lens
\subseteq 1..255` of `PartialNotHandledShort`, which
cannot be dropped: a message of 300 bytes is read as one of 172, and passes for whole
with nine bytes missing (TLC, with `MCLong` and `MCCuts`). `CompleteHandledShort` has `Lens \subseteq 3..255`: the loop takes
4 bytes or fewer behind a message for nothing, and a message of length 2 is that
short. No message of the platform is: option and body alone are longer. Both say nothing of the segments that are not
`Plain`, in which the code does lose requests. `TypeCorrect` has no such
hypothesis: with any lengths, misread ones included, and wherever in a message the segment begins, the loop stays
within what recv() has returned. That this is within the buffer is not a theorem: `RecvMax` is larger than `BufLen`.

*Watchdog*. Assumed: `LimitsAssumption` (the limits are natural; that of a blocked main() is not 0,
10 in the code), and `PaceAssumption` (a live main()
ends a round within fewer checks than the limit, and makes fewer rounds
between two checks than the counter has values). That `nPreRunCount =
g_nRunCount` means "no round" is not inductive; `Pace` says exactly how far
`g_nRunCount` is ahead, round the wrap, and bounds `nNoRunCount` by the checks made
since the last round. `Off` and `Killed` tell that no thread runs without its process.
`StrandedForGood` shows that without goahead, and with main() blocked or killed, nothing is ever
started again: each of the two is watched by the other alone.

*Upgrade*. Assumed: `UpgradeAssumption` (natural bounds). `ResultOfThisRequest` needs
`ResultInv`: herouteapp downloads only while the web thread polls, and then there is
no result yet. `RecordsInv` adds what each process is about to record. `SafeFlash` needs
most: `StatusInv` (DoUpgrade works only while `g_upgradeState` is 1 and waits for the
process it started) and `FlashInv` (undisturbed there is at most one `upload.cgi`,
the web thread is idle meanwhile, and so, by `ResultInv`, the image checked is the image
written; a `upload.cgi` of a browser that has ended and is still on `cgiList` does not count). `AnswerIsOwed` needs `RequestInv`: while the web thread polls, the request or the result is
there, or herouteapp is between its last two commands, or has died there; and then
(`LostAnswerLasts`) the wait ends only with goahead or the device. `VerdictIsOwed` needs
`VerdictInv`: while an upgrade is under way the result of the download stays (by `ResultInv`
herouteapp writes no other), so that the upload.cgi of the status thread takes the
downloaded image, and every way through it ends with a verdict.

*NvramReset*. Assumed: `SerialAssumption` (the real number is not the default one).
`CompleteInv` adds that the memory holds `WebInit` without settings only while a
process is between the two. `SerialInv` splits on the place of the number: before the
first reset is past its saving steps it is in block 2860 (`In2860`), in memory and in
flash; afterwards in block uboot, which no reset changes (`InUboot`); and at most one
reset is under way. `EmptyIsFilled` has one exception, a reset that was left; `MendInv` tells
the memory from the flash: while the memory has no `WebInit`, somebody behind his clear is about to set it or to
reboot, and while the flash has none, somebody is about to commit or to reboot. A process still before its clear
may die there without a trace, and does not count, unless it is nvram_daemon. A process
may commit a block that another one has just emptied, but then the other is still at work.

*DeviceTracking*. Assumed: `TrackingAssumption` (finitely many devices, a queue with
room for a message). `OncePerDeparture` is not inductive: when herouteapp asks
about a device, that it has left once more than was asked must be known already. `DebtInv`
strengthens it: for each device, what was told, is in the queue or about to be
answered, plus a debt of one while the device is on the list of the last round and gone, does
not exceed the departures. `ListedInv` keeps wired devices off the lists. The lemmas on
`Count` say how the number of messages about a device changes when one is put into the
queue or taken out; each action that moves a message has its own lemma.
`TrackingImplementsDepartures` maps `way` to what is outstanding of a device and not yet told. That a
question is an `Ask`, whose guard says that there are more departures than questions, is `DebtInv` again;
whoever drops a message has noted the device in `lost` by the end of the same step, so that it is a `Miss`.

*WanStatus*. Assumed: `WanAssumption`. `HostPings` must not be 0 (9 in the code): with 0 the
count of skipped checks would leave its range, which the proof of the types found. `WrongBindLasts`:
a check bound to an address that is not the WAN's keeps the status "failed" until the WAN changes
or hertMonitor is restarted, whether or not the Internet is reachable.

*DailyReport*. No assumptions. `DayInv`: the clock does not go back, and on the day of a
report its minute is over, or it lasts and the mark is set. The mark alone would
not do: it is taken away in the next minute, and what prevents a second report then is
that the minute does not come back on that day.

Only model-checked: all liveness (`RestartCompletes`, `ListDrains`,
`ReconnectsUnlessLockedOut`, `Recovers`, `SettlesOnTruth`, `RequestAnswered`,
`UpgradeEnds`, `EndsInitialised`, `DepartureReported`, `TcpdumpKnown`), which needs
fairness and is out of this prover's reach. Every invariant, every refinement and every action property of a
passing run is proved.

## 5. Not modelled, and the plan

What could still be modelled, in this order:

1. *Session and worker composed*: message numbers drawn by two threads, and
   notifications that meet a lost connection.
2. *LanClients*: the lease file that is copied out, filtered and copied back.
3. The cache of names that every process keeps over the kernel's nvram.

Not planned: the JSON bodies and what the handlers put into them (formatting), the
other web handlers (settings read from and written to nvram, no protocol), ping
(a port of the BSD tool), DES (one library call), the readers of `/proc` and of
shell output (no state; among them the descriptor that an interrupted check of the
connection leaks, `hert_tcp.c:429`), the downloader that main() offers for
debugging, and the vendored software: the kernel, its drivers and the third-party
programs are nearly all of the repository's lines and none of this product's logic.
