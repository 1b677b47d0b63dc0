------------------------------- MODULE Upgrade -------------------------------
(***************************************************************************)
(* The upgrade of the firmware: how goahead (its web thread and its status *)
(* thread), herouteapp and the processes upload.cgi agree on it through    *)
(* files in /var and one flag in the nvram.                                *)
(*                                                                         *)
(* The web thread asks for a download by /var/downloadnow and polls        *)
(* /var/fmdownresult; herouteapp downloads /var/imgfile; the status thread *)
(* runs upload.cgi, which checks the image, writes the flash and leaves    *)
(* its verdict in /var/upgraderesult; then the device reboots.  A second   *)
(* way in, the form upload.cgiauto, and the upload of an image from the    *)
(* browser, use the same files.                                            *)
(***************************************************************************)
EXTENDS Integers

CONSTANTS
  Cgis,      \* the processes upload.cgi there may be at a time
  NoCgi,     \* none of them
  MaxRetry,  \* downloads repeated because the file was empty (3)
  MaxEvent   \* bound on requests and on the events of the environment

ASSUME UpgradeAssumption ==
  /\ NoCgi \notin Cgis /\ MaxRetry \in Nat /\ MaxEvent \in Nat

VARIABLES
  web,           \* the web thread: its next step, "off" without goahead
  upgradeState,  \* g_upgradeState
  status,        \* the status thread: its next step in DoUpgrade
  child,         \* the upload.cgi the status thread waits for
  cgi,           \* upload.cgi processes: next step and the file they write
  cgiList,       \* those a browser started and goahead waits for
  app,           \* herouteapp: its next step in the download
  registered,    \* herouteapp is registered and has its init data
  url,           \* g_workData.upgradeData holds an address
  retry,         \* nRetry
  downloadnow,   \* /var/downloadnow says "downloadnow"
  fmdownresult,  \* /var/fmdownresult
  upgraderesult, \* /var/upgraderesult
  upgradeinfo,   \* /var/upgradeinfo says that an upgrade is due
  imgfile,       \* /var/imgfile: "good" passes check(), "part" does not
  flash,         \* the firmware in flash: "bad" while it is half written
  version,       \* HE_ROUTE_VER is that of the new image
  upimag,        \* HE_ROUTE_UPIMAG is 1
  rebooting,     \* reboot has been called
  cause,         \* what has gone wrong since the device was started
  events         \* requests and events of the environment so far

goaheadVars == <<web, upgradeState, status, child, cgiList>>
appVars == <<app, registered, url, retry>>
fileVars == <<downloadnow, fmdownresult, upgraderesult, upgradeinfo, imgfile>>
flashVars == <<flash, version, upimag>>
vars == <<goaheadVars, cgi, appVars, fileVars, flashVars, rebooting, cause,
          events>>

Causes == {"form", "manual", "goahead", "mtd", "result", "power", "reboot"}
Idle == [pc |-> "none", src |-> "none"]
CgiSteps == {"none", "start", "check", "begin", "write", "clash", "version",
             "passed", "failed", "end"}

StepsOK ==
  /\ web \in {"off", "idle", "rm", "ask", "poll"} /\ upgradeState \in {0, 1}
  /\ status \in {"idle", "cgi", "wait", "flag", "reboot"}
  /\ child \in Cgis \cup {NoCgi} /\ cgiList \subseteq Cgis
  /\ cgi \in [Cgis -> [pc : CgiSteps, src : {"none", "img", "upload"}]]
  /\ app \in {"off", "idle", "open", "curl", "size", "rmok", "rmfail", "ok",
              "fail"}
  /\ retry \in 0..MaxRetry /\ cause \subseteq Causes /\ events \in 0..MaxEvent
FilesOK ==
  /\ fmdownresult \in {"none", "faileddownfm", "successdownfm"}
  /\ upgraderesult \in {"none", "failed", "success"}
  /\ imgfile \in {"none", "empty", "part", "good"}
  /\ flash \in {"old", "bad", "new"}
FlagsOK ==
  /\ registered \in BOOLEAN /\ url \in BOOLEAN
  /\ downloadnow \in BOOLEAN /\ upgradeinfo \in BOOLEAN
  /\ version \in BOOLEAN /\ upimag \in BOOLEAN /\ rebooting \in BOOLEAN

(* Every variable of the model has its type.                               *)
TypeOK == StepsOK /\ FilesOK /\ FlagsOK

Init ==
  /\ web = "idle" /\ upgradeState = 0 /\ status = "idle" /\ child = NoCgi
  /\ cgi = [c \in Cgis |-> Idle] /\ cgiList = {}
  /\ app = "idle" /\ registered = FALSE /\ url = FALSE /\ retry = 0
  /\ downloadnow = FALSE /\ fmdownresult = "none" /\ upgraderesult = "none"
  /\ upgradeinfo = FALSE /\ imgfile = "none"
  /\ flash = "old" /\ version = FALSE /\ upimag = FALSE
  /\ rebooting = FALSE /\ cause = {} /\ events = 0

Event == events < MaxEvent /\ events' = events + 1
Live(c) == cgi[c].pc # "none"
At(c, here) == cgi[c].pc = here
Busy(c) == cgi[c].pc \notin {"none", "end"}
Writing(c) == cgi[c].pc \in {"write", "clash"}
(* The status thread does not wait for an upload.cgi a browser started.    *)
Browsers(c) == Busy(c) /\ c # child

(* The flash was half written when the power failed or a reboot that had   *)
(* been called came: the device does not start any more.                   *)
Dead == cause \cap {"power", "reboot"} # {}

-----------------------------------------------------------------------------
(* The web thread: one request at a time. *)

(* Both ways to ask for an upgrade go on in the same way.                  *)
Accept(spoils) ==
  /\ web' = "rm"
  /\ cause' = cause \cup spoils \cup
       (IF \E c \in Cgis : Browsers(c) THEN {"manual"} ELSE {})
  /\ UNCHANGED upimag

(* A plausible slip: the request does not look whether one is under way.   *)
RouteUpgradeUnguarded ==
  /\ web = "idle" /\ Event
  /\ \/ upimag /\ upimag' = FALSE /\ UNCHANGED <<web, cause>>
     \/ ~upimag /\ Accept({})
  /\ UNCHANGED <<upgradeState, status, child, cgiList, cgi, appVars, fileVars,
                 flash, version, rebooting>>

(* websHertAppPro_RouteUpgrade, up to the first file it removes: while an  *)
(* upgrade is under way, and when the device has just been upgraded, the   *)
(* request is answered at once.                                            *)
RouteUpgrade ==
  /\ web = "idle" /\ Event
  /\ \/ upgradeState = 1 /\ UNCHANGED <<web, upimag, cause>>
     \/ upgradeState = 0 /\ upimag /\ upimag' = FALSE /\ UNCHANGED <<web, cause>>
     \/ upgradeState = 0 /\ ~upimag /\ Accept({})
  /\ UNCHANGED <<upgradeState, status, child, cgiList, cgi, appVars, fileVars,
                 flash, version, rebooting>>

(* websCgiHandler for upload.cgiauto: neither question is asked.           *)
UploadCgiAuto ==
  /\ web = "idle" /\ Event
  /\ Accept(IF upgradeState = 1 THEN {"form"} ELSE {})
  /\ UNCHANGED <<upgradeState, status, child, cgiList, cgi, appVars, fileVars,
                 flash, version, rebooting>>

(* websCgiHandler for upload.cgi: the uploaded image is in a file of its   *)
(* own; the web thread does not wait for the process.                      *)
UploadCgi(c) ==
  /\ web = "idle" /\ Event /\ ~Live(c) /\ c \notin cgiList \cup {child}
  /\ cgi' = [cgi EXCEPT ![c] = [pc |-> "start", src |-> "upload"]]
  /\ cgiList' = cgiList \cup {c}
  /\ cause' = cause \cup
       (IF upgradeState = 1 \/ \E d \in Cgis : Busy(d) THEN {"manual"} ELSE {})
  /\ UNCHANGED <<web, upgradeState, status, child, appVars, fileVars,
                 flashVars, rebooting>>

(* A plausible slip: the result of an earlier download stays.              *)
RemoveResultNot ==
  /\ web = "rm" /\ web' = "ask"
  /\ UNCHANGED <<upgradeState, status, child, cgiList, cgi, appVars, fileVars,
                 flashVars, rebooting, cause, events>>

(* rm -rf /var/fmdownresult *)
RemoveResult ==
  /\ web = "rm" /\ web' = "ask" /\ fmdownresult' = "none"
  /\ UNCHANGED <<upgradeState, status, child, cgiList, cgi, appVars,
                 downloadnow, upgraderesult, upgradeinfo, imgfile, flashVars,
                 rebooting, cause, events>>

(* hertUtil_getIsNeedUpgrade(), then echo downloadnow > /var/downloadnow;  *)
(* without need the request is answered.                                   *)
AskDownload ==
  /\ web = "ask"
  /\ web' = IF upgradeinfo THEN "poll" ELSE "idle"
  /\ downloadnow' = (downloadnow \/ upgradeinfo)
  /\ UNCHANGED <<upgradeState, status, child, cgiList, cgi, appVars,
                 fmdownresult, upgraderesult, upgradeinfo, imgfile, flashVars,
                 rebooting, cause, events>>

(* The loop that polls /var/fmdownresult ends.                             *)
PollResult ==
  /\ web = "poll" /\ fmdownresult # "none" /\ web' = "idle"
  /\ upgradeState' = IF fmdownresult = "successdownfm" THEN 1 ELSE upgradeState
  /\ UNCHANGED <<status, child, cgiList, cgi, appVars, fileVars, flashVars,
                 rebooting, cause, events>>

(* websCgiCleanup, called between two requests: sleep 3 && reboot &, when  *)
(* an upload.cgi of a browser has ended with exit status 0.                *)
CgiCleanup(c) ==
  /\ web = "idle" /\ c \in cgiList /\ ~Busy(c)
  /\ cgiList' = cgiList \ {c} /\ cgi' = [cgi EXCEPT ![c] = Idle]
  /\ rebooting' = (rebooting \/ At(c, "end"))
  /\ UNCHANGED <<web, upgradeState, status, child, appVars, fileVars,
                 flashVars, cause, events>>

WebStep ==
  \/ RemoveResult \/ AskDownload \/ PollResult
  \/ \E c \in Cgis : CgiCleanup(c)

-----------------------------------------------------------------------------
(* DoUpgrade in the status thread. *)

(* system("upload.cgi") *)
RunUpload(c) ==
  /\ web # "off" /\ status = "idle" /\ upgradeState = 1
  /\ ~Live(c) /\ c \notin cgiList
  /\ status' = "cgi" /\ child' = c
  /\ cgi' = [cgi EXCEPT ![c] = [pc |-> "start", src |-> "none"]]
  /\ UNCHANGED <<web, upgradeState, cgiList, appVars, fileVars, flashVars,
                 rebooting, cause, events>>

UploadReturns ==
  /\ status = "cgi" /\ cgi[child].pc = "end"
  /\ status' = "wait" /\ child' = NoCgi
  /\ cgi' = [cgi EXCEPT ![child] = Idle]
  /\ UNCHANGED <<web, upgradeState, cgiList, appVars, fileVars, flashVars,
                 rebooting, cause, events>>

(* A plausible slip: g_upgradeState is not reset after a failure.          *)
ReadVerdictKeeps ==
  /\ status = "wait"
  /\ \/ upgraderesult = "success" /\ status' = "flag"
     \/ upgraderesult = "failed" /\ status' = "idle"
  /\ UNCHANGED <<web, upgradeState, child, cgiList, cgi, appVars, fileVars,
                 flashVars, rebooting, cause, events>>

(* The loop that polls /var/upgraderesult, a file nobody removes, ends.    *)
ReadVerdict ==
  /\ status = "wait"
  /\ \/ upgraderesult = "success" /\ status' = "flag" /\ UNCHANGED upgradeState
     \/ upgraderesult = "failed" /\ status' = "idle" /\ upgradeState' = 0
  /\ UNCHANGED <<web, child, cgiList, cgi, appVars, fileVars, flashVars,
                 rebooting, cause, events>>

(* nvram_set HE_ROUTE_UPIMAG 1 *)
SetUpImag ==
  /\ status = "flag" /\ status' = "reboot" /\ upimag' = TRUE
  /\ UNCHANGED <<web, upgradeState, child, cgiList, cgi, appVars, fileVars,
                 flash, version, rebooting, cause, events>>

(* system("reboot") returns before the device goes down.                   *)
CallReboot ==
  /\ status = "reboot" /\ status' = "idle" /\ upgradeState' = 0
  /\ rebooting' = TRUE
  /\ UNCHANGED <<web, child, cgiList, cgi, appVars, fileVars, flashVars, cause,
                 events>>

StatusStep ==
  \/ \E c \in Cgis : RunUpload(c)
  \/ UploadReturns \/ ReadVerdict \/ SetUpImag \/ CallReboot

-----------------------------------------------------------------------------
(* upload.cgi *)

Goto(c, there) == cgi' = [cgi EXCEPT ![c].pc = there]
(* With exit status 0 goahead, if it is still there, waits for its end.    *)
Finish(c) ==
  cgi' = [cgi EXCEPT ![c] =
            IF c \in cgiList \cup {child} THEN [@ EXCEPT !.pc = "end"] ELSE Idle]
(* exit(-1): for websCgiCleanup the process is just gone.                  *)
GiveUp(c) ==
  cgi' = [cgi EXCEPT ![c] = IF c = child THEN [@ EXCEPT !.pc = "end"] ELSE Idle]

(* main(): a successful download comes before the file of this call; a     *)
(* call of DoUpgrade has no file and leaves no verdict.                    *)
ChooseFile(c) ==
  /\ At(c, "start")
  /\ IF fmdownresult = "successdownfm"
       THEN cgi' = [cgi EXCEPT ![c] = [pc |-> "check", src |-> "img"]]
       ELSE IF cgi[c].src = "none" THEN GiveUp(c) ELSE Goto(c, "check")
  /\ UNCHANGED <<goaheadVars, appVars, fileVars, flashVars, rebooting, cause,
                 events>>

(* check(): of the image's area, its checksums and its size.  Of what a    *)
(* user may upload nothing is known.                                       *)
CheckImage(c) ==
  /\ At(c, "check")
  /\ \E ok \in IF cgi[c].src = "img" THEN {imgfile = "good"} ELSE BOOLEAN :
       IF ok THEN Goto(c, "begin")
       ELSE IF cgi[c].src = "img" THEN Goto(c, "failed") ELSE GiveUp(c)
  /\ UNCHANGED <<goaheadVars, appVars, fileVars, flashVars, rebooting, cause,
                 events>>

(* mtd_write_firmware() starts to erase and write.  Two writers at a time, *)
(* or a file that is no longer the one checked, spoil what is written.     *)
BeginWrite(c) ==
  /\ At(c, "begin") /\ flash' = "bad"
  /\ LET clash == \/ cgi[c].src = "img" /\ imgfile # "good"
                  \/ \E d \in Cgis : Writing(d)
     IN cgi' = [d \in Cgis |->
                  IF d = c THEN [cgi[c] EXCEPT !.pc = IF clash THEN "clash"
                                                      ELSE "write"]
                  ELSE IF Writing(d) THEN [cgi[d] EXCEPT !.pc = "clash"]
                  ELSE cgi[d]]
  /\ UNCHANGED <<goaheadVars, appVars, fileVars, version, upimag, rebooting,
                 cause, events>>

(* mtd_write ends, or fails and leaves a ruined flash.                     *)
EndWrite(c) ==
  /\ Writing(c)
  /\ \/ /\ flash' = IF At(c, "write") THEN "new" ELSE "bad"
        /\ Goto(c, "version") /\ UNCHANGED cause
     \/ /\ cause' = cause \cup {"mtd"} /\ UNCHANGED flash
        /\ IF cgi[c].src = "img" THEN Goto(c, "failed") ELSE GiveUp(c)
  /\ UNCHANGED <<goaheadVars, appVars, fileVars, version, upimag, rebooting,
                 events>>

(* system(g_szVersionCmd); an uploaded image is in flash then.             *)
SetVersion(c) ==
  /\ At(c, "version") /\ version' = TRUE
  /\ IF cgi[c].src = "img" THEN Goto(c, "passed") ELSE Finish(c)
  /\ UNCHANGED <<goaheadVars, appVars, fileVars, flash, upimag, rebooting,
                 cause, events>>

(* A plausible slip: the verdict is "success" either way.                  *)
WriteVerdictAlways(c) ==
  /\ At(c, "passed") \/ At(c, "failed")
  /\ upgraderesult' = "success" /\ Finish(c)
  /\ UNCHANGED <<goaheadVars, appVars, downloadnow, fmdownresult, upgradeinfo,
                 imgfile, flashVars, rebooting, cause, events>>

(* A plausible slip: a failure leaves no verdict.                          *)
WriteVerdictSilent(c) ==
  /\ \/ At(c, "passed") /\ upgraderesult' = "success"
     \/ At(c, "failed") /\ UNCHANGED upgraderesult
  /\ Finish(c)
  /\ UNCHANGED <<goaheadVars, appVars, downloadnow, fmdownresult, upgradeinfo,
                 imgfile, flashVars, rebooting, cause, events>>

(* echo success, or failed, > /var/upgraderesult; main() returns 0 after   *)
(* either.                                                                 *)
WriteVerdict(c) ==
  /\ \/ At(c, "passed") /\ upgraderesult' = "success"
     \/ At(c, "failed") /\ upgraderesult' = "failed"
  /\ Finish(c)
  /\ UNCHANGED <<goaheadVars, appVars, downloadnow, fmdownresult, upgradeinfo,
                 imgfile, flashVars, rebooting, cause, events>>

CgiStep(c) ==
  \/ ChooseFile(c) \/ CheckImage(c) \/ BeginWrite(c) \/ EndWrite(c)
  \/ SetVersion(c) \/ WriteVerdict(c)

-----------------------------------------------------------------------------
(* herouteapp: Msg_Process_Internel_DownloadForUpgrade *)

(* A registered session looks for /var/downloadnow in each of its rounds.  *)
SeeRequest ==
  /\ app = "idle" /\ registered /\ downloadnow
  /\ app' = "open" /\ retry' = 0
  /\ UNCHANGED <<goaheadVars, cgi, registered, url, fileVars, flashVars,
                 rebooting, cause, events>>

(* fopen(, "wb") empties the file; without a curl handle it stays as it is. *)
OpenImage ==
  /\ app = "open"
  /\ \/ /\ app' = "curl" /\ imgfile' = "empty"
        /\ cgi' = [c \in Cgis |->
                     IF cgi[c].pc = "write" /\ cgi[c].src = "img"
                       THEN [cgi[c] EXCEPT !.pc = "clash"] ELSE cgi[c]]
     \/ app' = "size" /\ UNCHANGED <<imgfile, cgi>>
  /\ UNCHANGED <<goaheadVars, registered, url, retry, downloadnow,
                 fmdownresult, upgraderesult, upgradeinfo, flashVars,
                 rebooting, cause, events>>

(* curl_easy_perform(): its result is only logged.  It has no time limit   *)
(* and may never return, so that no fairness is assumed of it.             *)
Download ==
  /\ app = "curl" /\ app' = "size"
  /\ imgfile' \in IF url THEN {"empty", "part", "good"} ELSE {"empty"}
  /\ UNCHANGED <<goaheadVars, cgi, registered, url, retry, downloadnow,
                 fmdownresult, upgraderesult, upgradeinfo, flashVars,
                 rebooting, cause, events>>

(* A plausible slip: the file is fetched once more than it should.         *)
TestSizeOnceMore ==
  /\ app = "size"
  /\ \/ imgfile \in {"part", "good"} /\ app' = "rmok" /\ UNCHANGED retry
     \/ /\ imgfile \in {"none", "empty"} /\ retry <= MaxRetry
        /\ app' = "open" /\ retry' = retry + 1
     \/ /\ imgfile \in {"none", "empty"} /\ retry > MaxRetry
        /\ app' = "rmfail" /\ UNCHANGED retry
  /\ UNCHANGED <<goaheadVars, cgi, registered, url, fileVars, flashVars,
                 rebooting, cause, events>>

(* A plausible slip: the retries are not counted.                          *)
TestSizeUncounted ==
  /\ app = "size"
  /\ \/ imgfile \in {"part", "good"} /\ app' = "rmok"
     \/ imgfile \in {"none", "empty"} /\ app' = "open"
  /\ UNCHANGED <<goaheadVars, cgi, registered, url, retry, fileVars, flashVars,
                 rebooting, cause, events>>

(* hertUtil_getFileSize(): an empty or missing file is fetched again.      *)
TestSize ==
  /\ app = "size"
  /\ \/ imgfile \in {"part", "good"} /\ app' = "rmok" /\ UNCHANGED retry
     \/ /\ imgfile \in {"none", "empty"} /\ retry < MaxRetry
        /\ app' = "open" /\ retry' = retry + 1
     \/ /\ imgfile \in {"none", "empty"} /\ retry = MaxRetry
        /\ app' = "rmfail" /\ UNCHANGED retry
  /\ UNCHANGED <<goaheadVars, cgi, registered, url, fileVars, flashVars,
                 rebooting, cause, events>>

(* rm -rf /var/downloadnow *)
RemoveRequest ==
  /\ \/ app = "rmok" /\ app' = "ok"
     \/ app = "rmfail" /\ app' = "fail"
  /\ downloadnow' = FALSE
  /\ UNCHANGED <<goaheadVars, cgi, registered, url, retry, fmdownresult,
                 upgraderesult, upgradeinfo, imgfile, flashVars, rebooting,
                 cause, events>>

(* A plausible slip: a failure is not reported.                            *)
WriteResultSilent ==
  /\ \/ app = "ok" /\ fmdownresult' = "successdownfm"
     \/ app = "fail" /\ UNCHANGED fmdownresult
  /\ app' = "idle"
  /\ UNCHANGED <<goaheadVars, cgi, registered, url, retry, downloadnow,
                 upgraderesult, upgradeinfo, imgfile, flashVars, rebooting,
                 cause, events>>

(* echo successdownfm, or faileddownfm, > /var/fmdownresult *)
WriteResult ==
  /\ \/ app = "ok" /\ fmdownresult' = "successdownfm"
     \/ app = "fail" /\ fmdownresult' = "faileddownfm"
  /\ app' = "idle"
  /\ UNCHANGED <<goaheadVars, cgi, registered, url, retry, downloadnow,
                 upgraderesult, upgradeinfo, imgfile, flashVars, rebooting,
                 cause, events>>

AppStep == SeeRequest \/ OpenImage \/ TestSize \/ RemoveRequest \/ WriteResult

(* Msg_Process_PushData_GetUpdateInfoRsp: the platform says whether an     *)
(* upgrade is due, and where the image is.                                 *)
UpdateInfo ==
  /\ app = "idle" /\ registered /\ Event
  /\ \E need \in BOOLEAN : upgradeinfo' = need /\ url' = need
  /\ UNCHANGED <<goaheadVars, cgi, app, registered, retry, downloadnow,
                 fmdownresult, upgraderesult, imgfile, flashVars, rebooting,
                 cause>>

-----------------------------------------------------------------------------
(* What happens to the processes and the device. *)

Register ==
  /\ app = "idle" /\ ~registered /\ registered' = TRUE
  /\ UNCHANGED <<goaheadVars, cgi, app, url, retry, fileVars, flashVars,
                 rebooting, cause, events>>

LoseSession ==
  /\ app = "idle" /\ registered /\ Event /\ registered' = FALSE
  /\ UNCHANGED <<goaheadVars, cgi, app, url, retry, fileVars, flashVars,
                 rebooting, cause>>

(* herouteapp dies, in fclose(NULL) among other places, and what it knows  *)
(* of the session and of the upgrade goes with it; hertMonitor starts it.  *)
AppDies ==
  /\ app # "off" /\ Event
  /\ app' = "off" /\ registered' = FALSE /\ url' = FALSE /\ retry' = 0
  /\ cause' = IF app \in {"ok", "fail"} THEN cause \cup {"result"} ELSE cause
  /\ UNCHANGED <<goaheadVars, cgi, fileVars, flashVars, rebooting>>

AppStarts ==
  /\ app = "off" /\ ~Dead /\ app' = "idle"
  /\ UNCHANGED <<goaheadVars, cgi, registered, url, retry, fileVars,
                 flashVars, rebooting, cause, events>>

(* goahead dies or hertMonitor kills it; its upload.cgi goes on.           *)
GoaheadDies ==
  /\ web # "off" /\ Event
  /\ web' = "off" /\ upgradeState' = 0 /\ status' = "idle" /\ child' = NoCgi
  /\ cgiList' = {}
  /\ cgi' = [c \in Cgis |-> IF At(c, "end") THEN Idle ELSE cgi[c]]
  /\ cause' = IF \/ web # "idle" \/ upgradeState = 1
                 \/ \E c \in Cgis : Busy(c)
                THEN cause \cup {"goahead"} ELSE cause
  /\ UNCHANGED <<appVars, fileVars, flashVars, rebooting>>

GoaheadStarts ==
  /\ web = "off" /\ ~Dead /\ web' = "idle"
  /\ UNCHANGED <<upgradeState, status, child, cgiList, cgi, appVars, fileVars,
                 flashVars, rebooting, cause, events>>

(* The device goes down and starts again: /var is empty, the flash and the *)
(* nvram are as they were.  With a half written flash it does not start.   *)
Boot(how) ==
  /\ ~Dead
  /\ cause' = IF flash = "bad" THEN {how} ELSE {}
  /\ web' = IF flash = "bad" THEN "off" ELSE "idle"
  /\ app' = IF flash = "bad" THEN "off" ELSE "idle"
  /\ upgradeState' = 0 /\ status' = "idle" /\ child' = NoCgi
  /\ cgi' = [c \in Cgis |-> Idle] /\ cgiList' = {}
  /\ registered' = FALSE /\ url' = FALSE /\ retry' = 0
  /\ downloadnow' = FALSE /\ fmdownresult' = "none"
  /\ upgraderesult' = "none" /\ upgradeinfo' = FALSE /\ imgfile' = "none"
  /\ rebooting' = FALSE
  /\ UNCHANGED flashVars

Reboot == rebooting /\ Boot("reboot") /\ UNCHANGED events

(* The power fails and comes back, also while mtd_write is at work.        *)
PowerCut == Event /\ Boot("power")

Next ==
  \/ RouteUpgrade \/ UploadCgiAuto \/ (\E c \in Cgis : UploadCgi(c))
  \/ WebStep \/ StatusStep \/ (\E c \in Cgis : CgiStep(c))
  \/ AppStep \/ Download \/ UpdateInfo
  \/ Register \/ LoseSession \/ AppDies \/ AppStarts
  \/ GoaheadDies \/ GoaheadStarts \/ Reboot \/ PowerCut

Spec == Init /\ [][Next]_vars

(* Threads and processes run; hertMonitor restarts what has died; a lost   *)
(* session is registered again.  Download is not among them.               *)
Fairness ==
  /\ WF_vars(WebStep) /\ WF_vars(StatusStep)
  /\ \A c \in Cgis : WF_vars(CgiStep(c))
  /\ WF_vars(AppStep) /\ WF_vars(Register)
  /\ WF_vars(AppStarts) /\ WF_vars(GoaheadStarts)
FairSpec == Spec /\ Fairness

-----------------------------------------------------------------------------
(* Properties *)

(* The flash holds a half written or mixed image only while upload.cgi is  *)
(* at work, unless something happened that the code has no guard against:  *)
(* a request by the form upload.cgiauto during an upgrade, an upload from  *)
(* the browser that overlaps one, the end of goahead during one, a failure *)
(* of mtd_write, a failure of the power during mtd_write, or a reboot that *)
(* was called before it and comes during it.  In particular the image that *)
(* upload.cgi checked in /var/imgfile is not replaced by herouteapp before *)
(* it is written.                                                          *)
SafeFlash ==
  flash = "bad" /\ cause \subseteq {"result"} => \E c \in Cgis : Writing(c)

(* A result that a waiting web thread can read in /var/fmdownresult is that *)
(* of the download it asked for, and herouteapp will not touch the image   *)
(* any more; unless goahead was restarted in the middle of a request.      *)
ResultOfThisRequest ==
  web = "poll" /\ fmdownresult # "none" /\ "goahead" \notin cause
    => ~downloadnow /\ app \in {"idle", "off"}

(* What is recorded of an upgrade (verdict, version, HE_ROUTE_UPIMAG) is   *)
(* recorded after the flash was written, in that order, whatever dies and  *)
(* whoever else uploads.                                                   *)
RecordsFollowFlash ==
  /\ version => flash # "old"
  /\ upgraderesult = "success" \/ upimag => version

(* The web thread waits, and nobody is going to write a result: the        *)
(* request is gone and herouteapp is not at work on it.                    *)
Unanswered ==
  /\ web = "poll" /\ fmdownresult = "none"
  /\ ~downloadnow /\ app \in {"idle", "off"}

(* The web thread waits for a herouteapp that is in its download.          *)
Hanging == web = "poll" /\ fmdownresult = "none" /\ app = "curl"

(* DoUpgrade waits for a verdict after its upload.cgi has left none.       *)
NoVerdict == status = "wait" /\ upgraderesult = "none"

(* A request is lost in one way only, whatever else dies or is asked for:  *)
(* herouteapp died between its last two commands, the removal of           *)
(* /var/downloadnow and the writing of /var/fmdownresult.                  *)
AnswerOwed == Unanswered => "result" \in cause

(* DoUpgrade finds a verdict in /var/upgraderesult when its upload.cgi has *)
(* ended, unless the result of the download was gone when upload.cgi       *)
(* looked for it: a request by the form upload.cgiauto during the upgrade  *)
(* may remove it; after a restart of goahead in the middle of a request,   *)
(* the download of that request may answer the next one, whose own         *)
(* download comes later.                                                   *)
VerdictOwed == NoVerdict => cause \cap {"form", "goahead"} # {}

(* What herouteapp waits for without limit comes back: every               *)
(* curl_easy_perform returns, or the process dies in it.                   *)
CurlReturns == []<>(app # "curl")

(* A request is answered, whatever becomes of the session and of           *)
(* herouteapp, unless its answer is lost for good or herouteapp hangs in a *)
(* download that never ends (hert_app.c:1833-1868).                        *)
RequestAnswered ==
  CurlReturns => (web = "poll" ~> web # "poll" \/ Unanswered)

(* DoUpgrade ends and the device can be upgraded again, unless the verdict *)
(* it waits for without limit is missing.                                  *)
UpgradeEnds == upgradeState = 1 ~> upgradeState = 0 \/ NoVerdict
=============================================================================
