---------------------------- MODULE UpgradeProofs ----------------------------
(***************************************************************************)
(* Proofs about Upgrade, for any number of processes upload.cgi and any    *)
(* number of requests and events: its type invariant, what a result in     *)
(* /var/fmdownresult is worth, the order of the records of an upgrade, the *)
(* safety of the flash, and when nobody owes an answer that is waited for. *)
(***************************************************************************)
EXTENDS Upgrade, TLAPS

USE UpgradeAssumption

-----------------------------------------------------------------------------
(* Types *)

(* Every step of the four kinds of processes keeps the types.              *)
LEMMA TypeStep == TypeOK /\ [Next]_vars => TypeOK'
<1>. SUFFICES ASSUME TypeOK, [Next]_vars PROVE TypeOK'
  OBVIOUS
<1>. USE DEF TypeOK, StepsOK, FilesOK, FlagsOK, Idle, CgiSteps, Causes
<1>1. CASE RouteUpgrade
  <2>. USE TypeOK, <1>1 DEF RouteUpgrade, Event
  <2>1. cause' \subseteq Causes
    BY DEF Accept
  <2>2. web' \in {"off", "idle", "rm", "ask", "poll"} /\ events' \in 0..MaxEvent
    BY DEF Accept
  <2>3. StepsOK'
    BY <2>1, <2>2 DEF appVars
  <2>4. FilesOK'
    BY DEF fileVars, flashVars
  <2>5. FlagsOK'
    BY Zenon DEF Accept, appVars, fileVars, flashVars
  <2>. QED
    BY <2>3, <2>4, <2>5 DEF TypeOK
<1>2. CASE UploadCgiAuto
  BY TypeOK, <1>2 DEF UploadCgiAuto, Accept, Event, appVars, fileVars
<1>3. ASSUME NEW c \in Cgis, UploadCgi(c) PROVE TypeOK'
  BY TypeOK, <1>3 DEF UploadCgi, Event, goaheadVars, appVars, fileVars,
     flashVars
<1>4. CASE RemoveResult
  BY TypeOK, <1>4 DEF RemoveResult, appVars, flashVars
<1>5. CASE AskDownload
  BY TypeOK, <1>5 DEF AskDownload, appVars, flashVars
<1>6. CASE PollResult
  BY TypeOK, <1>6 DEF PollResult, appVars, fileVars, flashVars
<1>7. ASSUME NEW c \in Cgis, RunUpload(c) PROVE TypeOK'
  BY TypeOK, <1>7 DEF RunUpload, appVars, fileVars, flashVars
<1>8. CASE UploadReturns
  <2>. USE TypeOK, <1>8 DEF UploadReturns
  <2>1. StepsOK'
    BY DEF goaheadVars, appVars
  <2>2. FilesOK'
    BY DEF fileVars, flashVars
  <2>3. FlagsOK'
    BY Zenon DEF appVars, fileVars, flashVars
  <2>. QED
    BY <2>1, <2>2, <2>3 DEF TypeOK
<1>9. CASE ReadVerdict
  BY TypeOK, <1>9 DEF ReadVerdict, appVars, fileVars, flashVars
<1>10. CASE SetUpImag
  BY TypeOK, <1>10 DEF SetUpImag, appVars, fileVars
<1>11. CASE CallReboot
  BY TypeOK, <1>11 DEF CallReboot, appVars, fileVars, flashVars
<1>12. ASSUME NEW c \in Cgis, ChooseFile(c) PROVE TypeOK'
  BY TypeOK, <1>12 DEF ChooseFile, At, Goto, Finish, GiveUp, goaheadVars, appVars,
     fileVars, flashVars
<1>13. ASSUME NEW c \in Cgis, CheckImage(c) PROVE TypeOK'
  BY TypeOK, <1>13 DEF CheckImage, At, Goto, Finish, GiveUp, goaheadVars, appVars,
     fileVars, flashVars
<1>14. ASSUME NEW c \in Cgis, BeginWrite(c) PROVE TypeOK'
  BY TypeOK, <1>14 DEF BeginWrite, At, goaheadVars, appVars, fileVars
<1>15. ASSUME NEW c \in Cgis, EndWrite(c) PROVE TypeOK'
  BY TypeOK, <1>15 DEF EndWrite, At, Goto, Finish, GiveUp, goaheadVars, appVars,
     fileVars
<1>16. ASSUME NEW c \in Cgis, SetVersion(c) PROVE TypeOK'
  BY TypeOK, <1>16 DEF SetVersion, At, Goto, Finish, GiveUp, goaheadVars, appVars,
     fileVars
<1>17. ASSUME NEW c \in Cgis, WriteVerdict(c) PROVE TypeOK'
  BY TypeOK, <1>17 DEF WriteVerdict, At, Finish, GiveUp, goaheadVars, appVars,
     flashVars
<1>18. CASE SeeRequest
  BY TypeOK, <1>18 DEF SeeRequest, goaheadVars, fileVars, flashVars
<1>19. CASE OpenImage
  BY TypeOK, <1>19 DEF OpenImage, goaheadVars, flashVars
<1>20. CASE Download
  BY TypeOK, <1>20 DEF Download, goaheadVars, flashVars
<1>21. CASE TestSize
  BY TypeOK, <1>21 DEF TestSize, goaheadVars, fileVars, flashVars
<1>22. CASE RemoveRequest
  <2>. USE TypeOK, <1>22 DEF RemoveRequest
  <2>1. StepsOK'
    BY DEF goaheadVars, appVars
  <2>2. FilesOK'
    BY DEF fileVars, flashVars
  <2>3. FlagsOK'
    BY Zenon DEF appVars, fileVars, flashVars
  <2>. QED
    BY <2>1, <2>2, <2>3 DEF TypeOK
<1>23. CASE WriteResult
  BY TypeOK, <1>23 DEF WriteResult, goaheadVars, flashVars
<1>24. CASE UpdateInfo
  BY TypeOK, <1>24 DEF UpdateInfo, Event, goaheadVars, flashVars
<1>25. CASE Register
  BY TypeOK, <1>25 DEF Register, goaheadVars, fileVars, flashVars
<1>26. CASE LoseSession
  <2>. USE TypeOK, <1>26 DEF LoseSession, Event
  <2>1. StepsOK'
    BY DEF goaheadVars, appVars
  <2>2. FilesOK'
    BY DEF fileVars, flashVars
  <2>3. FlagsOK'
    BY Zenon DEF appVars, fileVars, flashVars
  <2>. QED
    BY <2>1, <2>2, <2>3 DEF TypeOK
<1>27. CASE AppDies
  <2>. USE TypeOK, <1>27 DEF AppDies, Event
  <2>1. StepsOK'
    BY DEF goaheadVars, appVars
  <2>2. FilesOK'
    BY DEF fileVars, flashVars
  <2>3. FlagsOK'
    BY Zenon DEF appVars, fileVars, flashVars
  <2>. QED
    BY <2>1, <2>2, <2>3 DEF TypeOK
<1>28. CASE AppStarts
  BY TypeOK, <1>28 DEF AppStarts, goaheadVars, fileVars, flashVars
<1>29. CASE GoaheadDies
  BY TypeOK, <1>29 DEF GoaheadDies, Event, At, appVars, fileVars, flashVars
<1>30. CASE GoaheadStarts
  BY TypeOK, <1>30 DEF GoaheadStarts, appVars, fileVars, flashVars
<1>31. CASE Reboot
  <2>. USE TypeOK, <1>31 DEF Reboot, Boot
  <2>1. StepsOK'
    BY DEF goaheadVars, appVars
  <2>2. FilesOK'
    BY DEF fileVars, flashVars
  <2>3. FlagsOK'
    BY Zenon DEF appVars, fileVars, flashVars
  <2>. QED
    BY <2>1, <2>2, <2>3 DEF TypeOK
<1>32. CASE PowerCut
  <2>. USE TypeOK, <1>32 DEF PowerCut, Boot, Dead, Event
  <2>1. StepsOK'
    BY DEF goaheadVars, appVars
  <2>2. FilesOK'
    BY DEF fileVars, flashVars
  <2>3. FlagsOK'
    BY Zenon DEF appVars, fileVars, flashVars
  <2>. QED
    BY <2>1, <2>2, <2>3 DEF TypeOK
<1>33. CASE UNCHANGED vars
  BY TypeOK, <1>33 DEF vars, goaheadVars, appVars, fileVars, flashVars
<1>34. ASSUME NEW c \in Cgis, CgiCleanup(c) PROVE TypeOK'
  BY TypeOK, <1>34 DEF CgiCleanup, At, Busy, appVars, fileVars, flashVars
<1>. QED
  BY <1>1, <1>2, <1>3, <1>4, <1>5, <1>6, <1>7, <1>8, <1>9, <1>10, <1>11,
     <1>12, <1>13, <1>14, <1>15, <1>16, <1>17, <1>18, <1>19, <1>20, <1>21,
     <1>22, <1>23, <1>24, <1>25, <1>26, <1>27, <1>28, <1>29, <1>30, <1>31,
     <1>32, <1>33, <1>34 DEF Next, WebStep, StatusStep, CgiStep, AppStep

(* Every variable keeps its type, in every behaviour of the specification. *)
THEOREM TypeCorrect == Spec => []TypeOK
<1>1. Init => TypeOK
  <2>1. Init => StepsOK /\ FilesOK
    BY DEF Init, StepsOK, FilesOK, Idle, CgiSteps
  <2>2. Init => FlagsOK
    BY Zenon DEF Init, FlagsOK
  <2>. QED
    BY <2>1, <2>2 DEF TypeOK
<1>. QED
  BY <1>1, TypeStep, PTL DEF Spec

-----------------------------------------------------------------------------
(* The result of a download *)

(* Strengthening of ResultOfThisRequest.  As long as goahead does not end  *)
(* in the middle of a request, herouteapp downloads only while the web     *)
(* thread polls, and a result is written after the request is removed.     *)
ResultInv ==
  "goahead" \notin cause =>
    /\ (app \notin {"idle", "off"} \/ downloadnow)
         => web = "poll" /\ fmdownresult = "none"
    /\ web = "ask" => fmdownresult = "none"
    /\ app \in {"ok", "fail"} => ~downloadnow

(* The web thread removes the old result before it asks for a new one.     *)
LEMMA ResultStep == TypeOK /\ ResultInv /\ [Next]_vars => ResultInv'
<1>. SUFFICES ASSUME TypeOK, ResultInv, [Next]_vars PROVE ResultInv'
  OBVIOUS
<1>. USE DEF TypeOK, StepsOK, FilesOK, FlagsOK, ResultInv, Live, Causes
<1>1. CASE RouteUpgrade
  BY ResultInv, <1>1 DEF RouteUpgrade, Accept, Event, appVars, fileVars
<1>2. CASE UploadCgiAuto
  BY ResultInv, <1>2 DEF UploadCgiAuto, Accept, Event, appVars, fileVars
<1>3. ASSUME NEW c \in Cgis, UploadCgi(c) PROVE ResultInv'
  BY ResultInv, <1>3 DEF UploadCgi, Event, goaheadVars, appVars, fileVars,
     flashVars
<1>4. CASE RemoveResult
  BY ResultInv, <1>4 DEF RemoveResult, appVars, flashVars
<1>5. CASE AskDownload
  BY ResultInv, <1>5 DEF AskDownload, appVars, flashVars
<1>6. CASE PollResult
  BY ResultInv, <1>6 DEF PollResult, appVars, fileVars, flashVars
<1>7. ASSUME NEW c \in Cgis, RunUpload(c) PROVE ResultInv'
  BY ResultInv, <1>7 DEF RunUpload, appVars, fileVars, flashVars
<1>8. CASE UploadReturns
  BY ResultInv, <1>8 DEF UploadReturns, appVars, fileVars, flashVars
<1>9. CASE ReadVerdict
  BY ResultInv, <1>9 DEF ReadVerdict, appVars, fileVars, flashVars
<1>10. CASE SetUpImag
  BY ResultInv, <1>10 DEF SetUpImag, appVars, fileVars
<1>11. CASE CallReboot
  BY ResultInv, <1>11 DEF CallReboot, appVars, fileVars, flashVars
<1>12. ASSUME NEW c \in Cgis, ChooseFile(c) PROVE ResultInv'
  BY ResultInv, <1>12 DEF ChooseFile, At, Goto, Finish, GiveUp, goaheadVars,
     appVars, fileVars, flashVars
<1>13. ASSUME NEW c \in Cgis, CheckImage(c) PROVE ResultInv'
  BY ResultInv, <1>13 DEF CheckImage, At, Goto, Finish, GiveUp, goaheadVars,
     appVars, fileVars, flashVars
<1>14. ASSUME NEW c \in Cgis, BeginWrite(c) PROVE ResultInv'
  BY ResultInv, <1>14 DEF BeginWrite, At, goaheadVars, appVars, fileVars
<1>15. ASSUME NEW c \in Cgis, EndWrite(c) PROVE ResultInv'
  BY ResultInv, <1>15 DEF EndWrite, At, Goto, Finish, GiveUp, goaheadVars, appVars,
     fileVars
<1>16. ASSUME NEW c \in Cgis, SetVersion(c) PROVE ResultInv'
  BY ResultInv, <1>16 DEF SetVersion, At, Goto, Finish, GiveUp, goaheadVars,
     appVars, fileVars
<1>17. ASSUME NEW c \in Cgis, WriteVerdict(c) PROVE ResultInv'
  BY ResultInv, <1>17 DEF WriteVerdict, At, Finish, GiveUp, goaheadVars, appVars,
     flashVars
<1>18. CASE SeeRequest
  BY ResultInv, <1>18 DEF SeeRequest, goaheadVars, fileVars, flashVars
<1>19. CASE OpenImage
  BY ResultInv, <1>19 DEF OpenImage, goaheadVars, flashVars
<1>20. CASE Download
  BY ResultInv, <1>20 DEF Download, goaheadVars, flashVars
<1>21. CASE TestSize
  BY ResultInv, <1>21 DEF TestSize, goaheadVars, fileVars, flashVars
<1>22. CASE RemoveRequest
  BY ResultInv, <1>22 DEF RemoveRequest, goaheadVars, flashVars
<1>23. CASE WriteResult
  BY ResultInv, <1>23 DEF WriteResult, goaheadVars, flashVars
<1>24. CASE UpdateInfo
  BY ResultInv, <1>24 DEF UpdateInfo, Event, goaheadVars, flashVars
<1>25. CASE Register
  BY ResultInv, <1>25 DEF Register, goaheadVars, fileVars, flashVars
<1>26. CASE LoseSession
  BY ResultInv, <1>26 DEF LoseSession, Event, goaheadVars, fileVars,
     flashVars
<1>27. CASE AppDies
  BY ResultInv, <1>27 DEF AppDies, Event, goaheadVars, fileVars, flashVars
<1>28. CASE AppStarts
  BY ResultInv, <1>28 DEF AppStarts, goaheadVars, fileVars, flashVars
<1>29. CASE GoaheadDies
  BY ResultInv, <1>29 DEF GoaheadDies, Event, At, appVars, fileVars,
     flashVars
<1>30. CASE GoaheadStarts
  BY ResultInv, <1>30 DEF GoaheadStarts, appVars, fileVars, flashVars
<1>31. CASE Reboot
  BY ResultInv, <1>31 DEF Reboot, Boot, Dead, flashVars
<1>32. CASE PowerCut
  BY ResultInv, <1>32 DEF PowerCut, Boot, Dead, Event, flashVars
<1>33. CASE UNCHANGED vars
  BY ResultInv, <1>33 DEF vars, goaheadVars, appVars, fileVars, flashVars
<1>34. ASSUME NEW c \in Cgis, CgiCleanup(c) PROVE ResultInv'
  BY ResultInv, <1>34 DEF CgiCleanup, At, Busy, appVars, fileVars, flashVars
<1>. QED
  BY <1>1, <1>2, <1>3, <1>4, <1>5, <1>6, <1>7, <1>8, <1>9, <1>10, <1>11,
     <1>12, <1>13, <1>14, <1>15, <1>16, <1>17, <1>18, <1>19, <1>20, <1>21,
     <1>22, <1>23, <1>24, <1>25, <1>26, <1>27, <1>28, <1>29, <1>30, <1>31,
     <1>32, <1>33, <1>34 DEF Next, WebStep, StatusStep, CgiStep, AppStep

(* A result that the waiting web thread reads is that of its own request.  *)
THEOREM ResultSafe == Spec => []ResultOfThisRequest
<1>1. Init => ResultInv
  BY DEF Init, ResultInv
<1>2. ResultInv => ResultOfThisRequest
  BY DEF ResultInv, ResultOfThisRequest
<1>. QED
  BY <1>1, <1>2, TypeCorrect, ResultStep, PTL DEF Spec

-----------------------------------------------------------------------------
(* The records of an upgrade *)

(* Strengthening of RecordsFollowFlash: what a process is about to record. *)
RecordsInv ==
  /\ RecordsFollowFlash
  /\ \A c \in Cgis :
       /\ cgi[c].pc \in {"write", "clash", "version", "passed"} => flash # "old"
       /\ cgi[c].pc = "passed" => version
  /\ status \in {"flag", "reboot"} => version

(* Each process records only what it has done.                             *)
LEMMA RecordsStep == TypeOK /\ RecordsInv /\ [Next]_vars => RecordsInv'
<1>. SUFFICES ASSUME TypeOK, RecordsInv, [Next]_vars PROVE RecordsInv'
  OBVIOUS
<1>. USE DEF TypeOK, StepsOK, FilesOK, FlagsOK, RecordsInv, RecordsFollowFlash,
             Idle, Writing
<1>1. CASE RouteUpgrade
  BY RecordsInv, <1>1 DEF RouteUpgrade, Accept, Event, appVars, fileVars
<1>2. CASE UploadCgiAuto
  BY RecordsInv, <1>2 DEF UploadCgiAuto, Accept, Event, appVars, fileVars
<1>3. ASSUME NEW c \in Cgis, UploadCgi(c) PROVE RecordsInv'
  BY RecordsInv, <1>3 DEF UploadCgi, Event, goaheadVars, appVars, fileVars,
     flashVars
<1>4. CASE RemoveResult
  BY RecordsInv, <1>4 DEF RemoveResult, appVars, flashVars
<1>5. CASE AskDownload
  BY RecordsInv, <1>5 DEF AskDownload, appVars, flashVars
<1>6. CASE PollResult
  BY RecordsInv, <1>6 DEF PollResult, appVars, fileVars, flashVars
<1>7. ASSUME NEW c \in Cgis, RunUpload(c) PROVE RecordsInv'
  BY RecordsInv, <1>7 DEF RunUpload, appVars, fileVars, flashVars
<1>8. CASE UploadReturns
  BY RecordsInv, <1>8 DEF UploadReturns, appVars, fileVars, flashVars
<1>9. CASE ReadVerdict
  BY RecordsInv, <1>9 DEF ReadVerdict, appVars, fileVars, flashVars
<1>10. CASE SetUpImag
  BY RecordsInv, <1>10 DEF SetUpImag, appVars, fileVars
<1>11. CASE CallReboot
  BY RecordsInv, <1>11 DEF CallReboot, appVars, fileVars, flashVars
<1>12. ASSUME NEW c \in Cgis, ChooseFile(c) PROVE RecordsInv'
  BY RecordsInv, <1>12 DEF ChooseFile, At, Goto, Finish, GiveUp, goaheadVars,
     appVars, fileVars, flashVars
<1>13. ASSUME NEW c \in Cgis, CheckImage(c) PROVE RecordsInv'
  BY RecordsInv, <1>13 DEF CheckImage, At, Goto, Finish, GiveUp, goaheadVars,
     appVars, fileVars, flashVars
<1>14. ASSUME NEW c \in Cgis, BeginWrite(c) PROVE RecordsInv'
  BY RecordsInv, <1>14 DEF BeginWrite, At, goaheadVars, appVars, fileVars
<1>15. ASSUME NEW c \in Cgis, EndWrite(c) PROVE RecordsInv'
  BY RecordsInv, <1>15 DEF EndWrite, At, Goto, Finish, GiveUp, goaheadVars, appVars,
     fileVars
<1>16. ASSUME NEW c \in Cgis, SetVersion(c) PROVE RecordsInv'
  BY RecordsInv, <1>16 DEF SetVersion, At, Goto, Finish, GiveUp, goaheadVars,
     appVars, fileVars
<1>17. ASSUME NEW c \in Cgis, WriteVerdict(c) PROVE RecordsInv'
  BY RecordsInv, <1>17 DEF WriteVerdict, At, Finish, GiveUp, goaheadVars, appVars,
     flashVars
<1>18. CASE SeeRequest
  BY RecordsInv, <1>18 DEF SeeRequest, goaheadVars, fileVars, flashVars
<1>19. CASE OpenImage
  BY RecordsInv, <1>19 DEF OpenImage, goaheadVars, flashVars
<1>20. CASE Download
  BY RecordsInv, <1>20 DEF Download, goaheadVars, flashVars
<1>21. CASE TestSize
  BY RecordsInv, <1>21 DEF TestSize, goaheadVars, fileVars, flashVars
<1>22. CASE RemoveRequest
  BY RecordsInv, <1>22 DEF RemoveRequest, goaheadVars, flashVars
<1>23. CASE WriteResult
  BY RecordsInv, <1>23 DEF WriteResult, goaheadVars, flashVars
<1>24. CASE UpdateInfo
  BY RecordsInv, <1>24 DEF UpdateInfo, Event, goaheadVars, flashVars
<1>25. CASE Register
  BY RecordsInv, <1>25 DEF Register, goaheadVars, fileVars, flashVars
<1>26. CASE LoseSession
  BY RecordsInv, <1>26 DEF LoseSession, Event, goaheadVars, fileVars,
     flashVars
<1>27. CASE AppDies
  BY RecordsInv, <1>27 DEF AppDies, Event, goaheadVars, fileVars, flashVars
<1>28. CASE AppStarts
  BY RecordsInv, <1>28 DEF AppStarts, goaheadVars, fileVars, flashVars
<1>29. CASE GoaheadDies
  BY RecordsInv, <1>29 DEF GoaheadDies, Event, At, appVars, fileVars,
     flashVars
<1>30. CASE GoaheadStarts
  BY RecordsInv, <1>30 DEF GoaheadStarts, appVars, fileVars, flashVars
<1>31. CASE Reboot
  BY RecordsInv, <1>31 DEF Reboot, Boot, Dead, flashVars
<1>32. CASE PowerCut
  BY RecordsInv, <1>32 DEF PowerCut, Boot, Dead, Event, flashVars
<1>33. CASE UNCHANGED vars
  BY RecordsInv, <1>33 DEF vars, goaheadVars, appVars, fileVars, flashVars
<1>34. ASSUME NEW c \in Cgis, CgiCleanup(c) PROVE RecordsInv'
  BY RecordsInv, <1>34 DEF CgiCleanup, At, Busy, appVars, fileVars, flashVars
<1>. QED
  BY <1>1, <1>2, <1>3, <1>4, <1>5, <1>6, <1>7, <1>8, <1>9, <1>10, <1>11,
     <1>12, <1>13, <1>14, <1>15, <1>16, <1>17, <1>18, <1>19, <1>20, <1>21,
     <1>22, <1>23, <1>24, <1>25, <1>26, <1>27, <1>28, <1>29, <1>30, <1>31,
     <1>32, <1>33, <1>34 DEF Next, WebStep, StatusStep, CgiStep, AppStep

(* The verdict, the version and HE_ROUTE_UPIMAG tell of a flash that was   *)
(* written, whatever processes die and whoever uploads at the same time.   *)
THEOREM RecordsSafe == Spec => []RecordsFollowFlash
<1>1. Init => RecordsInv
  BY DEF Init, RecordsInv, RecordsFollowFlash, Idle
<1>2. RecordsInv => RecordsFollowFlash
  BY DEF RecordsInv
<1>. QED
  BY <1>1, <1>2, TypeCorrect, RecordsStep, PTL DEF Spec

-----------------------------------------------------------------------------
(* The flash *)

(* DoUpgrade is at work only while g_upgradeState is 1, and waits for the  *)
(* process it has started.                                                 *)
StatusInv ==
  /\ status # "idle" => upgradeState = 1
  /\ web = "off" => upgradeState = 0
  /\ status = "cgi" <=> child # NoCgi
  /\ child # NoCgi => Live(child)
  /\ child \notin cgiList

(* The status thread runs one upload.cgi at a time.                        *)
LEMMA StatusInvStep == TypeOK /\ StatusInv /\ [Next]_vars => StatusInv'
<1>. SUFFICES ASSUME TypeOK, StatusInv, [Next]_vars PROVE StatusInv'
  OBVIOUS
<1>. USE DEF TypeOK, StepsOK, FilesOK, FlagsOK, StatusInv, Idle, Live, Writing
<1>1. CASE RouteUpgrade
  BY StatusInv, <1>1 DEF RouteUpgrade, Accept, Event, appVars, fileVars
<1>2. CASE UploadCgiAuto
  BY StatusInv, <1>2 DEF UploadCgiAuto, Accept, Event, appVars, fileVars
<1>3. ASSUME NEW c \in Cgis, UploadCgi(c) PROVE StatusInv'
  BY StatusInv, <1>3 DEF UploadCgi, Event, goaheadVars, appVars, fileVars,
     flashVars
<1>4. CASE RemoveResult
  BY StatusInv, <1>4 DEF RemoveResult, appVars, flashVars
<1>5. CASE AskDownload
  BY StatusInv, <1>5 DEF AskDownload, appVars, flashVars
<1>6. CASE PollResult
  BY StatusInv, <1>6 DEF PollResult, appVars, fileVars, flashVars
<1>7. ASSUME NEW c \in Cgis, RunUpload(c) PROVE StatusInv'
  BY StatusInv, <1>7 DEF RunUpload, appVars, fileVars, flashVars
<1>8. CASE UploadReturns
  BY StatusInv, <1>8 DEF UploadReturns, appVars, fileVars, flashVars
<1>9. CASE ReadVerdict
  BY StatusInv, <1>9 DEF ReadVerdict, appVars, fileVars, flashVars
<1>10. CASE SetUpImag
  BY StatusInv, <1>10 DEF SetUpImag, appVars, fileVars
<1>11. CASE CallReboot
  BY StatusInv, <1>11 DEF CallReboot, appVars, fileVars, flashVars
<1>12. ASSUME NEW c \in Cgis, ChooseFile(c) PROVE StatusInv'
  BY StatusInv, <1>12 DEF ChooseFile, At, Goto, Finish, GiveUp, goaheadVars,
     appVars, fileVars, flashVars
<1>13. ASSUME NEW c \in Cgis, CheckImage(c) PROVE StatusInv'
  BY StatusInv, <1>13 DEF CheckImage, At, Goto, Finish, GiveUp, goaheadVars,
     appVars, fileVars, flashVars
<1>14. ASSUME NEW c \in Cgis, BeginWrite(c) PROVE StatusInv'
  BY StatusInv, <1>14 DEF BeginWrite, At, goaheadVars, appVars, fileVars
<1>15. ASSUME NEW c \in Cgis, EndWrite(c) PROVE StatusInv'
  BY StatusInv, <1>15 DEF EndWrite, At, Goto, Finish, GiveUp, goaheadVars, appVars,
     fileVars
<1>16. ASSUME NEW c \in Cgis, SetVersion(c) PROVE StatusInv'
  BY StatusInv, <1>16 DEF SetVersion, At, Goto, Finish, GiveUp, goaheadVars,
     appVars, fileVars
<1>17. ASSUME NEW c \in Cgis, WriteVerdict(c) PROVE StatusInv'
  BY StatusInv, <1>17 DEF WriteVerdict, At, Finish, GiveUp, goaheadVars, appVars,
     flashVars
<1>18. CASE SeeRequest
  BY StatusInv, <1>18 DEF SeeRequest, goaheadVars, fileVars, flashVars
<1>19. CASE OpenImage
  BY StatusInv, <1>19 DEF OpenImage, goaheadVars, flashVars
<1>20. CASE Download
  BY StatusInv, <1>20 DEF Download, goaheadVars, flashVars
<1>21. CASE TestSize
  BY StatusInv, <1>21 DEF TestSize, goaheadVars, fileVars, flashVars
<1>22. CASE RemoveRequest
  BY StatusInv, <1>22 DEF RemoveRequest, goaheadVars, flashVars
<1>23. CASE WriteResult
  BY StatusInv, <1>23 DEF WriteResult, goaheadVars, flashVars
<1>24. CASE UpdateInfo
  BY StatusInv, <1>24 DEF UpdateInfo, Event, goaheadVars, flashVars
<1>25. CASE Register
  BY StatusInv, <1>25 DEF Register, goaheadVars, fileVars, flashVars
<1>26. CASE LoseSession
  BY StatusInv, <1>26 DEF LoseSession, Event, goaheadVars, fileVars,
     flashVars
<1>27. CASE AppDies
  BY StatusInv, <1>27 DEF AppDies, Event, goaheadVars, fileVars, flashVars
<1>28. CASE AppStarts
  BY StatusInv, <1>28 DEF AppStarts, goaheadVars, fileVars, flashVars
<1>29. CASE GoaheadDies
  BY StatusInv, <1>29 DEF GoaheadDies, Event, At, appVars, fileVars,
     flashVars
<1>30. CASE GoaheadStarts
  BY StatusInv, <1>30 DEF GoaheadStarts, appVars, fileVars, flashVars
<1>31. CASE Reboot
  BY StatusInv, <1>31 DEF Reboot, Boot, Dead, flashVars
<1>32. CASE PowerCut
  BY StatusInv, <1>32 DEF PowerCut, Boot, Dead, Event, flashVars
<1>33. CASE UNCHANGED vars
  BY StatusInv, <1>33 DEF vars, goaheadVars, appVars, fileVars, flashVars
<1>34. ASSUME NEW c \in Cgis, CgiCleanup(c) PROVE StatusInv'
  BY StatusInv, <1>34 DEF CgiCleanup, At, Busy, appVars, fileVars, flashVars
<1>. QED
  BY <1>1, <1>2, <1>3, <1>4, <1>5, <1>6, <1>7, <1>8, <1>9, <1>10, <1>11,
     <1>12, <1>13, <1>14, <1>15, <1>16, <1>17, <1>18, <1>19, <1>20, <1>21,
     <1>22, <1>23, <1>24, <1>25, <1>26, <1>27, <1>28, <1>29, <1>30, <1>31,
     <1>32, <1>33, <1>34 DEF Next, WebStep, StatusStep, CgiStep, AppStep

(* Nothing the code is not prepared for has happened.                      *)
Undisturbed == cause \subseteq {"result"}

(* Strengthening of SafeFlash.  Undisturbed, at most one upload.cgi is at  *)
(* work, and the web thread is idle as long as one is at work or one is    *)
(* due, so that (by ResultInv) herouteapp leaves the image alone, and what *)
(* is about to be written is what was checked.                             *)
FlashInv ==
  Undisturbed =>
    /\ \A c, d \in Cgis : Busy(c) /\ Busy(d) => c = d
    /\ \A c \in Cgis : Busy(c) => web = "idle" /\ (c # child => upgradeState = 0)
    /\ upgradeState = 1 => web = "idle"
    /\ \A c \in Cgis : /\ cgi[c].pc # "clash"
                       /\ cgi[c].pc = "begin" /\ cgi[c].src = "img"
                            => imgfile = "good"
    /\ flash = "bad" => \E c \in Cgis : Writing(c)

(* Without a cause, nobody meets a process that writes the flash.          *)
LEMMA FlashStep ==
  TypeOK /\ StatusInv /\ ResultInv /\ FlashInv /\ [Next]_vars => FlashInv'
<1>. SUFFICES ASSUME TypeOK, StatusInv, ResultInv, FlashInv, [Next]_vars
              PROVE FlashInv'
  OBVIOUS
<1>. USE DEF TypeOK, StepsOK, FilesOK, FlagsOK, StatusInv, ResultInv, FlashInv,
             Undisturbed, Idle, Live, Busy, Writing, Browsers
<1>1. CASE RouteUpgrade
  <2>. USE TypeOK, <1>1 DEF RouteUpgrade, Event
  <2>1. CASE UNCHANGED <<web, cause>>
    BY <2>1 DEF fileVars
  <2>2. CASE upgradeState = 0 /\ Accept({})
    <3>1. CASE \E c \in Cgis : Browsers(c)
      BY <2>2, <3>1 DEF Accept
    <3>2. CASE ~ \E c \in Cgis : Browsers(c)
      <4>1. \A c \in Cgis : ~ Busy(c)
        BY <2>2, <3>2
      <4>. QED
        BY <2>2, <3>2, <4>1 DEF Accept, fileVars
    <3>. QED
      BY <3>1, <3>2
  <2>. QED
    BY <2>1, <2>2
<1>2. CASE UploadCgiAuto
  BY FlashInv, <1>2 DEF UploadCgiAuto, Accept, Event, appVars, fileVars
<1>3. ASSUME NEW c \in Cgis, UploadCgi(c) PROVE FlashInv'
  BY FlashInv, <1>3 DEF UploadCgi, Event, goaheadVars, appVars, fileVars,
     flashVars
<1>4. CASE RemoveResult
  BY FlashInv, <1>4 DEF RemoveResult, appVars, flashVars
<1>5. CASE AskDownload
  BY FlashInv, <1>5 DEF AskDownload, appVars, flashVars
<1>6. CASE PollResult
  BY FlashInv, <1>6 DEF PollResult, appVars, fileVars, flashVars
<1>7. ASSUME NEW c \in Cgis, RunUpload(c) PROVE FlashInv'
  BY FlashInv, <1>7 DEF RunUpload, appVars, fileVars, flashVars
<1>8. CASE UploadReturns
  BY FlashInv, <1>8 DEF UploadReturns, appVars, fileVars, flashVars
<1>9. CASE ReadVerdict
  BY FlashInv, <1>9 DEF ReadVerdict, appVars, fileVars, flashVars
<1>10. CASE SetUpImag
  BY FlashInv, <1>10 DEF SetUpImag, appVars, fileVars
<1>11. CASE CallReboot
  BY FlashInv, <1>11 DEF CallReboot, appVars, fileVars, flashVars
<1>12. ASSUME NEW c \in Cgis, ChooseFile(c) PROVE FlashInv'
  BY FlashInv, <1>12 DEF ChooseFile, At, Goto, Finish, GiveUp, goaheadVars, appVars,
     fileVars, flashVars
<1>13. ASSUME NEW c \in Cgis, CheckImage(c) PROVE FlashInv'
  BY FlashInv, <1>13 DEF CheckImage, At, Goto, Finish, GiveUp, goaheadVars, appVars,
     fileVars, flashVars
<1>14. ASSUME NEW c \in Cgis, BeginWrite(c) PROVE FlashInv'
  BY FlashInv, <1>14 DEF BeginWrite, At, goaheadVars, appVars, fileVars
<1>15. ASSUME NEW c \in Cgis, EndWrite(c) PROVE FlashInv'
  BY FlashInv, <1>15 DEF EndWrite, At, Goto, Finish, GiveUp, goaheadVars, appVars,
     fileVars
<1>16. ASSUME NEW c \in Cgis, SetVersion(c) PROVE FlashInv'
  BY FlashInv, <1>16 DEF SetVersion, At, Goto, Finish, GiveUp, goaheadVars, appVars,
     fileVars
<1>17. ASSUME NEW c \in Cgis, WriteVerdict(c) PROVE FlashInv'
  BY FlashInv, <1>17 DEF WriteVerdict, At, Finish, GiveUp, goaheadVars, appVars,
     flashVars
<1>18. CASE SeeRequest
  BY FlashInv, <1>18 DEF SeeRequest, goaheadVars, fileVars, flashVars
<1>19. CASE OpenImage
  BY FlashInv, <1>19 DEF OpenImage, goaheadVars, flashVars
<1>20. CASE Download
  BY FlashInv, <1>20 DEF Download, goaheadVars, flashVars
<1>21. CASE TestSize
  BY FlashInv, <1>21 DEF TestSize, goaheadVars, fileVars, flashVars
<1>22. CASE RemoveRequest
  BY FlashInv, <1>22 DEF RemoveRequest, goaheadVars, flashVars
<1>23. CASE WriteResult
  BY FlashInv, <1>23 DEF WriteResult, goaheadVars, flashVars
<1>24. CASE UpdateInfo
  BY FlashInv, <1>24 DEF UpdateInfo, Event, goaheadVars, flashVars
<1>25. CASE Register
  BY FlashInv, <1>25 DEF Register, goaheadVars, fileVars, flashVars
<1>26. CASE LoseSession
  BY FlashInv, <1>26 DEF LoseSession, Event, goaheadVars, fileVars,
     flashVars
<1>27. CASE AppDies
  BY FlashInv, <1>27 DEF AppDies, Event, goaheadVars, fileVars, flashVars
<1>28. CASE AppStarts
  BY FlashInv, <1>28 DEF AppStarts, goaheadVars, fileVars, flashVars
<1>29. CASE GoaheadDies
  BY FlashInv, <1>29 DEF GoaheadDies, Event, At, appVars, fileVars,
     flashVars
<1>30. CASE GoaheadStarts
  BY FlashInv, <1>30 DEF GoaheadStarts, appVars, fileVars, flashVars
<1>31. CASE Reboot
  BY FlashInv, <1>31 DEF Reboot, Boot, Dead, flashVars
<1>32. CASE PowerCut
  BY FlashInv, <1>32 DEF PowerCut, Boot, Dead, Event, flashVars
<1>33. CASE UNCHANGED vars
  BY FlashInv, <1>33 DEF vars, goaheadVars, appVars, fileVars, flashVars
<1>34. ASSUME NEW c \in Cgis, CgiCleanup(c) PROVE FlashInv'
  BY FlashInv, <1>34 DEF CgiCleanup, At, Busy, appVars, fileVars, flashVars
<1>. QED
  BY <1>1, <1>2, <1>3, <1>4, <1>5, <1>6, <1>7, <1>8, <1>9, <1>10, <1>11,
     <1>12, <1>13, <1>14, <1>15, <1>16, <1>17, <1>18, <1>19, <1>20, <1>21,
     <1>22, <1>23, <1>24, <1>25, <1>26, <1>27, <1>28, <1>29, <1>30, <1>31,
     <1>32, <1>33, <1>34 DEF Next, WebStep, StatusStep, CgiStep, AppStep

(* Undisturbed, the flash is never left with an image that was not checked *)
(* or not written to its end.                                              *)
THEOREM FlashSafe == Spec => []SafeFlash
<1>1. Init => StatusInv /\ ResultInv /\ FlashInv
  BY DEF Init, StatusInv, ResultInv, FlashInv, Live, Busy, Writing, Idle
<1>2. FlashInv => SafeFlash
  BY DEF FlashInv, SafeFlash, Undisturbed
<1>. QED
  BY <1>1, <1>2, TypeCorrect, StatusInvStep, ResultStep, FlashStep, PTL DEF Spec
-----------------------------------------------------------------------------
(* The answer to a request *)

(* Strengthening of AnswerOwed: between its last two commands herouteapp   *)
(* still owes the answer.                                                  *)
RequestInv ==
  web = "poll" /\ fmdownresult = "none" /\ ~downloadnow
    => app \in {"ok", "fail"} \/ "result" \in cause

(* The request is removed on the way to its answer, or lost with it.       *)
LEMMA RequestStep == TypeOK /\ RequestInv /\ [Next]_vars => RequestInv'
<1>. SUFFICES ASSUME TypeOK, RequestInv, [Next]_vars PROVE RequestInv'
  OBVIOUS
<1>. USE DEF TypeOK, StepsOK, FilesOK, FlagsOK, RequestInv, Live, Causes
<1>1. CASE RouteUpgrade
  BY RequestInv, <1>1 DEF RouteUpgrade, Accept, Event, appVars, fileVars
<1>2. CASE UploadCgiAuto
  BY RequestInv, <1>2 DEF UploadCgiAuto, Accept, Event, appVars, fileVars
<1>3. ASSUME NEW c \in Cgis, UploadCgi(c) PROVE RequestInv'
  BY RequestInv, <1>3 DEF UploadCgi, Event, goaheadVars, appVars, fileVars,
     flashVars
<1>4. CASE RemoveResult
  BY RequestInv, <1>4 DEF RemoveResult, appVars, flashVars
<1>5. CASE AskDownload
  BY RequestInv, <1>5 DEF AskDownload, appVars, flashVars
<1>6. CASE PollResult
  BY RequestInv, <1>6 DEF PollResult, appVars, fileVars, flashVars
<1>7. ASSUME NEW c \in Cgis, RunUpload(c) PROVE RequestInv'
  BY RequestInv, <1>7 DEF RunUpload, appVars, fileVars, flashVars
<1>8. CASE UploadReturns
  BY RequestInv, <1>8 DEF UploadReturns, appVars, fileVars, flashVars
<1>9. CASE ReadVerdict
  BY RequestInv, <1>9 DEF ReadVerdict, appVars, fileVars, flashVars
<1>10. CASE SetUpImag
  BY RequestInv, <1>10 DEF SetUpImag, appVars, fileVars
<1>11. CASE CallReboot
  BY RequestInv, <1>11 DEF CallReboot, appVars, fileVars, flashVars
<1>12. ASSUME NEW c \in Cgis, ChooseFile(c) PROVE RequestInv'
  BY RequestInv, <1>12 DEF ChooseFile, At, Goto, Finish, GiveUp, goaheadVars,
     appVars, fileVars, flashVars
<1>13. ASSUME NEW c \in Cgis, CheckImage(c) PROVE RequestInv'
  BY RequestInv, <1>13 DEF CheckImage, At, Goto, Finish, GiveUp, goaheadVars,
     appVars, fileVars, flashVars
<1>14. ASSUME NEW c \in Cgis, BeginWrite(c) PROVE RequestInv'
  BY RequestInv, <1>14 DEF BeginWrite, At, goaheadVars, appVars, fileVars
<1>15. ASSUME NEW c \in Cgis, EndWrite(c) PROVE RequestInv'
  BY RequestInv, <1>15 DEF EndWrite, At, Goto, Finish, GiveUp, goaheadVars, appVars,
     fileVars
<1>16. ASSUME NEW c \in Cgis, SetVersion(c) PROVE RequestInv'
  BY RequestInv, <1>16 DEF SetVersion, At, Goto, Finish, GiveUp, goaheadVars,
     appVars, fileVars
<1>17. ASSUME NEW c \in Cgis, WriteVerdict(c) PROVE RequestInv'
  BY RequestInv, <1>17 DEF WriteVerdict, At, Finish, GiveUp, goaheadVars, appVars,
     flashVars
<1>18. CASE SeeRequest
  BY RequestInv, <1>18 DEF SeeRequest, goaheadVars, fileVars, flashVars
<1>19. CASE OpenImage
  BY RequestInv, <1>19 DEF OpenImage, goaheadVars, flashVars
<1>20. CASE Download
  BY RequestInv, <1>20 DEF Download, goaheadVars, flashVars
<1>21. CASE TestSize
  BY RequestInv, <1>21 DEF TestSize, goaheadVars, fileVars, flashVars
<1>22. CASE RemoveRequest
  BY RequestInv, <1>22 DEF RemoveRequest, goaheadVars, flashVars
<1>23. CASE WriteResult
  BY RequestInv, <1>23 DEF WriteResult, goaheadVars, flashVars
<1>24. CASE UpdateInfo
  BY RequestInv, <1>24 DEF UpdateInfo, Event, goaheadVars, flashVars
<1>25. CASE Register
  BY RequestInv, <1>25 DEF Register, goaheadVars, fileVars, flashVars
<1>26. CASE LoseSession
  BY RequestInv, <1>26 DEF LoseSession, Event, goaheadVars, fileVars,
     flashVars
<1>27. CASE AppDies
  BY RequestInv, <1>27 DEF AppDies, Event, goaheadVars, fileVars, flashVars
<1>28. CASE AppStarts
  BY RequestInv, <1>28 DEF AppStarts, goaheadVars, fileVars, flashVars
<1>29. CASE GoaheadDies
  BY RequestInv, <1>29 DEF GoaheadDies, Event, At, appVars, fileVars,
     flashVars
<1>30. CASE GoaheadStarts
  BY RequestInv, <1>30 DEF GoaheadStarts, appVars, fileVars, flashVars
<1>31. CASE Reboot
  BY RequestInv, <1>31 DEF Reboot, Boot, Dead, flashVars
<1>32. CASE PowerCut
  BY RequestInv, <1>32 DEF PowerCut, Boot, Dead, Event, flashVars
<1>33. CASE UNCHANGED vars
  BY RequestInv, <1>33 DEF vars, goaheadVars, appVars, fileVars, flashVars
<1>34. ASSUME NEW c \in Cgis, CgiCleanup(c) PROVE RequestInv'
  BY RequestInv, <1>34 DEF CgiCleanup, At, Busy, appVars, fileVars, flashVars
<1>. QED
  BY <1>1, <1>2, <1>3, <1>4, <1>5, <1>6, <1>7, <1>8, <1>9, <1>10, <1>11,
     <1>12, <1>13, <1>14, <1>15, <1>16, <1>17, <1>18, <1>19, <1>20, <1>21,
     <1>22, <1>23, <1>24, <1>25, <1>26, <1>27, <1>28, <1>29, <1>30, <1>31,
     <1>32, <1>33, <1>34 DEF Next, WebStep, StatusStep, CgiStep, AppStep

(* The web thread never waits for a result that nobody owes it but after   *)
(* the death of herouteapp between its last two commands.                  *)
THEOREM AnswerIsOwed == Spec => []AnswerOwed
<1>1. Init => RequestInv
  BY DEF Init, RequestInv
<1>2. RequestInv => AnswerOwed
  BY DEF RequestInv, AnswerOwed, Unanswered
<1>. QED
  BY <1>1, <1>2, TypeCorrect, RequestStep, PTL DEF Spec

(* A lost answer is lost for good: neither herouteapp, started again, nor  *)
(* the status thread, nor any upload ends the wait of the web thread, only *)
(* the end of goahead or of the device.                                    *)
THEOREM LostAnswerLasts ==
  Spec => [][Unanswered => Unanswered' \/ GoaheadDies \/ Reboot \/ PowerCut]_vars
<1>. DEFINE Goal == Unanswered' \/ GoaheadDies \/ Reboot \/ PowerCut
<1>1. TypeOK /\ [Next]_vars => (Unanswered => Goal)
  <2>. SUFFICES ASSUME TypeOK, [Next]_vars, Unanswered PROVE Goal
    OBVIOUS
  <2>. USE DEF Unanswered
  <2>1. CASE RouteUpgrade
    BY Unanswered, <2>1 DEF RouteUpgrade, Accept, Event, appVars, fileVars
  <2>2. CASE UploadCgiAuto
    BY Unanswered, <2>2 DEF UploadCgiAuto, Accept, Event, appVars, fileVars
  <2>3. ASSUME NEW c \in Cgis, UploadCgi(c) PROVE Goal
    BY Unanswered, <2>3 DEF UploadCgi, Event, goaheadVars, appVars, fileVars,
       flashVars
  <2>4. CASE RemoveResult
    BY Unanswered, <2>4 DEF RemoveResult, appVars, flashVars
  <2>5. CASE AskDownload
    BY Unanswered, <2>5 DEF AskDownload, appVars, flashVars
  <2>6. CASE PollResult
    BY Unanswered, <2>6 DEF PollResult, appVars, fileVars, flashVars
  <2>7. ASSUME NEW c \in Cgis, RunUpload(c) PROVE Goal
    BY Unanswered, <2>7 DEF RunUpload, appVars, fileVars, flashVars
  <2>8. CASE UploadReturns
    BY Unanswered, <2>8 DEF UploadReturns, appVars, fileVars, flashVars
  <2>9. CASE ReadVerdict
    BY Unanswered, <2>9 DEF ReadVerdict, appVars, fileVars, flashVars
  <2>10. CASE SetUpImag
    BY Unanswered, <2>10 DEF SetUpImag, appVars, fileVars
  <2>11. CASE CallReboot
    BY Unanswered, <2>11 DEF CallReboot, appVars, fileVars, flashVars
  <2>12. ASSUME NEW c \in Cgis, ChooseFile(c) PROVE Goal
    BY Unanswered, <2>12 DEF ChooseFile, At, Goto, Finish, GiveUp, goaheadVars,
       appVars, fileVars, flashVars
  <2>13. ASSUME NEW c \in Cgis, CheckImage(c) PROVE Goal
    BY Unanswered, <2>13 DEF CheckImage, At, Goto, Finish, GiveUp, goaheadVars,
       appVars, fileVars, flashVars
  <2>14. ASSUME NEW c \in Cgis, BeginWrite(c) PROVE Goal
    BY Unanswered, <2>14 DEF BeginWrite, At, goaheadVars, appVars, fileVars
  <2>15. ASSUME NEW c \in Cgis, EndWrite(c) PROVE Goal
    BY Unanswered, <2>15 DEF EndWrite, At, Goto, Finish, GiveUp, goaheadVars, appVars,
       fileVars
  <2>16. ASSUME NEW c \in Cgis, SetVersion(c) PROVE Goal
    BY Unanswered, <2>16 DEF SetVersion, At, Goto, Finish, GiveUp, goaheadVars,
       appVars, fileVars
  <2>17. ASSUME NEW c \in Cgis, WriteVerdict(c) PROVE Goal
    BY Unanswered, <2>17 DEF WriteVerdict, At, Finish, GiveUp, goaheadVars, appVars,
       flashVars
  <2>18. CASE SeeRequest
    BY Unanswered, <2>18 DEF SeeRequest, goaheadVars, fileVars, flashVars
  <2>19. CASE OpenImage
    BY Unanswered, <2>19 DEF OpenImage, goaheadVars, flashVars
  <2>20. CASE Download
    BY Unanswered, <2>20 DEF Download, goaheadVars, flashVars
  <2>21. CASE TestSize
    BY Unanswered, <2>21 DEF TestSize, goaheadVars, fileVars, flashVars
  <2>22. CASE RemoveRequest
    BY Unanswered, <2>22 DEF RemoveRequest, goaheadVars, flashVars
  <2>23. CASE WriteResult
    BY Unanswered, <2>23 DEF WriteResult, goaheadVars, flashVars
  <2>24. CASE UpdateInfo
    BY Unanswered, <2>24 DEF UpdateInfo, Event, goaheadVars, flashVars
  <2>25. CASE Register
    BY Unanswered, <2>25 DEF Register, goaheadVars, fileVars, flashVars
  <2>26. CASE LoseSession
    BY Unanswered, <2>26 DEF LoseSession, Event, goaheadVars, fileVars,
       flashVars
  <2>27. CASE AppDies
    BY Unanswered, <2>27 DEF AppDies, Event, goaheadVars, fileVars, flashVars
  <2>28. CASE AppStarts
    BY Unanswered, <2>28 DEF AppStarts, goaheadVars, fileVars, flashVars
  <2>29. CASE GoaheadDies
    BY <2>29
  <2>30. CASE GoaheadStarts
    BY Unanswered, <2>30 DEF GoaheadStarts, appVars, fileVars, flashVars
  <2>31. CASE Reboot
    BY <2>31
  <2>32. CASE PowerCut
    BY <2>32
  <2>33. CASE UNCHANGED vars
    BY Unanswered, <2>33 DEF vars, goaheadVars, appVars, fileVars, flashVars
  <2>34. ASSUME NEW c \in Cgis, CgiCleanup(c) PROVE Goal
    BY Unanswered, <2>34 DEF CgiCleanup, At, Busy, appVars, fileVars, flashVars
  <2>. QED
    BY <2>1, <2>2, <2>3, <2>4, <2>5, <2>6, <2>7, <2>8, <2>9, <2>10, <2>11,
       <2>12, <2>13, <2>14, <2>15, <2>16, <2>17, <2>18, <2>19, <2>20, <2>21,
       <2>22, <2>23, <2>24, <2>25, <2>26, <2>27, <2>28, <2>29, <2>30, <2>31,
       <2>32, <2>33, <2>34 DEF Next, WebStep, StatusStep, CgiStep, AppStep
<1>. QED
  BY <1>1, TypeCorrect, PTL DEF Spec

(* The web thread polls as long as herouteapp is in curl_easy_perform:     *)
(* nothing but the end of the download, of one of the two processes or of  *)
(* the device ends the wait, and none of these has a time limit.           *)
THEOREM DownloadHangs ==
  Spec => [][Hanging => \/ Hanging' \/ Download \/ AppDies
                        \/ GoaheadDies \/ Reboot \/ PowerCut]_vars
<1>. DEFINE Goal == \/ Hanging' \/ Download \/ AppDies
                    \/ GoaheadDies \/ Reboot \/ PowerCut
<1>1. TypeOK /\ [Next]_vars => (Hanging => Goal)
  <2>. SUFFICES ASSUME TypeOK, [Next]_vars, Hanging PROVE Goal
    OBVIOUS
  <2>. USE DEF Hanging
  <2>1. CASE RouteUpgrade
    BY Hanging, <2>1 DEF RouteUpgrade, Accept, Event, appVars, fileVars
  <2>2. CASE UploadCgiAuto
    BY Hanging, <2>2 DEF UploadCgiAuto, Accept, Event, appVars, fileVars
  <2>3. ASSUME NEW c \in Cgis, UploadCgi(c) PROVE Goal
    BY Hanging, <2>3 DEF UploadCgi, Event, goaheadVars, appVars, fileVars,
       flashVars
  <2>4. CASE RemoveResult
    BY Hanging, <2>4 DEF RemoveResult, appVars, flashVars
  <2>5. CASE AskDownload
    BY Hanging, <2>5 DEF AskDownload, appVars, flashVars
  <2>6. CASE PollResult
    BY Hanging, <2>6 DEF PollResult, appVars, fileVars, flashVars
  <2>7. ASSUME NEW c \in Cgis, RunUpload(c) PROVE Goal
    BY Hanging, <2>7 DEF RunUpload, appVars, fileVars, flashVars
  <2>8. CASE UploadReturns
    BY Hanging, <2>8 DEF UploadReturns, appVars, fileVars, flashVars
  <2>9. CASE ReadVerdict
    BY Hanging, <2>9 DEF ReadVerdict, appVars, fileVars, flashVars
  <2>10. CASE SetUpImag
    BY Hanging, <2>10 DEF SetUpImag, appVars, fileVars
  <2>11. CASE CallReboot
    BY Hanging, <2>11 DEF CallReboot, appVars, fileVars, flashVars
  <2>12. ASSUME NEW c \in Cgis, ChooseFile(c) PROVE Goal
    BY Hanging, <2>12 DEF ChooseFile, At, Goto, Finish, GiveUp, goaheadVars,
       appVars, fileVars, flashVars
  <2>13. ASSUME NEW c \in Cgis, CheckImage(c) PROVE Goal
    BY Hanging, <2>13 DEF CheckImage, At, Goto, Finish, GiveUp, goaheadVars,
       appVars, fileVars, flashVars
  <2>14. ASSUME NEW c \in Cgis, BeginWrite(c) PROVE Goal
    BY Hanging, <2>14 DEF BeginWrite, At, goaheadVars, appVars, fileVars
  <2>15. ASSUME NEW c \in Cgis, EndWrite(c) PROVE Goal
    BY Hanging, <2>15 DEF EndWrite, At, Goto, Finish, GiveUp, goaheadVars, appVars,
       fileVars
  <2>16. ASSUME NEW c \in Cgis, SetVersion(c) PROVE Goal
    BY Hanging, <2>16 DEF SetVersion, At, Goto, Finish, GiveUp, goaheadVars,
       appVars, fileVars
  <2>17. ASSUME NEW c \in Cgis, WriteVerdict(c) PROVE Goal
    BY Hanging, <2>17 DEF WriteVerdict, At, Finish, GiveUp, goaheadVars, appVars,
       flashVars
  <2>18. CASE SeeRequest
    BY Hanging, <2>18 DEF SeeRequest, goaheadVars, fileVars, flashVars
  <2>19. CASE OpenImage
    BY Hanging, <2>19 DEF OpenImage, goaheadVars, flashVars
  <2>20. CASE Download
    BY <2>20
  <2>21. CASE TestSize
    BY Hanging, <2>21 DEF TestSize, goaheadVars, fileVars, flashVars
  <2>22. CASE RemoveRequest
    BY Hanging, <2>22 DEF RemoveRequest, goaheadVars, flashVars
  <2>23. CASE WriteResult
    BY Hanging, <2>23 DEF WriteResult, goaheadVars, flashVars
  <2>24. CASE UpdateInfo
    BY Hanging, <2>24 DEF UpdateInfo, Event, goaheadVars, flashVars
  <2>25. CASE Register
    BY Hanging, <2>25 DEF Register, goaheadVars, fileVars, flashVars
  <2>26. CASE LoseSession
    BY Hanging, <2>26 DEF LoseSession, Event, goaheadVars, fileVars,
       flashVars
  <2>27. CASE AppDies
    BY <2>27
  <2>28. CASE AppStarts
    BY Hanging, <2>28 DEF AppStarts, goaheadVars, fileVars, flashVars
  <2>29. CASE GoaheadDies
    BY <2>29
  <2>30. CASE GoaheadStarts
    BY Hanging, <2>30 DEF GoaheadStarts, appVars, fileVars, flashVars
  <2>31. CASE Reboot
    BY <2>31
  <2>32. CASE PowerCut
    BY <2>32
  <2>33. CASE UNCHANGED vars
    BY Hanging, <2>33 DEF vars, goaheadVars, appVars, fileVars, flashVars
  <2>34. ASSUME NEW c \in Cgis, CgiCleanup(c) PROVE Goal
    BY Hanging, <2>34 DEF CgiCleanup, At, Busy, appVars, fileVars, flashVars
  <2>. QED
    BY <2>1, <2>2, <2>3, <2>4, <2>5, <2>6, <2>7, <2>8, <2>9, <2>10, <2>11,
       <2>12, <2>13, <2>14, <2>15, <2>16, <2>17, <2>18, <2>19, <2>20, <2>21,
       <2>22, <2>23, <2>24, <2>25, <2>26, <2>27, <2>28, <2>29, <2>30, <2>31,
       <2>32, <2>33, <2>34 DEF Next, WebStep, StatusStep, CgiStep, AppStep
<1>. QED
  BY <1>1, TypeCorrect, PTL DEF Spec

-----------------------------------------------------------------------------
(* The verdict of upload.cgi *)

(* Strengthening of VerdictOwed.  Without the form and as long as goahead  *)
(* does not end in the middle of something, the result of the download is  *)
(* there while an upgrade is under way, so that the upload.cgi of the      *)
(* status thread takes the downloaded image and ends with a verdict.       *)
VerdictInv ==
  cause \cap {"form", "goahead"} = {} =>
    /\ upgradeState = 1 => web = "idle" /\ fmdownresult = "successdownfm"
    /\ child # NoCgi =>
         /\ cgi[child].pc # "start" => cgi[child].src = "img"
         /\ cgi[child].pc = "end" => upgraderesult # "none"
    /\ status = "wait" => upgraderesult # "none"

(* By ResultInv herouteapp writes no other result during the upgrade.      *)
LEMMA VerdictStep ==
  TypeOK /\ StatusInv /\ ResultInv /\ VerdictInv /\ [Next]_vars => VerdictInv'
<1>. SUFFICES ASSUME TypeOK, StatusInv, ResultInv, VerdictInv, [Next]_vars
              PROVE VerdictInv'
  OBVIOUS
<1>. USE DEF TypeOK, StepsOK, FilesOK, FlagsOK, StatusInv, ResultInv, VerdictInv,
             Idle, Live, Writing
<1>1. CASE RouteUpgrade
  BY VerdictInv, <1>1 DEF RouteUpgrade, Accept, Event, appVars, fileVars
<1>2. CASE UploadCgiAuto
  BY VerdictInv, <1>2 DEF UploadCgiAuto, Accept, Event, appVars, fileVars
<1>3. ASSUME NEW c \in Cgis, UploadCgi(c) PROVE VerdictInv'
  BY VerdictInv, <1>3 DEF UploadCgi, Event, goaheadVars, appVars, fileVars,
     flashVars
<1>4. CASE RemoveResult
  BY VerdictInv, <1>4 DEF RemoveResult, appVars, flashVars
<1>5. CASE AskDownload
  BY VerdictInv, <1>5 DEF AskDownload, appVars, flashVars
<1>6. CASE PollResult
  BY VerdictInv, <1>6 DEF PollResult, appVars, fileVars, flashVars
<1>7. ASSUME NEW c \in Cgis, RunUpload(c) PROVE VerdictInv'
  BY VerdictInv, <1>7 DEF RunUpload, appVars, fileVars, flashVars
<1>8. CASE UploadReturns
  BY VerdictInv, <1>8 DEF UploadReturns, appVars, fileVars, flashVars
<1>9. CASE ReadVerdict
  BY VerdictInv, <1>9 DEF ReadVerdict, appVars, fileVars, flashVars
<1>10. CASE SetUpImag
  BY VerdictInv, <1>10 DEF SetUpImag, appVars, fileVars
<1>11. CASE CallReboot
  BY VerdictInv, <1>11 DEF CallReboot, appVars, fileVars, flashVars
<1>12. ASSUME NEW c \in Cgis, ChooseFile(c) PROVE VerdictInv'
  BY VerdictInv, <1>12 DEF ChooseFile, At, Goto, Finish, GiveUp, goaheadVars,
     appVars, fileVars, flashVars
<1>13. ASSUME NEW c \in Cgis, CheckImage(c) PROVE VerdictInv'
  BY VerdictInv, <1>13 DEF CheckImage, At, Goto, Finish, GiveUp, goaheadVars,
     appVars, fileVars, flashVars
<1>14. ASSUME NEW c \in Cgis, BeginWrite(c) PROVE VerdictInv'
  BY VerdictInv, <1>14 DEF BeginWrite, At, goaheadVars, appVars, fileVars
<1>15. ASSUME NEW c \in Cgis, EndWrite(c) PROVE VerdictInv'
  BY VerdictInv, <1>15 DEF EndWrite, At, Goto, Finish, GiveUp, goaheadVars, appVars,
     fileVars
<1>16. ASSUME NEW c \in Cgis, SetVersion(c) PROVE VerdictInv'
  BY VerdictInv, <1>16 DEF SetVersion, At, Goto, Finish, GiveUp, goaheadVars,
     appVars, fileVars
<1>17. ASSUME NEW c \in Cgis, WriteVerdict(c) PROVE VerdictInv'
  BY VerdictInv, <1>17 DEF WriteVerdict, At, Finish, GiveUp, goaheadVars, appVars,
     flashVars
<1>18. CASE SeeRequest
  BY VerdictInv, <1>18 DEF SeeRequest, goaheadVars, fileVars, flashVars
<1>19. CASE OpenImage
  BY VerdictInv, <1>19 DEF OpenImage, goaheadVars, flashVars
<1>20. CASE Download
  BY VerdictInv, <1>20 DEF Download, goaheadVars, flashVars
<1>21. CASE TestSize
  BY VerdictInv, <1>21 DEF TestSize, goaheadVars, fileVars, flashVars
<1>22. CASE RemoveRequest
  BY VerdictInv, <1>22 DEF RemoveRequest, goaheadVars, flashVars
<1>23. CASE WriteResult
  BY VerdictInv, <1>23 DEF WriteResult, goaheadVars, flashVars
<1>24. CASE UpdateInfo
  BY VerdictInv, <1>24 DEF UpdateInfo, Event, goaheadVars, flashVars
<1>25. CASE Register
  BY VerdictInv, <1>25 DEF Register, goaheadVars, fileVars, flashVars
<1>26. CASE LoseSession
  BY VerdictInv, <1>26 DEF LoseSession, Event, goaheadVars, fileVars,
     flashVars
<1>27. CASE AppDies
  BY VerdictInv, <1>27 DEF AppDies, Event, goaheadVars, fileVars, flashVars
<1>28. CASE AppStarts
  BY VerdictInv, <1>28 DEF AppStarts, goaheadVars, fileVars, flashVars
<1>29. CASE GoaheadDies
  BY VerdictInv, <1>29 DEF GoaheadDies, Event, At, appVars, fileVars,
     flashVars
<1>30. CASE GoaheadStarts
  BY VerdictInv, <1>30 DEF GoaheadStarts, appVars, fileVars, flashVars
<1>31. CASE Reboot
  BY VerdictInv, <1>31 DEF Reboot, Boot, Dead, flashVars
<1>32. CASE PowerCut
  BY VerdictInv, <1>32 DEF PowerCut, Boot, Dead, Event, flashVars
<1>33. CASE UNCHANGED vars
  BY VerdictInv, <1>33 DEF vars, goaheadVars, appVars, fileVars, flashVars
<1>34. ASSUME NEW c \in Cgis, CgiCleanup(c) PROVE VerdictInv'
  BY VerdictInv, <1>34 DEF CgiCleanup, At, Busy, appVars, fileVars, flashVars
<1>. QED
  BY <1>1, <1>2, <1>3, <1>4, <1>5, <1>6, <1>7, <1>8, <1>9, <1>10, <1>11,
     <1>12, <1>13, <1>14, <1>15, <1>16, <1>17, <1>18, <1>19, <1>20, <1>21,
     <1>22, <1>23, <1>24, <1>25, <1>26, <1>27, <1>28, <1>29, <1>30, <1>31,
     <1>32, <1>33, <1>34 DEF Next, WebStep, StatusStep, CgiStep, AppStep

(* DoUpgrade never waits for a verdict that its upload.cgi did not leave   *)
(* but after a request by the form during the upgrade, or an end of        *)
(* goahead in the middle of something.                                     *)
THEOREM VerdictIsOwed == Spec => []VerdictOwed
<1>1. Init => StatusInv /\ ResultInv /\ VerdictInv
  BY DEF Init, StatusInv, ResultInv, VerdictInv, Live, Idle
<1>2. VerdictInv => VerdictOwed
  BY DEF VerdictInv, VerdictOwed, NoVerdict
<1>. QED
  BY <1>1, <1>2, TypeCorrect, StatusInvStep, ResultStep, VerdictStep, PTL
  DEF Spec
=============================================================================
