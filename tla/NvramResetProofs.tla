-------------------------- MODULE NvramResetProofs ---------------------------
(***************************************************************************)
(* Proofs about NvramReset, for any number of events: its type invariant,  *)
(* that the serial number survives a reset and every failure of the power, *)
(* that a block taken for initialised is complete, and an empty one filled. *)
(***************************************************************************)
EXTENDS NvramReset, TLAPS

USE SerialAssumption

-----------------------------------------------------------------------------
(* Types *)

(* Every step of a reset, an import, a setting or the device.              *)
LEMMA TypeStep == TypeOK /\ [Next]_vars => TypeOK'
<1>. SUFFICES ASSUME TypeOK, [Next]_vars PROVE TypeOK'
  OBVIOUS
<1>. USE DEF TypeOK, Stores, Blocks, Empty, Serials, Procs, Resetters, Steps,
             Causes
<1>1. ASSUME NEW p \in Procs, StartReset(p) PROVE TypeOK'
  BY TypeOK, <1>1 DEF StartReset, Event, Goto, At, Overlap
<1>2. CASE StartImport
  BY TypeOK, <1>2 DEF StartImport, Event, Goto, At, Overlap
<1>3. ASSUME NEW p \in Resetters, SeeUboot(p) PROVE TypeOK'
  <2>1. mem' \in Stores /\ flash' \in Stores
    BY TypeOK, <1>3 DEF SeeUboot, Event, Goto, At
  <2>2. pc' \in [Procs -> Steps]
    BY TypeOK, <1>3 DEF SeeUboot, Event, Goto, At
  <2>3. buf' \in [Procs -> Serials \cup {None}]
    BY TypeOK, <1>3 DEF SeeUboot, Event, Goto, At
  <2>4. booting' \in BOOLEAN
    BY TypeOK, <1>3 DEF SeeUboot, Event, Goto, At
  <2>5. cause' \subseteq Causes
    BY TypeOK, <1>3 DEF SeeUboot, Event, Goto, At
  <2>6. events' \in 0..MaxEvent
    BY TypeOK, <1>3 DEF SeeUboot, Event, Goto, At
  <2>. QED
    BY <2>1, <2>2, <2>3, <2>4, <2>5, <2>6 DEF TypeOK
<1>4. ASSUME NEW p \in Resetters, See2860(p) PROVE TypeOK'
  <2>1. mem' \in Stores /\ flash' \in Stores
    BY TypeOK, <1>4 DEF See2860, Event, Goto, At
  <2>2. pc' \in [Procs -> Steps]
    BY TypeOK, <1>4 DEF See2860, Event, Goto, At
  <2>3. buf' \in [Procs -> Serials \cup {None}]
    BY TypeOK, <1>4 DEF See2860, Event, Goto, At
  <2>4. booting' \in BOOLEAN
    BY TypeOK, <1>4 DEF See2860, Event, Goto, At
  <2>5. cause' \subseteq Causes
    BY TypeOK, <1>4 DEF See2860, Event, Goto, At
  <2>6. events' \in 0..MaxEvent
    BY TypeOK, <1>4 DEF See2860, Event, Goto, At
  <2>. QED
    BY <2>1, <2>2, <2>3, <2>4, <2>5, <2>6 DEF TypeOK
<1>5. ASSUME NEW p \in Resetters, SetUboot(p) PROVE TypeOK'
  BY TypeOK, <1>5 DEF SetUboot, Goto, At
<1>6. ASSUME NEW p \in Resetters, CommitUboot(p) PROVE TypeOK'
  BY TypeOK, <1>6 DEF CommitUboot, Goto, At
<1>7. ASSUME NEW p \in Resetters, Clear(p) PROVE TypeOK'
  BY TypeOK, <1>7 DEF Clear, Goto, At, Clear2860
<1>8. ASSUME NEW p \in Resetters, RenewInit(p) PROVE TypeOK'
  <2>1. mem' \in Stores /\ flash' \in Stores
    <3>1. CASE SetEntry("WebInit", TRUE)
      BY TypeOK, <1>8, <3>1 DEF RenewInit, SetEntry
    <3>2. CASE UNCHANGED mem
      BY TypeOK, <1>8, <3>2 DEF RenewInit
    <3>. QED
      BY <1>8, <3>1, <3>2 DEF RenewInit
  <2>2. pc' \in [Procs -> Steps]
    BY TypeOK, <1>8 DEF RenewInit, Goto, At, SetEntry
  <2>3. buf' \in [Procs -> Serials \cup {None}]
    BY TypeOK, <1>8 DEF RenewInit, Goto, At, SetEntry
  <2>4. booting' \in BOOLEAN
    BY TypeOK, <1>8 DEF RenewInit, Goto, At, SetEntry
  <2>5. cause' \subseteq Causes
    BY TypeOK, <1>8 DEF RenewInit, Goto, At, SetEntry
  <2>6. events' \in 0..MaxEvent
    BY TypeOK, <1>8 DEF RenewInit, Goto, At, SetEntry
  <2>. QED
    BY <2>1, <2>2, <2>3, <2>4, <2>5, <2>6 DEF TypeOK
<1>9. ASSUME NEW p \in Resetters, RenewSettings(p) PROVE TypeOK'
  BY TypeOK, <1>9 DEF RenewSettings, Goto, At, SetEntry
<1>10. ASSUME NEW p \in Resetters, RenewSN(p) PROVE TypeOK'
  BY TypeOK, <1>10 DEF RenewSN, Goto, At, SetEntry
<1>11. ASSUME NEW p \in Resetters, RenewBadLine(p) PROVE TypeOK'
  BY TypeOK, <1>11 DEF RenewBadLine, Goto
<1>12. ASSUME NEW p \in Resetters, RenewCommit(p) PROVE TypeOK'
  <2>1. mem' \in Stores /\ flash' \in Stores
    BY TypeOK, <1>12 DEF RenewCommit, Goto, At, Commit2860
  <2>2. pc' \in [Procs -> Steps]
    BY TypeOK, <1>12 DEF RenewCommit, Goto, At, Commit2860
  <2>3. buf' \in [Procs -> Serials \cup {None}]
    BY TypeOK, <1>12 DEF RenewCommit, Goto, At, Commit2860
  <2>4. booting' \in BOOLEAN
    BY TypeOK, <1>12 DEF RenewCommit, Goto, At, Commit2860
  <2>5. cause' \subseteq Causes
    BY TypeOK, <1>12 DEF RenewCommit, Goto, At, Commit2860
  <2>6. events' \in 0..MaxEvent
    BY TypeOK, <1>12 DEF RenewCommit, Goto, At, Commit2860
  <2>. QED
    BY <2>1, <2>2, <2>3, <2>4, <2>5, <2>6 DEF TypeOK
<1>13. CASE ReadBack
  <2>1. mem' \in Stores /\ flash' \in Stores
    BY TypeOK, <1>13 DEF ReadBack, Event, Goto, At
  <2>2. pc' \in [Procs -> Steps]
    BY TypeOK, <1>13 DEF ReadBack, Event, Goto, At
  <2>3. buf' \in [Procs -> Serials \cup {None}]
    BY TypeOK, <1>13 DEF ReadBack, Event, Goto, At
  <2>4. booting' \in BOOLEAN
    BY TypeOK, <1>13 DEF ReadBack, Event, Goto, At
  <2>5. cause' \subseteq Causes
    BY TypeOK, <1>13 DEF ReadBack, Event, Goto, At
  <2>6. events' \in 0..MaxEvent
    BY TypeOK, <1>13 DEF ReadBack, Event, Goto, At
  <2>. QED
    BY <2>1, <2>2, <2>3, <2>4, <2>5, <2>6 DEF TypeOK
<1>14. CASE SetBack
  BY TypeOK, <1>14 DEF SetBack, Goto, At, SetEntry
<1>15. CASE CommitBack
  BY TypeOK, <1>15 DEF CommitBack, Goto, At, Commit2860
<1>16. CASE SetSetting
  <2>1. mem' \in Stores /\ flash' \in Stores
    BY TypeOK, <1>16 DEF SetSetting, Event, Goto, At, SetEntry
  <2>2. pc' \in [Procs -> Steps]
    BY TypeOK, <1>16 DEF SetSetting, Event, Goto, At, SetEntry
  <2>3. buf' \in [Procs -> Serials \cup {None}]
    BY TypeOK, <1>16 DEF SetSetting, Event, Goto, At, SetEntry
  <2>4. booting' \in BOOLEAN
    BY TypeOK, <1>16 DEF SetSetting, Event, Goto, At, SetEntry
  <2>5. cause' \subseteq Causes
    BY TypeOK, <1>16 DEF SetSetting, Event, Goto, At, SetEntry
  <2>6. events' \in 0..MaxEvent
    BY TypeOK, <1>16 DEF SetSetting, Event, Goto, At, SetEntry
  <2>. QED
    BY <2>1, <2>2, <2>3, <2>4, <2>5, <2>6 DEF TypeOK
<1>17. CASE CommitSetting
  BY TypeOK, <1>17 DEF CommitSetting, Goto, At, Commit2860
<1>18. ASSUME NEW p \in Resetters, Reboot(p) PROVE TypeOK'
  BY TypeOK, <1>18 DEF Reboot, At, BootFrom
<1>19. CASE PowerCut
  BY TypeOK, <1>19 DEF PowerCut, Event, BootFrom
<1>20. ASSUME NEW p \in Procs, TornCommit(p) PROVE TypeOK'
  <2>1. mem' \in Stores /\ flash' \in Stores
    <3>1. [flash EXCEPT !.b2860 = Empty] \in Stores
      BY TypeOK
    <3>2. [flash EXCEPT !.uboot = None] \in Stores
      BY TypeOK
    <3>3. ASSUME NEW f \in Stores, BootFrom(f)
          PROVE  mem' \in Stores /\ flash' \in Stores
      BY <3>3 DEF BootFrom
    <3>. QED
      BY <3>1, <3>2, <3>3, <1>20 DEF TornCommit
  <2>2. pc' \in [Procs -> Steps]
    BY TypeOK, <1>20 DEF TornCommit, Event, At, BootFrom
  <2>3. buf' \in [Procs -> Serials \cup {None}]
    BY TypeOK, <1>20 DEF TornCommit, Event, At, BootFrom
  <2>4. booting' \in BOOLEAN
    BY TypeOK, <1>20 DEF TornCommit, Event, At, BootFrom
  <2>5. cause' \subseteq Causes
    BY TypeOK, <1>20 DEF TornCommit, Event, At, BootFrom
  <2>6. events' \in 0..MaxEvent
    BY TypeOK, <1>20 DEF TornCommit, Event, At, BootFrom
  <2>. QED
    BY <2>1, <2>2, <2>3, <2>4, <2>5, <2>6 DEF TypeOK
<1>21. CASE UNCHANGED vars
  BY TypeOK, <1>21 DEF vars
<1>22. ASSUME NEW p \in Resetters, RenewShort(p) PROVE TypeOK'
  BY TypeOK, <1>22 DEF RenewShort, Goto, At
<1>23. ASSUME NEW p \in Procs, Refused(p) PROVE TypeOK'
  <2>1. /\ mem' \in Stores /\ flash' \in Stores
        /\ buf' \in [Procs -> Serials \cup {None}]
    BY TypeOK, <1>23 DEF Refused
  <2>2. After(p) \in Steps
    BY <1>23 DEF Refused, After
  <2>3. pc' \in [Procs -> Steps]
    BY TypeOK, <1>23, <2>2 DEF Refused, Goto
  <2>4. booting' \in BOOLEAN
    BY TypeOK, <1>23, Zenon DEF Refused
  <2>5. cause' \subseteq Causes
    BY TypeOK, <1>23 DEF Refused, Leaves
  <2>6. events' \in 0..MaxEvent
    BY TypeOK, <1>23 DEF Refused, Event
  <2>. QED
    BY <2>1, <2>3, <2>4, <2>5, <2>6 DEF TypeOK
<1>24. ASSUME NEW p \in Procs, Killed(p) PROVE TypeOK'
  BY TypeOK, <1>24 DEF Killed, Event, Goto, Leaves
<1>. QED
  BY <1>1, <1>2, <1>3, <1>4, <1>5, <1>6, <1>7, <1>8, <1>9, <1>10, <1>11,
     <1>12, <1>13, <1>14, <1>15, <1>16, <1>17, <1>18, <1>19, <1>20, <1>21,
     <1>22, <1>23, <1>24 DEF Next, ResetStep

(* Every variable keeps its type, in every behaviour of the specification. *)
THEOREM TypeCorrect == Spec => []TypeOK
<1>1. Init => TypeOK
  <2>. SUFFICES ASSUME Init PROVE TypeOK
    OBVIOUS
  <2>1. mem \in Stores /\ flash \in Stores
    BY DEF Init, Stores, Blocks, Serials
  <2>2. pc \in [Procs -> Steps] /\ buf \in [Procs -> Serials \cup {None}]
    BY DEF Init, Procs, Steps
  <2>3. booting \in BOOLEAN /\ cause \subseteq Causes
    BY Zenon DEF Init
  <2>4. events \in 0..MaxEvent
    BY DEF Init
  <2>. QED
    BY <2>1, <2>2, <2>3, <2>4 DEF TypeOK
<1>. QED
  BY <1>1, TypeStep, PTL DEF Spec

-----------------------------------------------------------------------------
(* A block taken for initialised is complete *)

(* Strengthening of InitialisedIsComplete: the memory holds WebInit without *)
(* the settings only while a process is between the two.                   *)
CompleteInv ==
  cause \cap {"commit", "file", "refused"} = {} =>
    /\ flash.b2860.WebInit => flash.b2860.settings
    /\ mem.b2860.WebInit /\ ~mem.b2860.settings
         => \E p \in Resetters : pc[p] = "settings"

(* A commit between WebInit and the settings has one of the causes.        *)
LEMMA CompleteStep == TypeOK /\ CompleteInv /\ [Next]_vars => CompleteInv'
<1>. SUFFICES ASSUME TypeOK, CompleteInv, [Next]_vars PROVE CompleteInv'
  OBVIOUS
<1>. USE DEF TypeOK, CompleteInv, Stores, Blocks, Empty, Procs, Resetters, Steps
<1>1. ASSUME NEW p \in Procs, StartReset(p) PROVE CompleteInv'
  BY CompleteInv, <1>1 DEF StartReset, Event, Goto, At, Overlap
<1>2. CASE StartImport
  BY CompleteInv, <1>2 DEF StartImport, Event, Goto, At, Overlap
<1>3. ASSUME NEW p \in Resetters, SeeUboot(p) PROVE CompleteInv'
  BY CompleteInv, <1>3 DEF SeeUboot, Event, Goto, At
<1>4. ASSUME NEW p \in Resetters, See2860(p) PROVE CompleteInv'
  BY CompleteInv, <1>4 DEF See2860, Event, Goto, At
<1>5. ASSUME NEW p \in Resetters, SetUboot(p) PROVE CompleteInv'
  BY CompleteInv, <1>5 DEF SetUboot, Goto, At
<1>6. ASSUME NEW p \in Resetters, CommitUboot(p) PROVE CompleteInv'
  BY CompleteInv, <1>6 DEF CommitUboot, Goto, At
<1>7. ASSUME NEW p \in Resetters, Clear(p) PROVE CompleteInv'
  BY CompleteInv, <1>7 DEF Clear, Goto, At, Clear2860
<1>8. ASSUME NEW p \in Resetters, RenewInit(p) PROVE CompleteInv'
  BY CompleteInv, <1>8 DEF RenewInit, Goto, At, SetEntry
<1>9. ASSUME NEW p \in Resetters, RenewSettings(p) PROVE CompleteInv'
  BY CompleteInv, <1>9 DEF RenewSettings, Goto, At, SetEntry
<1>10. ASSUME NEW p \in Resetters, RenewSN(p) PROVE CompleteInv'
  BY CompleteInv, <1>10 DEF RenewSN, Goto, At, SetEntry
<1>11. ASSUME NEW p \in Resetters, RenewBadLine(p) PROVE CompleteInv'
  BY CompleteInv, <1>11 DEF RenewBadLine, Goto
<1>12. ASSUME NEW p \in Resetters, RenewCommit(p) PROVE CompleteInv'
  BY CompleteInv, <1>12 DEF RenewCommit, Goto, At, Commit2860, Filling
<1>13. CASE ReadBack
  BY CompleteInv, <1>13 DEF ReadBack, Event, Goto, At
<1>14. CASE SetBack
  BY CompleteInv, <1>14 DEF SetBack, Goto, At, SetEntry
<1>15. CASE CommitBack
  BY CompleteInv, <1>15 DEF CommitBack, Goto, At, Commit2860, Filling
<1>16. CASE SetSetting
  BY CompleteInv, <1>16 DEF SetSetting, Event, Goto, At, SetEntry
<1>17. CASE CommitSetting
  BY CompleteInv, <1>17 DEF CommitSetting, Goto, At, Commit2860, Filling
<1>18. ASSUME NEW p \in Resetters, Reboot(p) PROVE CompleteInv'
  BY CompleteInv, <1>18 DEF Reboot, At, BootFrom
<1>19. CASE PowerCut
  BY CompleteInv, <1>19 DEF PowerCut, Event, BootFrom
<1>20. ASSUME NEW p \in Procs, TornCommit(p) PROVE CompleteInv'
  BY CompleteInv, <1>20 DEF TornCommit, Event, At, BootFrom
<1>21. CASE UNCHANGED vars
  BY CompleteInv, <1>21 DEF vars
<1>22. ASSUME NEW p \in Resetters, RenewShort(p) PROVE CompleteInv'
  BY CompleteInv, <1>22 DEF RenewShort, Goto, At
<1>23. ASSUME NEW p \in Procs, Refused(p) PROVE CompleteInv'
  BY CompleteInv, <1>23 DEF Refused, Event, Goto, At, After, Leaves
<1>24. ASSUME NEW p \in Procs, Killed(p) PROVE CompleteInv'
  BY CompleteInv, <1>24 DEF Killed, Event, Goto, Leaves
<1>. QED
  BY <1>1, <1>2, <1>3, <1>4, <1>5, <1>6, <1>7, <1>8, <1>9, <1>10, <1>11,
     <1>12, <1>13, <1>14, <1>15, <1>16, <1>17, <1>18, <1>19, <1>20, <1>21,
     <1>22, <1>23, <1>24 DEF Next, ResetStep

(* Unless somebody commits the block while a reset fills it, an imported   *)
(* file breaks off or ends early, or the kernel refuses an entry, the next *)
(* boot does not take a part of the settings for all of them.              *)
THEOREM CompleteSafe == Spec => []InitialisedIsComplete
<1>1. Init => CompleteInv
  BY DEF Init, CompleteInv
<1>2. CompleteInv => InitialisedIsComplete
  BY DEF CompleteInv, InitialisedIsComplete
<1>. QED
  BY <1>1, <1>2, TypeCorrect, CompleteStep, PTL DEF Spec

-----------------------------------------------------------------------------
(* An empty block is filled *)

(* Strengthening of IdleIsInitialised.  While the memory has no WebInit,   *)
(* somebody is behind the clear and about to set it or to reboot; while    *)
(* the flash has none, somebody is about to commit what the memory has, or *)
(* to reboot.  A process still before its clear does not count: it may die *)
(* there without a trace, unless it is the daemon at boot.                 *)
MendInv ==
  "left" \notin cause =>
    /\ ~mem.b2860.WebInit =>
         \/ \E p \in Resetters : pc[p] \in {"init", "reboot"}
         \/ pc["daemon"] = "clear" \/ pc["import"] = "commit"
    /\ ~flash.b2860.WebInit =>
         \/ \E p \in Resetters : pc[p] \in {"init", "settings", "sn",
                                            "commit", "reboot"}
         \/ pc["daemon"] = "clear"

(* A commit that writes an empty block is followed by that of the process  *)
(* which emptied it.                                                       *)
LEMMA MendStep == TypeOK /\ MendInv /\ [Next]_vars => MendInv'
<1>. SUFFICES ASSUME TypeOK, MendInv, [Next]_vars PROVE MendInv'
  OBVIOUS
<1>. USE DEF TypeOK, MendInv, Stores, Blocks, Empty, Procs, Resetters, Steps
<1>1. ASSUME NEW p \in Procs, StartReset(p) PROVE MendInv'
  BY MendInv, <1>1 DEF StartReset, Event, Goto, At, Overlap
<1>2. CASE StartImport
  BY MendInv, <1>2 DEF StartImport, Event, Goto, At, Overlap
<1>3. ASSUME NEW p \in Resetters, SeeUboot(p) PROVE MendInv'
  BY MendInv, <1>3 DEF SeeUboot, Event, Goto, At
<1>4. ASSUME NEW p \in Resetters, See2860(p) PROVE MendInv'
  BY MendInv, <1>4 DEF See2860, Event, Goto, At
<1>5. ASSUME NEW p \in Resetters, SetUboot(p) PROVE MendInv'
  BY MendInv, <1>5 DEF SetUboot, Goto, At
<1>6. ASSUME NEW p \in Resetters, CommitUboot(p) PROVE MendInv'
  BY MendInv, <1>6 DEF CommitUboot, Goto, At
<1>7. ASSUME NEW p \in Resetters, Clear(p) PROVE MendInv'
  BY MendInv, <1>7 DEF Clear, Goto, At, Clear2860
<1>8. ASSUME NEW p \in Resetters, RenewInit(p) PROVE MendInv'
  BY MendInv, <1>8 DEF RenewInit, Goto, At, SetEntry
<1>9. ASSUME NEW p \in Resetters, RenewSettings(p) PROVE MendInv'
  BY MendInv, <1>9 DEF RenewSettings, Goto, At, SetEntry
<1>10. ASSUME NEW p \in Resetters, RenewSN(p) PROVE MendInv'
  BY MendInv, <1>10 DEF RenewSN, Goto, At, SetEntry
<1>11. ASSUME NEW p \in Resetters, RenewBadLine(p) PROVE MendInv'
  BY MendInv, <1>11 DEF RenewBadLine, Goto
<1>12. ASSUME NEW p \in Resetters, RenewCommit(p) PROVE MendInv'
  BY MendInv, <1>12 DEF RenewCommit, Goto, At, Commit2860, Filling
<1>13. CASE ReadBack
  BY MendInv, <1>13 DEF ReadBack, Event, Goto, At
<1>14. CASE SetBack
  BY MendInv, <1>14 DEF SetBack, Goto, At, SetEntry
<1>15. CASE CommitBack
  BY MendInv, <1>15 DEF CommitBack, Goto, At, Commit2860, Filling
<1>16. CASE SetSetting
  BY MendInv, <1>16 DEF SetSetting, Event, Goto, At, SetEntry
<1>17. CASE CommitSetting
  BY MendInv, <1>17 DEF CommitSetting, Goto, At, Commit2860, Filling
<1>18. ASSUME NEW p \in Resetters, Reboot(p) PROVE MendInv'
  BY MendInv, <1>18 DEF Reboot, At, BootFrom
<1>19. CASE PowerCut
  BY MendInv, <1>19 DEF PowerCut, Event, BootFrom
<1>20. ASSUME NEW p \in Procs, TornCommit(p) PROVE MendInv'
  BY MendInv, <1>20 DEF TornCommit, Event, At, BootFrom
<1>21. CASE UNCHANGED vars
  BY MendInv, <1>21 DEF vars
<1>22. ASSUME NEW p \in Resetters, RenewShort(p) PROVE MendInv'
  BY MendInv, <1>22 DEF RenewShort, Goto, At
<1>23. ASSUME NEW p \in Procs, Refused(p) PROVE MendInv'
  BY MendInv, <1>23 DEF Refused, Event, Goto, At, After, Leaves
<1>24. ASSUME NEW p \in Procs, Killed(p) PROVE MendInv'
  BY MendInv, <1>24 DEF Killed, Event, Goto, Leaves
<1>. QED
  BY <1>1, <1>2, <1>3, <1>4, <1>5, <1>6, <1>7, <1>8, <1>9, <1>10, <1>11,
     <1>12, <1>13, <1>14, <1>15, <1>16, <1>17, <1>18, <1>19, <1>20, <1>21,
     <1>22, <1>23, <1>24 DEF Next, ResetStep

(* No failure of the power, no overlap of resets, no bad or short file and *)
(* no death before the clear leaves the device with an empty block and     *)
(* nobody about to fill it; only a reset that was left behind its clear    *)
(* does, until the next boot.                                              *)
THEOREM EmptyIsFilled == Spec => []IdleIsInitialised
<1>1. Init => MendInv
  BY DEF Init, MendInv
<1>2. MendInv => IdleIsInitialised
  BY DEF MendInv, IdleIsInitialised, Resetting, Resetters, Procs
<1>. QED
  BY <1>1, <1>2, TypeCorrect, MendStep, PTL DEF Spec

-----------------------------------------------------------------------------
(* The serial number *)

Undisturbed ==
  cause \cap {"overlap", "import", "torn", "read", "refused"} = {}

SavingSteps == {"idle", "seeub", "see2860", "ubset", "ubcommit"}

(* Before the first reset is past its saving steps, the block 2860 holds   *)
(* the number, in memory and in flash.                                     *)
In2860 ==
  /\ flash.uboot = None /\ ~booting
  /\ flash.b2860.WebInit /\ flash.b2860.sn = Real
  /\ mem.b2860.WebInit /\ mem.b2860.sn = Real
  /\ \A p \in Resetters : pc[p] \in SavingSteps
  /\ \/ mem.uboot = None
     \/ mem.uboot = Real /\ \E p \in Resetters : pc[p] = "ubcommit"

(* Afterwards the block uboot does, and no reset changes it.               *)
InUboot ==
  /\ flash.uboot = Real /\ mem.uboot = Real
  /\ \A p \in Resetters : pc[p] \notin {"see2860", "ubset", "ubcommit"}

(* Strengthening of SerialKept.                                            *)
SerialInv ==
  /\ pc["setter"] \in {"idle", "commit"}
  /\ Undisturbed =>
       /\ \A p, q \in Resetters : pc[p] # "idle" /\ pc[q] # "idle" => p = q
       /\ \A p \in Resetters : pc[p] \in {"ubset", "ubcommit"} => buf[p] = Real
       /\ \A p \in Resetters : pc[p] = "ubcommit" => mem.uboot = Real
       /\ In2860 \/ InUboot

(* The number moves from 2860 to uboot before 2860 is emptied.             *)
LEMMA SerialStep == TypeOK /\ SerialInv /\ [Next]_vars => SerialInv'
<1>. SUFFICES ASSUME TypeOK, SerialInv, [Next]_vars PROVE SerialInv'
  OBVIOUS
<1>. USE DEF TypeOK, SerialInv, Undisturbed, SavingSteps, In2860, InUboot,
             Stores, Blocks, Empty, Serials, Procs, Resetters
<1>1. ASSUME NEW p \in Procs, StartReset(p) PROVE SerialInv'
  BY SerialInv, <1>1 DEF StartReset, Event, Goto, At, Overlap, Resetting
<1>2. CASE StartImport
  BY SerialInv, <1>2 DEF StartImport, Event, Goto, At, Overlap, Resetting
<1>3. ASSUME NEW p \in Resetters, SeeUboot(p) PROVE SerialInv'
  BY SerialInv, <1>3 DEF SeeUboot, Event, Goto, At
<1>4. ASSUME NEW p \in Resetters, See2860(p) PROVE SerialInv'
  BY SerialInv, <1>4 DEF See2860, Event, Goto, At
<1>5. ASSUME NEW p \in Resetters, SetUboot(p) PROVE SerialInv'
  BY SerialInv, <1>5 DEF SetUboot, Goto, At
<1>6. ASSUME NEW p \in Resetters, CommitUboot(p) PROVE SerialInv'
  BY SerialInv, <1>6 DEF CommitUboot, Goto, At
<1>7. ASSUME NEW p \in Resetters, Clear(p) PROVE SerialInv'
  BY SerialInv, <1>7 DEF Clear, Goto, At, Clear2860
<1>8. ASSUME NEW p \in Resetters, RenewInit(p) PROVE SerialInv'
  BY SerialInv, <1>8 DEF RenewInit, Goto, At, SetEntry
<1>9. ASSUME NEW p \in Resetters, RenewSettings(p) PROVE SerialInv'
  BY SerialInv, <1>9 DEF RenewSettings, Goto, At, SetEntry
<1>10. ASSUME NEW p \in Resetters, RenewSN(p) PROVE SerialInv'
  BY SerialInv, <1>10 DEF RenewSN, Goto, At, SetEntry
<1>11. ASSUME NEW p \in Resetters, RenewBadLine(p) PROVE SerialInv'
  BY SerialInv, <1>11 DEF RenewBadLine, Goto
<1>12. ASSUME NEW p \in Resetters, RenewCommit(p) PROVE SerialInv'
  BY SerialInv, <1>12 DEF RenewCommit, Goto, At, Commit2860
<1>13. CASE ReadBack
  BY SerialInv, <1>13 DEF ReadBack, Event, Goto, At
<1>14. CASE SetBack
  BY SerialInv, <1>14 DEF SetBack, Goto, At, SetEntry
<1>15. CASE CommitBack
  BY SerialInv, <1>15 DEF CommitBack, Goto, At, Commit2860
<1>16. CASE SetSetting
  BY SerialInv, <1>16 DEF SetSetting, Event, Goto, At, SetEntry
<1>17. CASE CommitSetting
  BY SerialInv, <1>17 DEF CommitSetting, Goto, At, Commit2860
<1>18. ASSUME NEW p \in Resetters, Reboot(p) PROVE SerialInv'
  BY SerialInv, <1>18 DEF Reboot, At, BootFrom
<1>19. CASE PowerCut
  BY SerialInv, <1>19 DEF PowerCut, Event, BootFrom
<1>20. ASSUME NEW p \in Procs, TornCommit(p) PROVE SerialInv'
  <2>1. CASE cause' = (cause \cup {"torn"}) \ {"left"}
    <3>1. ~Undisturbed'
      BY <2>1
    <3>2. pc'["setter"] = "idle"
      BY <1>20 DEF TornCommit, BootFrom
    <3>. QED
      BY <3>1, <3>2
  <2>2. CASE /\ At(p, "ubcommit") /\ cause' = cause \ {"left"}
             /\ BootFrom([flash EXCEPT !.uboot = None])
    BY SerialInv, <2>2 DEF At, BootFrom
  <2>. QED
    BY <1>20, <2>1, <2>2 DEF TornCommit
<1>21. CASE UNCHANGED vars
  BY SerialInv, <1>21 DEF vars
<1>22. ASSUME NEW p \in Resetters, RenewShort(p) PROVE SerialInv'
  BY SerialInv, <1>22 DEF RenewShort, Goto, At
<1>23. ASSUME NEW p \in Procs, Refused(p) PROVE SerialInv'
  BY SerialInv, <1>23 DEF Refused, Event, Goto, At, After, Leaves
<1>24. ASSUME NEW p \in Procs, Killed(p) PROVE SerialInv'
  BY SerialInv, <1>24 DEF Killed, Event, Goto, Leaves
<1>. QED
  BY <1>1, <1>2, <1>3, <1>4, <1>5, <1>6, <1>7, <1>8, <1>9, <1>10, <1>11,
     <1>12, <1>13, <1>14, <1>15, <1>16, <1>17, <1>18, <1>19, <1>20, <1>21,
     <1>22, <1>23, <1>24 DEF Next, ResetStep

(* The device keeps the number it was made with, wherever the power fails  *)
(* in a reset; see SerialKept for the events this theorem excludes.        *)
THEOREM SerialSafe == Spec => []SerialKept
<1>1. Init => SerialInv
  BY DEF Init, SerialInv, In2860, SavingSteps, Resetters, Procs
<1>2. SerialInv => SerialKept
  BY DEF SerialInv, SerialKept, SerialOf, Undisturbed, In2860, InUboot, Serials
<1>. QED
  BY <1>1, <1>2, TypeCorrect, SerialStep, PTL DEF Spec
=============================================================================
