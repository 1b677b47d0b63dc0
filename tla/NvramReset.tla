----------------------------- MODULE NvramReset ------------------------------
(***************************************************************************)
(* The configuration in the nvram, and who empties and refills it: the     *)
(* reset button (nvram_daemon), the form LoadDefaultSettings (goahead), the *)
(* import of a settings file (upload_settings.cgi), and nvram_daemon at    *)
(* boot, while any other process sets values.  The kernel module keeps a   *)
(* copy of each block in memory; a commit writes the whole block to flash, *)
(* whoever made the changes in it.                                         *)
(*                                                                         *)
(* Of the block "2860" the model has WebInit, the serial number            *)
(* HE_ROUTE_SN and one entry for all other settings; of the block "uboot"  *)
(* the copy of the serial number.  The power may fail between any two      *)
(* steps and in the middle of a commit, a process may die between two of   *)
(* the commands it runs, and the kernel may refuse a value or a commit.    *)
(***************************************************************************)
EXTENDS Integers

CONSTANTS
  Real,      \* the serial number the device was made with
  Default,   \* the one in the file of default settings
  Others,    \* those a settings file may bring from other devices
  None,      \* no entry
  MaxEvent   \* bound on resets, settings, failures of the power

Serials == {Real, Default} \cup Others

ASSUME SerialAssumption ==
  /\ Real # Default /\ None \notin Serials /\ MaxEvent \in Nat

VARIABLES
  mem,     \* the kernel's copy of the blocks
  flash,   \* the blocks in flash
  pc,      \* the next step of each process, "idle" without work
  buf,     \* the serial number a process has read, or is about to set
  booting, \* nvram_daemon is at the start of its main()
  cause,   \* what has happened that the code has no guard against
  events   \* resets, settings and failures of the power so far

vars == <<mem, flash, pc, buf, booting, cause, events>>

Procs == {"daemon", "web", "import", "setter"}
Resetters == Procs \ {"setter"}
Steps == {"idle", "seeub", "see2860", "ubset", "ubcommit", "clear", "init",
          "settings", "sn", "commit", "back", "backset", "backcommit",
          "reboot"}
Causes == {"overlap", "commit", "import", "torn", "read", "file", "refused",
           "left"}

(* A block "2860" without entries.                                         *)
Empty == [WebInit |-> FALSE, settings |-> FALSE, sn |-> None]
Blocks == [WebInit : BOOLEAN, settings : BOOLEAN, sn : Serials \cup {None}]
Stores == [uboot : Serials \cup {None}, b2860 : Blocks]

(* Every variable of the model has its type.                               *)
TypeOK ==
  /\ mem \in Stores /\ flash \in Stores
  /\ pc \in [Procs -> Steps] /\ buf \in [Procs -> Serials \cup {None}]
  /\ booting \in BOOLEAN /\ cause \subseteq Causes /\ events \in 0..MaxEvent

(* A device as it was made: the copy in the block uboot comes with the     *)
(* first reset.                                                            *)
Init ==
  /\ flash = [uboot |-> None,
              b2860 |-> [WebInit |-> TRUE, settings |-> TRUE, sn |-> Real]]
  /\ mem = flash
  /\ pc = [p \in Procs |-> "idle"] /\ buf = [p \in Procs |-> None]
  /\ booting = FALSE /\ cause = {} /\ events = 0

Event == events < MaxEvent /\ events' = events + 1
At(p, here) == pc[p] = here
Goto(p, there) == pc' = [pc EXCEPT ![p] = there]
Resetting(p) == p \in Resetters /\ pc[p] # "idle"
(* A process that has set some of the entries of a file.                   *)
Filling(p) == p \in Resetters /\ pc[p] \in {"settings", "sn", "commit"}
Overlap(p) == IF \E q \in Procs \ {p} : Resetting(q) THEN {"overlap"} ELSE {}

-----------------------------------------------------------------------------
(* libnvram: what a process asks of the kernel module *)

(* nvram_bufset() *)
SetEntry(entry, value) == mem' = [mem EXCEPT !.b2860[entry] = value]

(* nvram_commit(): the whole block as it is now.                           *)
Commit2860(p) ==
  /\ flash' = [flash EXCEPT !.b2860 = mem.b2860]
  /\ cause' = IF \E q \in Procs \ {p} : Filling(q)
                THEN cause \cup {"commit"} ELSE cause

(* nvram_clear() *)
Clear2860 ==
  mem' = [mem EXCEPT !.b2860 = Empty] /\ flash' = [flash EXCEPT !.b2860 = Empty]

-----------------------------------------------------------------------------
(* The start of a reset *)

(* nvramIrqHandler for the reset button, LoadDefaultSettings of goahead.   *)
StartReset(p) ==
  /\ p \in {"daemon", "web"} /\ At(p, "idle") /\ Event
  /\ Goto(p, "seeub") /\ cause' = cause \cup Overlap(p)
  /\ UNCHANGED <<mem, flash, buf, booting>>

(* import() of upload_settings.cgi: the file is that of this or another    *)
(* device; nothing is done for a serial number that only 2860 holds.       *)
StartImport ==
  /\ At("import", "idle") /\ Event
  /\ Goto("import", "clear")
  /\ \E s \in Serials \cup {None} : buf' = [buf EXCEPT !["import"] = s]
  /\ cause' = cause \cup Overlap("import")
                    \cup (IF flash.uboot = None THEN {"import"} ELSE {})
  /\ UNCHANGED <<mem, flash, booting>>

(* hert_Util_getStrformCmd("nvram_get uboot HE_ROUTE_SN"): NULL when there *)
(* is none, and after four failures of the command.                        *)
SeeUboot(p) ==
  /\ At(p, "seeub")
  /\ \/ /\ Goto(p, IF mem.uboot = None THEN "see2860" ELSE "clear")
        /\ UNCHANGED <<cause, events>>
     \/ Event /\ Goto(p, "see2860") /\ cause' = cause \cup {"read"}
  /\ UNCHANGED <<mem, flash, buf, booting>>

(* A plausible slip: what a failed command prints is taken for the number. *)
See2860Unchecked(p) ==
  /\ At(p, "see2860") /\ Goto(p, "ubset")
  /\ \/ buf' = [buf EXCEPT ![p] = mem.b2860.sn] /\ UNCHANGED events
     \/ Event /\ buf' = [buf EXCEPT ![p] = "failed"]
  /\ UNCHANGED <<mem, flash, booting, cause>>

See2860(p) ==
  /\ At(p, "see2860")
  /\ \/ /\ Goto(p, IF mem.b2860.sn = None THEN "clear" ELSE "ubset")
        /\ buf' = [buf EXCEPT ![p] = mem.b2860.sn]
        /\ UNCHANGED <<cause, events>>
     \/ /\ Event /\ Goto(p, "clear") /\ cause' = cause \cup {"read"}
        /\ UNCHANGED buf
  /\ UNCHANGED <<mem, flash, booting>>

(* nvram_set uboot HE_ROUTE_SN: set, then commit. *)
SetUboot(p) ==
  /\ At(p, "ubset") /\ Goto(p, "ubcommit")
  /\ mem' = [mem EXCEPT !.uboot = buf[p]]
  /\ UNCHANGED <<flash, buf, booting, cause, events>>

(* A plausible slip: the copy is set and never committed.                  *)
CommitUbootNot(p) ==
  /\ At(p, "ubcommit") /\ Goto(p, "clear")
  /\ UNCHANGED <<mem, flash, buf, booting, cause, events>>

CommitUboot(p) ==
  /\ At(p, "ubcommit") /\ Goto(p, "clear")
  /\ flash' = [flash EXCEPT !.uboot = mem.uboot]
  /\ UNCHANGED <<mem, buf, booting, cause, events>>

-----------------------------------------------------------------------------
(* ralink_init clear 2860; ralink_init renew 2860 <file> *)

Clear(p) ==
  /\ At(p, "clear") /\ Goto(p, "init") /\ Clear2860
  /\ UNCHANGED <<buf, booting, cause, events>>

(* WebInit is the first entry of the file.  renew_nvram gives up on a file *)
(* that is no settings file.                                               *)
RenewInit(p) ==
  /\ At(p, "init")
  /\ \/ SetEntry("WebInit", TRUE) /\ Goto(p, "settings")
     \/ p = "import" /\ Goto(p, "reboot") /\ UNCHANGED mem
  /\ UNCHANGED <<flash, buf, booting, cause, events>>

(* A plausible slip: what is set is committed at once.                     *)
RenewSettingsCommit(p) ==
  /\ At(p, "settings") /\ Goto(p, "sn") /\ SetEntry("settings", TRUE)
  /\ flash' = [flash EXCEPT !.b2860 = mem.b2860]
  /\ UNCHANGED <<buf, booting, cause, events>>

RenewSettings(p) ==
  /\ At(p, "settings") /\ Goto(p, "sn") /\ SetEntry("settings", TRUE)
  /\ UNCHANGED <<flash, buf, booting, cause, events>>

RenewSN(p) ==
  /\ At(p, "sn") /\ Goto(p, "commit")
  /\ SetEntry("sn", IF p = "import" THEN buf[p] ELSE Default)
  /\ UNCHANGED <<flash, buf, booting, cause, events>>

(* The imported file ends before the settings, or before WebInit: for      *)
(* renew_nvram that is the end of the file, and what is there committed.   *)
RenewShort(p) ==
  /\ p = "import" /\ pc[p] \in {"init", "settings"} /\ Goto(p, "commit")
  /\ cause' = IF At(p, "settings") THEN cause \cup {"file"} ELSE cause
  /\ UNCHANGED <<mem, flash, buf, booting, events>>

(* renew_nvram at a line of the imported file without '=': it commits what *)
(* it has set so far, and gives up.                                        *)
RenewBadLine(p) ==
  /\ p = "import" /\ pc[p] \in {"settings", "sn"} /\ Goto(p, "reboot")
  /\ flash' = [flash EXCEPT !.b2860 = mem.b2860]
  /\ cause' = cause \cup {"file"}
  /\ UNCHANGED <<mem, buf, booting, events>>

(* The commit at the end of renew_nvram.  Then the button's handler copies *)
(* the serial number back; the form's handler has that part in a comment;  *)
(* at boot there is nothing more to do.                                    *)
RenewCommit(p) ==
  /\ At(p, "commit") /\ p # "setter" /\ Commit2860(p)
  /\ \/ p = "daemon" /\ booting /\ Goto(p, "idle") /\ booting' = FALSE
     \/ p = "daemon" /\ ~booting /\ Goto(p, "back") /\ UNCHANGED booting
     \/ p # "daemon" /\ Goto(p, "reboot") /\ UNCHANGED booting
  /\ UNCHANGED <<mem, buf, events>>

(* nvram_get uboot HE_ROUTE_SN, nvram_set HE_ROUTE_SN *)
ReadBack ==
  /\ At("daemon", "back")
  /\ \/ /\ Goto("daemon", IF mem.uboot = None THEN "reboot" ELSE "backset")
        /\ buf' = [buf EXCEPT !["daemon"] = mem.uboot]
        /\ UNCHANGED <<cause, events>>
     \/ /\ Event /\ Goto("daemon", "reboot") /\ cause' = cause \cup {"read"}
        /\ UNCHANGED buf
  /\ UNCHANGED <<mem, flash, booting>>

SetBack ==
  /\ At("daemon", "backset") /\ Goto("daemon", "backcommit")
  /\ SetEntry("sn", buf["daemon"])
  /\ UNCHANGED <<flash, buf, booting, cause, events>>

CommitBack ==
  /\ At("daemon", "backcommit") /\ Goto("daemon", "reboot")
  /\ Commit2860("daemon")
  /\ UNCHANGED <<mem, buf, booting, events>>

-----------------------------------------------------------------------------
(* Any other process: nvram_set of a setting. *)

SetSetting ==
  /\ At("setter", "idle") /\ Event /\ Goto("setter", "commit")
  /\ SetEntry("settings", TRUE)
  /\ UNCHANGED <<flash, buf, booting, cause>>

CommitSetting ==
  /\ At("setter", "commit") /\ Goto("setter", "idle") /\ Commit2860("setter")
  /\ UNCHANGED <<mem, buf, booting, events>>

-----------------------------------------------------------------------------
(* Failures *)

(* What follows a command that did nothing.                                *)
After(p) ==
  CASE pc[p] \in {"ubset", "ubcommit"}       -> "clear"
    [] pc[p] = "clear"                       -> "init"
    [] pc[p] = "init"                        -> "settings"
    [] pc[p] = "settings"                    -> "sn"
    [] pc[p] = "sn"                          -> "commit"
    [] pc[p] \in {"backset", "backcommit"}   -> "reboot"
    [] pc[p] = "commit" ->
         CASE p = "setter" \/ (p = "daemon" /\ booting) -> "idle"
           [] p = "daemon" /\ ~booting                  -> "back"
           [] OTHER                                     -> "reboot"

(* The reset stops, or goes on, with a block that it has not initialised.  *)
Leaves(p, here) == IF p \in Resetters /\ pc[p] \in here THEN {"left"} ELSE {}

(* The kernel refuses to set, to clear or to commit: nobody looks at the   *)
(* result.  A value nvram_set could not set is not committed either; one   *)
(* that is set while the cache of names is full is not committed, like one *)
(* whose commit is refused.                                                *)
Refused(p) ==
  /\ pc[p] \in {"ubset", "ubcommit", "clear", "init", "settings", "sn",
               "commit", "backset", "backcommit"}
  /\ Event /\ Goto(p, After(p))
  /\ cause' = cause \cup {"refused"} \cup Leaves(p, {"init", "commit"})
  /\ booting' = (booting /\ ~(p = "daemon" /\ At(p, "commit")))
  /\ UNCHANGED <<mem, flash, buf>>

(* goahead dies, or hertMonitor kills it, between two commands of          *)
(* LoadDefaultSettings (a command it has started goes on without it), or   *)
(* upload_settings.cgi dies between two of import(): nobody takes over.    *)
Killed(p) ==
  /\ p \in {"web", "import"} /\ Event /\ Goto(p, "idle")
  /\ pc[p] \in {"seeub", "see2860", "ubset", "clear", "init", "reboot"}
  /\ cause' = cause \cup Leaves(p, {"init", "reboot"})
  /\ UNCHANGED <<mem, flash, buf, booting>>

-----------------------------------------------------------------------------
(* The device *)

(* A plausible slip: the defaults are not loaded at boot.                  *)
BootFromUnchecked(f) ==
  /\ flash' = f /\ mem' = f
  /\ booting' = FALSE
  /\ pc' = [p \in Procs |-> "idle"]
  /\ buf' = [p \in Procs |-> None]

(* main() of nvram_daemon: without WebInit the defaults are loaded.        *)
BootFrom(f) ==
  /\ flash' = f /\ mem' = f
  /\ booting' = ~f.b2860.WebInit
  /\ pc' = [p \in Procs |->
              IF p = "daemon" /\ ~f.b2860.WebInit THEN "clear" ELSE "idle"]
  /\ buf' = [p \in Procs |-> None]

(* A reset that was left is the business of the boot now.                  *)
Reboot(p) ==
  /\ At(p, "reboot") /\ BootFrom(flash)
  /\ cause' = cause \ {"left"} /\ UNCHANGED events

PowerCut == Event /\ BootFrom(flash) /\ cause' = cause \ {"left"}

(* The power fails while a block is written: it has a wrong checksum, and  *)
(* the kernel module takes it for empty.  The blocks are 8 kB apart, so    *)
(* that the other one may be in the part of the flash that was erased.     *)
TornCommit(p) ==
  /\ Event
  /\ \/ /\ pc[p] \in {"clear", "commit", "backcommit"}
        /\ cause' = (cause \cup {"torn"}) \ {"left"}
        /\ \/ BootFrom([flash EXCEPT !.b2860 = Empty])
           \/ BootFrom([uboot |-> None, b2860 |-> Empty])
     \/ /\ At(p, "ubcommit") /\ cause' = cause \ {"left"}
        /\ BootFrom([flash EXCEPT !.uboot = None])
     \/ /\ At(p, "ubcommit") /\ cause' = (cause \cup {"torn"}) \ {"left"}
        /\ BootFrom([uboot |-> None, b2860 |-> Empty])

ResetStep(p) ==
  \/ SeeUboot(p) \/ See2860(p) \/ SetUboot(p) \/ CommitUboot(p) \/ Clear(p)
  \/ RenewInit(p) \/ RenewSettings(p) \/ RenewSN(p) \/ RenewShort(p)
  \/ RenewBadLine(p) \/ RenewCommit(p)
  \/ p = "daemon" /\ (ReadBack \/ SetBack \/ CommitBack)
  \/ Reboot(p)

Next ==
  \/ \E p \in Procs : StartReset(p) \/ TornCommit(p) \/ Refused(p) \/ Killed(p)
  \/ \E p \in Resetters : ResetStep(p)
  \/ StartImport \/ SetSetting \/ CommitSetting \/ PowerCut

Spec == Init /\ [][Next]_vars

(* A process at work goes on, unless it is killed.                         *)
Fairness ==
  /\ \A p \in Resetters : WF_vars(ResetStep(p))
  /\ WF_vars(CommitSetting)
FairSpec == Spec /\ Fairness

-----------------------------------------------------------------------------
(* Properties *)

(* The serial number that hertUtil_getSN finds, in memory, or in flash if  *)
(* the power fails now: that of uboot before that of 2860, which is the    *)
(* default one when the boot has to load the defaults.                     *)
SerialOf(store) ==
  IF store.uboot # None THEN store.uboot
  ELSE IF store.b2860.WebInit THEN store.b2860.sn ELSE Default

(* The device keeps the serial number it was made with through every reset *)
(* by the button or the form, wherever the power fails in it and wherever  *)
(* goahead dies in it, unless two resets overlap, a settings file is       *)
(* imported before the first reset, the power fails while the block 2860   *)
(* or both are written, nvram_get fails four times in a row, or the kernel *)
(* refuses what the reset asks of it.                                      *)
SerialKept ==
  cause \cap {"overlap", "import", "torn", "read", "refused"} = {}
    => SerialOf(flash) = Real

(* A block that the next boot takes for initialised has its settings,      *)
(* unless somebody committed the block while a reset was filling it, an    *)
(* imported file broke off at a bad line or ended too early, or the kernel *)
(* refused to set them.                                                    *)
InitialisedIsComplete ==
  cause \cap {"commit", "file", "refused"} = {} /\ flash.b2860.WebInit
    => flash.b2860.settings

(* Whenever no reset, import or loading of the defaults is under way, the  *)
(* block is initialised, in memory and in flash: whatever the power cut,   *)
(* other resets or a file that is no settings file made of it, whoever     *)
(* emptied it last, or the boot after that, is still to fill it.  The      *)
(* exception is a reset that was left since the last boot: its process     *)
(* died behind the clear, or the kernel refused it WebInit or the commit.  *)
IdleIsInitialised ==
  (\A p \in Resetters : ~Resetting(p)) /\ "left" \notin cause
    => mem.b2860.WebInit /\ flash.b2860.WebInit

(* However often the power fails, the device ends up with a block that is  *)
(* initialised in memory and in flash, unless the last thing that happens  *)
(* to it is a reset that is left, with no boot after it.                   *)
EndsInitialised ==
  <>[]("left" \in cause \/ (mem.b2860.WebInit /\ flash.b2860.WebInit))
=============================================================================
