------------------------- MODULE RegistrationPhases -------------------------
(***************************************************************************)
(* What the session of herouteapp promises to the rest of the program, as  *)
(* one variable: it is off, connected, registered (HERT_REGISTERED) or     *)
(* ready (the init data have come).  Phases are passed one by one, and the *)
(* only way back is to lose the session and start again.                   *)
(***************************************************************************)
VARIABLE phase

Init == phase = "off"

Connect    == phase = "off" /\ phase' = "connected"
Register   == phase = "connected" /\ phase' = "registered"
Initialise == phase = "registered" /\ phase' = "ready"
Lose       == phase # "off" /\ phase' = "off"

Next == Connect \/ Register \/ Initialise \/ Lose

Spec == Init /\ [][Next]_phase
=============================================================================
