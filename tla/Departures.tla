----------------------------- MODULE Departures ------------------------------
(***************************************************************************)
(* What the tracking of devices promises to the platform: a departure may  *)
(* be asked about once, is then on the way, and is told or is missed.  No  *)
(* report comes from nowhere, and none goes missing without a note of it.  *)
(***************************************************************************)
EXTENDS Naturals

CONSTANT Macs

VARIABLES
  left,  \* how often a device has left, or seemed to
  way,   \* how many of its departures are between question and report
  told,  \* how many were reported
  lost   \* the devices a departure of which was missed

None == [m \in Macs |-> 0]

Init == left = None /\ way = None /\ told = None /\ lost = {}

(* Devices leave, or the list of clients comes out empty.                  *)
Depart(ms) ==
  /\ left' = [m \in Macs |-> left[m] + IF m \in ms THEN 1 ELSE 0]
  /\ UNCHANGED <<way, told, lost>>

(* No more questions than departures.                                      *)
Ask(m) ==
  /\ told[m] + way[m] < left[m]
  /\ way' = [way EXCEPT ![m] = @ + 1]
  /\ UNCHANGED <<left, told, lost>>

(* Whatever is told was on the way.                                        *)
Tell ==
  /\ told' \in [Macs -> Nat]
  /\ \A m \in Macs : told[m] <= told'[m] /\ told'[m] + way'[m] = told[m] + way[m]
  /\ UNCHANGED <<left, lost>>

(* Departures are missed, before or after the question.                    *)
Miss ==
  /\ lost \subseteq lost'
  /\ \A m \in Macs : way'[m] <= way[m] /\ (way'[m] < way[m] => m \in lost')
  /\ UNCHANGED <<left, told>>

Next ==
  \/ \E ms \in SUBSET Macs : Depart(ms)
  \/ \E m \in Macs : Ask(m)
  \/ Tell \/ Miss

Spec == Init /\ [][Next]_<<left, way, told, lost>>
=============================================================================
