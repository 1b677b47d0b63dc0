------------------------------ MODULE MCUpgrade ------------------------------
(* Small instances of Upgrade for TLC.                                     *)
EXTENDS Upgrade

CONSTANTS c1, c2
MCCgis == {c1, c2}
=============================================================================
