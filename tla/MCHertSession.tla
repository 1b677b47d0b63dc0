--------------------------- MODULE MCHertSession ---------------------------
(* Instances of HertSession: one or two WAN addresses, two names.          *)
EXTENDS HertSession

CONSTANTS a1, a2, n1, n2

MCAddr1 == {a1}
MCAddr2 == {a1, a2}
MCNames == {n1, n2}
=============================================================================
