---------------------------- MODULE MCWanStatus -----------------------------
(* WanStatus with two addresses and short counters. *)
EXTENDS WanStatus

CONSTANTS x, y

MCAddrs == {x, y}
MCWanTimes == {0, 2}
=============================================================================
