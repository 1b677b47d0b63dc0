----------------------------- MODULE MCWatchdog -----------------------------
(* Watchdog with small thresholds: the order of the limits is the code's.  *)
EXTENDS Watchdog

MCServices == {"proftpd", "pppd", "herouteapp"}
=============================================================================
