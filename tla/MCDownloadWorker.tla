-------------------------- MODULE MCDownloadWorker --------------------------
(* Instances of DownloadWorker: `a' and `b' are well-formed requests, `c'   *)
(* has a blank in its name, so that its line is read back as `b', and `d'   *)
(* lacks a field, so that its line is never taken for a download.           *)
EXTENDS DownloadWorker

CONSTANTS a, b, c, d

MCItems2 == {a, b}
MCItems4 == {a, b, c, d}
Readback(i) == IF i = c THEN b ELSE i
MCStored2 == [i \in MCItems2 |-> i]
MCStored4 == [i \in MCItems4 |-> Readback(i)]
MCIncomplete4 == {d}
MCNone == {}
=============================================================================
