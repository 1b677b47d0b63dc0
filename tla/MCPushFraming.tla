--------------------------- MODULE MCPushFraming ---------------------------
(* Segments of messages on both sides of the limits of the length field.    *)
(* Five messages of 255 bytes are more than the buffer holds; a cut of 256  *)
(* bytes leaves a part of a header; 179 is what the two bytes of a          *)
(* PING_RESP and the header behind them are misread as.                     *)
EXTENDS PushFraming

MCShort   == {10, 128, 255}
MCLong    == {10, 255, 256, 300}
MCWhole   == {0}
MCCuts    == {0, 1, 9, 256}
MCGarbage == {179, 3000}
=============================================================================
