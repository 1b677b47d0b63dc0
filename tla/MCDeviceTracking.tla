-------------------------- MODULE MCDeviceTracking ---------------------------
(* A wireless device d, and a device h on a wire, which is not listed.     *)
EXTENDS DeviceTracking

CONSTANTS d, h
MCMacs == {d, h}
MCHidden == {h}
=============================================================================
