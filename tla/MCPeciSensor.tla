---------------------------- MODULE MCPeciSensor ----------------------------
(***************************************************************************)
(* Inputs for model checking PeciSensor; a .cfg has no negative numbers.   *)
(***************************************************************************)
EXTENDS PeciSensor

NotInDeviceTree == -1

\* 39 degrees below Tjmax with 0x40 as the low byte, and 10 degrees below.
TwoReadings == {-2496, -640}

\* Also 3 degrees below Tjmax and the error 0x8000.
AllReadings == TwoReadings \cup {-192, -32768}
=============================================================================
