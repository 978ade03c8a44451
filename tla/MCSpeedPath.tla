---------------------------- MODULE MCSpeedPath ----------------------------
(* Speeds are 1 (in range) and FaultSpeed.  The counter, the tolerance and   *)
(* the timeout are scaled down, a round of the counter still taking longer   *)
(* than the timeout and every delay of a task together.                      *)
EXTENDS SpeedPath, Crc8, SensorInput

\* What SpeedPath takes of the data in a frame does not depend on the state: it is
\* enough to evaluate it before anything has happened.

\* CrcDetects of Crc8: what counts as damage "crc" is always noticed.
FrameGuarded == started = 0 => CrcDetects

\* SpeedFromSamples of SensorInput: the speeds are 0 .. MaxSpeed, and the right ones.
SpeedMeasured == started = 0 => SpeedFromSamples
=============================================================================
