---------------------------- MODULE MCHeartBeat ----------------------------
(* An interval of 2 or 3 seconds, a wall clock that is set once.            *)
EXTENDS HeartBeat

CONSTANTS absent, nan

MCConfigs == {absent, nan, 0, 50}
MCUndefined == {-1}
MCSteps == {-1, 2}
=============================================================================
