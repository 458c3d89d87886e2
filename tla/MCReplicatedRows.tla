-------------------------- MODULE MCReplicatedRows --------------------------
(* Small devices, rows and wall clocks for TLC. *)
EXTENDS ReplicatedRows

TwoDevices   == 1 .. 2
OneValue     == {1}
TwoValues    == 1 .. 2
OneTime      == {0}
TwoTimes     == 0 .. 1
=============================================================================
