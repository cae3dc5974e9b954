------------------------ MODULE MCNativeSupervisor ------------------------
(* Small instances of NativeSupervisor. *)
EXTENDS NativeSupervisor

CONSTANTS j1, j2, j3

OnePlan == {<<j1>>}
TwoPlan == {<<j1, j2>>}
ThreePlan == {<<j1, j2, j3>>}
=============================================================================
