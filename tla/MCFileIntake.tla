---------------------------- MODULE MCFileIntake ----------------------------
(***************************************************************************)
(* Values for model-checking FileIntake: each report records one document. *)
(***************************************************************************)
EXTENDS FileIntake

CONSTANTS p1, p2, r1, r2

MCRecordedDoc == [r \in Reports |-> IF r = r1 THEN p1 ELSE p2]
=============================================================================
