------------------------------ MODULE MCIntake ------------------------------
(* Small values for the constants of the intake module. *)
EXTENDS Intake, TLC

Interchangeable == Permutations(Deliveries)
=============================================================================
