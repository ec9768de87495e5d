------------------------------ MODULE MCIntake -------------------------------
(* Instances of Intake for TLC: the calls are model values, with no symmetry *)
(* set, for it is not sound with a liveness property.                        *)
EXTENDS Intake, TLC
=============================================================================
