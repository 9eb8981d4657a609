------------------------------ MODULE MCIntake ------------------------------
(***************************************************************************)
(* Instances of RequirementIntake for TLC.                                 *)
(***************************************************************************)
EXTENDS IntakeSafety, TLC

\* Processes and audit payloads are only compared with each other.
Interchangeable == Permutations(Procs) \cup Permutations(Audits)
=============================================================================
