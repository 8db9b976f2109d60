------------------------------ MODULE MCJobLogs ------------------------------
(* JobLogs for TLC: the jobs are interchangeable. *)
EXTENDS JobLogs, TLC

Symmetry == Permutations(Jobs)
=============================================================================
