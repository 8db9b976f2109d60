------------------------------- MODULE MCWorker -------------------------------
(* Model-checking instances of Worker: the model tells neither jobs nor      *)
(* workers apart, so their permutations are symmetries of the safety runs.   *)
EXTENDS Worker, TLC

WorkerSymmetry == Permutations(Workers)
Symmetry == Permutations(Jobs) \union WorkerSymmetry
=============================================================================
