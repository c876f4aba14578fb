-------------------------- MODULE MCModelRegistry --------------------------
(* Instances of ModelRegistry for TLC.                                     *)
EXTENDS ModelRegistry, TLC

Interchangeable == Permutations(Activators) \cup Permutations(Clerks)
=============================================================================
