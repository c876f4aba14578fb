---------------------------- MODULE MCExecution ----------------------------
(* Instances of Execution for TLC; the job ids are interchangeable, and so *)
(* are the loops.                                                          *)
EXTENDS Execution, TLC

Interchangeable == Permutations(Jobs) \cup Permutations(Uuids)
=============================================================================
