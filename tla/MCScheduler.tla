---------------------------- MODULE MCScheduler ----------------------------
(* Instances of Scheduler for TLC; the job ids are interchangeable.        *)
EXTENDS Scheduler, TLC

Interchangeable == Permutations(Jobs) \cup Permutations(Uuids)
=============================================================================
