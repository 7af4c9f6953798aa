---------------------------- MODULE MCScheduler -----------------------------
(* Instances of Scheduler: a week of two days of two ticks. *)
EXTENDS Scheduler, TLC

Symmetry == {p @@ q : p \in Permutations(Blobs), q \in Permutations(Contents)}
=============================================================================
