---------------------------- MODULE MCScheduler ----------------------------
(* Scheduler with the symmetry of the threads and words that nothing names. *)
EXTENDS Scheduler, TLC

Symmetry == Permutations(Threads \ {start_thread}) \cup Permutations(Words)
=============================================================================
