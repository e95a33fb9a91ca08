------------------------------- MODULE MCUorb -------------------------------
(* Instances of Uorb for TLC. *)
EXTENDS Uorb, TLC

CONSTANTS p1, p2

TwoThreads == {p1, p2}

\* The threads are interchangeable: every property quantifies over them.
ThreadSymmetry == Permutations(Threads)
=============================================================================
