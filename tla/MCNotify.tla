------------------------------ MODULE MCNotify ------------------------------
(* An instance of Notify for TLC: two threads, so that two notify() meet. *)
EXTENDS Notify

CONSTANTS n1, n2

TwoNotifiers == {n1, n2}
=============================================================================
