------------------------------ MODULE MCYield ------------------------------
(* Instances of Yield for TLC. *)
EXTENDS Yield, MCWorkItemCell
=============================================================================
