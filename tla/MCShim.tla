------------------------------- MODULE MCShim -------------------------------
(* Uorb over both brokers, the mock and PX4, for TLC. *)
EXTENDS Shim, MCUorb
=============================================================================
