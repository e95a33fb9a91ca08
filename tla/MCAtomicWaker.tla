---------------------------- MODULE MCAtomicWaker ----------------------------
(* Instances of AtomicWaker for TLC. *)
EXTENDS AtomicWaker

CONSTANTS p1, p2, p3, p4, w1, w2

ThreeProcs == {p1, p2, p3}
FourProcs  == {p1, p2, p3, p4}
TwoWakers  == {w1, w2}
=============================================================================
