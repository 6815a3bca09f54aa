---------------------------- MODULE MCKdsIntake -----------------------------
(* A small restaurant order for TLC.  Lines are ordered, boards are not.   *)
EXTENDS KdsIntake, TLC

Symmetric == Permutations(Boards)
=============================================================================
