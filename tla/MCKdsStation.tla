---------------------------- MODULE MCKdsStation ----------------------------
(* Small kitchens for TLC.  The stations are symmetric; the symmetry is    *)
(* used for safety only, as it is not sound for liveness.                  *)
EXTENDS KdsStation, TLC

Symmetric == Permutations(Stations)
=============================================================================
