---------------------------- MODULE MCModelAdapter ----------------------------
(* Instances of ModelAdapter for TLC.                                        *)
EXTENDS ModelAdapter

CONSTANTS c1, c2, k1, k2
=============================================================================
