------------------------------- MODULE MCCatalog -------------------------------
(* An instance of Catalog for TLC. *)
EXTENDS Catalog

CONSTANTS c1, c2, k1
===============================================================================
