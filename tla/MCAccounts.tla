----------------------------- MODULE MCAccounts -----------------------------
(* An instance of Accounts for TLC: two callers and two passwords.          *)
EXTENDS Accounts, TLC

CONSTANTS c1, c2, p1, p2

Symmetry == Permutations(Clients)
=============================================================================
