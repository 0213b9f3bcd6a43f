----------------------------- MODULE MCAdmission -----------------------------
(* An instance of Admission for TLC.  The buckets keep the proportions of   *)
(* the code: the user's fills in 2.5 minutes and expires after 2, the one   *)
(* of the address fills in 100 seconds and expires after 2 minutes.         *)
EXTENDS Admission, TLC

CONSTANTS c1, c2, k1

Bursts == ("ip" :> 4) @@ ("user" :> 2)
Lives == ("ip" :> 5) @@ ("user" :> 1)

Symmetry == Permutations(Clients)
=============================================================================
