------------------------------- MODULE MCRoles -------------------------------
(* An instance of Roles for TLC: two replicas, as deploy/k8s runs them, two *)
(* readers, a system role and one that is made and deleted.                 *)
EXTENDS Roles, TLC

CONSTANTS s1, s2, a1, a2, q1, q2, viewer, editor, p1

Symmetry == Permutations(Admins) \cup Permutations(Servers) \cup Permutations(Readers)

\* A bound: nobody reads while rules are written.  These steps and those of the
\* readers share no variable but the count of faults.
ReadersApart ==
    \/ \A q \in Readers : Asks(q, "idle")
    \/ \A a \in Actors : ~At(a, {"clear", "add", "save", "count", "create"})
=============================================================================
