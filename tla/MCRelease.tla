------------------------------- MODULE MCRelease -------------------------------
(* An instance of Release for TLC: a default flow of two steps, the first for  *)
(* one user and the second for anybody and skippable, and a flow whose only    *)
(* step is numbered 2.                                                         *)
EXTENDS Release, TLC

CONSTANTS c1, c2, u1, u2, r1, r2, quick, default

Node(approver, skippable) == [approver |-> approver, skippable |-> skippable]

FlowNodes ==
    [f \in {quick, default} |->
        IF f = default THEN <<Node(u1, FALSE), Node(Anyone, TRUE)>>
                       ELSE [s \in {2} |-> Node(u2, TRUE)]]

Symmetry == Permutations(Clients) \cup Permutations(Renders)
===============================================================================
