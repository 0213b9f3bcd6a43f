---------------------------- MODULE MCContentTasks ----------------------------
(* Instances of ContentTasks for TLC.                                          *)
EXTENDS ContentTasks, TLC

CONSTANTS a1, a2

\* An answer that starts at 2, and one whose first, unnumbered episode gets
\* the number of its second.
Answers == {<<2>>, <<0, 1>>}
\* What a model is asked for: episodes numbered from 1.
ProperAnswer == {<<1, 2>>}
Shots == {{}, {1, 2}}
Symmetry == Permutations(Actors)
=============================================================================
