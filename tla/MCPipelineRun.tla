-------------------------- MODULE MCPipelineRun --------------------------
(* Instances of PipelineRun for TLC.                                      *)
EXTENDS PipelineRun

\* Every fault once.
EveryFault == [f \in Faults |-> 1]
=============================================================================
