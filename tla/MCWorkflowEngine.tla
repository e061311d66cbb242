-------------------------- MODULE MCWorkflowEngine --------------------------
(***************************************************************************)
(* Graphs for WorkflowEngine: every graph over three steps without         *)
(* self-loops, cyclic ones included.                                       *)
(***************************************************************************)
EXTENDS WorkflowEngine, TLC

CONSTANTS s1, s2, s3

AllGraphs == {g \in [Steps -> SUBSET Steps] : \A s \in Steps : s \notin g[s]}
=============================================================================
