------------------------------ MODULE MCAgents ------------------------------
(***************************************************************************)
(* Values for AgentManagement: agents of three priorities, of which the    *)
(* lowest is half as large as the others.                                  *)
(***************************************************************************)
EXTENDS AgentManagement, TLC

CONSTANTS low, high, top

Sizes == low :> 1 @@ high :> 2 @@ top :> 2
Priorities == low :> 1 @@ high :> 500 @@ top :> 1000

\* Only critical requests are escalated.
Escalations == [risk \in Risks |-> IF risk = "critical" THEN 1 ELSE 0]
=============================================================================
