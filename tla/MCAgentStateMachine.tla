------------------------ MODULE MCAgentStateMachine ------------------------
(***************************************************************************)
(* Environments of the runs of AgentStateMachine.                          *)
(***************************************************************************)
EXTENDS AgentStateMachine

\* Calls overlap, on an agent registered twice, also while calls on its first
\* machine run or only when none does, or on one that fails up to the limit of
\* canRecover; or they follow each other.
RegisteredAgain(settled) == [serial |-> FALSE, settled |-> settled, machines |-> 2, errors |-> 0]
FailingOften == [serial |-> FALSE, settled |-> TRUE, machines |-> 1, errors |-> 3]
OneAfterAnother == [serial |-> TRUE, settled |-> TRUE, machines |-> 2, errors |-> 1]

EachWay == {RegisteredAgain(TRUE), RegisteredAgain(FALSE), FailingOften, OneAfterAnother}

\* One machine, on which calls overlap.
RegisteredOnce == {[serial |-> FALSE, settled |-> TRUE, machines |-> 1, errors |-> 0]}
=============================================================================
