--------------------------- MODULE AgentManagement ---------------------------
(***************************************************************************)
(* The lifecycle of an agent, the scheduler that places agents and the     *)
(* approvals that agents ask for.  They share no state (the scheduler does *)
(* not know what became of an agent), so a behaviour is one of one part,   *)
(* the others staying as they begin; none of them has anything to do then. *)
(***************************************************************************)
EXTENDS Integers, Sequences

CONSTANTS
  None,
  MaxRetries, LifecycleCalls,                               \* of the lifecycle
  Agents, Nodes, Size, Priority, Capacity,                  \* of the scheduler
  MinPriorityDifference, MaxPreemptions, Workers, SchedulerCalls,
  Requests, Risks, MaxEscalations, MaxCount                 \* of the approvals

VARIABLES part,
  active, state, stored, runtime, runtimeId, session, retryCount, mutex, queue, op, retried,
  used, listed, record, known, preempted, call, calls, serial,
  request, pendingQueue, monitoring, enableAutoDeny

Lifecycle == INSTANCE AgentLifecycle WITH MaxCalls <- LifecycleCalls
Scheduler == INSTANCE Placement WITH MaxCalls <- SchedulerCalls
Safety == INSTANCE Approvals

ASSUME PartsAssumption ==
  /\ Lifecycle!RetriesAssumption /\ Lifecycle!CallsAssumption
  /\ Scheduler!AgentsAssumption /\ Scheduler!SettingsAssumption
  /\ Safety!EscalationsAssumption /\ Safety!CountAssumption /\ Safety!NoneAssumption

lifecycleVars == <<active, state, stored, runtime, runtimeId, session, retryCount, mutex, queue, op, retried>>
schedulerVars == <<used, listed, record, known, preempted, call, calls, serial>>
safetyVars == <<request, pendingQueue, monitoring, enableAutoDeny>>

MCInit ==
  /\ part \in {"lifecycle", "scheduler", "safety"}
  /\ Lifecycle!Init /\ Scheduler!Init /\ Safety!Init
  /\ part # "scheduler" => ~serial
  /\ part # "safety" => ~enableAutoDeny

MCNext ==
  /\ UNCHANGED part
  /\ \/ part = "lifecycle" /\ Lifecycle!Next /\ UNCHANGED <<schedulerVars, safetyVars>>
     \/ part = "scheduler" /\ Scheduler!Next /\ UNCHANGED <<lifecycleVars, safetyVars>>
     \/ part = "safety" /\ Safety!Next /\ UNCHANGED <<lifecycleVars, schedulerVars>>

MCVars == <<part, lifecycleVars, schedulerVars, safetyVars>>
MCSpec ==
  /\ MCInit /\ [][MCNext]_MCVars
  /\ Lifecycle!Fairness /\ Scheduler!Fairness /\ Safety!Fairness

-----------------------------------------------------------------------------
\* An agent's record agrees with its state, its operations take turns.
LifecycleKept == Lifecycle!TypeOK /\ Lifecycle!StoredAgrees /\ Lifecycle!OneAtATime

\* The books of the nodes, and the agents that were preempted.
NodesKept == Scheduler!TypeOK /\ Scheduler!LedgerAgrees /\ Scheduler!PreemptedIsOut

\* Requests without an answer are reached.
UnansweredQueued == Safety!TypeOK /\ Safety!UnansweredQueued

\* An agent that ended and a request that the monitor denied remain so.
EndsAreFinal == Lifecycle!EndedStaysEnded /\ Safety!AutoDeniedIsFinal

\* Operations on agents and calls of the scheduler return, expired requests end.
AllEnd == Lifecycle!OperationsReturn /\ Scheduler!CallsReturn /\ Safety!PendingEnds
=============================================================================
