---------------------------- MODULE EventSourcing ----------------------------
(***************************************************************************)
(* The event-sourced loop: the aggregate, the event store and the replay   *)
(* engine, which meet only in the events they exchange.  A behaviour is    *)
(* one of one part, the others staying as they begin.                      *)
(***************************************************************************)
EXTENDS Integers, Sequences

CONSTANTS
  Tasks, MaxEvents, Stores, None,              \* of the aggregate
  Events, Flushers, BatchSize, MaxFailures,    \* of the event store
  EventsOf, MaxWorkers, MaxFailed, MaxReplays  \* of the replay engine

VARIABLES part,
  agent, stored, fresh, snapshot, shared,
  appended, buffer, flush, table, session, timer, failures, overlap,
  isRunning, aborted, stopOnError, replays

Aggregate == INSTANCE AgentAggregate
Store == INSTANCE EventStore
Engine == INSTANCE EventReplay

ASSUME PartsAssumption ==
  /\ Aggregate!BoundAssumption /\ Aggregate!StoresAssumption /\ Aggregate!NoneAssumption
  /\ Store!BatchAssumption /\ Store!FailuresAssumption
  /\ Engine!GroupsAssumption /\ Engine!WorkersAssumption /\ Engine!BoundsAssumption

aggregateVars == <<agent, stored, fresh, snapshot, shared>>
storeVars == <<appended, buffer, flush, table, session, timer, failures, overlap>>
engineVars == <<isRunning, aborted, stopOnError, replays>>

\* The parts that do not run begin in one way only.
MCInit ==
  /\ part \in {"aggregate", "store", "engine"}
  /\ Aggregate!Init /\ Store!Init /\ Engine!Init
  /\ part # "aggregate" => shared = CHOOSE s \in Stores : TRUE
  /\ part # "engine" => ~stopOnError

MCNext ==
  /\ UNCHANGED part
  /\ \/ part = "aggregate" /\ Aggregate!Next /\ UNCHANGED <<storeVars, engineVars>>
     \/ part = "store" /\ Store!Next /\ UNCHANGED <<aggregateVars, engineVars>>
     \/ part = "engine" /\ Engine!Next /\ UNCHANGED <<aggregateVars, storeVars>>

\* A store or an engine that does not run has nothing to do.
MCVars == <<part, aggregateVars, storeVars, engineVars>>
MCSpec == MCInit /\ [][MCNext]_MCVars /\ Store!Fairness /\ Engine!Fairness

-----------------------------------------------------------------------------
\* Events are numbered without a gap, an agent is what its events say, and a busy
\* one has a task.
Rebuilt ==
  Aggregate!TypeOK /\ Aggregate!Versioned /\ Aggregate!Rebuilt /\ Aggregate!BusyHasTask

\* Events are lost only where flushes overlap and one fails.
NoneLost == Store!TypeOK /\ Store!NoneLost

\* Groups share the workers, completed replays are whole.
ReplayKept == Engine!TypeOK /\ Engine!WorkersKept /\ Engine!CompletedIsWhole

\* Buffered events leave the buffer, and the groups of a replay end.
AllEnd == Store!BufferFlushed /\ Engine!GroupsEnd
=============================================================================
