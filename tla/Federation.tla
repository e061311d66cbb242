----------------------------- MODULE Federation -----------------------------
(***************************************************************************)
(* The migrator, the execution engine and the circuit breakers of the      *)
(* federation.  They share no state (a plan is executed by whoever the     *)
(* caller gives it to, and breakers know only what the load balancer tells *)
(* them), so a behaviour is one of one part, the others staying as they    *)
(* begin.                                                                  *)
(***************************************************************************)
EXTENDS Integers, Sequences, FiniteSets

CONSTANTS
  Agents, Clusters, MaxAgents, MaxConcurrent, MaxCalls, MaxFaults, MaxReports,   \* of the migrator
  Tasks, RetryAttempts,                                                          \* of the engine
  Guarded, None, FailureThreshold, SuccessThreshold, Timeout, Window, Environments   \* of the breakers

VARIABLES part,
  capacity, call, active, running, memory, home, faults, reports,
  dependencies, continueOnFailure, levels, level, task, results, aborted, outcome,
  breaker, since, environment

Migrator == INSTANCE AgentMigration
Engine == INSTANCE ExecutionEngine
Breaker == INSTANCE AgentCircuitBreaker WITH Agents <- Guarded

ASSUME PartsAssumption ==
  /\ Migrator!SetsAssumption /\ Migrator!SizesAssumption /\ Migrator!BoundsAssumption
  /\ Engine!TasksAssumption /\ Engine!RetryAssumption
  /\ Breaker!ThresholdsAssumption /\ Breaker!TimesAssumption
  /\ Breaker!EnvironmentsAssumption /\ Breaker!NoneAssumption

migratorVars == <<capacity, call, active, running, memory, home, faults, reports>>
engineVars == <<dependencies, continueOnFailure, levels, level, task, results, aborted, outcome>>
breakerVars == <<breaker, since, environment>>

\* The agents somewhere, within the slots.
AnyHome ==
  CHOOSE h \in [Agents -> Clusters] : \A c \in Clusters : Cardinality({a \in Agents : h[a] = c}) <= MaxAgents

\* The parts that do not run begin in one way only.
MCInit ==
  /\ part \in {"migrator", "engine", "breakers"}
  /\ Migrator!Init /\ Engine!Init /\ Breaker!Init
  /\ part # "migrator" => home = AnyHome
  /\ part # "engine" => ~continueOnFailure /\ \A t \in Tasks : dependencies[t] = {}
  /\ part # "breakers" => environment = CHOOSE e \in Environments : TRUE

MCNext ==
  /\ UNCHANGED part
  /\ \/ part = "migrator" /\ Migrator!Next /\ UNCHANGED <<engineVars, breakerVars>>
     \/ part = "engine" /\ Engine!Next /\ UNCHANGED <<migratorVars, breakerVars>>
     \/ part = "breakers" /\ Breaker!Next /\ UNCHANGED <<migratorVars, engineVars>>

\* The fairness of each part, where it runs: a migrator that does not run has
\* nothing to do, an engine has, and time passes for breakers.
EngineRuns == part = "engine" /\ Engine!Engine /\ UNCHANGED <<part, migratorVars, breakerVars>>
TimePasses == part = "breakers" /\ Breaker!Tick /\ UNCHANGED <<part, migratorVars, engineVars>>
TimerFires(a) == part = "breakers" /\ Breaker!Fire(a) /\ UNCHANGED <<part, migratorVars, engineVars>>

MCVars == <<part, migratorVars, engineVars, breakerVars>>
MCFairness ==
  /\ Migrator!Fairness /\ WF_MCVars(EngineRuns)
  /\ WF_MCVars(TimePasses) /\ \A a \in Guarded : WF_MCVars(TimerFires(a))
MCSpec == MCInit /\ [][MCNext]_MCVars /\ MCFairness

-----------------------------------------------------------------------------
\* A migrated agent runs, and where its callers believe.
AgentsKept == Migrator!AgentsKept

\* A plan respects its dependencies and returns whole.
PlanKept == Engine!TypeOK /\ Engine!DependenciesFirst /\ Engine!ReturnsWhole

\* A closed breaker has seen fewer than failureThreshold failures in its window.
FailsFast == Breaker!TypeOK /\ Breaker!FailsFast

\* A circuit that no operator touches waits for its timeout, and closes on
\* enough successes only.
OpenLasts == Breaker!OpenLasts
ProvenByTrials == Breaker!ProvenByTrials

\* Migrations end, and so do plans.
AllEnd == Migrator!MigrationsEnd /\ (part = "engine" => Engine!PlanReturns)

\* A circuit that recovers by itself does not stay open.
Retried == part = "breakers" => Breaker!Retried
=============================================================================
