--------------------------- MODULE AgentMigration ---------------------------
(***************************************************************************)
(* AgentMigrator of src/src/federation/migration.ts, with the capacity and *)
(* health that ClusterRegistry keeps of each cluster.  A migration is a    *)
(* series of HTTP requests to two clusters; each may be applied and        *)
(* answered, refused, or applied with its answer lost, and what the        *)
(* migrator does next depends on the answer alone.                         *)
(*                                                                         *)
(* The migrator takes whatever source it is told: the callers of the model *)
(* name the cluster where the last completed migration put the agent, and  *)
(* migrate one agent once at a time (see Migrate).                         *)
(***************************************************************************)
EXTENDS Integers, FiniteSets

CONSTANTS
  Agents, Clusters,
  MaxCalls,                  \* bound: calls of migrateAgent
  MaxAgents,                 \* the slots of a cluster
  MaxConcurrent,             \* maxConcurrentMigrations
  MaxFaults,                 \* bound: requests that fail or whose answer is lost
  MaxReports                 \* bound: health and load reports

SetsAssumption == IsFiniteSet(Agents) /\ IsFiniteSet(Clusters) /\ Clusters # {}
SizesAssumption == MaxAgents \in Nat /\ MaxConcurrent \in Nat \ {0}
BoundsAssumption == {MaxCalls, MaxFaults, MaxReports} \subseteq Nat

VARIABLES
  capacity,   \* what the registry knows of each cluster: agents, free slots, health
  call,       \* each call: what was asked, where it stands and its result
  active,     \* activeMigrations
  running,    \* (clusters) the agents that run on each cluster
  memory,     \* (clusters) the agents whose state each cluster holds
  home,       \* (callers) where the last completed migration put each agent
  faults, reports

vars == <<capacity, call, active, running, memory, home, faults, reports>>

Calls == 1..MaxCalls
Steps == {"export", "transfer", "start", "verify", "stopSource", "cleanup", "stopTarget", "restartSource"}
Options == [preserveState : BOOLEAN, gracefulShutdown : BOOLEAN, rollbackOnFailure : BOOLEAN]
NotCalled == [at |-> "idle"]
Call == {NotCalled} \cup
  [at : Steps \cup {"returned"}, agent : Agents, source : Clusters, target : Clusters,
   options : Options, status : {"in_progress", "failed", "completed", "rolled_back"}, moved : BOOLEAN]

\* Every agent runs on a cluster that knows of it.
Init ==
  /\ home \in [Agents -> Clusters]
  /\ running = [c \in Clusters |-> {a \in Agents : home[a] = c}]
  /\ memory = running
  /\ \A c \in Clusters : Cardinality(running[c]) <= MaxAgents
  /\ capacity = [c \in Clusters |->
       [agents |-> Cardinality(running[c]), slots |-> MaxAgents - Cardinality(running[c]), healthy |-> TRUE]]
  /\ call = [m \in Calls |-> NotCalled]
  /\ active = {}
  /\ faults = 0 /\ reports = 0

-----------------------------------------------------------------------------

\* target.currentAgents = max(0, currentAgents - 1), and the slots that leaves.
OneLess(c) ==
  LET left == IF c.agents > 0 THEN c.agents - 1 ELSE 0
  IN  [c EXCEPT !.agents = left, !.slots = MaxAgents - left]

\* The optimistic reservation on the target.
Reserved(c) == [c EXCEPT !.agents = @ + 1, !.slots = @ - 1]

\* executeMigration throws: the rollback gives back a slot of the target,
\* reserved or not, and asks the clusters to go back; without rollback the
\* call returns and what it reserved stays.
Thrown(m, r, asked) ==
  IF r.options.rollbackOnFailure
  THEN /\ capacity' = [capacity EXCEPT ![r.target] = OneLess(asked)]
       /\ call' = [call EXCEPT ![m] = [r EXCEPT !.at = "stopTarget", !.status = "failed"]]
       /\ active' = active \cup {m}
  ELSE /\ capacity' = [capacity EXCEPT ![r.target] = asked]
       /\ call' = [call EXCEPT ![m] = [r EXCEPT !.at = "returned", !.status = "failed"]]
       /\ active' = active \ {m}

\* migrateAgent, up to its first request: the limit, the checks of both
\* clusters and the reservation are one turn of the event loop.
Migrate(m, a, t, options) ==
  LET r == [at |-> IF options.preserveState THEN "export" ELSE "start", agent |-> a,
            source |-> home[a], target |-> t, options |-> options, status |-> "in_progress", moved |-> FALSE]
  IN  /\ \A k \in Calls : call[k] = NotCalled <=> k >= m
      /\ t # home[a]
      /\ \A k \in active : call[k].agent # a
      /\ Cardinality(active) < MaxConcurrent
      /\ IF capacity[home[a]].healthy /\ capacity[t].slots > 0
         THEN /\ capacity' = [capacity EXCEPT ![t] = Reserved(capacity[t])]
              /\ call' = [call EXCEPT ![m] = r]
              /\ active' = active \cup {m}
         ELSE Thrown(m, r, capacity[t])
      /\ UNCHANGED <<running, memory, home, faults, reports>>

-----------------------------------------------------------------------------
\* A request: whether the cluster applies it and whether its answer is ok.
\* Only a request that goes well costs no fault.
Answer(applied, ok) ==
  /\ ok => applied
  /\ IF ok THEN UNCHANGED faults ELSE faults < MaxFaults /\ faults' = faults + 1

\* The step that follows one that went well.
StopFirst(step, options) ==                  \* mutant: the source is stopped before the start
  CASE step = "transfer" -> IF options.gracefulShutdown THEN "stopSource" ELSE "start"
    [] step = "stopSource" -> "start"
    [] step = "start" -> "verify"
    [] step = "verify" -> "cleanup"
    [] step = "stopTarget" -> "restartSource"
Following(step, options) ==
  CASE step = "transfer" -> "start"
    [] step = "start" -> "verify"
    [] step = "verify" -> IF options.gracefulShutdown THEN "stopSource" ELSE "cleanup"
    [] step = "stopSource" -> "cleanup"
    [] step = "stopTarget" -> "restartSource"

Goes(m, step) == call' = [call EXCEPT ![m].at = step]
GoesOn(m) == Goes(m, Following(call[m].at, call[m].options))

\* exportAgentState: an export that fails is logged and the agent goes on
\* without its state.
Export(m) ==
  /\ call[m].at = "export"
  /\ \E ok \in BOOLEAN :
       /\ Answer(ok, ok)
       /\ Goes(m, IF ok /\ call[m].agent \in memory[call[m].source] THEN "transfer" ELSE "start")
  /\ UNCHANGED <<capacity, active, running, memory, home, reports>>

\* transferAgentState: the target imports the state.
Transfer(m) ==
  /\ call[m].at = "transfer"
  /\ \E applied, ok \in BOOLEAN :
       /\ Answer(applied, ok)
       /\ memory' = IF applied THEN [memory EXCEPT ![call[m].target] = @ \cup {call[m].agent}] ELSE memory
       /\ IF ok
          THEN /\ call' = [call EXCEPT ![m] =
                    [@ EXCEPT !.at = Following("transfer", call[m].options), !.moved = TRUE]]
               /\ UNCHANGED <<capacity, active>>
          ELSE Thrown(m, call[m], capacity[call[m].target])
  /\ UNCHANGED <<running, home, reports>>

\* startAgentOnTarget.  A start that is answered ok may still come to nothing.
Start(m) ==
  /\ call[m].at = "start"
  /\ \E applied, ok \in BOOLEAN :
       /\ IF applied /\ ok THEN UNCHANGED faults ELSE faults < MaxFaults /\ faults' = faults + 1
       /\ running' = IF applied THEN [running EXCEPT ![call[m].target] = @ \cup {call[m].agent}] ELSE running
       /\ IF ok THEN GoesOn(m) /\ UNCHANGED <<capacity, active>>
          ELSE Thrown(m, call[m], capacity[call[m].target])
  /\ UNCHANGED <<memory, home, reports>>

\* None of the five attempts of verifyAgentOnTarget was answered ok.
TriedForEver(m) == UNCHANGED <<call, capacity, active>>   \* mutant: never given up
Unverified(m) == Thrown(m, call[m], capacity[call[m].target])

\* verifyAgentOnTarget: a cluster that runs the agent answers ok; the
\* attempts fail where it does not run, or by a fault (one for the five).
Verify(m) ==
  /\ call[m].at = "verify"
  /\ LET runs == call[m].agent \in running[call[m].target]
     IN  \/ runs /\ GoesOn(m) /\ UNCHANGED <<capacity, active, faults>>
         \/ /\ IF runs THEN Answer(FALSE, FALSE) ELSE UNCHANGED faults
            /\ Unverified(m)
  /\ UNCHANGED <<running, memory, home, reports>>

\* stopAgentOnSource: errors are ignored.
StopSource(m) ==
  /\ call[m].at = "stopSource"
  /\ \E applied, ok \in BOOLEAN :
       /\ Answer(applied, ok)
       /\ running' = IF applied THEN [running EXCEPT ![call[m].source] = @ \ {call[m].agent}] ELSE running
  /\ GoesOn(m)
  /\ UNCHANGED <<capacity, active, memory, home, reports>>

\* cleanupSource, whose errors are ignored, and the end of the migration.
Cleanup(m) ==
  /\ call[m].at = "cleanup"
  /\ \E applied, ok \in BOOLEAN :
       /\ Answer(applied, ok)
       /\ memory' = IF applied THEN [memory EXCEPT ![call[m].source] = @ \ {call[m].agent}] ELSE memory
  /\ capacity' = [capacity EXCEPT ![call[m].source] = OneLess(capacity[call[m].source])]
  /\ call' = [call EXCEPT ![m] = [@ EXCEPT !.at = "returned", !.status = "completed"]]
  /\ active' = active \ {m}
  /\ home' = [home EXCEPT ![call[m].agent] = call[m].target]
  /\ UNCHANGED <<running, reports>>

\* rollbackMigration, after the capacity: the target is told to stop the
\* agent, the source to start it, and errors are ignored.
StopTarget(m) ==
  /\ call[m].at = "stopTarget"
  /\ \E applied, ok \in BOOLEAN :
       /\ Answer(applied, ok)
       /\ running' = IF applied THEN [running EXCEPT ![call[m].target] = @ \ {call[m].agent}] ELSE running
  /\ GoesOn(m)
  /\ UNCHANGED <<capacity, active, memory, home, reports>>

RestartSource(m) ==
  /\ call[m].at = "restartSource"
  /\ \E applied, ok \in BOOLEAN :
       /\ Answer(applied, ok)
       /\ running' = IF applied THEN [running EXCEPT ![call[m].source] = @ \cup {call[m].agent}] ELSE running
  /\ call' = [call EXCEPT ![m] = [@ EXCEPT !.at = "returned", !.status = "rolled_back"]]
  /\ active' = active \ {m}
  /\ UNCHANGED <<capacity, memory, home, reports>>

-----------------------------------------------------------------------------
\* ClusterRegistry.updateHealth.
UpdateHealth(c) ==
  /\ reports < MaxReports /\ reports' = reports + 1
  /\ capacity' = [capacity EXCEPT ![c].healthy = ~@]
  /\ UNCHANGED <<call, active, running, memory, home, faults>>

\* ClusterRegistry.updateLoad: a cluster reports the agents that it runs, and
\* what was reserved on it is forgotten.
UpdateLoad(c) ==
  /\ reports < MaxReports /\ reports' = reports + 1
  /\ LET n == Cardinality(running[c])
     IN  capacity' = [capacity EXCEPT ![c] = [@ EXCEPT !.agents = n, !.slots = MaxAgents - n]]
  /\ UNCHANGED <<call, active, running, memory, home, faults>>

Step(m) ==
  \/ Export(m) \/ Transfer(m) \/ Start(m) \/ Verify(m) \/ StopSource(m) \/ Cleanup(m)
  \/ StopTarget(m) \/ RestartSource(m)

Next ==
  \/ \E m \in Calls, a \in Agents, t \in Clusters, options \in Options : Migrate(m, a, t, options)
  \/ \E m \in Calls : Step(m)
  \/ \E c \in Clusters : UpdateHealth(c)
  \/ \E c \in Clusters : UpdateLoad(c)

Spec == Init /\ [][Next]_vars

\* A request is answered or times out: fetch has a timeout of its own where
\* the migrator gives it no signal.
Fairness == \A m \in Calls : WF_vars(Step(m))

FairSpec == Spec /\ Fairness

-----------------------------------------------------------------------------
\* The state keeps its type, calls in progress are active, and the limit of
\* active calls is kept.
TypeOK ==
  /\ capacity \in [Clusters -> [agents : Nat, slots : Int, healthy : BOOLEAN]]
  /\ \A c \in Clusters : capacity[c].slots = MaxAgents - capacity[c].agents
  /\ call \in [Calls -> Call]
  /\ active = {m \in Calls : call[m].at \in Steps}
  /\ Cardinality(active) <= MaxConcurrent
  /\ running \in [Clusters -> SUBSET Agents] /\ memory \in [Clusters -> SUBSET Agents]
  /\ home \in [Agents -> Clusters]

\* Whatever requests fail, at whatever step, an agent always runs somewhere:
\* the source is stopped only when the target was seen running it, and after
\* that nothing rolls back.
NeverLost == \A a \in Agents : \E c \in Clusters : a \in running[c]

\* An agent that no call is moving runs where the callers believe: on the
\* target of its last completed migration, so a migration that was rolled
\* back, or only failed, has left it on its source.
RunsAtHome ==
  \A a \in Agents : (\A m \in active : call[m].agent # a) => a \in running[home[a]]

AgentsKept == TypeOK /\ NeverLost /\ RunsAtHome

\* Every call of migrateAgent returns.
MigrationsEnd == \A m \in Calls : call[m].at \in Steps ~> call[m].at = "returned"
=============================================================================
