-------------------------- MODULE WorkDistribution --------------------------
(***************************************************************************)
(* The distribution strategies of src/src/queue/work-distributor.ts and    *)
(* the state they keep between the claims of src/src/queue/task-queue.ts:  *)
(* the round-robin index and the sticky map, saved when the queue stops.   *)
(* A claim is one step here; TaskQueue takes it apart.  A strategy is the  *)
(* set of the agents it may select: one, or none where it returns null.    *)
(***************************************************************************)
EXTENDS Integers, FiniteSets

CONSTANTS
  Agents, Rank,      \* agent ids, and their order in the list redis returns
  Skills,
  StickyKeys, None,
  Settings           \* how the queue is configured and used, see Setting

Strategies == {"round-robin", "load-based", "skill-based", "sticky"}
Request == [requiredSkills : SUBSET Skills, stickyKey : StickyKeys \cup {None},
            routingHint : Strategies \cup {None}]

Setting == [
  agents : SUBSET Agents,      \* those that register
  skills : SUBSET Skills,      \* those that they may have
  requests : SUBSET Request,   \* the tasks claimed, as far as distribution looks at them
  default : Strategies,        \* config.defaultStrategy
  maxCapacity : Nat \ {0},     \* bound on the capacities agents register with
  allowed : SUBSET {"release", "offline", "restart", "crash"}]   \* what happens besides claims

ASSUME WorkDistributionAssumption ==
  /\ IsFiniteSet(Agents) /\ IsFiniteSet(Skills) /\ None \notin Agents \cup StickyKeys
  /\ Rank \in [Agents -> Nat]
  /\ \A a, b \in Agents : Rank[a] = Rank[b] => a = b
  /\ Settings \subseteq Setting

VARIABLES
  capacity, skills,      \* of each agent, from its registration
  load,                  \* currentLoad of each agent
  online,                \* agents whose heartbeat is recent
  lastAssignmentIndex,
  stickyAssignments,
  stickyMap,             \* the saved copy of stickyAssignments
  setting,               \* one of Settings, chosen at the start
  passed                 \* for each agent, since it was last chosen: the others
                         \* available all along and not chosen, and whether the
                         \* list of available agents is still the same

roster == <<capacity, skills>>
vars == <<roster, load, online, lastAssignmentIndex, stickyAssignments, stickyMap, setting, passed>>

Members == setting.agents
Requests == setting.requests
Allowed == setting.allowed

TypeOK ==
  /\ setting \in Settings
  /\ capacity \in [Members -> 1..setting.maxCapacity]
  /\ skills \in [Members -> SUBSET setting.skills]
  /\ load \in [Members -> Nat] /\ online \subseteq Members
  /\ lastAssignmentIndex \in Int
  /\ stickyAssignments \in [StickyKeys -> Members \cup {None}]
  /\ stickyMap \in [StickyKeys -> Members \cup {None}]
  /\ passed \in [Members -> [over : SUBSET Members, same : BOOLEAN]]

-----------------------------------------------------------------------------
(* The agents a claim may use, in the order of their ids.                  *)

AvailableFull == online                      \* mutant: hasCapacity forgotten
\* getAvailableAgents; every strategy repeats the test of the free slot.
Available == {a \in online : load[a] < capacity[a]}

\* The index of an agent in the list of the available ones.
Index(a, S) == Cardinality({b \in S : Rank[b] < Rank[a]})

\* A stable sort puts the first of the best in front.
FirstBest(S, Better(_, _)) ==
  {a \in S : \A b \in S : ~Better(b, a) /\ (Better(a, b) \/ Rank[a] <= Rank[b])}

-----------------------------------------------------------------------------
(* The strategies.                                                         *)

RoundRobinFromStart(S) ==                    \* mutant: the index does not advance
  {a \in S : Index(a, S) = lastAssignmentIndex % Cardinality(S)}
RoundRobin(S) == {a \in S : Index(a, S) = (lastAssignmentIndex + 1) % Cardinality(S)}

\* load / capacity, compared without dividing.
LessLoaded(a, b) == load[a] * capacity[b] < load[b] * capacity[a]
LoadBased(S) == FirstBest(S, LessLoaded)

\* 0.7 * matchScore + 0.3 * (1 - load / capacity), times 10 * capacity * required.
Matched(a, needed) == needed \cap skills[a]
Score(a, needed) ==
  IF needed = {} THEN 7 * capacity[a] + 3 * (capacity[a] - load[a])
  ELSE 7 * Cardinality(Matched(a, needed)) * capacity[a]
       + 3 * (capacity[a] - load[a]) * Cardinality(needed)

\* Null when the best agent has none of the skills.
SkillBased(S, needed) ==
  LET Scored(a, b) == Score(a, needed) * capacity[b] > Score(b, needed) * capacity[a]
  IN {a \in FirstBest(S, Scored) : needed # {} => Matched(a, needed) # {}}

Sticky(S, key) ==
  IF key = None THEN {}
  ELSE IF stickyAssignments[key] \in S THEN {stickyAssignments[key]} ELSE LoadBased(S)

SelectDistributionStrategy(t) ==
  IF t.routingHint # None THEN t.routingHint
  ELSE IF t.stickyKey # None THEN "sticky"
  ELSE IF t.requiredSkills # {} THEN "skill-based" ELSE setting.default

\* sticky and skill-based fall back to load-based.
OrLoadBased(chosen, S) == IF chosen = {} THEN LoadBased(S) ELSE chosen
DistributeStrictly(t, S) ==                  \* mutant: no fallback
  LET strategy == SelectDistributionStrategy(t) IN
  CASE strategy = "sticky" -> Sticky(S, t.stickyKey)
    [] strategy = "skill-based" -> SkillBased(S, t.requiredSkills)
    [] strategy = "round-robin" -> RoundRobin(S)
    [] strategy = "load-based" -> LoadBased(S)
DistributeTask(t, S) ==
  LET strategy == SelectDistributionStrategy(t) IN
  CASE strategy = "sticky" -> OrLoadBased(Sticky(S, t.stickyKey), S)
    [] strategy = "skill-based" -> OrLoadBased(SkillBased(S, t.requiredSkills), S)
    [] strategy = "round-robin" -> RoundRobin(S)
    [] strategy = "load-based" -> LoadBased(S)

-----------------------------------------------------------------------------
(* The queue around them.                                                  *)

Init ==
  /\ setting \in Settings
  /\ capacity \in [Members -> 1..setting.maxCapacity]
  /\ skills \in [Members -> SUBSET setting.skills]
  /\ load = [a \in Members |-> 0] /\ online = Members
  /\ lastAssignmentIndex = -1
  /\ stickyAssignments = [k \in StickyKeys |-> None]
  /\ stickyMap = [k \in StickyKeys |-> None]
  /\ passed = [a \in Members |-> [over |-> {}, same |-> TRUE]]

\* The history: x was chosen from among S, after which S2 is available.
Remember(x, S, S2) ==
  passed' = [a \in Members |->
    IF a = x THEN [over |-> S2 \ {x}, same |-> S2 = S]
    ELSE [over |-> (passed[a].over \cap S2) \ {x}, same |-> passed[a].same /\ S2 = S]]

\* claimTask of a request, from the list of available agents to the assignment.
ClaimTask(t) ==
  /\ Available # {}
  /\ UNCHANGED <<roster, online, stickyMap, setting>>
  /\ \E a \in DistributeTask(t, Available) :
       /\ load' = [load EXCEPT ![a] = @ + 1]
       /\ lastAssignmentIndex' = Index(a, Available)
       /\ stickyAssignments' = IF t.stickyKey = None THEN stickyAssignments
                               ELSE [stickyAssignments EXCEPT ![t.stickyKey] = a]
       /\ Remember(a, Available, Available')

\* A task of a ends (completed, failed or cancelled): updateAgentLoad.
Release(a) ==
  /\ "release" \in Allowed /\ load[a] > 0
  /\ load' = [load EXCEPT ![a] = @ - 1]
  /\ UNCHANGED <<roster, online, lastAssignmentIndex, stickyAssignments, stickyMap, setting>>
  /\ Remember(None, Available, Available')

\* The heartbeat of a grows old, or is heard of again.
Toggle(a) ==
  /\ "offline" \in Allowed
  /\ online' = IF a \in online THEN online \ {a} ELSE online \cup {a}
  /\ UNCHANGED <<roster, load, lastAssignmentIndex, stickyAssignments, stickyMap, setting>>
  /\ Remember(None, Available, Available')

\* stop() saves the keys that are assigned, start() of a new queue loads them;
\* the index starts over.
Restart ==
  /\ "restart" \in Allowed
  /\ stickyMap' = [k \in StickyKeys |->
                     IF stickyAssignments[k] = None THEN stickyMap[k] ELSE stickyAssignments[k]]
  /\ stickyAssignments' = stickyMap' /\ lastAssignmentIndex' = -1
  /\ passed' = [a \in Members |-> [over |-> {}, same |-> FALSE]]
  /\ UNCHANGED <<roster, load, online, setting>>

\* The process ends without stop().
Crash ==
  /\ "crash" \in Allowed
  /\ stickyAssignments' = stickyMap /\ lastAssignmentIndex' = -1
  /\ passed' = [a \in Members |-> [over |-> {}, same |-> FALSE]]
  /\ UNCHANGED <<roster, load, online, stickyMap, setting>>

Next ==
  \/ \E t \in Requests : ClaimTask(t)
  \/ \E a \in Members : Release(a) \/ Toggle(a)
  \/ Restart \/ Crash

Spec == Init /\ [][Next]_vars

-----------------------------------------------------------------------------
(* Properties.                                                             *)

Chosen(a) == load'[a] = load[a] + 1

\* Claims that follow each other never give an agent more than its capacity,
\* whichever strategies, fallbacks and restarts they go through.
CapacityKept == \A a \in Members : load[a] <= capacity[a]

\* A claim that has popped a task finds an agent for it: with anyone available,
\* distributeTask never returns null (the branch of claimTask that would put the
\* task back is never needed).
AlwaysDistributed ==
  Available # {} => \A t \in Requests : DistributeTask(t, Available) # {}

\* As long as no task ends, load-based claims keep the agents level: none has
\* more than one task above what any other's load would justify.
Levelled ==
  \A a, b \in Members : load[a] > 0 => (load[a] - 1) * capacity[b] <= load[b] * capacity[a]

\* Every task asks for the strategy.
Only(strategy) == \A t \in Requests : SelectDistributionStrategy(t) = strategy

\* distributeTask finds an agent for a task of any kind whenever one is available,
\* and the agents stay level where all claims are load-based, no task ends and no
\* agent goes offline.
Distributed ==
  /\ AlwaysDistributed
  /\ Only("load-based") /\ Allowed \cap {"release", "offline"} = {} => Levelled

\* Round-robin gives everyone a turn: while the available agents stay the same,
\* no one is chosen again before all the others.
TakesTurns == \A a \in Members : Chosen(a) /\ passed[a].same => passed[a].over = {}

\* The agent that gets t, in a claim.
Gets(t, a) == Chosen(a) /\ ClaimTask(t)

\* A task that requires skills does not go to an agent without any of them when
\* someone available has at least half of them.
PrefersHalfSkilled ==
  \A t \in Requests, a, b \in Members :
    /\ t.requiredSkills # {} /\ SelectDistributionStrategy(t) = "skill-based"
    /\ b \in Available
    /\ 2 * Cardinality(Matched(b, t.requiredSkills)) >= Cardinality(t.requiredSkills)
    /\ Gets(t, a)
    => Matched(a, t.requiredSkills) # {}

\* A sticky key changes hands only when its agent cannot take the task (or the
\* task asks for another strategy), restarts of the queue included.
KeepsKeys ==
  \A k \in StickyKeys :
    (stickyAssignments[k] # None /\ stickyAssignments'[k] # stickyAssignments[k])
    => \/ stickyAssignments[k] \notin Available
       \/ \E t \in Requests : t.stickyKey = k /\ t.routingHint # None /\ ClaimTask(t)

\* Round-robin claims give every agent its turn, skill-based ones prefer an agent
\* with half of the skills to one with none, and a sticky key stays where it is
\* while its agent can take tasks, unless the queue crashes.
StrategiesKept ==
  [][/\ Only("round-robin") => TakesTurns
     /\ PrefersHalfSkilled
     /\ "crash" \notin Allowed => KeepsKeys]_vars
=============================================================================
