--------------------------- MODULE FederationProofs ---------------------------
(***************************************************************************)
(* For any agents, clusters and limits, and however many requests fail or  *)
(* lose their answers: no agent is ever without a cluster that runs it.    *)
(* For any tasks and dependencies, and whatever fails or is aborted: what  *)
(* a plan runs had its dependencies done, and what it returns is whole.    *)
(* For any thresholds, times and uses: a circuit notices its failures,     *)
(* stays open for its timeout and closes on enough successes only.         *)
(***************************************************************************)
EXTENDS Federation, InductionLemmas, TLAPS

\* The parts count as this module does.
LEMMA Counted ==
  /\ \A S : Migrator!Cardinality(S) = Cardinality(S) /\ (Migrator!IsFiniteSet(S) <=> IsFiniteSet(S))
  /\ \A S : Engine!Cardinality(S) = Cardinality(S) /\ (Engine!IsFiniteSet(S) <=> IsFiniteSet(S))
<1>1. \A S : Migrator!IsFiniteSet(S) <=> IsFiniteSet(S)
  BY DEF Migrator!IsFiniteSet, IsFiniteSet
<1>2. \A S : Migrator!Cardinality(S) = Cardinality(S)
  BY DEF Migrator!Cardinality, Cardinality
<1>3. \A S : Engine!IsFiniteSet(S) <=> IsFiniteSet(S)
  BY DEF Engine!IsFiniteSet, IsFiniteSet
<1>4. \A S : Engine!Cardinality(S) = Cardinality(S)
  BY DEF Engine!Cardinality, Cardinality
<1> QED
  BY <1>1, <1>2, <1>3, <1>4

-----------------------------------------------------------------------------
(* The migrator.                                                           *)

\* The steps at which the source still runs the agent, and those at which the
\* target was seen to.
OnSource == {"export", "transfer", "start", "verify", "stopTarget", "restartSource"}
OnTarget == {"stopSource", "cleanup"}

Capacity == [agents : Nat, slots : Int, healthy : BOOLEAN]

\* The capacities keep their type and their sum.
CapacityTyped ==
  /\ capacity \in [Clusters -> Capacity]
  /\ \A c \in Clusters : capacity[c].slots = MaxAgents - capacity[c].agents

PlacesTyped ==
  /\ running \in [Clusters -> SUBSET Agents] /\ memory \in [Clusters -> SUBSET Agents]
  /\ home \in [Agents -> Clusters]

CallsTyped == call \in [Migrator!Calls -> Migrator!Call] /\ active = {m \in Migrator!Calls : call[m].at \in Migrator!Steps}

\* Two calls in progress move two agents, each away from its home.
Apart ==
  \A m \in active :
    /\ call[m].source # call[m].target /\ home[call[m].agent] = call[m].source
    /\ \A n \in active : call[n].agent = call[m].agent => n = m

\* Where the agent of a call in progress is known to run.
Moving(m) ==
  /\ call[m].at \in OnSource => call[m].agent \in running[call[m].source]
  /\ call[m].at \in OnTarget => call[m].agent \in running[call[m].target]

MigratorInv ==
  /\ CapacityTyped /\ PlacesTyped /\ CallsTyped
  /\ Cardinality(active) <= MaxConcurrent
  /\ Apart /\ (\A m \in active : Moving(m)) /\ Migrator!RunsAtHome

\* A call in progress has all its fields.
LEMMA InProgress ==
  ASSUME CallsTyped, NEW m \in Migrator!Calls, call[m].at \in Migrator!Steps
  PROVE  call[m] \in [at : Migrator!Steps \cup {"returned"}, agent : Agents, source : Clusters, target : Clusters,
            options : Migrator!Options, status : {"in_progress", "failed", "completed", "rolled_back"}, moved : BOOLEAN]
BY DEF CallsTyped, Migrator!Call, Migrator!NotCalled, Migrator!Steps

LEMMA InvSuffices == MigratorInv => Migrator!AgentsKept
<1> SUFFICES ASSUME MigratorInv PROVE Migrator!AgentsKept
  OBVIOUS
<1>1. Migrator!TypeOK
  BY Counted DEF MigratorInv, CapacityTyped, PlacesTyped, CallsTyped, Capacity, Migrator!TypeOK
<1>2. Migrator!NeverLost
  <2> SUFFICES ASSUME NEW a \in Agents PROVE \E c \in Clusters : a \in running[c]
    BY DEF Migrator!NeverLost
  <2>1. CASE \A m \in active : call[m].agent # a
    BY <2>1 DEF MigratorInv, Migrator!RunsAtHome, PlacesTyped
  <2>2. ASSUME NEW m \in active, call[m].agent = a PROVE \E c \in Clusters : a \in running[c]
    <3>1. m \in Migrator!Calls /\ call[m].at \in Migrator!Steps /\ Moving(m)
      BY DEF MigratorInv, CallsTyped
    <3>2. call[m].source \in Clusters /\ call[m].target \in Clusters
      BY <3>1, InProgress DEF MigratorInv
    <3> QED
      BY <2>2, <3>1, <3>2 DEF Moving, Migrator!Steps, OnSource, OnTarget
  <2> QED
    BY <2>1, <2>2
<1> QED
  BY <1>1, <1>2 DEF MigratorInv, Migrator!AgentsKept

\* The counts of a capacity that is given back or reserved.
LEMMA CapacityChanges ==
  ASSUME Migrator!SizesAssumption, NEW c \in Capacity, c.slots = MaxAgents - c.agents
  PROVE  /\ Migrator!OneLess(c) \in Capacity /\ Migrator!OneLess(c).slots = MaxAgents - Migrator!OneLess(c).agents
         /\ Migrator!Reserved(c) \in Capacity /\ Migrator!Reserved(c).slots = MaxAgents - Migrator!Reserved(c).agents
<1>1. c.agents \in Nat /\ c.slots \in Int /\ MaxAgents \in Nat
  BY DEF Capacity, Migrator!SizesAssumption
<1> DEFINE Changed(k, l) == [c EXCEPT !.agents = k, !.slots = l]
<1>2. ASSUME NEW k \in Nat, NEW l \in Int, l = MaxAgents - k
      PROVE  Changed(k, l) \in Capacity /\ Changed(k, l).slots = MaxAgents - Changed(k, l).agents
  BY <1>2 DEF Capacity
<1>3. c.agents + 1 \in Nat /\ c.slots - 1 \in Int /\ c.slots - 1 = MaxAgents - (c.agents + 1)
  BY <1>1
<1> DEFINE left == IF c.agents > 0 THEN c.agents - 1 ELSE 0
<1>4. left \in Nat /\ MaxAgents - left \in Int
  BY <1>1
<1>5. Migrator!OneLess(c) = Changed(left, MaxAgents - left)
  BY DEF Migrator!OneLess
<1>6. Migrator!Reserved(c) = Changed(c.agents + 1, c.slots - 1)
  BY DEF Migrator!Reserved
<1> HIDE DEF left, Changed
<1>7. Migrator!OneLess(c) \in Capacity /\ Migrator!OneLess(c).slots = MaxAgents - Migrator!OneLess(c).agents
  BY <1>2, <1>4, <1>5
<1> QED
  BY <1>2, <1>3, <1>6, <1>7

\* The active calls stay within the limit when one that was active goes on or
\* ends, and when one starts below the limit.
LEMMA WithinLimit ==
  ASSUME Migrator!BoundsAssumption, Migrator!SizesAssumption, CallsTyped, Cardinality(active) <= MaxConcurrent,
         NEW m \in Migrator!Calls, m \in active \/ Cardinality(active) < MaxConcurrent,
         active' \in {active, active \cup {m}, active \ {m}}
  PROVE  Cardinality(active') <= MaxConcurrent
<1>1. IsFiniteSet(Migrator!Calls)
  BY FS_Interval DEF Migrator!Calls, Migrator!BoundsAssumption
<1>2. IsFiniteSet(active)
  BY <1>1, FS_Subset DEF CallsTyped
<1>3. Cardinality(active \ {m}) <= Cardinality(active) /\ Cardinality(active) \in Nat
      /\ Cardinality(active \ {m}) \in Nat
  BY <1>2, FS_Subset, FS_CardinalityType
<1>4. Cardinality(active \cup {m}) = IF m \in active THEN Cardinality(active) ELSE Cardinality(active) + 1
  BY <1>2, FS_AddElement
<1>5. MaxConcurrent \in Nat
  BY DEF Migrator!SizesAssumption
<1> QED
  BY <1>3, <1>4, <1>5

\* The step of a call m, which becomes r, changes what concerns its own agent only.
Advance(m, r) ==
  /\ m \in active \/ Cardinality(active) < MaxConcurrent
  /\ active' = IF r.at \in Migrator!Steps THEN active \cup {m} ELSE active \ {m}
  /\ \A n \in active \ {m} : call[n].agent # r.agent
  /\ \A a \in Agents \ {r.agent} : home'[a] = home[a]
  /\ \A a \in Agents \ {r.agent}, c \in Clusters : a \in running'[c] <=> a \in running[c]
  /\ r.at \in Migrator!Steps => r.source # r.target /\ home'[r.agent] = r.source
  /\ r.at \in OnSource => r.agent \in running'[r.source]
  /\ r.at \in OnTarget => r.agent \in running'[r.target]
  /\ r.at = "returned" => r.agent \in running'[home'[r.agent]]
  /\ m \in active => r.agent = call[m].agent

\* Such a step keeps the invariant.
LEMMA OneMoves ==
  ASSUME Migrator!BoundsAssumption, Migrator!SizesAssumption, MigratorInv, CapacityTyped', PlacesTyped',
         NEW m \in Migrator!Calls, NEW r,
         r \in Migrator!Call, r # Migrator!NotCalled, call' = [call EXCEPT ![m] = r],
         Advance(m, r)
  PROVE  MigratorInv'
<1> USE DEF Advance
<1>1. call'[m] = r /\ \A n \in Migrator!Calls \ {m} : call'[n] = call[n]
  BY DEF MigratorInv, CallsTyped
<1>2. CallsTyped'
  <2>1. call' \in [Migrator!Calls -> Migrator!Call]
    BY DEF MigratorInv, CallsTyped
  <2>2. active' = {n \in Migrator!Calls : call'[n].at \in Migrator!Steps}
    BY <1>1 DEF MigratorInv, CallsTyped
  <2> QED
    BY <2>1, <2>2 DEF CallsTyped, Migrator!Calls
<1>3. Cardinality(active') <= MaxConcurrent
  BY WithinLimit DEF MigratorInv
<1>4. \A n \in active' \ {m} : n \in active /\ n \in Migrator!Calls
  BY DEF MigratorInv, CallsTyped
<1>5. \A n \in active \ {m} : call[n].agent \in Agents /\ call[n].source \in Clusters /\ call[n].target \in Clusters
  BY InProgress DEF MigratorInv, CallsTyped
<1>6. r.agent \in Agents
  BY DEF Migrator!Call, Migrator!NotCalled
<1>7. Apart'
  BY <1>1, <1>4, <1>5 DEF MigratorInv, Apart
<1>8. \A n \in active' : Moving(n)'
  <2>1. Moving(m)'
    BY <1>1 DEF Moving
  <2>2. ASSUME NEW n \in active' \ {m} PROVE Moving(n)'
    <3>1. call'[n] = call[n] /\ Moving(n) /\ call[n].agent \in Agents \ {r.agent}
      BY <1>1, <1>4, <1>5 DEF MigratorInv
    <3> QED
      BY <1>4, <1>5, <3>1 DEF Moving
  <2> QED
    BY <2>1, <2>2
<1>9. Migrator!RunsAtHome'
  <2> SUFFICES ASSUME NEW a \in Agents, \A n \in active' : call'[n].agent # a
               PROVE  a \in running'[home'[a]]
    BY DEF Migrator!RunsAtHome
  <2>1. CASE a = r.agent
    <3>1. r.at \notin Migrator!Steps
      BY <1>1, <2>1
    <3> QED
      BY <2>1, <3>1 DEF Migrator!Call, Migrator!NotCalled
  <2>2. CASE a # r.agent
    <3>1. \A n \in active : call[n].agent # a
      <4> SUFFICES ASSUME NEW n \in active PROVE call[n].agent # a
        OBVIOUS
      <4>1. CASE n = m
        BY <2>2, <4>1
      <4>2. CASE n # m
        BY <1>1, <4>2 DEF MigratorInv, CallsTyped
      <4> QED
        BY <4>1, <4>2
    <3>2. a \in running[home[a]] /\ home[a] \in Clusters
      BY <3>1 DEF MigratorInv, Migrator!RunsAtHome, PlacesTyped
    <3> QED
      BY <2>2, <3>2
  <2> QED
    BY <2>1, <2>2
<1> QED
  BY <1>2, <1>3, <1>7, <1>8, <1>9 DEF MigratorInv

\* What the steps of a call before its end have in common: the call goes on
\* to another step, and where its agent runs changes as it may.
LEMMA GoesOnKeeps ==
  ASSUME Migrator!BoundsAssumption, Migrator!SizesAssumption, MigratorInv, CapacityTyped', PlacesTyped',
         NEW m \in Migrator!Calls, call[m].at \in Migrator!Steps, NEW r, r \in Migrator!Call, r.at \in Migrator!Steps,
         r.agent = call[m].agent, r.source = call[m].source, r.target = call[m].target,
         call' = [call EXCEPT ![m] = r], active' = active, home' = home,
         \A a \in Agents \ {r.agent}, c \in Clusters : a \in running'[c] <=> a \in running[c],
         r.at \in OnSource => r.agent \in running'[r.source],
         r.at \in OnTarget => r.agent \in running'[r.target]
  PROVE  MigratorInv'
<1>1. m \in active
  BY DEF MigratorInv, CallsTyped
<1>2. r # Migrator!NotCalled /\ r.at # "returned"
  BY DEF Migrator!NotCalled, Migrator!Steps
<1>3. r.source # r.target /\ home'[r.agent] = r.source /\ \A n \in active \ {m} : call[n].agent # r.agent
  BY <1>1 DEF MigratorInv, Apart
<1>4. active' = IF r.at \in Migrator!Steps THEN active \cup {m} ELSE active \ {m}
  BY <1>1
<1>5. \A a \in Agents \ {r.agent} : home'[a] = home[a]
  OBVIOUS
<1>6. Advance(m, r)
  BY <1>1, <1>2, <1>3, <1>4, <1>5 DEF Advance
<1> QED
  BY <1>2, <1>6, OneMoves

\* A migration that throws, at its start or at a later step, with its agent
\* still on the source.
LEMMA ThrownKeeps ==
  ASSUME Migrator!BoundsAssumption, Migrator!SizesAssumption, MigratorInv, PlacesTyped',
         NEW m \in Migrator!Calls, NEW r \in Migrator!Call, r.at \in Migrator!Steps, m \in active \/ Cardinality(active) < MaxConcurrent,
         m \in active => r.agent = call[m].agent,
         NEW asked \in Capacity, asked.slots = MaxAgents - asked.agents,
         Migrator!Thrown(m, r, asked), home' = home, home[r.agent] = r.source, r.source # r.target,
         \A n \in active \ {m} : call[n].agent # r.agent,
         \A a \in Agents \ {r.agent}, c \in Clusters : a \in running'[c] <=> a \in running[c],
         r.agent \in running'[r.source]
  PROVE  MigratorInv'
<1>1. r \in [at : Migrator!Steps \cup {"returned"}, agent : Agents, source : Clusters, target : Clusters,
             options : Migrator!Options, status : {"in_progress", "failed", "completed", "rolled_back"}, moved : BOOLEAN]
  BY DEF Migrator!Call, Migrator!NotCalled, Migrator!Steps
<1>2. CapacityTyped'
  BY <1>1, CapacityChanges DEF Migrator!Thrown, MigratorInv, CapacityTyped
<1>3. CASE r.options.rollbackOnFailure
  <2> DEFINE q == [r EXCEPT !.at = "stopTarget", !.status = "failed"]
  <2>1. q \in Migrator!Call /\ q # Migrator!NotCalled /\ q.at = "stopTarget" /\ q.agent = r.agent /\ q.source = r.source /\ q.target = r.target
    BY <1>1 DEF Migrator!Call, Migrator!NotCalled, Migrator!Steps
  <2>2. call' = [call EXCEPT ![m] = q] /\ active' = active \cup {m}
    BY <1>3 DEF Migrator!Thrown
  <2> HIDE DEF q
  <2>3. q.at \in Migrator!Steps /\ q.at \in OnSource /\ q.at \notin OnTarget /\ q.at # "returned"
    BY <2>1 DEF Migrator!Steps, OnSource, OnTarget
  <2>4. active' = IF q.at \in Migrator!Steps THEN active \cup {m} ELSE active \ {m}
    BY <2>2, <2>3
  <2>5. /\ \A a \in Agents \ {q.agent} : home'[a] = home[a]
        /\ \A a \in Agents \ {q.agent}, c \in Clusters : a \in running'[c] <=> a \in running[c]
        /\ \A n \in active \ {m} : call[n].agent # q.agent
    BY <2>1
  <2>6. /\ q.source # q.target /\ home'[q.agent] = q.source
        /\ q.agent \in running'[q.source] /\ q.agent \in running'[home'[q.agent]]
        /\ m \in active => q.agent = call[m].agent
    BY <2>1
  <2>7. call' = [call EXCEPT ![m] = q]
    BY <2>2
  <2>8. Advance(m, q)
    BY <1>2, <2>1, <2>2, <2>3, <2>4, <2>5, <2>6, <2>7 DEF Advance
  <2> QED
    BY <1>2, <2>1, <2>7, <2>8, OneMoves
<1>4. CASE ~r.options.rollbackOnFailure
  <2> DEFINE q == [r EXCEPT !.at = "returned", !.status = "failed"]
  <2>1. q \in Migrator!Call /\ q # Migrator!NotCalled /\ q.at = "returned" /\ q.agent = r.agent /\ q.source = r.source /\ q.target = r.target
    BY <1>1 DEF Migrator!Call, Migrator!NotCalled, Migrator!Steps
  <2>2. call' = [call EXCEPT ![m] = q] /\ active' = active \ {m}
    BY <1>4 DEF Migrator!Thrown
  <2> HIDE DEF q
  <2>3. q.at \notin Migrator!Steps /\ q.at \notin OnSource /\ q.at \notin OnTarget
    BY <2>1 DEF Migrator!Steps, OnSource, OnTarget
  <2>4. active' = IF q.at \in Migrator!Steps THEN active \cup {m} ELSE active \ {m}
    BY <2>2, <2>3
  <2>5. /\ \A a \in Agents \ {q.agent} : home'[a] = home[a]
        /\ \A a \in Agents \ {q.agent}, c \in Clusters : a \in running'[c] <=> a \in running[c]
        /\ \A n \in active \ {m} : call[n].agent # q.agent
    BY <2>1
  <2>6. /\ q.source # q.target /\ home'[q.agent] = q.source
        /\ q.agent \in running'[q.source] /\ q.agent \in running'[home'[q.agent]]
        /\ m \in active => q.agent = call[m].agent
    BY <2>1
  <2>7. call' = [call EXCEPT ![m] = q]
    BY <2>2
  <2>8. Advance(m, q)
    BY <1>2, <2>1, <2>2, <2>3, <2>4, <2>5, <2>6, <2>7 DEF Advance
  <2> QED
    BY <1>2, <2>1, <2>7, <2>8, OneMoves
<1> QED
  BY <1>3, <1>4

LEMMA MigratorInitially ==
  ASSUME Migrator!SetsAssumption, Migrator!SizesAssumption, Migrator!BoundsAssumption, Migrator!Init
  PROVE  MigratorInv
<1>1. \A c \in Clusters : Cardinality(running[c]) \in Nat
  BY Counted, FS_Subset, FS_CardinalityType DEF Migrator!Init, Migrator!SetsAssumption
<1>2. CapacityTyped
  BY Counted, <1>1 DEF Migrator!Init, CapacityTyped, Capacity, Migrator!SizesAssumption
<1>3. CallsTyped /\ PlacesTyped
  BY DEF Migrator!Init, CallsTyped, PlacesTyped, Migrator!Call, Migrator!NotCalled, Migrator!Steps
<1>4. Cardinality(active) <= MaxConcurrent
  BY FS_EmptySet DEF Migrator!Init, Migrator!SizesAssumption
<1> QED
  BY <1>2, <1>3, <1>4 DEF Migrator!Init, MigratorInv, Apart, Migrator!RunsAtHome

\* migrateAgent, up to its first request.
LEMMA MigrateKeeps ==
  ASSUME Migrator!BoundsAssumption, Migrator!SizesAssumption, MigratorInv,
         NEW m \in Migrator!Calls, NEW a \in Agents, NEW t \in Clusters, NEW options \in Migrator!Options, Migrator!Migrate(m, a, t, options)
  PROVE  MigratorInv'
<1> DEFINE r == [at |-> IF options.preserveState THEN "export" ELSE "start", agent |-> a,
                 source |-> home[a], target |-> t, options |-> options, status |-> "in_progress", moved |-> FALSE]
<1>1. r \in Migrator!Call /\ r # Migrator!NotCalled /\ r.at \in {"export", "start"} /\ r.agent = a /\ r.source = home[a] /\ r.target = t
  BY DEF Migrator!Call, Migrator!NotCalled, Migrator!Steps, MigratorInv, PlacesTyped, Migrator!Options
<1>2. /\ t # home[a] /\ \A k \in active : call[k].agent # a
      /\ Cardinality(active) < MaxConcurrent /\ UNCHANGED <<running, memory, home>>
      /\ call[m] = Migrator!NotCalled
  BY Counted DEF Migrator!Migrate, Migrator!Calls
<1>3. PlacesTyped'
  BY <1>2 DEF MigratorInv, PlacesTyped
<1>4. a \in running'[home[a]] /\ m \notin active
  BY <1>2 DEF MigratorInv, Migrator!RunsAtHome, CallsTyped, Migrator!NotCalled, Migrator!Steps
<1>5. capacity[t] \in Capacity /\ capacity[t].slots = MaxAgents - capacity[t].agents
  BY DEF MigratorInv, CapacityTyped
<1>6. \/ /\ capacity' = [capacity EXCEPT ![t] = Migrator!Reserved(capacity[t])]
         /\ call' = [call EXCEPT ![m] = r]
         /\ active' = active \cup {m}
      \/ Migrator!Thrown(m, r, capacity[t])
  BY DEF Migrator!Migrate
<1> HIDE DEF r
<1>7. r.at \in Migrator!Steps /\ r.at \in OnSource /\ r.at \notin OnTarget /\ r.at # "returned"
  BY <1>1 DEF Migrator!Steps, OnSource, OnTarget
<1>8. CASE Migrator!Thrown(m, r, capacity[t])
  BY <1>1, <1>2, <1>3, <1>4, <1>5, <1>7, <1>8, ThrownKeeps
<1>9. CASE /\ capacity' = [capacity EXCEPT ![t] = Migrator!Reserved(capacity[t])]
           /\ call' = [call EXCEPT ![m] = r]
           /\ active' = active \cup {m}
  <2>1. CapacityTyped'
    BY <1>5, <1>9, CapacityChanges DEF MigratorInv, CapacityTyped
  <2>2. Advance(m, r)
    BY <1>1, <1>2, <1>3, <1>4, <1>7, <1>9, <2>1 DEF Advance
  <2> QED
    BY <1>1, <1>2, <1>3, <1>4, <1>7, <1>9, <2>1, <2>2, OneMoves
<1> QED
  BY <1>6, <1>8, <1>9

\* What is known of a call in progress.
LEMMA Known ==
  ASSUME MigratorInv, NEW m \in Migrator!Calls, call[m].at \in Migrator!Steps
  PROVE  /\ m \in active /\ call[m] \in Migrator!Call
         /\ call[m].agent \in Agents /\ call[m].source \in Clusters /\ call[m].target \in Clusters
         /\ call[m].source # call[m].target /\ home[call[m].agent] = call[m].source
         /\ \A n \in active \ {m} : call[n].agent # call[m].agent
         /\ capacity[call[m].target] \in Capacity
         /\ capacity[call[m].target].slots = MaxAgents - capacity[call[m].target].agents
         /\ call[m].at \in OnSource => call[m].agent \in running[call[m].source]
         /\ call[m].at \in OnTarget => call[m].agent \in running[call[m].target]
<1>1. m \in active /\ call[m] \in Migrator!Call
  BY DEF MigratorInv, CallsTyped
<1>2. call[m].agent \in Agents /\ call[m].source \in Clusters /\ call[m].target \in Clusters
  BY InProgress DEF MigratorInv
<1> QED
  BY <1>1, <1>2 DEF MigratorInv, Apart, CapacityTyped, Moving

\* The record of a call that goes to another step.
LEMMA NextStep ==
  ASSUME CallsTyped, NEW m \in Migrator!Calls, call[m].at \in Migrator!Steps, NEW step \in Migrator!Steps \cup {"returned"}
  PROVE  /\ [call[m] EXCEPT !.at = step] \in Migrator!Call
         /\ [call EXCEPT ![m].at = step] = [call EXCEPT ![m] = [call[m] EXCEPT !.at = step]]
         /\ LET q == [call[m] EXCEPT !.at = step]
            IN  q.at = step /\ q.agent = call[m].agent /\ q.source = call[m].source /\ q.target = call[m].target
<1>1. call[m] \in [at : Migrator!Steps \cup {"returned"}, agent : Agents, source : Clusters, target : Clusters,
            options : Migrator!Options, status : {"in_progress", "failed", "completed", "rolled_back"}, moved : BOOLEAN]
  BY InProgress
<1> QED
  BY <1>1 DEF Migrator!Call, CallsTyped

\* A call goes to another step, and its agent stays where the step needs it.
LEMMA StepKeeps ==
  ASSUME Migrator!BoundsAssumption, Migrator!SizesAssumption, MigratorInv, PlacesTyped',
         NEW m \in Migrator!Calls, call[m].at \in Migrator!Steps, NEW step \in Migrator!Steps, Migrator!Goes(m, step),
         UNCHANGED <<capacity, active, home>>,
         \A a \in Agents \ {call[m].agent}, c \in Clusters : a \in running'[c] <=> a \in running[c],
         step \in OnSource => call[m].agent \in running'[call[m].source],
         step \in OnTarget => call[m].agent \in running'[call[m].target]
  PROVE  MigratorInv'
<1> DEFINE q == [call[m] EXCEPT !.at = step]
<1>1. /\ q \in Migrator!Call /\ call' = [call EXCEPT ![m] = q]
      /\ q.at = step /\ q.agent = call[m].agent /\ q.source = call[m].source /\ q.target = call[m].target
  BY NextStep DEF Migrator!Goes, MigratorInv
<1> HIDE DEF q
<1>2. CapacityTyped'
  BY DEF MigratorInv, CapacityTyped
<1> QED
  BY <1>1, <1>2, GoesOnKeeps

LEMMA BeforeTheStop ==
  ASSUME Migrator!BoundsAssumption, Migrator!SizesAssumption, MigratorInv, NEW m \in Migrator!Calls,
         Migrator!Export(m) \/ Migrator!Transfer(m) \/ Migrator!Start(m) \/ Migrator!Verify(m)
  PROVE  MigratorInv'
<1>1. CASE Migrator!Export(m)
  <2>1. call[m].at \in Migrator!Steps /\ call[m].at \in OnSource
    BY <1>1 DEF Migrator!Export, Migrator!Steps, OnSource
  <2>2. PICK step \in {"transfer", "start"} : Migrator!Goes(m, step)
    BY <1>1 DEF Migrator!Export
  <2>3. step \in Migrator!Steps /\ step \in OnSource /\ step \notin OnTarget
    BY DEF Migrator!Steps, OnSource, OnTarget
  <2>4. UNCHANGED <<capacity, active, running, memory, home>>
    BY <1>1 DEF Migrator!Export
  <2>5. PlacesTyped'
    BY <2>4 DEF MigratorInv, PlacesTyped
  <2> QED
    BY <2>1, <2>2, <2>3, <2>4, <2>5, Known, StepKeeps
<1>2. CASE Migrator!Transfer(m)
  <2>1. call[m].at \in Migrator!Steps /\ call[m].at \in OnSource
    BY <1>2 DEF Migrator!Transfer, Migrator!Steps, OnSource
  <2>2. PlacesTyped' /\ UNCHANGED <<running, home>>
    BY <1>2, <2>1, Known DEF Migrator!Transfer, MigratorInv, PlacesTyped
  <2>3. CASE Migrator!Thrown(m, call[m], capacity[call[m].target])
    BY <2>1, <2>2, <2>3, Known, ThrownKeeps
  <2>4. CASE /\ call' = [call EXCEPT ![m] = [call[m] EXCEPT !.at = "start", !.moved = TRUE]]
             /\ UNCHANGED <<capacity, active>>
    <3> DEFINE q == [call[m] EXCEPT !.at = "start", !.moved = TRUE]
    <3>1. call[m] \in [at : Migrator!Steps \cup {"returned"}, agent : Agents, source : Clusters, target : Clusters,
            options : Migrator!Options, status : {"in_progress", "failed", "completed", "rolled_back"}, moved : BOOLEAN]
      BY <2>1, InProgress DEF MigratorInv
    <3>2. q \in Migrator!Call /\ q.at = "start" /\ q.agent = call[m].agent /\ q.source = call[m].source /\ q.target = call[m].target
      BY <3>1 DEF Migrator!Call, Migrator!Steps
    <3>3. call' = [call EXCEPT ![m] = q]
      BY <2>4
    <3> HIDE DEF q
    <3>4. CapacityTyped'
      BY <2>4 DEF MigratorInv, CapacityTyped
    <3>5. q.at \in Migrator!Steps /\ q.at \notin OnTarget
      BY <3>2 DEF Migrator!Steps, OnTarget
    <3> QED
      BY <2>1, <2>2, <2>4, <3>2, <3>3, <3>4, <3>5, Known, GoesOnKeeps
  <2> QED
    BY <1>2, <2>3, <2>4 DEF Migrator!Transfer, Migrator!Following
<1>3. CASE Migrator!Start(m)
  <2>1. call[m].at \in Migrator!Steps /\ call[m].at \in OnSource /\ call[m].at = "start"
    BY <1>3 DEF Migrator!Start, Migrator!Steps, OnSource
  <2>2. UNCHANGED <<memory, home>> /\ running' \in {running, [running EXCEPT ![call[m].target] = @ \cup {call[m].agent}]}
    BY <1>3 DEF Migrator!Start
  <2>3. /\ PlacesTyped' /\ call[m].agent \in running'[call[m].source]
        /\ \A a \in Agents \ {call[m].agent}, c \in Clusters : a \in running'[c] <=> a \in running[c]
    BY <2>1, <2>2, Known DEF MigratorInv, PlacesTyped
  <2>4. CASE Migrator!Thrown(m, call[m], capacity[call[m].target])
    BY <2>1, <2>2, <2>3, <2>4, Known, ThrownKeeps
  <2>5. CASE Migrator!GoesOn(m) /\ UNCHANGED <<capacity, active>>
    <3>1. Migrator!Goes(m, "verify") /\ "verify" \in Migrator!Steps /\ "verify" \notin OnTarget
      BY <2>1, <2>5 DEF Migrator!GoesOn, Migrator!Following, Migrator!Steps, OnTarget
    <3> QED
      BY <2>1, <2>2, <2>3, <2>5, <3>1, StepKeeps
  <2> QED
    BY <1>3, <2>4, <2>5 DEF Migrator!Start
<1>4. CASE Migrator!Verify(m)
  <2>1. call[m].at \in Migrator!Steps /\ call[m].at \in OnSource /\ call[m].at = "verify"
    BY <1>4 DEF Migrator!Verify, Migrator!Steps, OnSource
  <2>2. UNCHANGED <<running, memory, home>>
    BY <1>4 DEF Migrator!Verify
  <2>3. PlacesTyped'
    BY <2>2 DEF MigratorInv, PlacesTyped
  <2>4. CASE Migrator!Unverified(m)
    BY <2>1, <2>2, <2>3, <2>4, Known, ThrownKeeps DEF Migrator!Unverified
  <2>5. CASE call[m].agent \in running[call[m].target] /\ Migrator!GoesOn(m) /\ UNCHANGED <<capacity, active>>
    <3>1. PICK step \in OnTarget : Migrator!Goes(m, step)
      BY <2>1, <2>5 DEF Migrator!GoesOn, Migrator!Following, OnTarget
    <3>2. step \in Migrator!Steps /\ step \notin OnSource
      BY DEF Migrator!Steps, OnTarget, OnSource
    <3> QED
      BY <2>1, <2>2, <2>3, <2>5, <3>1, <3>2, StepKeeps
  <2> QED
    BY <1>4, <2>4, <2>5 DEF Migrator!Verify
<1> QED
  BY <1>1, <1>2, <1>3, <1>4

LEMMA AfterIt ==
  ASSUME Migrator!BoundsAssumption, Migrator!SizesAssumption, MigratorInv, NEW m \in Migrator!Calls,
         Migrator!StopSource(m) \/ Migrator!Cleanup(m) \/ Migrator!StopTarget(m) \/ Migrator!RestartSource(m)
  PROVE  MigratorInv'
<1>1. CASE Migrator!StopSource(m)
  <2>1. call[m].at \in Migrator!Steps /\ call[m].at \in OnTarget /\ call[m].at = "stopSource"
    BY <1>1 DEF Migrator!StopSource, Migrator!Steps, OnTarget
  <2>2. UNCHANGED <<capacity, active, memory, home>> /\ running' \in {running, [running EXCEPT ![call[m].source] = @ \ {call[m].agent}]}
    BY <1>1 DEF Migrator!StopSource
  <2>3. /\ PlacesTyped' /\ call[m].agent \in running'[call[m].target]
        /\ \A a \in Agents \ {call[m].agent}, c \in Clusters : a \in running'[c] <=> a \in running[c]
    BY <2>1, <2>2, Known DEF MigratorInv, PlacesTyped
  <2>4. Migrator!Goes(m, "cleanup") /\ "cleanup" \in Migrator!Steps /\ "cleanup" \notin OnSource
    BY <1>1, <2>1 DEF Migrator!StopSource, Migrator!GoesOn, Migrator!Following, Migrator!Steps, OnSource
  <2> QED
    BY <2>1, <2>2, <2>3, <2>4, StepKeeps
<1>2. CASE Migrator!Cleanup(m)
  <2>1. call[m].at \in Migrator!Steps /\ call[m].at \in OnTarget
    BY <1>2 DEF Migrator!Cleanup, Migrator!Steps, OnTarget
  <2> DEFINE q == [call[m] EXCEPT !.at = "returned", !.status = "completed"]
  <2>2. call[m] \in [at : Migrator!Steps \cup {"returned"}, agent : Agents, source : Clusters, target : Clusters,
            options : Migrator!Options, status : {"in_progress", "failed", "completed", "rolled_back"}, moved : BOOLEAN]
    BY <2>1, InProgress DEF MigratorInv
  <2>3. /\ q \in Migrator!Call /\ q # Migrator!NotCalled /\ q.at = "returned"
        /\ q.agent = call[m].agent /\ q.source = call[m].source /\ q.target = call[m].target
    BY <2>2 DEF Migrator!Call, Migrator!NotCalled
  <2>4. /\ call' = [call EXCEPT ![m] = q] /\ active' = active \ {m} /\ running' = running
        /\ home' = [home EXCEPT ![call[m].agent] = call[m].target]
        /\ capacity' = [capacity EXCEPT ![call[m].source] = Migrator!OneLess(capacity[call[m].source])]
        /\ memory' \in {memory, [memory EXCEPT ![call[m].source] = @ \ {call[m].agent}]}
    BY <1>2 DEF Migrator!Cleanup
  <2> HIDE DEF q
  <2>5. PlacesTyped'
    BY <2>1, <2>4, Known DEF MigratorInv, PlacesTyped
  <2>6. CapacityTyped'
    BY <2>1, <2>4, Known, CapacityChanges DEF MigratorInv, CapacityTyped
  <2>7. q.at \notin Migrator!Steps /\ q.at \notin OnSource /\ q.at \notin OnTarget
    BY <2>3 DEF Migrator!Steps, OnSource, OnTarget
  <2>8. q.agent \in running'[home'[q.agent]] /\ \A a \in Agents \ {q.agent} : home'[a] = home[a]
    BY <2>1, <2>3, <2>4, Known DEF MigratorInv, PlacesTyped
  <2>9. /\ m \in active /\ q.agent = call[m].agent
        /\ active' = IF q.at \in Migrator!Steps THEN active \cup {m} ELSE active \ {m}
        /\ \A n \in active \ {m} : call[n].agent # q.agent
        /\ \A a \in Agents \ {q.agent} : home'[a] = home[a]
        /\ \A a \in Agents \ {q.agent}, c \in Clusters : a \in running'[c] <=> a \in running[c]
    BY <2>1, <2>3, <2>4, <2>5, <2>7, <2>8, Known
  <2>10. Advance(m, q)
    BY <2>1, <2>3, <2>4, <2>5, <2>6, <2>7, <2>8, <2>9 DEF Advance
  <2> QED
    BY <2>3, <2>4, <2>5, <2>6, <2>10, OneMoves
<1>3. CASE Migrator!StopTarget(m)
  <2>1. call[m].at \in Migrator!Steps /\ call[m].at \in OnSource /\ call[m].at = "stopTarget"
    BY <1>3 DEF Migrator!StopTarget, Migrator!Steps, OnSource
  <2>2. UNCHANGED <<capacity, active, memory, home>> /\ running' \in {running, [running EXCEPT ![call[m].target] = @ \ {call[m].agent}]}
    BY <1>3 DEF Migrator!StopTarget
  <2>3. /\ PlacesTyped' /\ call[m].agent \in running'[call[m].source]
        /\ \A a \in Agents \ {call[m].agent}, c \in Clusters : a \in running'[c] <=> a \in running[c]
    BY <2>1, <2>2, Known DEF MigratorInv, PlacesTyped
  <2>4. Migrator!Goes(m, "restartSource") /\ "restartSource" \in Migrator!Steps /\ "restartSource" \notin OnTarget
    BY <1>3, <2>1 DEF Migrator!StopTarget, Migrator!GoesOn, Migrator!Following, Migrator!Steps, OnTarget
  <2> QED
    BY <2>1, <2>2, <2>3, <2>4, StepKeeps
<1>4. CASE Migrator!RestartSource(m)
  <2>1. call[m].at \in Migrator!Steps /\ call[m].at \in OnSource
    BY <1>4 DEF Migrator!RestartSource, Migrator!Steps, OnSource
  <2> DEFINE q == [call[m] EXCEPT !.at = "returned", !.status = "rolled_back"]
  <2>2. call[m] \in [at : Migrator!Steps \cup {"returned"}, agent : Agents, source : Clusters, target : Clusters,
            options : Migrator!Options, status : {"in_progress", "failed", "completed", "rolled_back"}, moved : BOOLEAN]
    BY <2>1, InProgress DEF MigratorInv
  <2>3. /\ q \in Migrator!Call /\ q # Migrator!NotCalled /\ q.at = "returned"
        /\ q.agent = call[m].agent /\ q.source = call[m].source /\ q.target = call[m].target
    BY <2>2 DEF Migrator!Call, Migrator!NotCalled
  <2>4. /\ call' = [call EXCEPT ![m] = q] /\ active' = active \ {m}
        /\ UNCHANGED <<capacity, memory, home>>
        /\ running' \in {running, [running EXCEPT ![call[m].source] = @ \cup {call[m].agent}]}
    BY <1>4 DEF Migrator!RestartSource
  <2> HIDE DEF q
  <2>5. /\ PlacesTyped' /\ q.agent \in running'[home'[q.agent]]
        /\ \A a \in Agents \ {q.agent}, c \in Clusters : a \in running'[c] <=> a \in running[c]
    BY <2>1, <2>3, <2>4, Known DEF MigratorInv, PlacesTyped
  <2>6. CapacityTyped'
    BY <2>4 DEF MigratorInv, CapacityTyped
  <2>7. q.at \notin Migrator!Steps /\ q.at \notin OnSource /\ q.at \notin OnTarget
    BY <2>3 DEF Migrator!Steps, OnSource, OnTarget
  <2>8. /\ m \in active /\ q.agent = call[m].agent
        /\ active' = IF q.at \in Migrator!Steps THEN active \cup {m} ELSE active \ {m}
        /\ \A n \in active \ {m} : call[n].agent # q.agent
        /\ \A a \in Agents \ {q.agent} : home'[a] = home[a]
        /\ \A a \in Agents \ {q.agent}, c \in Clusters : a \in running'[c] <=> a \in running[c]
    BY <2>1, <2>3, <2>4, <2>5, <2>7, Known
  <2>9. Advance(m, q)
    BY <2>1, <2>3, <2>4, <2>5, <2>6, <2>7, <2>8 DEF Advance
  <2> QED
    BY <2>3, <2>4, <2>5, <2>6, <2>9, OneMoves
<1> QED
  BY <1>1, <1>2, <1>3, <1>4

LEMMA ReportsKeep ==
  ASSUME Migrator!SetsAssumption, Migrator!SizesAssumption, MigratorInv, NEW c \in Clusters, Migrator!UpdateHealth(c) \/ Migrator!UpdateLoad(c)
  PROVE  MigratorInv'
<1>1. CapacityTyped'
  <2>1. CASE Migrator!UpdateHealth(c)
    BY <2>1 DEF Migrator!UpdateHealth, MigratorInv, CapacityTyped, Capacity
  <2>2. CASE Migrator!UpdateLoad(c)
    <3>1. Cardinality(running[c]) \in Nat
      BY Counted, FS_Subset, FS_CardinalityType DEF MigratorInv, PlacesTyped, Migrator!SetsAssumption
    <3>2. MaxAgents - Cardinality(running[c]) \in Int
      BY <3>1 DEF Migrator!SizesAssumption
    <3> DEFINE n == Cardinality(running[c])
               k == [capacity[c] EXCEPT !.agents = n, !.slots = MaxAgents - n]
    <3>3. capacity' = [capacity EXCEPT ![c] = k]
      BY Counted, <2>2 DEF Migrator!UpdateLoad
    <3>4. CapacityTyped /\ capacity[c] \in Capacity
      BY DEF MigratorInv, CapacityTyped
    <3>5. k \in Capacity /\ k.slots = MaxAgents - k.agents
      BY <3>1, <3>2, <3>4 DEF Capacity
    <3> HIDE DEF k
    <3> QED
      BY <3>3, <3>4, <3>5 DEF CapacityTyped
  <2> QED
    BY <2>1, <2>2
<1>2. UNCHANGED <<call, active, running, memory, home>>
  BY DEF Migrator!UpdateHealth, Migrator!UpdateLoad
<1> QED
  BY <1>1, <1>2 DEF MigratorInv, PlacesTyped, CallsTyped, Apart, Moving, Migrator!RunsAtHome

\* Every step of the migrator keeps the invariant.
LEMMA MigratorStep ==
  ASSUME Migrator!SetsAssumption, Migrator!SizesAssumption, Migrator!BoundsAssumption,
         MigratorInv, [Migrator!Next]_(Migrator!vars)
  PROVE  MigratorInv'
<1>1. ASSUME NEW m \in Migrator!Calls, NEW a \in Agents, NEW t \in Clusters, NEW options \in Migrator!Options,
             Migrator!Migrate(m, a, t, options)
      PROVE  MigratorInv'
  BY <1>1, MigrateKeeps
<1>2. ASSUME NEW m \in Migrator!Calls, Migrator!Step(m) PROVE MigratorInv'
  BY <1>2, BeforeTheStop, AfterIt DEF Migrator!Step
<1>3. ASSUME NEW c \in Clusters, Migrator!UpdateHealth(c) \/ Migrator!UpdateLoad(c) PROVE MigratorInv'
  BY <1>3, ReportsKeep
<1>4. CASE UNCHANGED Migrator!vars
  BY <1>4 DEF Migrator!vars, MigratorInv, CapacityTyped, PlacesTyped, CallsTyped, Apart, Moving, Migrator!RunsAtHome
<1> QED
  BY <1>1, <1>2, <1>3, <1>4 DEF Migrator!Next

-----------------------------------------------------------------------------
(* The levels of a plan.                                                   *)

NumTasks == Cardinality(Tasks)
Dependencies == dependencies \in [Tasks -> SUBSET Tasks]

LEMMA NumTasksNatural ==
  ASSUME Engine!TasksAssumption
  PROVE  NumTasks \in Nat /\ IsFiniteSet(Tasks)
BY Counted, FS_CardinalityType DEF Engine!TasksAssumption, NumTasks

\* A level holds the tasks whose dependencies are all in the levels before.
LEMMA Leveled ==
  ASSUME Engine!TasksAssumption, Dependencies
  PROVE  /\ Engine!Planned[0] = {}
         /\ \A n \in 1..NumTasks : Engine!Planned[n] = Engine!Planned[n - 1] \cup Engine!NextLevel(Engine!Planned[n - 1])
<1> DEFINE S == SUBSET Tasks
           none == {}
           next == [T \in SUBSET Tasks |-> T \cup Engine!NextLevel(T)]
           Def(f) == f = [n \in 0..NumTasks |-> IF n = 0 THEN {} ELSE f[n - 1] \cup Engine!NextLevel(f[n - 1])]
<1>1. none \in S /\ next \in [S -> S]
  BY DEF Engine!NextLevel
<1>2. PICK f : Iterates(f, S, none, next)
  <2> HIDE DEF S, next, none
  <2> QED
    BY <1>1, Recursion
<1>3. \A n \in Nat : f[n] \in S /\ f[n + 1] = f[n] \cup Engine!NextLevel(f[n])
  BY <1>2 DEF Iterates
<1> DEFINE g == [n \in 0..NumTasks |-> f[n]]
<1>4. Def(g)
  <2>1. ASSUME NEW n \in 0..NumTasks
        PROVE  f[n] = IF n = 0 THEN {} ELSE g[n - 1] \cup Engine!NextLevel(g[n - 1])
    <3>1. CASE n = 0
      BY <1>2, <3>1 DEF Iterates
    <3>2. CASE n # 0
      <4>1. n - 1 \in Nat /\ (n - 1) + 1 = n /\ n - 1 \in 0..NumTasks
        BY <3>2, NumTasksNatural
      <4> QED
        BY <1>3, <3>2, <4>1
    <3> QED
      BY <3>1, <3>2
  <2> QED
    BY <2>1
<1>5. Engine!Planned = CHOOSE h : Def(h)
  BY Counted DEF Engine!Planned, NumTasks
<1> HIDE DEF Def, g
<1>6. Def(Engine!Planned)
  BY <1>4, <1>5, Zenon
<1> USE DEF Def
<1>7. Engine!Planned[0] = {}
  BY <1>6, NumTasksNatural
<1>8. ASSUME NEW n \in 1..NumTasks
      PROVE  Engine!Planned[n] = Engine!Planned[n - 1] \cup Engine!NextLevel(Engine!Planned[n - 1])
  <2>1. n \in 0..NumTasks /\ n # 0
    BY NumTasksNatural
  <2> QED
    BY <1>6, <2>1
<1> QED
  BY <1>7, <1>8

LEMMA LevelsGrow ==
  ASSUME Engine!TasksAssumption, Dependencies
  PROVE  /\ \A n \in 0..NumTasks : Engine!Planned[n] \subseteq Tasks
         /\ \A m, n \in 0..NumTasks : m <= n => Engine!Planned[m] \subseteq Engine!Planned[n]
         /\ \A m, n \in 0..NumTasks :
              m < n /\ Engine!Planned[m + 1] = Engine!Planned[m] => Engine!Planned[n] = Engine!Planned[m]
<1>1. NumTasks \in Nat
  BY NumTasksNatural
<1>2. \A n \in 0..NumTasks : Engine!Planned[n] \subseteq Tasks
  <2> DEFINE T == {n \in Nat : n <= NumTasks => Engine!Planned[n] \subseteq Tasks}
  <2>1. 0 \in T
    BY Leveled
  <2>2. ASSUME NEW n \in Nat, n \in T PROVE n + 1 \in T
    <3>1. CASE n + 1 <= NumTasks
      <4>1. n + 1 \in 1..NumTasks /\ (n + 1) - 1 = n /\ n <= NumTasks
        BY <1>1, <3>1
      <4>2. Engine!Planned[n + 1] = Engine!Planned[n] \cup Engine!NextLevel(Engine!Planned[n])
        BY <4>1, Leveled
      <4> QED
        BY <2>2, <4>1, <4>2 DEF Engine!NextLevel
    <3> QED
      BY <3>1
  <2> HIDE DEF T
  <2>3. Nat \subseteq T
    BY <2>1, <2>2, Induction
  <2> QED
    BY <1>1, <2>3 DEF T
<1>3. ASSUME NEW m \in 0..NumTasks, NEW n \in 0..NumTasks
      PROVE  m <= n => Engine!Planned[m] \subseteq Engine!Planned[n]
  <2> DEFINE T == {k \in Nat : m <= k /\ k <= NumTasks => Engine!Planned[m] \subseteq Engine!Planned[k]}
  <2>1. 0 \in T
    BY <1>1
  <2>2. ASSUME NEW k \in Nat, k \in T PROVE k + 1 \in T
    <3>1. CASE k + 1 <= NumTasks /\ m <= k
      <4>1. k + 1 \in 1..NumTasks /\ (k + 1) - 1 = k /\ k <= NumTasks
        BY <1>1, <3>1
      <4>2. Engine!Planned[k + 1] = Engine!Planned[k] \cup Engine!NextLevel(Engine!Planned[k])
        BY <4>1, Leveled
      <4> QED
        BY <2>2, <3>1, <4>1, <4>2
    <3>2. CASE k + 1 <= NumTasks /\ m > k
      <4>1. m <= k + 1 => m = k + 1
        BY <3>2, <1>1
      <4> QED
        BY <4>1
    <3> QED
      BY <1>1, <3>1, <3>2
  <2> HIDE DEF T
  <2>3. n \in T
    BY <1>1, <2>1, <2>2, Induction
  <2> QED
    BY <1>1, <2>3 DEF T
<1>4. ASSUME NEW m \in 0..NumTasks, NEW n \in 0..NumTasks, Engine!Planned[m + 1] = Engine!Planned[m]
      PROVE  m < n => Engine!Planned[n] = Engine!Planned[m]
  <2> DEFINE T == {k \in Nat : m < k /\ k <= NumTasks => Engine!Planned[k] = Engine!Planned[m]}
  <2>1. 0 \in T
    BY <1>1
  <2>2. ASSUME NEW k \in Nat, k \in T PROVE k + 1 \in T
    <3>1. CASE k + 1 <= NumTasks /\ m < k
      <4>1. /\ k + 1 \in 1..NumTasks /\ (k + 1) - 1 = k /\ k <= NumTasks
            /\ m + 1 \in 1..NumTasks /\ (m + 1) - 1 = m
        BY <1>1, <3>1
      <4>2. /\ Engine!Planned[k + 1] = Engine!Planned[k] \cup Engine!NextLevel(Engine!Planned[k])
            /\ Engine!Planned[m + 1] = Engine!Planned[m] \cup Engine!NextLevel(Engine!Planned[m])
        BY <4>1, Leveled
      <4>3. Engine!Planned[k] = Engine!Planned[m]
        BY <2>2, <3>1, <4>1
      <4>4. Engine!NextLevel(Engine!Planned[k]) = Engine!NextLevel(Engine!Planned[m])
        BY <4>3
      <4> QED
        BY <1>4, <4>2, <4>3, <4>4
    <3>2. CASE k + 1 <= NumTasks /\ m >= k
      <4>1. m < k + 1 => m = k
        BY <3>2, <1>1
      <4> QED
        BY <1>4, <4>1
    <3> QED
      BY <1>1, <3>1, <3>2
  <2> HIDE DEF T
  <2>3. n \in T
    BY <1>1, <2>1, <2>2, Induction
  <2> QED
    BY <1>1, <2>3 DEF T
<1> QED
  BY <1>2, <1>3, <1>4

\* The levels are numbered from one, none of them is empty, and the last one
\* is the last that adds a task.
LEMMA LevelsCounted ==
  ASSUME Engine!TasksAssumption, Dependencies
  PROVE  /\ Engine!LevelCount \in 0..NumTasks
         /\ Engine!Planned[Engine!LevelCount] = Engine!Planned[NumTasks]
         /\ \A n \in 1..Engine!LevelCount : Engine!Planned[n] # Engine!Planned[n - 1]
<1>1. NumTasks \in Nat
  BY NumTasksNatural
<1> DEFINE D == {n \in 1..NumTasks : Engine!Planned[n] # Engine!Planned[n - 1]}
           U == {n \in Nat : n < NumTasks => Engine!Planned[n + 1] = Engine!Planned[n]}
<1>2. U \subseteq Nat /\ NumTasks \in U
  BY <1>1
<1>3. PICK l \in U : \A n \in U : l <= n
  BY <1>2, LeastNumber
<1>4. l \in 0..NumTasks
  BY <1>1, <1>2, <1>3
<1>5. \A n \in 1..l : n \in D
  <2> SUFFICES ASSUME NEW n \in 1..l PROVE n \in D
    OBVIOUS
  <2>1. n - 1 \in Nat /\ n - 1 < l /\ (n - 1) + 1 = n /\ n \in 1..NumTasks
    BY <1>1, <1>4
  <2>2. n - 1 \notin U
    BY <1>3, <1>4, <2>1
  <2> QED
    BY <2>1, <2>2
<1>6. \A n \in l..NumTasks : Engine!Planned[n] = Engine!Planned[l]
  <2> SUFFICES ASSUME NEW n \in l..NumTasks PROVE Engine!Planned[n] = Engine!Planned[l]
    OBVIOUS
  <2>1. CASE n = l
    BY <2>1
  <2>2. CASE n # l
    <3>1. l < n /\ l < NumTasks /\ n \in 0..NumTasks
      BY <1>1, <1>4, <2>2
    <3>2. Engine!Planned[l + 1] = Engine!Planned[l]
      BY <1>3, <3>1
    <3> QED
      BY <1>4, <3>1, <3>2, LevelsGrow
  <2> QED
    BY <2>1, <2>2
<1>7. D = 1..l
  <2>1. ASSUME NEW n \in D PROVE n \in 1..l
    <3> SUFFICES ASSUME n > l PROVE FALSE
      BY <1>1, <1>4
    <3>1. n \in l..NumTasks /\ n - 1 \in l..NumTasks
      BY <1>1, <1>4
    <3> QED
      BY <1>6, <3>1
  <2> QED
    BY <1>5, <2>1
<1>8. Engine!LevelCount = l
  <2>1. Engine!LevelCount = Cardinality(D)
    BY Counted DEF Engine!LevelCount, NumTasks
  <2>2. Cardinality(1..l) = l
    BY <1>4, FS_Interval
  <2> QED
    BY <1>7, <2>1, <2>2
<1>9. NumTasks \in l..NumTasks
  BY <1>1, <1>4
<1> QED
  BY <1>4, <1>5, <1>6, <1>8, <1>9

\* The plan depends on the dependencies alone.
LEMMA SamePlan ==
  ASSUME UNCHANGED dependencies
  PROVE  Engine!Planned' = Engine!Planned /\ Engine!LevelCount' = Engine!LevelCount
<1>1. Engine!Planned' = Engine!Planned
  BY Zenon DEF Engine!Planned, Engine!NextLevel
<1> QED
  BY <1>1, Zenon DEF Engine!LevelCount

-----------------------------------------------------------------------------
(* The engine.                                                             *)

EngineTyped ==
  /\ Dependencies /\ continueOnFailure \in BOOLEAN /\ aborted \in BOOLEAN
  /\ task \in [Tasks -> [at : {"waiting", "running", "delay"} \cup Engine!Settled, attempt : 0..Engine!MaxAttempts]]
  /\ outcome \in {"none", "invalid", "completed", "failed", "cancelled"}
  /\ \A t \in Tasks : task[t].at = "delay" => task[t].attempt < Engine!MaxAttempts

\* The plan is not made yet, or it holds every task in its level.
PlanMade ==
  /\ levels \in Seq(SUBSET Tasks) /\ level \in 0..Len(levels)
  /\ \/ levels = <<>>
     \/ /\ Len(levels) = Engine!LevelCount /\ Engine!Planned[NumTasks] = Tasks
        /\ \A n \in 1..Engine!LevelCount : levels[n] = Engine!Planned[n] \ Engine!Planned[n - 1]

\* The tasks that are not waiting are those of the levels that have started.
Reached == \A t \in Tasks : task[t].at # "waiting" <=> t \in Engine!Planned[level]

\* There are results of the levels before this one, and of this one when it is
\* over, as it is when the plan returns.
Stored ==
  /\ DOMAIN results = Engine!Planned[level] \/ (level > 0 /\ DOMAIN results = Engine!Planned[level - 1])
  /\ \A t \in DOMAIN results : results[t] = task[t].at /\ task[t].at \in Engine!Settled
  /\ outcome # "none" => DOMAIN results = Engine!Planned[level]
  /\ outcome = "completed" => Engine!Planned[level] = Tasks

\* A failure that is not passed over has ended the plan, and nothing is
\* cancelled before the abort.
Noticed ==
  /\ ~continueOnFailure /\ outcome \in {"none", "completed"} => \A t \in DOMAIN results : results[t] # "failed"
  /\ \A t \in Tasks : task[t].at = "cancelled" => aborted

EngineInv == EngineTyped /\ PlanMade /\ Reached /\ Stored /\ Noticed /\ Engine!DependenciesFirst

\* Where the engine stands in its plan.
LEMMA Standing ==
  ASSUME Engine!TasksAssumption, EngineInv
  PROVE  /\ level \in 0..NumTasks /\ Engine!Planned[level] \subseteq Tasks
         /\ level = 0 => Engine!Planned[level] = {}
         /\ level > 0 => /\ level - 1 \in 0..NumTasks /\ level \in 1..Engine!LevelCount /\ Len(levels) = Engine!LevelCount
                         /\ levels[level] = Engine!Planned[level] \ Engine!Planned[level - 1]
                         /\ Engine!Planned[level - 1] \subseteq Engine!Planned[level]
                         /\ Engine!Planned[level - 1] # Engine!Planned[level]
<1>1. NumTasks \in Nat /\ Dependencies
  BY NumTasksNatural DEF EngineInv, EngineTyped
<1>2. Engine!LevelCount \in 0..NumTasks /\ \A n \in 1..Engine!LevelCount : Engine!Planned[n] # Engine!Planned[n - 1]
  BY <1>1, LevelsCounted
<1>3. level \in 0..Len(levels) /\ Len(levels) \in Nat /\ (Len(levels) # 0 => levels # <<>>)
  BY DEF EngineInv, PlanMade
<1>4. level > 0 => Len(levels) = Engine!LevelCount /\ \A n \in 1..Engine!LevelCount : levels[n] = Engine!Planned[n] \ Engine!Planned[n - 1]
  BY <1>3 DEF EngineInv, PlanMade
<1>5. level \in 0..NumTasks /\ (level > 0 => level - 1 \in 0..NumTasks /\ level \in 1..Engine!LevelCount)
  BY <1>1, <1>2, <1>3, <1>4
<1>6. Engine!Planned[level] \subseteq Tasks /\ (level > 0 => Engine!Planned[level - 1] \subseteq Engine!Planned[level])
  BY <1>1, <1>5, LevelsGrow
<1>7. level = 0 => Engine!Planned[level] = {}
  BY <1>1, Leveled
<1>8. level > 0 => /\ levels[level] = Engine!Planned[level] \ Engine!Planned[level - 1]
                   /\ Engine!Planned[level - 1] # Engine!Planned[level]
  BY <1>2, <1>4, <1>5
<1> QED
  BY <1>4, <1>5, <1>6, <1>7, <1>8

LEMMA EngineInitially == Engine!TasksAssumption /\ Engine!RetryAssumption /\ Engine!Init => EngineInv
<1> SUFFICES ASSUME Engine!TasksAssumption, Engine!RetryAssumption, Engine!Init PROVE EngineInv
  OBVIOUS
<1>1. EngineTyped
  <2>1. 0 \in 0..Engine!MaxAttempts
    BY DEF Engine!MaxAttempts, Engine!RetryAssumption
  <2>2. \A t \in Tasks : task[t] = [at |-> "waiting", attempt |-> 0]
    BY DEF Engine!Init
  <2> QED
    BY <2>1, <2>2 DEF Engine!Init, EngineTyped, Dependencies
<1>2. PlanMade
  BY DEF Engine!Init, PlanMade
<1>3. Engine!Planned[0] = {} /\ level = 0 /\ DOMAIN results = {}
  BY <1>1, Leveled DEF Engine!Init, EngineTyped
<1>4. Reached /\ Stored /\ Noticed /\ Engine!DependenciesFirst
  BY <1>3 DEF Engine!Init, Reached, Stored, Noticed, Engine!DependenciesFirst
<1> QED
  BY <1>1, <1>2, <1>4 DEF EngineInv

\* A task that runs or waits for its next attempt goes on, or is settled.
LEMMA TaskGoesOn ==
  ASSUME Engine!TasksAssumption, EngineInv, NEW t \in Tasks, task[t].at \in {"running", "delay"},
         NEW at \in {"running", "delay"} \cup Engine!Settled, NEW attempt \in 0..Engine!MaxAttempts,
         task' = [task EXCEPT ![t] = [at |-> at, attempt |-> attempt]],
         at = "delay" => attempt < Engine!MaxAttempts, at = "cancelled" => aborted,
         UNCHANGED <<dependencies, continueOnFailure, levels, level, results, aborted, outcome>>
  PROVE  EngineInv'
<1>1. /\ task'[t].at = at /\ task'[t].attempt = attempt
      /\ \A x \in Tasks \ {t} : task'[x] = task[x]
  BY DEF EngineInv, EngineTyped
<1>2. Engine!Planned' = Engine!Planned /\ Engine!LevelCount' = Engine!LevelCount /\ NumTasks' = NumTasks
  BY SamePlan DEF NumTasks
<1>3. EngineTyped'
  BY <1>1 DEF EngineInv, EngineTyped, Dependencies
<1>4. PlanMade'
  BY <1>2 DEF EngineInv, PlanMade
<1>5. Reached'
  BY <1>1, <1>2 DEF EngineInv, Reached, Engine!Settled
<1>6. t \notin DOMAIN results /\ DOMAIN results \subseteq Tasks
  <2>1. t \notin DOMAIN results
    BY DEF EngineInv, Stored, Engine!Settled
  <2>2. DOMAIN results \subseteq Tasks
    BY Standing DEF EngineInv, Stored
  <2> QED
    BY <2>1, <2>2
<1>7. Stored'
  BY <1>1, <1>2, <1>6 DEF EngineInv, Stored
<1>8. Noticed'
  BY <1>1 DEF EngineInv, Noticed
<1>9. Engine!DependenciesFirst'
  <2> SUFFICES ASSUME NEW x \in Tasks, task'[x].at # "waiting", NEW d \in dependencies[x]
               PROVE  /\ task'[d].at \in Engine!Settled
                      /\ ~continueOnFailure => task'[d].at = "completed"
    BY DEF Engine!DependenciesFirst, Engine!Settled
  <2>1. task[x].at # "waiting"
    BY <1>1
  <2>2. task[d].at \in Engine!Settled /\ (~continueOnFailure => task[d].at = "completed")
    BY <2>1 DEF EngineInv, Engine!DependenciesFirst
  <2>3. d # t /\ d \in Tasks
    BY <2>2 DEF Engine!Settled, EngineInv, EngineTyped, Dependencies
  <2> QED
    BY <1>1, <2>2, <2>3
<1> QED
  BY <1>3, <1>4, <1>5, <1>7, <1>8, <1>9 DEF EngineInv

LEMMA TaskKeeps ==
  ASSUME Engine!TasksAssumption, Engine!RetryAssumption, EngineInv,
         NEW t \in Tasks, Engine!Succeed(t) \/ Engine!Fail(t) \/ Engine!Retry(t)
  PROVE  EngineInv'
<1>1. /\ UNCHANGED <<dependencies, continueOnFailure, levels, level, results, aborted, outcome>>
      /\ task[t].at \in {"running", "delay"}
  BY DEF Engine!Succeed, Engine!Fail, Engine!Retry, Engine!settings
<1>2. PICK a \in 0..Engine!MaxAttempts : a = task[t].attempt
  BY DEF EngineInv, EngineTyped
<1>3. Engine!MaxAttempts \in Nat
  BY DEF Engine!MaxAttempts, Engine!RetryAssumption
<1>4. /\ task \in [Tasks -> [at : {"waiting", "running", "delay"} \cup Engine!Settled, attempt : 0..Engine!MaxAttempts]]
      /\ task[t] = [at |-> task[t].at, attempt |-> a]
  BY <1>2 DEF EngineInv, EngineTyped
<1> DEFINE Now(at) == [at |-> at, attempt |-> a]
<1>5. \A at : [task EXCEPT ![t].at = at] = [task EXCEPT ![t] = Now(at)]
  <2> SUFFICES ASSUME NEW at PROVE [task[t] EXCEPT !.at = at] = Now(at)
    OBVIOUS
  <2> QED
    BY <1>4
<1>6. CASE Engine!Succeed(t)
  <2>1. task' = [task EXCEPT ![t] = [at |-> "completed", attempt |-> a]]
    BY <1>6, <1>5 DEF Engine!Succeed
  <2>2. "completed" \in {"running", "delay"} \cup Engine!Settled
    BY DEF Engine!Settled
  <2> QED
    BY <1>1, <2>1, <2>2, TaskGoesOn
<1>7. CASE Engine!Fail(t)
  <2> DEFINE at == Engine!AfterFailure(a)
  <2>1. task' = [task EXCEPT ![t] = [at |-> at, attempt |-> a]]
    BY <1>2, <1>7, <1>5 DEF Engine!Fail
  <2>2. at \in {"running", "delay"} \cup Engine!Settled /\ (at = "delay" => a < Engine!MaxAttempts) /\ at # "cancelled"
    BY DEF Engine!Settled, Engine!AfterFailure
  <2> HIDE DEF at
  <2> QED
    BY <1>1, <2>1, <2>2, TaskGoesOn
<1>8. CASE Engine!Retry(t)
  <2> DEFINE at == IF aborted THEN "cancelled" ELSE "running"
  <2>1. task' = [task EXCEPT ![t] = [at |-> at, attempt |-> a + 1]] /\ task[t].at = "delay"
    BY <1>2, <1>4, <1>8 DEF Engine!Retry
  <2>2. a + 1 \in 0..Engine!MaxAttempts
    BY <1>2, <1>3, <2>1 DEF EngineInv, EngineTyped
  <2>3. at \in {"running", "delay"} \cup Engine!Settled /\ at # "delay" /\ (at = "cancelled" => aborted)
    BY DEF Engine!Settled
  <2> HIDE DEF at
  <2> QED
    BY <1>1, <2>1, <2>2, <2>3, TaskGoesOn
<1> QED
  BY <1>6, <1>7, <1>8

LEMMA ResolveKeeps ==
  ASSUME Engine!TasksAssumption, EngineInv, Engine!Resolve
  PROVE  EngineInv'
<1>1. /\ UNCHANGED <<dependencies, continueOnFailure, level, task, results, aborted>>
      /\ outcome = "none" /\ level = 0 /\ levels = <<>>
  BY DEF Engine!Resolve, Engine!settings
<1>2. Engine!Planned' = Engine!Planned /\ Engine!LevelCount' = Engine!LevelCount /\ NumTasks' = NumTasks
  BY <1>1, SamePlan DEF NumTasks
<1>3. Engine!Planned[level] = {} /\ DOMAIN results = {}
  BY <1>1, Standing DEF EngineInv, Stored
<1>4. outcome' \in {"none", "invalid", "completed"} /\ (outcome' = "completed" => Tasks = {})
  BY <1>1 DEF Engine!Resolve
<1>5. PlanMade'
  <2>1. CASE Engine!Planned[NumTasks] # Tasks
    <3>1. levels' = levels
      BY <2>1, Counted DEF Engine!Resolve, NumTasks
    <3> QED
      BY <1>1, <3>1 DEF EngineInv, PlanMade
  <2>2. CASE Engine!Planned[NumTasks] = Tasks
    <3>1. levels' = [n \in 1..Engine!LevelCount |-> Engine!Planned[n] \ Engine!Planned[n - 1]]
      BY <2>2, Counted DEF Engine!Resolve, NumTasks
    <3>2. Engine!LevelCount \in 0..NumTasks /\ NumTasks \in Nat
      BY LevelsCounted, NumTasksNatural DEF EngineInv, EngineTyped
    <3>3. \A n \in 1..Engine!LevelCount : Engine!Planned[n] \subseteq Tasks
      BY <3>2, LevelsGrow DEF EngineInv, EngineTyped
    <3>4. levels' \in Seq(SUBSET Tasks) /\ Len(levels') = Engine!LevelCount
      BY <3>1, <3>2, <3>3
    <3> QED
      BY <1>1, <1>2, <2>2, <3>1, <3>2, <3>4 DEF PlanMade
  <2> QED
    BY <2>1, <2>2
<1>6. EngineTyped' /\ Reached'
  BY <1>1, <1>2, <1>4 DEF EngineInv, EngineTyped, Dependencies, Reached
<1>7. Stored' /\ Noticed'
  BY <1>1, <1>2, <1>3, <1>4 DEF EngineInv, Stored, Noticed
<1>8. Engine!DependenciesFirst'
  BY <1>1 DEF EngineInv, Engine!DependenciesFirst
<1> QED
  BY <1>5, <1>6, <1>7, <1>8 DEF EngineInv

LEMMA StartLevelKeeps ==
  ASSUME Engine!TasksAssumption, Engine!RetryAssumption, EngineInv, Engine!StartLevel
  PROVE  EngineInv'
<1>1. /\ UNCHANGED <<dependencies, continueOnFailure, levels, results, aborted>>
      /\ outcome = "none" /\ level < Len(levels) /\ (level > 0 => levels[level] \subseteq DOMAIN results)
  BY DEF Engine!StartLevel, Engine!settings
<1>2. Engine!Planned' = Engine!Planned /\ Engine!LevelCount' = Engine!LevelCount /\ NumTasks' = NumTasks
  BY <1>1, SamePlan DEF NumTasks
<1>3. DOMAIN results = Engine!Planned[level]
  BY <1>1, Standing DEF EngineInv, Stored
<1>4. CASE aborted
  <2>1. outcome' = "cancelled" /\ UNCHANGED <<level, task>>
    BY <1>4 DEF Engine!StartLevel
  <2>2. EngineTyped' /\ PlanMade' /\ Reached'
    BY <1>1, <1>2, <2>1 DEF EngineInv, EngineTyped, Dependencies, PlanMade, Reached
  <2>3. Stored' /\ Noticed' /\ Engine!DependenciesFirst'
    BY <1>1, <1>2, <1>3, <2>1 DEF EngineInv, Stored, Noticed, Engine!DependenciesFirst
  <2> QED
    BY <2>2, <2>3 DEF EngineInv
<1>5. CASE ~aborted
  <2> DEFINE next == levels[level + 1]
  <2>1. /\ level' = level + 1 /\ outcome' = outcome
        /\ task' = [t \in Tasks |-> IF t \in next THEN Engine!Begun[t] ELSE task[t]]
    BY <1>5 DEF Engine!StartLevel
  <2>2. \A t \in next : Engine!Begun[t] = [at |-> "running", attempt |-> 1]
    BY DEF Engine!Begun
  <2>3. /\ level \in Nat /\ Len(levels) = Engine!LevelCount /\ level + 1 \in 1..Engine!LevelCount
        /\ \A n \in 1..Engine!LevelCount : levels[n] = Engine!Planned[n] \ Engine!Planned[n - 1]
        /\ Engine!LevelCount \in 0..NumTasks /\ NumTasks \in Nat
    <3>1. level \in Nat /\ levels # <<>> /\ Len(levels) \in Nat
      BY <1>1 DEF EngineInv, PlanMade
    <3>2. Engine!LevelCount \in 0..NumTasks /\ NumTasks \in Nat
      BY LevelsCounted, NumTasksNatural DEF EngineInv, EngineTyped
    <3> QED
      BY <1>1, <3>1, <3>2 DEF EngineInv, PlanMade
  <2>4. (level + 1) - 1 = level /\ level + 1 \in 1..NumTasks
    BY <2>3
  <2>5. /\ next = Engine!Planned[level + 1] \ Engine!Planned[level]
        /\ Engine!Planned[level + 1] = Engine!Planned[level] \cup Engine!NextLevel(Engine!Planned[level])
    BY <2>3, <2>4, Leveled DEF EngineInv, EngineTyped
  <2>6. \A t \in next : t \in Tasks /\ dependencies[t] \subseteq Engine!Planned[level]
    BY <2>5 DEF Engine!NextLevel
  <2> HIDE DEF next
  <2>7. \A t \in Tasks : task'[t] = IF t \in next THEN [at |-> "running", attempt |-> 1] ELSE task[t]
    BY <2>1, <2>2
  <2>8. 1 \in 0..Engine!MaxAttempts
    BY DEF Engine!MaxAttempts, Engine!RetryAssumption
  <2>9. EngineTyped'
    <3>1. task' \in [Tasks -> [at : {"waiting", "running", "delay"} \cup Engine!Settled, attempt : 0..Engine!MaxAttempts]]
      BY <2>1, <2>2, <2>8 DEF EngineInv, EngineTyped
    <3> QED
      BY <1>1, <2>1, <2>7, <3>1 DEF EngineInv, EngineTyped, Dependencies
  <2>10. PlanMade'
    BY <1>1, <1>2, <2>1, <2>3 DEF EngineInv, PlanMade
  <2>11. Reached'
    BY <1>2, <2>1, <2>5, <2>7 DEF EngineInv, Reached
  <2>12. \A t \in Engine!Planned[level] : t \in Tasks /\ task'[t] = task[t]
    BY <2>5, <2>7, Standing
  <2>13. Stored'
    <3>1. level' > 0 /\ DOMAIN results' = (Engine!Planned[level - 1])'
      BY <1>1, <1>2, <1>3, <2>1, <2>3, <2>4
    <3>2. \A t \in DOMAIN results' : results'[t] = task'[t].at /\ task'[t].at \in Engine!Settled
      BY <1>1, <1>3, <2>12 DEF EngineInv, Stored
    <3> QED
      BY <1>1, <2>1, <3>1, <3>2 DEF Stored, Engine!Settled
  <2>14. Noticed'
    BY <1>1, <2>1, <2>7 DEF EngineInv, Noticed
  <2>15. Engine!DependenciesFirst'
    <3> SUFFICES ASSUME NEW t \in Tasks, task'[t].at # "waiting", NEW d \in dependencies[t]
                 PROVE  /\ task'[d].at \in Engine!Settled
                        /\ ~continueOnFailure => task'[d].at = "completed"
      BY <1>1 DEF Engine!DependenciesFirst, Engine!Settled
    <3>1. CASE t \in next
      <4>1. d \in DOMAIN results /\ task'[d] = task[d] /\ d \in Tasks
        BY <1>3, <2>6, <2>12, <3>1
      <4>2. task[d].at \in Engine!Settled /\ results[d] = task[d].at
        BY <4>1 DEF EngineInv, Stored
      <4>3. task[d].at # "cancelled" /\ (~continueOnFailure => results[d] # "failed")
        BY <1>1, <1>5, <4>1 DEF EngineInv, Noticed
      <4> QED
        BY <4>1, <4>2, <4>3 DEF Engine!Settled
    <3>2. CASE t \notin next
      <4>1. task[t].at # "waiting"
        BY <2>7, <3>2
      <4>2. task[d].at \in Engine!Settled /\ (~continueOnFailure => task[d].at = "completed")
        BY <4>1 DEF EngineInv, Engine!DependenciesFirst
      <4>3. d \in Tasks /\ d \in Engine!Planned[level]
        BY <4>2 DEF EngineInv, EngineTyped, Dependencies, Reached, Engine!Settled
      <4> QED
        BY <2>12, <4>2, <4>3
    <3> QED
      BY <3>1, <3>2
  <2> QED
    BY <2>9, <2>10, <2>11, <2>13, <2>14, <2>15 DEF EngineInv
<1> QED
  BY <1>4, <1>5

LEMMA EndLevelKeeps ==
  ASSUME Engine!TasksAssumption, EngineInv, Engine!EndLevel
  PROVE  EngineInv'
<1>1. /\ UNCHANGED <<dependencies, continueOnFailure, levels, level, task, aborted>>
      /\ outcome = "none" /\ level > 0 /\ ~(levels[level] \subseteq DOMAIN results)
      /\ \A t \in levels[level] : task[t].at \in Engine!Settled
      /\ results' = [t \in DOMAIN results \cup levels[level] |-> IF t \in levels[level] THEN task[t].at ELSE results[t]]
      /\ outcome' = Engine!AfterLevel
  BY DEF Engine!EndLevel, Engine!settings, Engine!AllSettled
<1>2. Engine!Planned' = Engine!Planned /\ Engine!LevelCount' = Engine!LevelCount /\ NumTasks' = NumTasks
  BY <1>1, SamePlan DEF NumTasks
<1>3. /\ levels[level] = Engine!Planned[level] \ Engine!Planned[level - 1] /\ Len(levels) = Engine!LevelCount
      /\ Engine!Planned[level - 1] \subseteq Engine!Planned[level]
  BY <1>1, Standing
<1>4. DOMAIN results = Engine!Planned[level - 1]
  BY <1>1, <1>3 DEF EngineInv, Stored
<1>5. DOMAIN results' = Engine!Planned[level]
      /\ \A t \in Engine!Planned[level] : results'[t] = IF t \in levels[level] THEN task[t].at ELSE results[t]
  BY <1>1, <1>3, <1>4
<1>6. outcome' \in {"none", "failed", "completed"} /\ (outcome' = "completed" => level = Len(levels))
      /\ (~continueOnFailure /\ outcome' # "failed" => \A t \in levels[level] : task[t].at # "failed")
  BY <1>1 DEF Engine!AfterLevel
<1>7. EngineTyped' /\ PlanMade' /\ Reached'
  BY <1>1, <1>2, <1>6 DEF EngineInv, EngineTyped, Dependencies, PlanMade, Reached
<1>8. Stored'
  <2>1. \A t \in DOMAIN results' : results'[t] = task[t].at /\ task[t].at \in Engine!Settled
    BY <1>1, <1>3, <1>4, <1>5 DEF EngineInv, Stored
  <2>2. outcome' = "completed" => Engine!Planned[level] = Tasks
    <3> SUFFICES ASSUME outcome' = "completed" PROVE Engine!Planned[level] = Tasks
      OBVIOUS
    <3>1. level = Engine!LevelCount /\ levels # <<>>
      BY <1>1, <1>3, <1>6 DEF EngineInv, PlanMade
    <3>2. Engine!Planned[NumTasks] = Tasks
      BY <3>1 DEF EngineInv, PlanMade
    <3> QED
      BY <3>1, <3>2, LevelsCounted DEF EngineInv, EngineTyped
  <2> QED
    BY <1>1, <1>2, <1>5, <2>1, <2>2 DEF Stored, Engine!Settled
<1>9. Noticed'
  <2>1. ~continueOnFailure /\ outcome' # "failed" => \A t \in DOMAIN results' : results'[t] # "failed"
    BY <1>1, <1>3, <1>4, <1>5, <1>6 DEF EngineInv, Noticed
  <2> QED
    BY <1>1, <2>1 DEF EngineInv, Noticed
<1>10. Engine!DependenciesFirst'
  BY <1>1 DEF EngineInv, Engine!DependenciesFirst
<1> QED
  BY <1>7, <1>8, <1>9, <1>10 DEF EngineInv

LEMMA EngineStep ==
  ASSUME Engine!TasksAssumption, Engine!RetryAssumption, EngineInv, [Engine!Next]_(Engine!vars)
  PROVE  EngineInv'
<1>1. CASE Engine!Abort \/ UNCHANGED Engine!vars
  <2>1. UNCHANGED <<dependencies, continueOnFailure, levels, level, task, results, outcome>> /\ aborted' \in {aborted, TRUE}
    BY <1>1 DEF Engine!Abort, Engine!vars, Engine!settings
  <2>2. Engine!Planned' = Engine!Planned /\ Engine!LevelCount' = Engine!LevelCount /\ NumTasks' = NumTasks
    BY <2>1, SamePlan DEF NumTasks
  <2>3. EngineTyped' /\ PlanMade' /\ Reached'
    BY <2>1, <2>2 DEF EngineInv, EngineTyped, Dependencies, PlanMade, Reached
  <2>4. Stored' /\ Engine!DependenciesFirst'
    BY <2>1, <2>2 DEF EngineInv, Stored, Engine!DependenciesFirst
  <2>5. aborted => aborted'
    BY <1>1 DEF Engine!Abort, Engine!vars
  <2>6. Noticed'
    BY <2>1, <2>5 DEF EngineInv, Noticed
  <2> QED
    BY <2>3, <2>4, <2>6 DEF EngineInv
<1> QED
  BY <1>1, TaskKeeps, ResolveKeeps, StartLevelKeeps, EndLevelKeeps DEF Engine!Next, Engine!Engine

\* What the invariant says of a plan.
LEMMA EngineImplies ==
  ASSUME Engine!TasksAssumption, EngineInv
  PROVE  Engine!TypeOK /\ Engine!DependenciesFirst /\ Engine!ReturnsWhole
<1>1. DOMAIN results \subseteq Tasks
  BY Standing DEF EngineInv, Stored
<1>2. Engine!TypeOK
  BY <1>1 DEF EngineInv, EngineTyped, Dependencies, PlanMade, Stored, Engine!TypeOK
<1>3. Engine!ReturnsWhole
  <2> SUFFICES ASSUME outcome # "none" PROVE
        /\ \A t \in Tasks : task[t].at \in {"waiting"} \cup Engine!Settled
        /\ outcome = "completed" =>
             /\ DOMAIN results = Tasks
             /\ \A t \in Tasks : \/ results[t] = "completed"
                                 \/ (results[t] = "failed" /\ continueOnFailure)
                                 \/ (results[t] = "cancelled" /\ aborted)
    BY DEF Engine!ReturnsWhole
  <2>1. DOMAIN results = Engine!Planned[level]
    BY DEF EngineInv, Stored
  <2>2. ASSUME NEW t \in Tasks PROVE task[t].at \in {"waiting"} \cup Engine!Settled
    BY <2>1 DEF EngineInv, Reached, Stored
  <2>3. ASSUME outcome = "completed", NEW t \in Tasks
        PROVE  \/ results[t] = "completed"
               \/ (results[t] = "failed" /\ continueOnFailure)
               \/ (results[t] = "cancelled" /\ aborted)
    <3>1. t \in DOMAIN results
      BY <2>1, <2>3 DEF EngineInv, Stored
    <3>2. results[t] = task[t].at /\ task[t].at \in Engine!Settled
      BY <3>1 DEF EngineInv, Stored
    <3>3. (results[t] = "failed" => continueOnFailure) /\ (task[t].at = "cancelled" => aborted)
      BY <2>3, <3>1 DEF EngineInv, Noticed, EngineTyped
    <3> QED
      BY <3>2, <3>3 DEF Engine!Settled
  <2>4. outcome = "completed" => DOMAIN results = Tasks
    BY <2>1 DEF EngineInv, Stored
  <2> QED
    BY <2>2, <2>3, <2>4
<1> QED
  BY <1>2, <1>3 DEF EngineInv

-----------------------------------------------------------------------------
(* The circuit breakers.                                                   *)
(* Every action changes one breaker and its history, or each on its own,   *)
(* so that the invariant is a conjunction over the agents (Sound) and each *)
(* action needs one lemma about a breaker and its history.                 *)

\* What is assumed of the constants of the breakers.
LEMMA Thresholds == FailureThreshold \in Nat \ {0} /\ SuccessThreshold \in Nat \ {0}
BY PartsAssumption DEF Breaker!ThresholdsAssumption

LEMMA Times == Timeout \in Nat \ {0} /\ Window \in Nat
BY PartsAssumption DEF Breaker!TimesAssumption

LEMMA NoBreaker == None \notin Nat /\ None \notin Breaker!Breaker
BY PartsAssumption DEF Breaker!NoneAssumption

LEMMA Uses == Environments \subseteq Breaker!Environment
BY PartsAssumption DEF Breaker!EnvironmentsAssumption

\* Without operators an open circuit was opened by its last failure, or the
\* timeout has passed, and its timer is not early; while it is half-open its
\* successes are those of the history.
Awaited(b, h) ==
  /\ b.state = "open" =>
       /\ b.lastFailure # None
       /\ b.lastFailure <= h.open \/ h.open = Timeout
       /\ b.timer = None \/ b.timer + h.open >= Timeout
  /\ b.state = "half-open" => b.successes = h.trials

\* The window of a breaker has at least the failures since it was closed.
CountedIn(b, h) == \A k \in Breaker!Ranks : b.failures[k] <= h.failures[k]

SoundBreaker(b, h) ==
  /\ b \in Breaker!Breaker
  /\ b.state = "closed" => b.timer = None /\ ~Breaker!TooMany(h.failures)
  /\ CountedIn(b, h)
  /\ ~environment.autoRecovery => b.timer = None
  /\ ~environment.manual => Awaited(b, h)

Sound(b, h) ==
  /\ h \in Breaker!Since
  /\ \/ b = None /\ h.failures = Breaker!NoFailures
     \/ SoundBreaker(b, h)

BreakerInv ==
  /\ environment \in Environments
  /\ breaker \in [Guarded -> Breaker!Breaker \cup {None}] /\ since \in [Guarded -> Breaker!Since]
  /\ \A a \in Guarded : Sound(breaker[a], since[a])

\* What a step may do to a breaker with history h.
Step(b, h, after) ==
  ~environment.manual /\ b # None /\ after # None =>
    /\ b.state = "open" /\ after.state = "half-open" => h.open >= Timeout
    /\ b.state = "half-open" /\ after.state = "closed" => h.trials + 1 >= SuccessThreshold

-----------------------------------------------------------------------------
(* The ages of failures.                                                   *)

LEMMA AgesPast == Breaker!NoFailures \in Breaker!Ages /\ ~Breaker!TooMany(Breaker!NoFailures)
BY Thresholds, Times DEF Breaker!NoFailures, Breaker!Ages, Breaker!Ranks, Breaker!Past, Breaker!TooMany

LEMMA AgesPush ==
  ASSUME NEW ages \in Breaker!Ages
  PROVE  Breaker!Push(ages) \in Breaker!Ages
BY Thresholds, Times DEF Breaker!Ages, Breaker!Ranks, Breaker!Past, Breaker!Push

LEMMA AgesOlder ==
  ASSUME NEW ages \in Breaker!Ages
  PROVE  /\ Breaker!Older(ages) \in Breaker!Ages
         /\ ~Breaker!TooMany(ages) => ~Breaker!TooMany(Breaker!Older(ages))
BY Thresholds, Times DEF Breaker!Ages, Breaker!Ranks, Breaker!Past, Breaker!Older, Breaker!UpTo, Breaker!TooMany

LEMMA AgesOrder ==
  ASSUME NEW x \in Breaker!Ages, NEW y \in Breaker!Ages, \A k \in Breaker!Ranks : x[k] <= y[k]
  PROVE  /\ \A k \in Breaker!Ranks : Breaker!Push(x)[k] <= Breaker!Push(y)[k]
         /\ \A k \in Breaker!Ranks : Breaker!Older(x)[k] <= Breaker!Older(y)[k]
         /\ \A k \in Breaker!Ranks : x[k] <= Breaker!NoFailures[k]
         /\ Breaker!TooMany(y) => Breaker!TooMany(x)
BY Thresholds, Times
DEF Breaker!Ages, Breaker!Ranks, Breaker!Past, Breaker!Push, Breaker!Older, Breaker!UpTo, Breaker!NoFailures, Breaker!TooMany

LEMMA NewIsSound ==
  /\ Breaker!NewBreaker \in Breaker!Breaker /\ Breaker!NewSince \in Breaker!Since
  /\ SoundBreaker(Breaker!NewBreaker, Breaker!NewSince)
  /\ Sound(None, Breaker!NewSince)
<1>1. Breaker!NewBreaker \in Breaker!Breaker /\ Breaker!NewSince \in Breaker!Since
  BY AgesPast, Thresholds, Times
  DEF Breaker!NewBreaker, Breaker!NewSince, Breaker!Breaker, Breaker!Since, Breaker!States
<1>2. CountedIn(Breaker!NewBreaker, Breaker!NewSince)
  BY Times DEF CountedIn, Breaker!NewBreaker, Breaker!NewSince, Breaker!NoFailures, Breaker!Past
<1>3. SoundBreaker(Breaker!NewBreaker, Breaker!NewSince)
  BY <1>1, <1>2, AgesPast DEF SoundBreaker, Awaited, Breaker!NewBreaker, Breaker!NewSince
<1> QED
  BY <1>1, <1>3 DEF Sound, Breaker!NewSince

-----------------------------------------------------------------------------
(* A breaker becomes another one.                                          *)

\* The history after b became `after`, when h already has the result noted.
LEMMA HistoryTyped ==
  ASSUME NEW h \in Breaker!Since, NEW from, NEW to
  PROVE  Breaker!Noted(h, from, to) \in Breaker!Since
BY AgesPast, Thresholds, Times DEF Breaker!Since, Breaker!Noted

LEMMA Scheduled ==
  ASSUME NEW b \in Breaker!Breaker
  PROVE  LET after == Breaker!ScheduleReset(b) IN
         /\ after \in Breaker!Breaker
         /\ after.state = b.state /\ after.failures = b.failures
         /\ after.lastFailure = b.lastFailure /\ after.successes = b.successes
         /\ after.timer = IF environment.autoRecovery THEN Timeout ELSE b.timer
<1>1. CASE environment.autoRecovery
  <2> Breaker!ScheduleReset(b) = [b EXCEPT !.timer = Timeout]
    BY <1>1 DEF Breaker!ScheduleReset
  <2> QED
    BY <1>1, Times DEF Breaker!Breaker
<1>2. CASE ~environment.autoRecovery
  <2> Breaker!ScheduleReset(b) = [b EXCEPT !.timer = b.timer]
    BY <1>2 DEF Breaker!ScheduleReset
  <2> QED
    BY <1>2 DEF Breaker!Breaker
<1> QED
  BY <1>1, <1>2

LEMMA Opened ==
  ASSUME environment \in Environments,
         NEW b \in Breaker!Breaker, NEW h \in Breaker!Since, CountedIn(b, h), b.state # "open",
         ~environment.autoRecovery => b.timer = None,
         environment.manual \/ b.lastFailure = 0
  PROVE  LET after == Breaker!OpenCircuit(b) IN
         /\ after.state = "open"
         /\ Sound(after, Breaker!Noted(h, b.state, "open"))
<1> DEFINE after == Breaker!OpenCircuit(b)  new == Breaker!Noted(h, b.state, "open")
<1>1. new \in Breaker!Since /\ new.open = 0 /\ new.failures = h.failures
  BY HistoryTyped, Times DEF Breaker!Noted, Breaker!Since
<1>2. [b EXCEPT !.state = "open"] \in Breaker!Breaker
  BY DEF Breaker!Breaker, Breaker!States
<1>3. /\ after \in Breaker!Breaker /\ after.state = "open" /\ after.failures = b.failures
      /\ after.lastFailure = b.lastFailure /\ after.successes = b.successes
      /\ after.timer = IF environment.autoRecovery THEN Timeout ELSE b.timer
  BY <1>2, Scheduled DEF Breaker!OpenCircuit, Breaker!Breaker
<1>4. CountedIn(after, new)
  BY <1>1, <1>3 DEF CountedIn
<1>5. after.timer = None \/ after.timer = Timeout
  BY <1>3
<1>6. ~environment.manual => Awaited(after, new)
  BY <1>1, <1>3, <1>5, Times, NoBreaker DEF Awaited
<1> QED
  BY <1>1, <1>3, <1>4, <1>6 DEF Sound, SoundBreaker
LEMMA Closed ==
  ASSUME NEW b \in Breaker!Breaker, NEW h \in Breaker!Since, CountedIn(b, h), b.state # "closed"
  PROVE  LET after == Breaker!CloseCircuit(b) IN
         /\ after.state = "closed"
         /\ Sound(after, Breaker!Noted(h, b.state, "closed"))
<1> DEFINE after == Breaker!CloseCircuit(b)  new == Breaker!Noted(h, b.state, "closed")
<1>1. new \in Breaker!Since /\ new.failures = Breaker!NoFailures
  BY HistoryTyped, AgesPast DEF Breaker!Noted, Breaker!Since
<1>2. after \in Breaker!Breaker
  <2> DEFINE x == [b EXCEPT !.state = "closed"]  y == [x EXCEPT !.successes = 0]
  <2>1. x \in Breaker!Breaker
    BY DEF Breaker!Breaker, Breaker!States
  <2>2. after = [y EXCEPT !.timer = None]
    BY DEF Breaker!CloseCircuit
  <2> HIDE DEF x
  <2>3. y \in Breaker!Breaker
    BY <2>1, Thresholds DEF Breaker!Breaker
  <2> HIDE DEF y
  <2> QED
    BY <2>2, <2>3 DEF Breaker!Breaker
<1> /\ after.state = "closed" /\ after.timer = None /\ after.failures = b.failures
  BY DEF Breaker!CloseCircuit, Breaker!Breaker
<1>3. CountedIn(after, new)
  BY <1>1, <1>2, AgesOrder DEF CountedIn, Breaker!Breaker, Breaker!Since
<1> QED
  BY <1>1, <1>2, <1>3, AgesPast DEF Sound, SoundBreaker, Awaited

LEMMA HalfOpened ==
  ASSUME NEW b, NEW h \in Breaker!Since, SoundBreaker(b, h),
         ~environment.manual /\ b.state = "open" => h.open >= Timeout
  PROVE  LET after == Breaker!TransitionToHalfOpen(b) IN
         /\ Sound(after, Breaker!Noted(h, b.state, after.state))
         /\ Step(b, h, after)
<1> DEFINE after == Breaker!TransitionToHalfOpen(b)  new == Breaker!Noted(h, b.state, after.state)
<1>1. CASE b.state # "open"
  <2>1. after = b /\ new = h
    BY <1>1 DEF Breaker!TransitionToHalfOpen, Breaker!Noted
  <2> QED
    BY <1>1, <2>1 DEF Sound, Step
<1>2. CASE b.state = "open"
  <2> DEFINE x == [b EXCEPT !.state = "half-open"]
  <2> x \in Breaker!Breaker
    BY DEF SoundBreaker, Breaker!Breaker, Breaker!States
  <2> after = [x EXCEPT !.successes = 0]
    BY <1>2 DEF Breaker!TransitionToHalfOpen
  <2>1. /\ after.state = "half-open" /\ after.successes = 0
        /\ after.failures = b.failures /\ after.timer = b.timer
    BY DEF SoundBreaker, Breaker!Breaker
  <2> HIDE DEF x, after
  <2> after \in Breaker!Breaker
    BY Thresholds DEF Breaker!Breaker
  <2>2. new \in Breaker!Since /\ new.trials = 0 /\ new.failures = h.failures
    BY <1>2, <2>1, HistoryTyped, Thresholds DEF Breaker!Noted, Breaker!Since
  <2>3. SoundBreaker(after, new)
    BY <2>1, <2>2 DEF SoundBreaker, Awaited, CountedIn
  <2> QED
    BY <1>2, <2>1, <2>2, <2>3 DEF Sound, Step, after
<1> QED
  BY <1>1, <1>2

-----------------------------------------------------------------------------
(* What the actions make of a breaker.                                     *)

\* A query of the state may find the timeout elapsed since the last failure.
LEMMA Checked ==
  ASSUME NEW b, NEW h \in Breaker!Since, SoundBreaker(b, h)
  PROVE  LET after == Breaker!CheckAndTransitionHalfOpen(b) IN
         /\ Sound(after, Breaker!Noted(h, b.state, after.state))
         /\ Step(b, h, after)
<1>1. CASE b.lastFailure # None /\ b.lastFailure > Timeout
  <2>1. ~environment.manual /\ b.state = "open" => h.open >= Timeout
    BY <1>1, Times DEF SoundBreaker, Awaited, Breaker!Breaker, Breaker!Since
  <2> QED
    BY <1>1, <2>1, HalfOpened DEF Breaker!CheckAndTransitionHalfOpen
<1>2. CASE ~(b.lastFailure # None /\ b.lastFailure > Timeout)
  <2>1. Breaker!CheckAndTransitionHalfOpen(b) = b
    BY <1>2 DEF Breaker!CheckAndTransitionHalfOpen
  <2>2. Breaker!Noted(h, b.state, b.state) = h
    BY DEF Breaker!Noted
  <2> QED
    BY <2>1, <2>2 DEF Sound, Step
<1> QED
  BY <1>1, <1>2

\* The timer of an open circuit is due only after the timeout.
LEMMA Fired ==
  ASSUME NEW b, NEW h \in Breaker!Since, SoundBreaker(b, h), b.timer = 0
  PROVE  LET after == Breaker!TransitionToHalfOpen([b EXCEPT !.timer = None]) IN
         /\ Sound(after, Breaker!Noted(h, b.state, after.state))
         /\ Step(b, h, after)
<1> DEFINE o == [b EXCEPT !.timer = None]
<1>1. /\ o \in Breaker!Breaker /\ o.state = b.state /\ o.failures = b.failures
      /\ o.timer = None /\ o.successes = b.successes /\ o.lastFailure = b.lastFailure
  BY DEF SoundBreaker, Breaker!Breaker
<1>2. SoundBreaker(o, h)
  BY <1>1 DEF SoundBreaker, CountedIn, Awaited
<1>3. ~environment.manual /\ o.state = "open" => h.open >= Timeout
  BY <1>1, Times, NoBreaker DEF SoundBreaker, Awaited, Breaker!Since
<1> HIDE DEF o
<1>4. LET after == Breaker!TransitionToHalfOpen(o) IN
      Sound(after, Breaker!Noted(h, o.state, after.state)) /\ Step(o, h, after)
  BY <1>2, <1>3, HalfOpened
<1>5. b # None /\ o # None
  BY <1>1, NoBreaker DEF SoundBreaker
<1> QED
  BY <1>1, <1>4, <1>5 DEF o, Step
\* recordSuccess: the successes of a half-open circuit are those of the history.
LEMMA Succeeded ==
  ASSUME NEW b, NEW h \in Breaker!Since, SoundBreaker(b, h), environment \in Environments
  PROVE  LET one == [b EXCEPT !.successes = Breaker!UpTo(SuccessThreshold, @ + 1)]
             noted == [h EXCEPT !.trials = Breaker!UpTo(SuccessThreshold, @ + 1)]
             after == IF one.state = "half-open" /\ one.successes >= SuccessThreshold
                      THEN Breaker!CloseCircuit(one) ELSE one
         IN Sound(after, Breaker!Noted(noted, one.state, after.state)) /\ Step(b, h, after)
<1> DEFINE one == [b EXCEPT !.successes = Breaker!UpTo(SuccessThreshold, @ + 1)]
           noted == [h EXCEPT !.trials = Breaker!UpTo(SuccessThreshold, @ + 1)]
           after == IF one.state = "half-open" /\ one.successes >= SuccessThreshold
                    THEN Breaker!CloseCircuit(one) ELSE one
<1>1. /\ one \in Breaker!Breaker
      /\ one.state = b.state /\ one.failures = b.failures
      /\ one.timer = b.timer /\ one.lastFailure = b.lastFailure
      /\ one.successes = Breaker!UpTo(SuccessThreshold, b.successes + 1)
  BY Thresholds DEF SoundBreaker, Breaker!Breaker, Breaker!UpTo
<1>2. /\ noted \in Breaker!Since
      /\ noted.open = h.open /\ noted.failures = h.failures
      /\ noted.trials = Breaker!UpTo(SuccessThreshold, h.trials + 1)
  BY Thresholds DEF Breaker!Since, Breaker!UpTo
<1>3. SoundBreaker(one, noted)
  BY <1>1, <1>2 DEF SoundBreaker, CountedIn, Awaited
<1>4. one.successes >= SuccessThreshold => b.successes + 1 >= SuccessThreshold
  BY <1>1, Thresholds DEF Breaker!UpTo, SoundBreaker, Breaker!Breaker
<1> HIDE DEF one, noted
<1>5. CASE one.state = "half-open" /\ one.successes >= SuccessThreshold
  <2>1. Sound(after, Breaker!Noted(noted, one.state, after.state)) /\ after.state = "closed"
    BY <1>2, <1>3, <1>5, Closed DEF SoundBreaker
  <2>2. Step(b, h, after)
    BY <1>1, <1>4, <1>5, <2>1 DEF Step, SoundBreaker, Awaited
  <2> QED
    BY <2>1, <2>2 DEF one, noted
<1>6. CASE ~(one.state = "half-open" /\ one.successes >= SuccessThreshold)
  <2>1. after = one /\ Breaker!Noted(noted, one.state, one.state) = noted
    BY <1>6 DEF Breaker!Noted
  <2>2. Step(b, h, after)
    BY <1>1, <2>1 DEF Step
  <2> QED
    BY <1>2, <1>3, <2>1, <2>2 DEF Sound, one, noted
<1> QED
  BY <1>5, <1>6

\* recordFailure: a closed circuit that sees too many failures is opened.
LEMMA Failed ==
  ASSUME NEW b, NEW h \in Breaker!Since, SoundBreaker(b, h), environment \in Environments
  PROVE  LET one == [b EXCEPT !.failures = Breaker!Push(@), !.successes = 0, !.lastFailure = 0]
             noted == [h EXCEPT !.failures = Breaker!Push(@), !.trials = 0]
             after == IF Breaker!MustOpen(b, one) THEN Breaker!OpenCircuit(one) ELSE one
         IN Sound(after, Breaker!Noted(noted, one.state, after.state)) /\ Step(b, h, after)
<1> DEFINE one == [b EXCEPT !.failures = Breaker!Push(@), !.successes = 0, !.lastFailure = 0]
           noted == [h EXCEPT !.failures = Breaker!Push(@), !.trials = 0]
           after == IF Breaker!MustOpen(b, one) THEN Breaker!OpenCircuit(one) ELSE one
<1>1. /\ one.state = b.state /\ one.failures = Breaker!Push(b.failures)
      /\ one.timer = b.timer /\ one.lastFailure = 0 /\ one.successes = 0
  BY DEF SoundBreaker, Breaker!Breaker
<1>2. one \in Breaker!Breaker
  <2> DEFINE x == [b EXCEPT !.failures = Breaker!Push(b.failures)]  y == [x EXCEPT !.successes = 0]
  <2>1. x \in Breaker!Breaker
    BY AgesPush DEF SoundBreaker, Breaker!Breaker
  <2>2. one = [y EXCEPT !.lastFailure = 0]
    OBVIOUS
  <2> HIDE DEF x
  <2>3. y \in Breaker!Breaker
    BY <2>1, Thresholds DEF Breaker!Breaker
  <2>4. 0 \in 0..(Timeout + 1)
    BY Times
  <2> HIDE DEF y, one
  <2> QED
    BY <2>2, <2>3, <2>4 DEF Breaker!Breaker
<1>3. noted \in Breaker!Since
  <2> DEFINE x == [h EXCEPT !.failures = Breaker!Push(h.failures)]
  <2>1. x \in Breaker!Since
    BY AgesPush DEF Breaker!Since
  <2>2. noted = [x EXCEPT !.trials = 0]
    OBVIOUS
  <2> HIDE DEF x
  <2> QED
    BY <2>1, <2>2, Thresholds DEF Breaker!Since
<1>4. noted.open = h.open /\ noted.failures = Breaker!Push(h.failures) /\ noted.trials = 0
  BY DEF Breaker!Since
<1>5. CountedIn(one, noted)
  BY <1>1, <1>4, AgesOrder DEF SoundBreaker, CountedIn, Breaker!Breaker, Breaker!Since
<1>6. ~environment.autoRecovery => one.timer = None
  BY <1>1 DEF SoundBreaker
<1> HIDE DEF one, noted
<1>7. CASE Breaker!MustOpen(b, one)
  <2>1. after = Breaker!OpenCircuit(one) /\ one.state # "open"
    BY <1>7 DEF Breaker!MustOpen
  <2>2. Sound(after, Breaker!Noted(noted, one.state, after.state)) /\ after.state = "open"
    BY <1>1, <1>2, <1>3, <1>5, <1>6, <2>1, Opened
  <2>3. Step(b, h, after)
    BY <2>2 DEF Step
  <2> QED
    BY <2>2, <2>3 DEF one, noted
<1>8. CASE ~Breaker!MustOpen(b, one)
  <2>1. after = one /\ Breaker!Noted(noted, one.state, one.state) = noted
    BY <1>8 DEF Breaker!Noted
  <2>2. one.state # "half-open" /\ (one.state = "closed" => ~Breaker!TooMany(noted.failures))
    BY <1>2, <1>3, <1>5, <1>8, AgesOrder DEF Breaker!MustOpen, CountedIn, Breaker!Breaker, Breaker!Since
  <2>3. ASSUME ~environment.manual PROVE Awaited(one, noted)
    <3>1. 0 <= h.open /\ 0 # None
      BY Times, NoBreaker DEF Breaker!Since
    <3>2. b.state = "open" => b.timer = None \/ b.timer + h.open >= Timeout
      BY <2>3 DEF SoundBreaker, Awaited
    <3> QED
      BY <1>1, <1>4, <2>2, <3>1, <3>2 DEF Awaited
  <2>4. SoundBreaker(one, noted)
    BY <1>1, <1>2, <1>5, <1>6, <2>2, <2>3 DEF SoundBreaker
  <2>5. Step(b, h, after)
    BY <1>1, <2>1 DEF Step
  <2> QED
    BY <1>3, <2>1, <2>4, <2>5 DEF Sound, one, noted
<1> QED
  BY <1>7, <1>8
\* A tick: the failures of both records grow older alike.
LEMMA Aged ==
  ASSUME NEW b, NEW h \in Breaker!Since, SoundBreaker(b, h)
  PROVE  LET noted == [h EXCEPT !.open = Breaker!UpTo(Timeout, @ + 1), !.failures = Breaker!Older(@)] IN
         Sound(Breaker!Later(b), noted) /\ Step(b, h, Breaker!Later(b))
<1> DEFINE noted == [h EXCEPT !.open = Breaker!UpTo(Timeout, @ + 1), !.failures = Breaker!Older(@)]
           after == Breaker!Later(b)
           last == IF b.lastFailure = None THEN None ELSE Breaker!UpTo(Timeout + 1, b.lastFailure + 1)
           left == IF b.timer = None \/ b.timer = 0 THEN b.timer ELSE b.timer - 1
<1>1. /\ after.state = b.state /\ after.failures = Breaker!Older(b.failures)
      /\ after.lastFailure = last /\ after.timer = left /\ after.successes = b.successes
  BY DEF Breaker!Later, SoundBreaker, Breaker!Breaker
<1>2. last \in 0..(Timeout + 1) \cup {None} /\ left \in 0..Timeout \cup {None}
  BY Times, NoBreaker DEF SoundBreaker, Breaker!Breaker, Breaker!UpTo
<1>3. after \in Breaker!Breaker
  <2> DEFINE x == [b EXCEPT !.failures = Breaker!Older(b.failures)]  y == [x EXCEPT !.lastFailure = last]
  <2>1. x \in Breaker!Breaker
    BY AgesOlder DEF SoundBreaker, Breaker!Breaker
  <2>2. after = [y EXCEPT !.timer = left]
    BY DEF Breaker!Later
  <2> HIDE DEF x, last, left
  <2>3. y \in Breaker!Breaker
    BY <1>2, <2>1 DEF Breaker!Breaker
  <2> HIDE DEF y, after
  <2> QED
    BY <1>2, <2>2, <2>3 DEF Breaker!Breaker
<1>4. /\ noted \in Breaker!Since
      /\ noted.open = Breaker!UpTo(Timeout, h.open + 1) /\ noted.failures = Breaker!Older(h.failures)
      /\ noted.trials = h.trials
  <2> DEFINE x == [h EXCEPT !.failures = Breaker!Older(h.failures)]
  <2>1. x \in Breaker!Since
    BY AgesOlder DEF Breaker!Since
  <2>2. noted = [x EXCEPT !.open = Breaker!UpTo(Timeout, h.open + 1)]
    OBVIOUS
  <2>3. Breaker!UpTo(Timeout, h.open + 1) \in 0..Timeout
    BY Times DEF Breaker!Since, Breaker!UpTo
  <2>4. noted.open = Breaker!UpTo(Timeout, h.open + 1) /\ noted.failures = Breaker!Older(h.failures)
        /\ noted.trials = h.trials
    BY DEF Breaker!Since
  <2> HIDE DEF x, noted
  <2> QED
    BY <2>1, <2>2, <2>3, <2>4 DEF Breaker!Since
<1>5. CountedIn(after, noted)
  BY <1>1, <1>4, AgesOrder DEF SoundBreaker, CountedIn, Breaker!Breaker, Breaker!Since
<1>6. after.state = "closed" => after.timer = None /\ ~Breaker!TooMany(noted.failures)
  BY <1>1, <1>4, AgesOlder DEF SoundBreaker, Breaker!Since
<1>7. ASSUME ~environment.manual, b.state = "open"
      PROVE  /\ after.lastFailure # None
             /\ after.lastFailure <= noted.open \/ noted.open = Timeout
             /\ after.timer = None \/ after.timer + noted.open >= Timeout
  BY <1>1, <1>4, <1>7, Times, NoBreaker
  DEF SoundBreaker, Awaited, Breaker!Breaker, Breaker!Since, Breaker!UpTo
<1>8. ~environment.manual => Awaited(after, noted)
  BY <1>1, <1>4, <1>7 DEF SoundBreaker, Awaited
<1>9. ~environment.autoRecovery => after.timer = None
  BY <1>1 DEF SoundBreaker
<1>10. SoundBreaker(after, noted)
  BY <1>3, <1>5, <1>6, <1>8, <1>9 DEF SoundBreaker
<1>11. Step(b, h, after)
  BY <1>1 DEF Step
<1> QED
  BY <1>4, <1>10, <1>11 DEF Sound

-----------------------------------------------------------------------------
(* The steps.                                                              *)

Stepped ==
  /\ environment' = environment
  /\ breaker' \in [Guarded -> Breaker!Breaker \cup {None}] /\ since' \in [Guarded -> Breaker!Since]
  /\ \A a \in Guarded : Sound(breaker'[a], since'[a]) /\ Step(breaker[a], since[a], breaker'[a])

LEMMA Became ==
  ASSUME BreakerInv, NEW a \in Guarded, NEW b, NEW h, Breaker!Become(a, b, h),
         Sound(b, h), Step(breaker[a], since[a], b)
  PROVE  Stepped
<1>1. b \in Breaker!Breaker \cup {None} /\ h \in Breaker!Since
  BY DEF Sound, SoundBreaker
<1>2. /\ breaker' \in [Guarded -> Breaker!Breaker \cup {None}] /\ since' \in [Guarded -> Breaker!Since]
      /\ environment' = environment
  BY <1>1 DEF BreakerInv, Breaker!Become
<1>3. ASSUME NEW c \in Guarded
      PROVE  Sound(breaker'[c], since'[c]) /\ Step(breaker[c], since[c], breaker'[c])
  <2>1. CASE c = a
    BY <2>1 DEF BreakerInv, Breaker!Become
  <2>2. CASE c # a
    <3>1. breaker'[c] = breaker[c] /\ since'[c] = since[c]
      BY <2>2 DEF BreakerInv, Breaker!Become
    <3> QED
      BY <3>1 DEF BreakerInv, Step
  <2> QED
    BY <2>1, <2>2
<1> QED
  BY <1>2, <1>3 DEF Stepped

LEMMA BreakerSteps == BreakerInv /\ [Breaker!Next]_(Breaker!vars) => Stepped
<1> SUFFICES ASSUME BreakerInv, [Breaker!Next]_(Breaker!vars) PROVE Stepped
  OBVIOUS
<1> environment \in Environments
  BY DEF BreakerInv
<1>1. ASSUME NEW a \in Guarded, breaker[a] # None
      PROVE  SoundBreaker(breaker[a], since[a]) /\ since[a] \in Breaker!Since
  BY <1>1 DEF BreakerInv, Sound
<1>2. ASSUME NEW a \in Guarded, Breaker!RecordSuccess(a)
      PROVE  Stepped
  <2>1. breaker[a] # None
    BY <1>2 DEF Breaker!RecordSuccess
  <2> QED
    BY <1>1, <1>2, <2>1, Succeeded, Became DEF Breaker!RecordSuccess
<1>3. ASSUME NEW a \in Guarded, Breaker!RecordFailure(a)
      PROVE  Stepped
  <2> DEFINE old == IF breaker[a] = None THEN Breaker!NewBreaker ELSE breaker[a]
             one == [old EXCEPT !.failures = Breaker!Push(@), !.successes = 0, !.lastFailure = 0]
             noted == [since[a] EXCEPT !.failures = Breaker!Push(@), !.trials = 0]
             after == IF Breaker!MustOpen(old, one) THEN Breaker!OpenCircuit(one) ELSE one
  <2>1. SoundBreaker(old, since[a]) /\ since[a] \in Breaker!Since
    <3>1. CASE breaker[a] # None
      BY <1>1, <3>1
    <3>2. CASE breaker[a] = None
      <4>1. since[a] \in Breaker!Since /\ since[a].failures = Breaker!NewSince.failures
        BY <3>2, NoBreaker DEF BreakerInv, Sound, SoundBreaker, Breaker!NewSince
      <4>2. SoundBreaker(Breaker!NewBreaker, since[a])
        BY <4>1, NewIsSound DEF SoundBreaker, CountedIn, Awaited, Breaker!NewBreaker
      <4> QED
        BY <3>2, <4>1, <4>2
    <3> QED
      BY <3>1, <3>2
  <2>2. Sound(after, Breaker!Noted(noted, one.state, after.state)) /\ Step(old, since[a], after)
    BY <2>1, Failed
  <2>3. Step(breaker[a], since[a], after)
    BY <2>2 DEF Step
  <2>4. Breaker!Become(a, after, Breaker!Noted(noted, one.state, after.state))
    BY <1>3 DEF Breaker!RecordFailure
  <2> HIDE DEF after, noted
  <2> QED
    BY <2>2, <2>3, <2>4, Became
<1>4. ASSUME NEW a \in Guarded, Breaker!Fire(a)
      PROVE  Stepped
  <2>1. breaker[a] # None /\ breaker[a].timer = 0
    BY <1>4 DEF Breaker!Fire
  <2> QED
    BY <1>1, <1>4, <2>1, Fired, Became DEF Breaker!Fire
<1>5. ASSUME NEW a \in Guarded, Breaker!ForceOpen(a)
      PROVE  Stepped
  <2> DEFINE b == breaker[a]  after == Breaker!OpenCircuit(b)  noted == Breaker!Noted(since[a], b.state, "open")
  <2>1. environment.manual /\ b # None /\ b.state # "open" /\ Breaker!Become(a, after, noted)
    BY <1>5 DEF Breaker!ForceOpen
  <2>2. Sound(after, noted)
    BY <1>1, <2>1, Opened DEF SoundBreaker
  <2> QED
    BY <2>1, <2>2, Became DEF Step
<1>6. ASSUME NEW a \in Guarded, Breaker!ForceClose(a)
      PROVE  Stepped
  <2> DEFINE b == breaker[a]  after == Breaker!CloseCircuit(b)  noted == Breaker!Noted(since[a], b.state, "closed")
  <2>1. environment.manual /\ b # None /\ b.state # "closed" /\ Breaker!Become(a, after, noted)
    BY <1>6 DEF Breaker!ForceClose
  <2>2. Sound(after, noted)
    BY <1>1, <2>1, Closed DEF SoundBreaker
  <2> QED
    BY <2>1, <2>2, Became DEF Step
<1>7. ASSUME NEW a \in Guarded, Breaker!Reset(a)
      PROVE  Stepped
  <2> DEFINE after == [Breaker!NewBreaker EXCEPT !.lastFailure = breaker[a].lastFailure]
  <2>1. environment.manual /\ breaker[a] \in Breaker!Breaker /\ Breaker!Become(a, after, Breaker!NewSince)
    BY <1>1, <1>7 DEF Breaker!Reset, SoundBreaker
  <2>2. /\ after \in Breaker!Breaker /\ after.state = "closed" /\ after.timer = None
        /\ after.failures = Breaker!NoFailures
    BY <2>1, NewIsSound DEF Breaker!Breaker, Breaker!NewBreaker
  <2>3. Sound(after, Breaker!NewSince)
    BY <2>1, <2>2, NewIsSound DEF Sound, SoundBreaker, CountedIn, Breaker!NewBreaker
  <2> QED
    BY <2>1, <2>3, Became DEF Step
<1>8. ASSUME NEW a \in Guarded, Breaker!Remove(a)
      PROVE  Stepped
  BY <1>8, NewIsSound, Became DEF Breaker!Remove, Step
<1>9. ASSUME NEW healthy \in SUBSET Guarded, Breaker!GetHealthyAgents(healthy)
      PROVE  Stepped
  <2> DEFINE asked == {a \in healthy : breaker[a] # None}
             after == [a \in asked |-> Breaker!CheckAndTransitionHalfOpen(breaker[a])]
  <2>1. /\ environment' = environment
        /\ breaker' = [a \in Guarded |-> IF a \in asked THEN after[a] ELSE breaker[a]]
        /\ since' = [a \in Guarded |-> IF a \in asked
                       THEN Breaker!Noted(since[a], breaker[a].state, after[a].state) ELSE since[a]]
    BY <1>9 DEF Breaker!GetHealthyAgents
  <2>2. ASSUME NEW a \in Guarded
        PROVE  Sound(breaker'[a], since'[a]) /\ Step(breaker[a], since[a], breaker'[a])
    <3>1. CASE a \in asked
      BY <1>1, <2>1, <3>1, Checked
    <3>2. CASE a \notin asked
      <4>1. breaker'[a] = breaker[a] /\ since'[a] = since[a]
        BY <2>1, <3>2
      <4> QED
        BY <4>1 DEF BreakerInv, Step
    <3> QED
      BY <3>1, <3>2
  <2>3. /\ \A a \in Guarded : breaker'[a] \in Breaker!Breaker \cup {None} /\ since'[a] \in Breaker!Since
    BY <2>2 DEF Sound, SoundBreaker
  <2> HIDE DEF asked, after
  <2>4. breaker' \in [Guarded -> Breaker!Breaker \cup {None}] /\ since' \in [Guarded -> Breaker!Since]
    BY <2>1, <2>3
  <2> QED
    BY <2>1, <2>2, <2>4 DEF Stepped
<1>10. ASSUME Breaker!Tick
       PROVE  Stepped
  <2> DEFINE noted(a) == [since[a] EXCEPT !.open = Breaker!UpTo(Timeout, @ + 1), !.failures = Breaker!Older(@)]
  <2>1. /\ environment' = environment
        /\ breaker' = [a \in Guarded |-> IF breaker[a] = None THEN None ELSE Breaker!Later(breaker[a])]
        /\ since' = [a \in Guarded |-> noted(a)]
    BY <1>10 DEF Breaker!Tick
  <2>2. ASSUME NEW a \in Guarded
        PROVE  Sound(breaker'[a], since'[a]) /\ Step(breaker[a], since[a], breaker'[a])
    <3>1. CASE breaker[a] # None
      BY <1>1, <2>1, <3>1, Aged
    <3>2. CASE breaker[a] = None
      <4>1. since[a] \in Breaker!Since /\ since[a].failures = Breaker!NoFailures
        BY <3>2, NoBreaker DEF BreakerInv, Sound, SoundBreaker
      <4>2. noted(a) \in Breaker!Since /\ noted(a).failures = Breaker!NoFailures
        <5> DEFINE x == [since[a] EXCEPT !.failures = Breaker!Older(since[a].failures)]
        <5>1. Breaker!Older(Breaker!NoFailures) = Breaker!NoFailures
          BY Times DEF Breaker!Older, Breaker!NoFailures, Breaker!UpTo, Breaker!Past
        <5>2. x \in Breaker!Since /\ noted(a).failures = Breaker!NoFailures
          BY <4>1, <5>1, AgesPast DEF Breaker!Since
        <5>3. noted(a) = [x EXCEPT !.open = Breaker!UpTo(Timeout, since[a].open + 1)]
          OBVIOUS
        <5>4. Breaker!UpTo(Timeout, since[a].open + 1) \in 0..Timeout
          BY <4>1, Times DEF Breaker!Since, Breaker!UpTo
        <5> HIDE DEF x, noted
        <5> QED
          BY <5>2, <5>3, <5>4 DEF Breaker!Since
      <4> QED
        BY <2>1, <3>2, <4>2 DEF Sound, Step
    <3> QED
      BY <3>1, <3>2
  <2>3. \A a \in Guarded : breaker'[a] \in Breaker!Breaker \cup {None} /\ since'[a] \in Breaker!Since
    BY <2>2 DEF Sound, SoundBreaker
  <2> HIDE DEF noted
  <2>4. breaker' \in [Guarded -> Breaker!Breaker \cup {None}] /\ since' \in [Guarded -> Breaker!Since]
    BY <2>1, <2>3
  <2> QED
    BY <2>1, <2>2, <2>4 DEF Stepped
<1>11. CASE UNCHANGED Breaker!vars
  BY <1>11 DEF Breaker!vars, BreakerInv, Stepped, Step
<1> QED
  BY <1>2, <1>3, <1>4, <1>5, <1>6, <1>7, <1>8, <1>9, <1>10, <1>11 DEF Breaker!Next

-----------------------------------------------------------------------------
(* The parts together.                                                     *)

Inv == MigratorInv /\ EngineInv /\ BreakerInv

LEMMA BreakerInitially == Breaker!Init => BreakerInv
BY NewIsSound DEF Breaker!Init, BreakerInv, Breaker!NewSince

LEMMA Initially == MCInit => Inv
BY MigratorInitially, EngineInitially, BreakerInitially, PartsAssumption DEF MCInit, Inv

\* A part that is not the one that runs stays as it is.
LEMMA Steps ==
  ASSUME [MCNext]_MCVars
  PROVE  [Migrator!Next]_(Migrator!vars) /\ [Engine!Next]_(Engine!vars) /\ [Breaker!Next]_(Breaker!vars)
BY DEF MCNext, MCVars, migratorVars, engineVars, breakerVars, Migrator!vars, Engine!vars, Breaker!vars

LEMMA EveryStep ==
  ASSUME Inv, [MCNext]_MCVars
  PROVE  Inv' /\ Stepped
<1>1. MigratorInv' /\ EngineInv'
  BY Steps, MigratorStep, EngineStep, PartsAssumption DEF Inv
<1>2. Stepped
  BY Steps, BreakerSteps DEF Inv
<1>3. BreakerInv'
  BY <1>2 DEF Inv, Stepped, BreakerInv, Sound, SoundBreaker, CountedIn, Awaited
<1> QED
  BY <1>1, <1>2, <1>3 DEF Inv

\* Whatever requests fail or lose their answers, at whatever step, and
\* however migrations overlap: every agent runs on some cluster, one that no
\* call is moving runs where its callers believe, and the limit of
\* concurrent migrations is kept.
THEOREM MigratedAgentsAreKept == MCSpec => []AgentsKept
<1>1. Inv => AgentsKept
  BY InvSuffices DEF Inv, AgentsKept
<1> QED
  BY <1>1, Initially, EveryStep, PTL DEF MCSpec

\* For every set of tasks and every graph of dependencies: a task runs when
\* those it depends on have settled, and completed if failures are not passed
\* over; a plan that returns leaves nothing running, and one that is reported
\* completed did all of its tasks, whenever it is aborted.
THEOREM PlansAreKept == MCSpec => []PlanKept
<1>1. Inv => PlanKept
  BY EngineImplies, PartsAssumption DEF Inv, PlanKept
<1> QED
  BY <1>1, Initially, EveryStep, PTL DEF MCSpec

\* No closed circuit has seen failureThreshold failures in the window since it was
\* closed, whatever was recorded in which state.
THEOREM FailureIsNoticed == MCSpec => []FailsFast
<1>1. Inv => FailsFast
  BY DEF Inv, BreakerInv, Sound, SoundBreaker, FailsFast, Breaker!TypeOK, Breaker!FailsFast, Breaker!InState
<1> QED
  BY <1>1, Initially, EveryStep, PTL DEF MCSpec

\* Without operators no circuit is tried before its timeout, by timer or by clock.
THEOREM OpenForTimeout == MCSpec => OpenLasts
<1>1. ASSUME Inv, [MCNext]_MCVars
      PROVE  [~environment.manual
              => \A a \in Guarded : Breaker!InState(a, "open") /\ Breaker!InState(a, "half-open")'
                                    => since[a].open >= Timeout]_(Breaker!vars)
  BY <1>1, EveryStep DEF Stepped, Step, Breaker!InState
<1> QED
  BY <1>1, Initially, EveryStep, PTL DEF MCSpec, OpenLasts, Breaker!OpenLasts

\* Without operators a circuit is closed again only by enough successes in a row.
THEOREM ClosedByTrials == MCSpec => ProvenByTrials
<1>1. ASSUME Inv, [MCNext]_MCVars
      PROVE  [~environment.manual
              => \A a \in Guarded : Breaker!InState(a, "half-open") /\ Breaker!InState(a, "closed")'
                                    => since[a].trials + 1 >= SuccessThreshold]_(Breaker!vars)
  BY <1>1, EveryStep DEF Stepped, Step, Breaker!InState
<1> QED
  BY <1>1, Initially, EveryStep, PTL DEF MCSpec, ProvenByTrials, Breaker!ProvenByTrials
=============================================================================
