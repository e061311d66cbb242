----------------------------- MODULE Placement -----------------------------
(***************************************************************************)
(* Scheduler, ResourceTracker and PreemptionSystem of src/src/scheduling:  *)
(* agents are placed on nodes whose resources are accounted in Redis, and  *)
(* agents of a lower priority make room when no node has any.  Each step   *)
(* below lies between two awaits of Redis, and nothing in the code keeps   *)
(* two calls apart.                                                        *)
(*                                                                         *)
(* One resource stands for cpu and memory, which are treated alike.  The   *)
(* order in which affinity ranks the nodes is any order.  Nodes stay       *)
(* registered and healthy.                                                 *)
(***************************************************************************)
EXTENDS Integers, Sequences, FiniteSets, SequencesExt, FiniteSetsExt

CONSTANTS
  Agents, Nodes,
  Size, Priority,          \* what each agent asks for, and its priority class
  Capacity,                \* of a node
  MinPriorityDifference, MaxPreemptions,
  Workers,                 \* calls of the scheduler that may overlap
  MaxCalls,                \* bound: calls that are made
  None

AgentsAssumption ==
  /\ IsFiniteSet(Agents) /\ IsFiniteSet(Nodes)
  /\ None \notin Nodes /\ Size \in [Agents -> Nat \ {0}]
  /\ Priority \in [Agents -> Nat]
SettingsAssumption == {Capacity, MinPriorityDifference, MaxPreemptions, MaxCalls} \subseteq Nat

VARIABLES
  used, listed,   \* (Redis) the allocation of each node: its resources and its agents
  record,         \* (Redis) the node that each agent has resources on
  known,          \* agentPriorities: the agents whose priority the scheduler knows
  preempted,      \* preemptedAgents
  call,           \* the call that each worker is in
  calls,
  serial          \* (callers) whether they wait for each other; it never changes

vars == <<used, listed, record, known, preempted, call, calls, serial>>

Idle == [at |-> "idle"]
Schedules == {"check", "read", "write", "select", "readVictim", "release"}
Unschedules == {"readOwn", "releaseOwn"}

Init ==
  /\ used = [n \in Nodes |-> 0]
  /\ listed = [n \in Nodes |-> {}]
  /\ record = [a \in Agents |-> None]
  /\ known = {} /\ preempted = {}
  /\ call = [w \in Workers |-> Idle]
  /\ calls = 0
  /\ serial \in BOOLEAN

Total(agents) == MapThenSumSet(LAMBDA a : Size[a], agents)
On(n) == {a \in Agents : record[a] = n}

-----------------------------------------------------------------------------
\* A call begins; callers that wait for each other begin none before the
\* last has returned.
Begins(w) ==
  /\ call[w] = Idle
  /\ calls < MaxCalls /\ calls' = calls + 1
  /\ UNCHANGED serial
  /\ serial => \A v \in Workers : call[v] = Idle

\* schedule() of an agent that has no place, up to the first Redis command.
\* The nodes are ranked once, in some order.
Ranked(w, a) ==
  /\ known' = known \cup {a}
  /\ \E nodes \in SetToSeqs(Nodes) :
       call' = [call EXCEPT ![w] = [at |-> "check", agent |-> a, nodes |-> nodes, next |-> nodes,
                                    victims |-> <<>>, again |-> FALSE]]

Schedule(w, a) ==
  /\ Begins(w)
  /\ record[a] = None /\ a \notin preempted
  /\ \A v \in Workers : call[v] # Idle => call[v].agent # a
  /\ Ranked(w, a)
  /\ UNCHANGED <<used, listed, record, preempted>>

\* resumeFromCheckpoint.
Resumed(a) == preempted \ {a}

\* reschedule() of an agent that was preempted: its checkpoint is there, it
\* no longer counts as preempted and it is scheduled.
Reschedule(w, a) ==
  /\ Begins(w)
  /\ a \in preempted
  /\ \A v \in Workers : call[v] # Idle => call[v].agent # a
  /\ preempted' = Resumed(a)
  /\ Ranked(w, a)
  /\ UNCHANGED <<used, listed, record>>

\* What follows when no node has room: preemption, once, or failure.
NoRoom(c) == IF c.again THEN Idle ELSE [c EXCEPT !.at = "select"]

\* hasAvailableResources of the next ranked node.
Check(w) ==
  /\ call[w].at = "check"
  /\ LET c == call[w]
     IN  call' = [call EXCEPT ![w] =
           IF c.next = <<>> THEN NoRoom(c)
           ELSE IF Capacity - used[Head(c.next)] >= Size[c.agent] THEN [c EXCEPT !.at = "read"]
           ELSE [c EXCEPT !.next = Tail(@)]]
  /\ UNCHANGED <<used, listed, record, known, preempted, calls, serial>>

\* allocateResources: the allocation is read and verified ...
Exceeds(n, a) == used[n] + Size[a] > Capacity
Read(w) ==
  /\ call[w].at = "read"
  /\ LET c == call[w]
         n == Head(c.next)
     IN  call' = [call EXCEPT ![w] =
           IF Exceeds(n, c.agent) THEN Idle
           ELSE [at |-> "write", agent |-> c.agent, node |-> n, listed |-> listed[n]]]
  /\ UNCHANGED <<used, listed, record, known, preempted, calls, serial>>

\* ... and a pipeline adds to it, with the list of agents as it was read.
Write(w) ==
  /\ call[w].at = "write"
  /\ LET c == call[w]
     IN  /\ used' = [used EXCEPT ![c.node] = @ + Size[c.agent]]
         /\ listed' = [listed EXCEPT ![c.node] = c.listed \cup {c.agent}]
         /\ record' = [record EXCEPT ![c.agent] = c.node]
  /\ call' = [call EXCEPT ![w] = Idle]
  /\ UNCHANGED <<known, preempted, calls, serial>>

-----------------------------------------------------------------------------
\* canPreempt.
CanPreempt(a, victim) == Priority[a] - Priority[victim] >= MinPriorityDifference

\* findPreemptionCandidates: agents listed on a node, with a priority and a record.
Candidates(a) ==
  {v \in UNION {listed[n] : n \in Nodes} : v \in known /\ CanPreempt(a, v) /\ record[v] # None}

\* The victims: the lowest priorities first, as many as it takes to free what
\* is asked for.
Enough(a, victims) == Total(ToSet(victims)) >= Size[a]
Selections(a) ==
  {s \in SetToSeqs(Candidates(a)) : \A i, j \in DOMAIN s : i < j => Priority[s[i]] <= Priority[s[j]]}
Sufficient(a, s) == {n \in 0..Len(s) : n <= MaxPreemptions /\ Enough(a, SubSeq(s, 1, n))}

\* preemptForResources, up to the release of the first victim.
Select(w) ==
  /\ call[w].at = "select"
  /\ LET c == call[w]
     IN  \E s \in Selections(c.agent) :
           call' = [call EXCEPT ![w] =
             IF Sufficient(c.agent, s) = {} THEN Idle
             ELSE [c EXCEPT !.at = "readVictim", !.victims = SubSeq(s, 1, Min(Sufficient(c.agent, s)))]]
  /\ UNCHANGED <<used, listed, record, known, preempted, calls, serial>>

\* The list of a node without the agent that is released.
ListKept(seen, a) == seen                    \* mutant: the node keeps the agent on its list
Without(seen, a) == seen \ {a}

\* releaseResources of an agent whose record and node were read before.
Freed(node, seen, a) ==
  /\ used' = [used EXCEPT ![node] = @ - Size[a]]
  /\ listed' = [listed EXCEPT ![node] = Without(seen, a)]
  /\ record' = [record EXCEPT ![a] = None]

\* After the last victim the ranked nodes are tried once more.
NextVictim(c) ==
  IF Len(c.victims) > 1 THEN [c EXCEPT !.at = "readVictim", !.victims = Tail(@)]
  ELSE [c EXCEPT !.at = "check", !.victims = <<>>, !.next = c.nodes, !.again = TRUE]

\* preemptAgent: a victim that has no record any more counts as preempted.
ReadVictim(w) ==
  /\ call[w].at = "readVictim"
  /\ LET c == call[w]
         v == Head(c.victims)
     IN  IF record[v] = None
         THEN call' = [call EXCEPT ![w] = NextVictim(c)] /\ preempted' = preempted \cup {v}
         ELSE /\ call' = [call EXCEPT ![w] =
                   [at |-> "release", agent |-> c.agent, nodes |-> c.nodes, next |-> c.next, victims |-> c.victims,
                    again |-> c.again, node |-> record[v], listed |-> listed[record[v]]]]
              /\ UNCHANGED preempted
  /\ UNCHANGED <<used, listed, record, known, calls, serial>>

Release(w) ==
  /\ call[w].at = "release"
  /\ LET c == call[w]
         v == Head(c.victims)
     IN  /\ Freed(c.node, c.listed, v)
         /\ preempted' = preempted \cup {v}
         /\ call' = [call EXCEPT ![w] = NextVictim(
              [at |-> "release", agent |-> c.agent, nodes |-> c.nodes, next |-> c.next, victims |-> c.victims,
               again |-> c.again])]
  /\ UNCHANGED <<known, calls, serial>>

-----------------------------------------------------------------------------
\* unschedule().
Unschedule(w, a) ==
  /\ Begins(w)
  /\ a \in known
  /\ call' = [call EXCEPT ![w] = [at |-> "readOwn", agent |-> a]]
  /\ UNCHANGED <<used, listed, record, known, preempted>>

ReadOwn(w) ==
  /\ call[w].at = "readOwn"
  /\ LET a == call[w].agent
     IN  IF record[a] = None
         THEN call' = [call EXCEPT ![w] = Idle] /\ known' = known \ {a}
         ELSE /\ call' = [call EXCEPT ![w] =
                   [at |-> "releaseOwn", agent |-> a, node |-> record[a], listed |-> listed[record[a]]]]
              /\ UNCHANGED known
  /\ UNCHANGED <<used, listed, record, preempted, calls, serial>>

ReleaseOwn(w) ==
  /\ call[w].at = "releaseOwn"
  /\ Freed(call[w].node, call[w].listed, call[w].agent)
  /\ call' = [call EXCEPT ![w] = Idle]
  /\ known' = known \ {call[w].agent}
  /\ UNCHANGED <<preempted, calls, serial>>

Step(w) ==
  \/ Check(w) \/ Read(w) \/ Write(w) \/ Select(w) \/ ReadVictim(w) \/ Release(w)
  \/ ReadOwn(w) \/ ReleaseOwn(w)

Next ==
  \E w \in Workers :
    \/ \E a \in Agents : Schedule(w, a) \/ Reschedule(w, a) \/ Unschedule(w, a)
    \/ Step(w)

Spec == Init /\ [][Next]_vars
Fairness == \A w \in Workers : WF_vars(Step(w))   \* Redis answers

-----------------------------------------------------------------------------
\* The state keeps its type.
TypeOK ==
  /\ used \in [Nodes -> Int] /\ listed \in [Nodes -> SUBSET Agents]
  /\ record \in [Agents -> Nodes \cup {None}]
  /\ known \subseteq Agents /\ preempted \subseteq Agents
  /\ \A w \in Workers : call[w].at \in {"idle"} \cup Schedules \cup Unschedules
  /\ \A w \in Workers : call[w].at \in {"readVictim", "release"} => call[w].victims # <<>>
  /\ calls \in 0..MaxCalls

\* A node never has more agents than it has resources for.  Calls that overlap
\* can break this: the allocation is verified on what was read before the
\* pipeline that adds to it.
NeverOverallocated == \A n \in Nodes : Total(On(n)) <= Capacity

\* Where calls do not overlap, no node is over-allocated, and the books of a
\* node agree with the records of its agents, so that what is released is
\* what was taken, after any sequence of placements, preemptions and releases.
LedgerAgrees ==
  serial => /\ NeverOverallocated
            /\ (\A w \in Workers : call[w] = Idle) =>
                 \A n \in Nodes : used[n] = Total(On(n)) /\ listed[n] = On(n)

\* Where calls do not overlap, an agent that counts as preempted has no place:
\* it is not placed a second time when it is rescheduled.
PreemptedIsOut == serial => \A a \in preempted : record[a] = None

\* Every call returns.
CallsReturn == \A w \in Workers : call[w] # Idle ~> call[w] = Idle
=============================================================================
