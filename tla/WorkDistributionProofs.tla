----------------------- MODULE WorkDistributionProofs -----------------------
(***************************************************************************)
(* For any agents, skills, keys and settings, whatever the order of the    *)
(* ids: claims keep every agent within its capacity, find an agent when    *)
(* there is one, keep the loads level, give each its turn, prefer skills   *)
(* and leave sticky keys where they are.                                   *)
(***************************************************************************)
EXTENDS WorkDistribution, InductionLemmas

USE WorkDistributionAssumption

-----------------------------------------------------------------------------
(* Ratios, compared after multiplying out.                                 *)

LEMMA Cancel ==
  ASSUME NEW k \in Nat \ {0}, NEW x \in Int, NEW y \in Int, k * x < k * y
  PROVE  x < y
<1> SUFFICES ASSUME x >= y PROVE FALSE
  OBVIOUS
<1> QED
  BY Z3
LEMMA CancelLeq ==
  ASSUME NEW k \in Nat \ {0}, NEW x \in Int, NEW y \in Int, k * x <= k * y
  PROVE  x <= y
<1> SUFFICES ASSUME x > y PROVE FALSE
  OBVIOUS
<1> QED
  BY Z3
LEMMA Scale ==
  ASSUME NEW k \in Nat, NEW x \in Int, NEW y \in Int, x <= y
  PROVE  k * x <= k * y
  OBVIOUS
LEMMA ScaleLess ==
  ASSUME NEW k \in Nat \ {0}, NEW x \in Int, NEW y \in Int, x < y
  PROVE  k * x < k * y
  OBVIOUS
LEMMA Ratios ==
  ASSUME NEW x \in Int, NEW y \in Int, NEW z \in Int,
         NEW p \in Nat \ {0}, NEW q \in Nat \ {0}, NEW r \in Nat \ {0},
         x * q <= y * p, y * r <= z * q
  PROVE  /\ x * r <= z * p
         /\ x * q < y * p \/ y * r < z * q => x * r < z * p
<1>1. q * (x * r) = r * (x * q) /\ q * (z * p) = p * (z * q) /\ r * (y * p) = p * (y * r)
  OBVIOUS
<1>2. r * (x * q) <= r * (y * p) /\ p * (y * r) <= p * (z * q)
  BY Scale
<1>3. q * (x * r) <= q * (z * p)
  BY <1>1, <1>2
<1>4. x * r <= z * p
  BY <1>3, CancelLeq
<1>5. ASSUME x * q < y * p PROVE q * (x * r) < q * (z * p)
  <2>1. r * (x * q) < r * (y * p)
    BY <1>5, ScaleLess
  <2> QED
    BY <2>1, <1>1, <1>2
<1>6. ASSUME y * r < z * q PROVE q * (x * r) < q * (z * p)
  <2>1. p * (y * r) < p * (z * q)
    BY <1>6, ScaleLess
  <2> QED
    BY <2>1, <1>1, <1>2
<1>7. ASSUME q * (x * r) < q * (z * p) PROVE x * r < z * p
  BY <1>7, Cancel
<1> QED
  BY <1>4, <1>5, <1>6, <1>7

-----------------------------------------------------------------------------
(* The strategies find an agent among any that there are.                  *)

\* R has every two elements of S in an order.
Orders(R, S) ==
  /\ \A a, b \in S : a # b => <<a, b>> \in R \/ <<b, a>> \in R
  /\ \A a, b, c \in S : <<a, b>> \in R /\ <<b, c>> \in R => <<a, c>> \in R

\* A finite set that R orders has a first element.
LEMMA FirstOfOrder ==
  ASSUME NEW S, IsFiniteSet(S), S # {}, NEW R, Orders(R, S)
  PROVE  \E a \in S : \A b \in S : b # a => <<a, b>> \in R
<1> DEFINE HasFirst(T) == \E a \in T : \A b \in T : b # a => <<a, b>> \in R
           P == {T \in SUBSET S : T = {} \/ HasFirst(T)}
<1>1. ASSUME NEW T \in SUBSET S, \A x \in T : T \ {x} \in P
      PROVE  T \in P
  <2>1. SUFFICES ASSUME NEW x \in T
                 PROVE  HasFirst(T)
    OBVIOUS
  <2>2. CASE T \ {x} = {}
    BY <2>2
  <2>3. CASE T \ {x} # {}
    <3>1. PICK a \in T \ {x} : \A b \in T \ {x} : b # a => <<a, b>> \in R
      BY <1>1, <2>3
    <3>2. CASE <<a, x>> \in R
      BY <3>1, <3>2
    <3>3. CASE <<x, a>> \in R
      BY <3>1, <3>3 DEF Orders
    <3> QED
      BY <3>1, <3>2, <3>3 DEF Orders
  <2> QED
    BY <2>2, <2>3
<1> HIDE DEF P
<1>2. S \in P
  BY <1>1, SubsetInduction
<1> QED
  BY <1>2 DEF P

\* Of agents with a value and a weight each, one has the least ratio of the two,
\* and the least rank among those.
LEMMA LeastRatio ==
  ASSUME NEW S \in SUBSET Agents, S # {}, NEW v \in [S -> Int], NEW w \in [S -> Nat \ {0}]
  PROVE  \E a \in S : \A b \in S :
           /\ v[a] * w[b] <= v[b] * w[a]
           /\ v[a] * w[b] < v[b] * w[a] \/ Rank[a] <= Rank[b]
<1> DEFINE Before(a, b) == /\ v[a] * w[b] <= v[b] * w[a]
                           /\ v[a] * w[b] < v[b] * w[a] \/ Rank[a] <= Rank[b]
           R == {p \in S \X S : Before(p[1], p[2])}
<1>1. \A a, b \in S : v[a] * w[b] \in Int /\ Rank[a] \in Nat
  OBVIOUS
<1>2. \A a, b \in S : a # b => Before(a, b) \/ Before(b, a)
  BY <1>1
<1>3. ASSUME NEW a \in S, NEW b \in S, NEW c \in S, Before(a, b), Before(b, c)
      PROVE  Before(a, c)
  <2>1. /\ v[a] * w[c] <= v[c] * w[a]
        /\ v[a] * w[b] < v[b] * w[a] \/ v[b] * w[c] < v[c] * w[b]
             => v[a] * w[c] < v[c] * w[a]
    BY <1>3, Ratios
  <2> QED
    BY <1>1, <1>3, <2>1
<1> HIDE DEF Before
<1>4. \A a, b \in S : <<a, b>> \in R <=> Before(a, b)
  OBVIOUS
<1> HIDE DEF R
<1>5. IsFiniteSet(S)
  BY FS_Subset
<1>6. PICK a \in S : \A b \in S : b # a => <<a, b>> \in R
  <2>1. \A a, b \in S : a # b => <<a, b>> \in R \/ <<b, a>> \in R
    BY <1>2, <1>4
  <2>2. \A a, b, c \in S : <<a, b>> \in R /\ <<b, c>> \in R => <<a, c>> \in R
    <3> SUFFICES ASSUME NEW a \in S, NEW b \in S, NEW c \in S,
                        <<a, b>> \in R, <<b, c>> \in R
                 PROVE  <<a, c>> \in R
      OBVIOUS
    <3>1. Before(a, b) /\ Before(b, c)
      BY <1>4
    <3>2. Before(a, c)
      BY <1>3, <3>1
    <3> QED
      BY <1>4, <3>2
  <2>3. Orders(R, S)
    BY <2>1, <2>2 DEF Orders
  <2> QED
    BY <1>5, <2>3, FirstOfOrder
<1>7. Before(a, a)
  BY <1>1 DEF Before
<1>8. \A b \in S : Before(a, b)
  BY <1>4, <1>6, <1>7
<1> QED
  BY <1>8 DEF Before

Typed == TypeOK /\ Members \in SUBSET Agents /\ IsFiniteSet(Members)

LEMMA MembersFinite == TypeOK => Typed
<1> SUFFICES ASSUME TypeOK PROVE Typed
  OBVIOUS
<1>1. setting \in Setting
  BY DEF TypeOK
<1>2. Members \in SUBSET Agents
  BY <1>1 DEF Setting, Members
<1> QED
  BY <1>2, FS_Subset DEF Typed

\* The members' fields.
LEMMA Fields ==
  ASSUME Typed, NEW a \in Members
  PROVE  /\ a \in Agents /\ load[a] \in Nat /\ capacity[a] \in Nat \ {0}
         /\ capacity[a] \in 1..setting.maxCapacity
BY DEF Typed, TypeOK

LEMMA LoadBasedFinds ==
  ASSUME Typed, NEW S \in SUBSET Members, S # {}
  PROVE  LoadBased(S) # {}
<1> DEFINE v == [a \in S |-> load[a]]
           w == [a \in S |-> capacity[a]]
<1>1. S \in SUBSET Agents /\ v \in [S -> Int] /\ w \in [S -> Nat \ {0}]
  BY Fields
<1>2. \A a, b \in S : v[a] * w[b] = load[a] * capacity[b] /\ load[a] * capacity[b] \in Int
  BY Fields
<1> HIDE DEF v, w
<1>3. PICK a \in S : \A b \in S :
           /\ v[a] * w[b] <= v[b] * w[a]
           /\ v[a] * w[b] < v[b] * w[a] \/ Rank[a] <= Rank[b]
  BY <1>1, LeastRatio
<1>4. ASSUME NEW b \in S
      PROVE  /\ ~(load[b] * capacity[a] < load[a] * capacity[b])
             /\ load[a] * capacity[b] < load[b] * capacity[a] \/ Rank[a] <= Rank[b]
  <2>1. /\ v[a] * w[b] = load[a] * capacity[b] /\ v[b] * w[a] = load[b] * capacity[a]
        /\ load[a] * capacity[b] \in Int /\ load[b] * capacity[a] \in Int
    BY <1>2
  <2>2. /\ v[a] * w[b] <= v[b] * w[a]
        /\ v[a] * w[b] < v[b] * w[a] \/ Rank[a] <= Rank[b]
    BY <1>3
  <2>3. load[a] * capacity[b] <= load[b] * capacity[a]
    BY <2>1, <2>2, Zenon
  <2>4. load[a] * capacity[b] < load[b] * capacity[a] \/ Rank[a] <= Rank[b]
    BY <2>1, <2>2, Zenon
  <2> QED
    BY <2>1, <2>3, <2>4
<1>5. \A b \in S : ~LessLoaded(b, a) /\ (LessLoaded(a, b) \/ Rank[a] <= Rank[b])
  BY <1>4 DEF LessLoaded
<1> QED
  BY <1>5 DEF LoadBased, FirstBest

\* The indices of the agents of a list are the positions in it, each once.
LEMMA Indices ==
  ASSUME NEW S \in SUBSET Agents
  PROVE  /\ IsFiniteSet(S) /\ Cardinality(S) \in Nat
         /\ \A a \in S : Index(a, S) \in 0..(Cardinality(S) - 1)
         /\ \A a, b \in S : a # b => Index(a, S) # Index(b, S)
<1>1. IsFiniteSet(S) /\ Cardinality(S) \in Nat
  BY FS_Subset, FS_CardinalityType
<1> DEFINE Lower(a) == {b \in S : Rank[b] < Rank[a]}
<1>2. \A a \in S : IsFiniteSet(Lower(a)) /\ Cardinality(Lower(a)) \in Nat
  BY <1>1, FS_Subset, FS_CardinalityType
<1>3. ASSUME NEW a \in S PROVE Cardinality(Lower(a)) < Cardinality(S)
  <2>1. Lower(a) \in SUBSET S /\ Lower(a) # S
    OBVIOUS
  <2> HIDE DEF Lower
  <2> QED
    BY <1>1, <1>2, <2>1, FS_Subset
<1>4. ASSUME NEW a \in S, NEW b \in S, Rank[a] < Rank[b]
      PROVE  Cardinality(Lower(a)) < Cardinality(Lower(b))
  <2>1. Lower(a) \in SUBSET Lower(b) /\ Lower(a) # Lower(b)
    BY <1>4
  <2> HIDE DEF Lower
  <2> QED
    BY <1>2, <2>1, FS_Subset
<1>5. \A a \in S : Index(a, S) = Cardinality(Lower(a))
  BY DEF Index
<1> HIDE DEF Lower
<1>6. ASSUME NEW a \in S, NEW b \in S, a # b PROVE Index(a, S) # Index(b, S)
  <2>1. Rank[a] < Rank[b] \/ Rank[b] < Rank[a]
    BY <1>6
  <2> QED
    BY <1>2, <1>4, <1>5, <2>1
<1> QED
  BY <1>1, <1>2, <1>3, <1>5, <1>6

\* Every position holds an agent.
LEMMA PositionTaken ==
  ASSUME NEW S \in SUBSET Agents, NEW i \in 0..(Cardinality(S) - 1)
  PROVE  \E a \in S : Index(a, S) = i
<1> DEFINE T == 0..(Cardinality(S) - 1)
           f == [a \in S |-> Index(a, S)]
<1>1. Cardinality(S) \in Nat
  BY Indices
<1>2. IsFiniteSet(T) /\ Cardinality(T) = Cardinality(S)
  BY <1>1, FS_Interval
<1>3. f \in Injection(S, T)
  BY Indices DEF Injection, IsInjective
<1> HIDE DEF T
<1>4. f \in Surjection(S, T)
  BY <1>2, <1>3, FS_Injection
<1> QED
  BY <1>4 DEF Surjection, T

LEMMA Remainder ==
  ASSUME NEW n \in Nat \ {0}, NEW i \in Int
  PROVE  /\ i % n \in 0..(n - 1)
         /\ i \in 0..(n - 1) => i % n = i
         /\ i = n => i % n = 0
OBVIOUS

LEMMA RoundRobinFinds ==
  ASSUME Typed, NEW S \in SUBSET Members, S # {}
  PROVE  RoundRobin(S) # {}
<1>1. S \in SUBSET Agents /\ lastAssignmentIndex + 1 \in Int
  BY DEF Typed, TypeOK
<1>2. Cardinality(S) \in Nat \ {0}
  BY <1>1, Indices, FS_EmptySet
<1>3. (lastAssignmentIndex + 1) % Cardinality(S) \in 0..(Cardinality(S) - 1)
  BY <1>1, <1>2, Remainder
<1>4. \E a \in S : Index(a, S) = (lastAssignmentIndex + 1) % Cardinality(S)
  BY <1>1, <1>3, PositionTaken
<1> QED
  BY <1>4 DEF RoundRobin

LEMMA RequestFields ==
  ASSUME Typed, NEW t \in Requests
  PROVE  /\ t.requiredSkills \in SUBSET Skills /\ t.stickyKey \in StickyKeys \cup {None}
         /\ SelectDistributionStrategy(t) \in Strategies
<1>1. setting \in Setting
  BY DEF Typed, TypeOK
<1>2. t \in Request /\ setting.default \in Strategies
  BY <1>1 DEF Setting, Requests
<1> QED
  BY <1>2 DEF SelectDistributionStrategy, Request, Strategies

\* Every strategy, fallback included, selects among the agents it is given.
LEMMA ChosenAmong ==
  ASSUME Typed, NEW S \in SUBSET Members, NEW t \in Requests, NEW a \in DistributeTask(t, S)
  PROVE  a \in S
<1>1. LoadBased(S) \subseteq S
  BY DEF LoadBased, FirstBest
<1>2. RoundRobin(S) \subseteq S
  BY DEF RoundRobin
<1>3. SkillBased(S, t.requiredSkills) \subseteq S
  BY DEF SkillBased, FirstBest
<1>4. Sticky(S, t.stickyKey) \subseteq S
  BY <1>1 DEF Sticky
<1>5. \A C \in SUBSET S : OrLoadBased(C, S) \subseteq S
  BY <1>1 DEF OrLoadBased
<1> HIDE DEF LoadBased, RoundRobin, SkillBased, Sticky, OrLoadBased
<1> QED
  BY <1>1, <1>2, <1>3, <1>4, <1>5, RequestFields DEF DistributeTask, Strategies

\* And each selects one, or its fallback does.
LEMMA SomeoneChosen ==
  ASSUME Typed, NEW S \in SUBSET Members, S # {}, NEW t \in Requests
  PROVE  DistributeTask(t, S) # {}
<1>1. \A C : OrLoadBased(C, S) # {}
  BY LoadBasedFinds DEF OrLoadBased
<1> HIDE DEF OrLoadBased
<1> QED
  BY <1>1, LoadBasedFinds, RoundRobinFinds, RequestFields DEF DistributeTask, Strategies

LEMMA AvailableMembers == Typed => Available \in SUBSET Members
BY DEF Typed, TypeOK, Available

\* What a claim does.
LEMMA Claims ==
  ASSUME Typed, NEW t \in Requests, ClaimTask(t)
  PROVE  \E a \in Available :
           /\ a \in DistributeTask(t, Available)
           /\ load' = [load EXCEPT ![a] = @ + 1]
           /\ lastAssignmentIndex' = Index(a, Available)
           /\ stickyAssignments' = IF t.stickyKey = None THEN stickyAssignments
                                   ELSE [stickyAssignments EXCEPT ![t.stickyKey] = a]
           /\ Remember(a, Available, Available')
           /\ UNCHANGED <<capacity, skills, online, stickyMap, setting>>
<1>1. PICK a \in DistributeTask(t, Available) :
        /\ load' = [load EXCEPT ![a] = @ + 1]
        /\ lastAssignmentIndex' = Index(a, Available)
        /\ stickyAssignments' = IF t.stickyKey = None THEN stickyAssignments
                                ELSE [stickyAssignments EXCEPT ![t.stickyKey] = a]
        /\ Remember(a, Available, Available')
  BY DEF ClaimTask
<1>2. UNCHANGED <<capacity, skills, online, stickyMap, setting>>
  BY DEF ClaimTask, roster
<1>3. a \in Available
  BY AvailableMembers, ChosenAmong
<1> QED
  BY <1>1, <1>2, <1>3

-----------------------------------------------------------------------------
(* Types and capacities.                                                   *)

\* The history variable keeps its type, whatever is available afterwards.
LEMMA Remembered ==
  ASSUME Typed, NEW x, NEW S, NEW S2 \in SUBSET Members, Remember(x, S, S2)
  PROVE  passed' \in [Members -> [over : SUBSET Members, same : BOOLEAN]]
<1> SUFFICES ASSUME NEW a \in Members
             PROVE  passed'[a] \in [over : SUBSET Members, same : BOOLEAN]
  BY DEF Remember
<1>1. passed[a].over \in SUBSET Members /\ passed[a].same \in BOOLEAN
  BY DEF Typed, TypeOK
<1>2. CASE a = x
  <2>1. passed'[a] = [over |-> S2 \ {x}, same |-> S2 = S]
    BY <1>2 DEF Remember
  <2>2. (S2 = S) \in BOOLEAN
    OBVIOUS
  <2> QED
    BY <2>1, <2>2
<1>3. CASE a # x
  <2>1. passed'[a] = [over |-> (passed[a].over \cap S2) \ {x}, same |-> passed[a].same /\ S2 = S]
    BY <1>3 DEF Remember
  <2>2. (passed[a].same /\ S2 = S) \in BOOLEAN
    OBVIOUS
  <2> QED
    BY <1>1, <2>1, <2>2
<1> QED
  BY <1>2, <1>3

Inv == Typed /\ CapacityKept

LEMMA ClaimKeeps ==
  ASSUME Inv, NEW t \in Requests, ClaimTask(t)
  PROVE  Inv'
<1>1. PICK a \in Available :
        /\ load' = [load EXCEPT ![a] = @ + 1]
        /\ lastAssignmentIndex' = Index(a, Available)
        /\ stickyAssignments' = IF t.stickyKey = None THEN stickyAssignments
                                ELSE [stickyAssignments EXCEPT ![t.stickyKey] = a]
        /\ Remember(a, Available, Available')
        /\ UNCHANGED <<capacity, skills, online, stickyMap, setting>>
  BY Claims DEF Inv
<1>2. Available \in SUBSET Members /\ Members \in SUBSET Agents
  BY AvailableMembers DEF Inv, Typed
<1>3. a \in Members /\ load[a] < capacity[a]
  BY <1>2 DEF Available
<1>4. load' \in [Members -> Nat]
  BY <1>1, <1>3 DEF Inv, Typed, TypeOK
<1>5. lastAssignmentIndex' \in Int
  <2>1. Index(a, Available) \in 0..(Cardinality(Available) - 1)
    BY <1>2, Indices
  <2> QED
    BY <1>1, <2>1
<1>6. stickyAssignments' \in [StickyKeys -> Members \cup {None}]
  BY <1>1, <1>3, RequestFields DEF Inv, Typed, TypeOK
<1>7. passed' \in [Members -> [over : SUBSET Members, same : BOOLEAN]]
  <2>1. Available' \in SUBSET Members
    BY <1>1 DEF Available, Inv, Typed, TypeOK
  <2> QED
    BY <1>1, <2>1, Remembered DEF Inv
<1>8. Members' = Members
  BY <1>1 DEF Members
<1>9. Typed'
  BY <1>1, <1>4, <1>5, <1>6, <1>7, <1>8 DEF Inv, Typed, TypeOK
<1>10. CapacityKept'
  <2> SUFFICES ASSUME NEW b \in Members
               PROVE  load'[b] <= capacity[b]
    BY <1>1, <1>8 DEF CapacityKept
  <2>1. load[b] <= capacity[b] /\ load[a] \in Nat /\ capacity[a] \in Nat
    BY <1>3, Fields DEF Inv, CapacityKept
  <2> QED
    BY <1>1, <1>3, <2>1 DEF Inv, Typed, TypeOK
<1> QED
  BY <1>9, <1>10 DEF Inv

LEMMA ReleaseKeeps ==
  ASSUME Inv, NEW a \in Members, Release(a)
  PROVE  Inv'
<1>1. UNCHANGED <<capacity, skills, online, lastAssignmentIndex, stickyAssignments, stickyMap, setting>>
  BY DEF Release, roster
<1>2. Members' = Members
  BY <1>1 DEF Members
<1>3. load' \in [Members -> Nat]
  BY DEF Release, Inv, Typed, TypeOK
<1>4. passed' \in [Members -> [over : SUBSET Members, same : BOOLEAN]]
  <2>1. Available' \in SUBSET Members
    BY <1>1 DEF Available, Inv, Typed, TypeOK
  <2> QED
    BY <2>1, Remembered DEF Release, Inv
<1>5. Typed'
  BY <1>1, <1>2, <1>3, <1>4 DEF Inv, Typed, TypeOK
<1>6. CapacityKept'
  <2> SUFFICES ASSUME NEW b \in Members
               PROVE  load'[b] <= capacity[b]
    BY <1>1, <1>2 DEF CapacityKept
  <2>1. load[b] <= capacity[b] /\ load[b] \in Nat /\ capacity[b] \in Nat
    BY Fields DEF Inv, CapacityKept
  <2>2. load'[b] = load[b] \/ load'[b] = load[b] - 1
    BY DEF Release, Inv, Typed, TypeOK
  <2> QED
    BY <2>1, <2>2
<1> QED
  BY <1>5, <1>6 DEF Inv

LEMMA ToggleKeeps ==
  ASSUME Inv, NEW a \in Members, Toggle(a)
  PROVE  Inv'
<1>1. UNCHANGED <<capacity, skills, load, lastAssignmentIndex, stickyAssignments, stickyMap, setting>>
  BY DEF Toggle, roster
<1>2. Members' = Members
  BY <1>1 DEF Members
<1>3. online' \in SUBSET Members
  BY DEF Toggle, Inv, Typed, TypeOK
<1>4. passed' \in [Members -> [over : SUBSET Members, same : BOOLEAN]]
  <2>1. Available' \in SUBSET Members
    BY <1>3 DEF Available
  <2> QED
    BY <2>1, Remembered DEF Toggle, Inv
<1> QED
  BY <1>1, <1>2, <1>3, <1>4 DEF Inv, Typed, TypeOK, CapacityKept

LEMMA RestartKeeps ==
  ASSUME Inv, Restart \/ Crash
  PROVE  Inv'
<1>1. UNCHANGED <<capacity, skills, load, online, setting>>
  BY DEF Restart, Crash, roster
<1>2. Members' = Members
  BY <1>1 DEF Members
<1>3. passed' \in [Members -> [over : SUBSET Members, same : BOOLEAN]]
  <2>1. passed' = [a \in Members |-> [over |-> {}, same |-> FALSE]]
    BY DEF Restart, Crash
  <2>2. [over |-> {}, same |-> FALSE] \in [over : SUBSET Members, same : BOOLEAN]
    OBVIOUS
  <2> QED
    BY <2>1, <2>2
<1>4. /\ stickyMap' \in [StickyKeys -> Members \cup {None}]
      /\ stickyAssignments' \in [StickyKeys -> Members \cup {None}]
      /\ lastAssignmentIndex' \in Int
  <2>1. /\ stickyMap \in [StickyKeys -> Members \cup {None}]
        /\ stickyAssignments \in [StickyKeys -> Members \cup {None}]
    BY DEF Inv, Typed, TypeOK
  <2>2. CASE Restart
    <3>1. stickyMap' \in [StickyKeys -> Members \cup {None}]
      BY <2>1, <2>2 DEF Restart
    <3>2. stickyAssignments' = stickyMap' /\ lastAssignmentIndex' = -1
      BY <2>2 DEF Restart
    <3> QED
      BY <3>1, <3>2
  <2>3. CASE Crash
    BY <2>1, <2>3 DEF Crash
  <2> QED
    BY <2>2, <2>3
<1> QED
  BY <1>1, <1>2, <1>3, <1>4 DEF Inv, Typed, TypeOK, CapacityKept

LEMMA InitInv == Init => Inv
<1> SUFFICES ASSUME Init PROVE Inv
  OBVIOUS
<1>1. TypeOK
  BY DEF Init, TypeOK
<1>2. Typed
  BY <1>1, MembersFinite
<1>3. CapacityKept
  BY <1>2, Fields DEF Init, CapacityKept
<1> QED
  BY <1>2, <1>3 DEF Inv

LEMMA InvStep == Inv /\ [Next]_vars => Inv'
<1> SUFFICES ASSUME Inv, [Next]_vars
             PROVE  Inv'
  OBVIOUS
<1>1. CASE UNCHANGED vars
  BY <1>1 DEF vars, roster, Inv, Typed, TypeOK, CapacityKept, Members
<1>2. CASE Next
  BY <1>2, ClaimKeeps, ReleaseKeeps, ToggleKeeps, RestartKeeps DEF Next
<1> QED
  BY <1>1, <1>2

\* Whatever strategies the tasks ask for and whichever agents come and go, no
\* agent ever has more tasks than its capacity, when claims follow each other.
THEOREM CapacityIsKept == Spec => [](TypeOK /\ CapacityKept)
<1>1. Inv => TypeOK /\ CapacityKept
  BY DEF Inv, Typed
<1> QED
  BY <1>1, InitInv, InvStep, PTL DEF Spec

-----------------------------------------------------------------------------
(* Level loads.                                                            *)

Calm == Only("load-based") /\ Allowed \cap {"release", "offline"} = {}
LevelInv == Inv /\ (Calm => online = Members /\ Levelled)

\* The setting stays, and with it what the tasks ask for.
LEMMA Settled ==
  ASSUME setting' = setting
  PROVE  /\ Members' = Members /\ Requests' = Requests /\ Allowed' = Allowed
         /\ \A strategy : Only(strategy)' <=> Only(strategy)
         /\ Calm' <=> Calm
BY DEF Members, Requests, Allowed, Only, SelectDistributionStrategy, Calm

\* One more task for the agent whose ratio was the least.
LEMMA ClaimLevels ==
  ASSUME LevelInv, Calm, NEW t \in Requests, ClaimTask(t)
  PROVE  online' = Members /\ Levelled'
<1>1. PICK a \in Available :
        /\ a \in DistributeTask(t, Available)
        /\ load' = [load EXCEPT ![a] = @ + 1]
        /\ UNCHANGED <<capacity, online, setting>>
  BY Claims DEF LevelInv, Inv
<1>2. Available \in SUBSET Members
  BY AvailableMembers DEF LevelInv, Inv
<1>3. a \in Members /\ load[a] < capacity[a]
  BY <1>2 DEF Available
<1>4. a \in LoadBased(Available)
  <2>1. SelectDistributionStrategy(t) = "load-based"
    BY DEF Calm, Only
  <2> QED
    BY <1>1, <2>1 DEF DistributeTask
<1>5. \A b \in Available : ~(load[b] * capacity[a] < load[a] * capacity[b])
  BY <1>4 DEF LoadBased, FirstBest, LessLoaded
<1>6. \A x \in Members : load'[x] = IF x = a THEN load[a] + 1 ELSE load[x]
  BY <1>1, <1>3 DEF LevelInv, Inv, Typed, TypeOK
<1>7. ASSUME NEW x \in Members, NEW y \in Members, load'[x] > 0
      PROVE  (load'[x] - 1) * capacity[y] <= load'[y] * capacity[x]
  <2>1. /\ load[x] \in Nat /\ load[y] \in Nat /\ load[a] \in Nat
        /\ capacity[x] \in Nat \ {0} /\ capacity[y] \in Nat \ {0} /\ capacity[a] \in Nat \ {0}
    BY <1>3, Fields DEF LevelInv, Inv
  <2>2. load[x] > 0 => (load[x] - 1) * capacity[y] <= load[y] * capacity[x]
    BY DEF LevelInv, Levelled
  <2>3. CASE x = a
    <3>1. load'[x] - 1 = load[a]
      BY <1>6, <2>1, <2>3
    <3>2. CASE y = a
      <4>1. load'[y] = load[a] + 1
        BY <1>6, <3>2
      <4>2. capacity[a] * load[a] <= capacity[a] * (load[a] + 1)
        BY <2>1, Scale
      <4>3. load[a] * capacity[a] <= (load[a] + 1) * capacity[a]
        BY <2>1, <4>2
      <4> QED
        BY <2>3, <3>1, <3>2, <4>1, <4>3
    <3>3. CASE y # a
      <4>1. load'[y] = load[y]
        BY <1>6, <3>3
      <4>2. load[a] * capacity[y] <= load[y] * capacity[a]
        <5>1. CASE y \in Available
          BY <1>5, <2>1, <5>1
        <5>2. CASE y \notin Available
          <6>1. y \in online
            BY DEF LevelInv
          <6>2. ~(load[y] < capacity[y])
            BY <5>2, <6>1 DEF Available
          <6>3. load[y] <= capacity[y]
            BY DEF LevelInv, Inv, CapacityKept
          <6>4. load[y] = capacity[y]
            BY <2>1, <6>2, <6>3
          <6>5. capacity[y] * load[a] <= capacity[y] * capacity[a]
            BY <1>3, <2>1, Scale
          <6> QED
            BY <2>1, <6>4, <6>5
        <5> QED
          BY <5>1, <5>2
      <4> QED
        BY <2>3, <3>1, <4>1, <4>2
    <3> QED
      BY <3>2, <3>3
  <2>4. CASE x # a
    <3>1. load'[x] = load[x] /\ load[x] > 0
      BY <1>6, <1>7, <2>4
    <3>2. load'[y] \in Int /\ load[y] <= load'[y]
      BY <1>6, <2>1
    <3>3. capacity[x] * load[y] <= capacity[x] * load'[y]
      BY <2>1, <3>2, Scale
    <3>4. capacity[x] * load[y] = load[y] * capacity[x] /\ capacity[x] * load'[y] = load'[y] * capacity[x]
      BY <2>1, <3>2
    <3>5. /\ (load[x] - 1) * capacity[y] \in Int
          /\ capacity[x] * load[y] \in Int /\ capacity[x] * load'[y] \in Int
      BY <2>1, <3>2
    <3>6. (load[x] - 1) * capacity[y] <= load'[y] * capacity[x]
      BY <2>2, <3>1, <3>3, <3>4, <3>5
    <3> QED
      BY <3>1, <3>6
  <2> QED
    BY <2>3, <2>4
<1>8. Members' = Members
  BY <1>1, Settled
<1> QED
  BY <1>1, <1>7, <1>8 DEF LevelInv, Levelled

LEMMA LevelStep == LevelInv /\ [Next]_vars => LevelInv'
<1> SUFFICES ASSUME LevelInv, [Next]_vars
             PROVE  LevelInv'
  OBVIOUS
<1>1. Inv'
  BY InvStep DEF LevelInv
<1>2. CASE UNCHANGED vars
  BY <1>1, <1>2 DEF vars, roster, LevelInv, Levelled, Calm, Only, SelectDistributionStrategy,
     Members, Requests, Allowed
<1>3. setting' = setting
  BY <1>2 DEF Next, ClaimTask, Release, Toggle, Restart, Crash, vars
<1>4. SUFFICES ASSUME Calm, Next
               PROVE  online' = Members /\ Levelled'
  BY <1>1, <1>2, <1>3, Settled DEF LevelInv
<1>5. CASE \E t \in Requests : ClaimTask(t)
  BY <1>4, <1>5, ClaimLevels
<1>6. CASE \E a \in Members : Release(a) \/ Toggle(a)
  BY <1>4, <1>6 DEF Release, Toggle, Calm
<1>7. CASE Restart \/ Crash
  <2>1. UNCHANGED <<capacity, load, online, setting>>
    BY <1>7 DEF Restart, Crash, roster
  <2> QED
    BY <1>4, <2>1 DEF LevelInv, Levelled, Members
<1> QED
  BY <1>4, <1>5, <1>6, <1>7 DEF Next

\* A claim that has popped a task finds an agent for it whenever one is available,
\* whatever the strategy, so that it never has to put the task back; and where
\* claims are load-based, no task ends and no agent goes offline, no agent has more
\* than one task above what any other's load would justify.
THEOREM ClaimsAreDistributed == Spec => []Distributed
<1>1. Init => LevelInv
  <2> SUFFICES ASSUME Init PROVE LevelInv
    OBVIOUS
  <2>1. \A a \in Members : load[a] = 0
    BY DEF Init
  <2> QED
    BY <2>1, InitInv DEF LevelInv, Init, Levelled
<1>2. LevelInv => Distributed
  <2> SUFFICES ASSUME LevelInv PROVE Distributed
    OBVIOUS
  <2>1. AlwaysDistributed
    BY AvailableMembers, SomeoneChosen DEF LevelInv, Inv, AlwaysDistributed
  <2> QED
    BY <2>1 DEF LevelInv, Calm, Distributed
<1> QED
  BY <1>1, <1>2, LevelStep, PTL DEF Spec

-----------------------------------------------------------------------------
(* Everyone's turn.                                                        *)

\* How far position i is ahead of position j, going round a list of n.
Ahead(i, j, n) == IF i > j THEN i - j - 1 ELSE i - j - 1 + n

\* Those that a is not to be chosen before are all nearer to the last position.
Turns ==
  \A a \in Members : \A b \in passed[a].over : passed[a].same =>
    /\ a \in Available /\ b \in Available /\ a # b
    /\ lastAssignmentIndex \in 0..(Cardinality(Available) - 1)
    /\ Ahead(Index(b, Available), lastAssignmentIndex, Cardinality(Available))
         < Ahead(Index(a, Available), lastAssignmentIndex, Cardinality(Available))

TurnInv == Inv /\ (Only("round-robin") => Turns)

\* The next position is no way ahead.
LEMMA NextAhead ==
  ASSUME NEW n \in Nat, NEW j \in 0..(n - 1), NEW i \in 0..(n - 1)
  PROVE  /\ Ahead(i, j, n) \in 0..(n - 1)
         /\ Ahead(i, j, n) = 0 <=> i = (j + 1) % n
<1>1. (j + 1) % n = IF j + 1 = n THEN 0 ELSE j + 1
  <2>1. n \in Nat \ {0} /\ j + 1 \in Int
    OBVIOUS
  <2>2. j + 1 = n => (j + 1) % n = 0
    BY <2>1, Remainder
  <2>3. j + 1 # n => j + 1 \in 0..(n - 1)
    OBVIOUS
  <2>4. j + 1 # n => (j + 1) % n = j + 1
    BY <2>1, <2>3, Remainder
  <2> QED
    BY <2>2, <2>4
<1> QED
  BY <1>1 DEF Ahead

\* Going on to position c brings every other one nearer.
LEMMA Nearer ==
  ASSUME NEW n \in Nat, NEW j \in 0..(n - 1), NEW c \in 0..(n - 1), NEW i \in 0..(n - 1),
         c = (j + 1) % n
  PROVE  Ahead(i, c, n) = IF i = c THEN n - 1 ELSE Ahead(i, j, n) - 1
<1>1. (j + 1) % n = IF j + 1 = n THEN 0 ELSE j + 1
  <2>1. n \in Nat \ {0} /\ j + 1 \in Int
    OBVIOUS
  <2>2. j + 1 = n => (j + 1) % n = 0
    BY <2>1, Remainder
  <2>3. j + 1 # n => j + 1 \in 0..(n - 1)
    OBVIOUS
  <2>4. j + 1 # n => (j + 1) % n = j + 1
    BY <2>1, <2>3, Remainder
  <2> QED
    BY <2>2, <2>4
<1> QED
  BY <1>1 DEF Ahead

\* What is remembered of someone who is not chosen.
LEMMA NotChosen ==
  ASSUME Typed, NEW x, NEW S, NEW S2, Remember(x, S, S2), NEW a \in Members, a # x
  PROVE  /\ passed'[a].over = (passed[a].over \cap S2) \ {x}
         /\ passed'[a].same => passed[a].same /\ S2 = S
<1>1. passed'[a] = [over |-> (passed[a].over \cap S2) \ {x}, same |-> passed[a].same /\ S2 = S]
  BY DEF Remember
<1>2. passed'[a].same = (passed[a].same /\ S2 = S)
  BY <1>1
<1>3. passed'[a].same => passed[a].same /\ S2 = S
  BY <1>2, Zenon
<1> QED
  BY <1>1, <1>3

LEMMA ClaimTurns ==
  ASSUME TurnInv, Only("round-robin"), NEW t \in Requests, ClaimTask(t)
  PROVE  Turns'
<1>1. PICK c \in Available :
        /\ c \in DistributeTask(t, Available)
        /\ lastAssignmentIndex' = Index(c, Available)
        /\ Remember(c, Available, Available')
        /\ setting' = setting
  BY Claims DEF TurnInv, Inv
<1> DEFINE S == Available
           n == Cardinality(S)
           L == lastAssignmentIndex
<1>2. S \in SUBSET Members /\ S \in SUBSET Agents
  BY AvailableMembers DEF TurnInv, Inv, Typed
<1>3. n \in Nat /\ \A a \in S : Index(a, S) \in 0..(n - 1)
  BY <1>2, Indices
<1>4. \A a, b \in S : a # b => Index(a, S) # Index(b, S)
  BY <1>2, Indices
<1>5. Index(c, S) = (L + 1) % n
  <2>1. SelectDistributionStrategy(t) = "round-robin"
    BY DEF Only
  <2>2. c \in RoundRobin(S)
    BY <1>1, <2>1 DEF DistributeTask
  <2> QED
    BY <2>2 DEF RoundRobin
<1>6. Members' = Members
  BY <1>1, Settled
<1>7. SUFFICES ASSUME NEW a \in Members, NEW b \in passed'[a].over, passed'[a].same
               PROVE  /\ a \in S' /\ b \in S' /\ a # b
                      /\ L' \in 0..(n' - 1)
                      /\ Ahead(Index(b, S'), L', n') < Ahead(Index(a, S'), L', n')
  BY <1>6 DEF Turns
<1> HIDE DEF n, L
<1>8. CASE a = c
  <2>1. passed'[a] = [over |-> S' \ {c}, same |-> S' = S]
    BY <1>1, <1>8 DEF Remember
  <2>2. S' = S
    <3>1. passed'[a].same = (S' = S)
      BY <2>1
    <3> QED
      BY <1>7, <3>1, Zenon
  <2>3. b \in S /\ b # c
    BY <1>7, <2>1, <2>2
  <2>4. n' = n /\ L' = Index(c, S)
    BY <1>1, <2>2 DEF n, L
  <2>5. Ahead(Index(b, S), Index(c, S), n) < Ahead(Index(c, S), Index(c, S), n)
    <3>1. /\ Index(b, S) \in 0..(n - 1) /\ Index(c, S) \in 0..(n - 1)
          /\ Index(b, S) # Index(c, S)
      BY <1>1, <1>3, <1>4, <2>3
    <3> QED
      BY <1>3, <3>1 DEF Ahead
  <2> QED
    BY <1>1, <1>3, <1>8, <2>2, <2>3, <2>4, <2>5
<1>9. CASE a # c
  <2>1. /\ b \in passed[a].over /\ b # c
        /\ passed[a].same /\ S' = S
    BY <1>1, <1>7, <1>9, NotChosen DEF TurnInv, Inv
  <2>2. /\ a \in S /\ b \in S /\ a # b
        /\ L \in 0..(n - 1)
        /\ Ahead(Index(b, S), L, n) < Ahead(Index(a, S), L, n)
    BY <2>1 DEF TurnInv, Turns, L, n
  <2>3. n' = n /\ L' = Index(c, S)
    BY <1>1, <2>1 DEF n, L
  <2>4. /\ Index(a, S) \in 0..(n - 1) /\ Index(b, S) \in 0..(n - 1) /\ Index(c, S) \in 0..(n - 1)
        /\ Index(a, S) # Index(c, S) /\ Index(b, S) # Index(c, S)
    BY <1>1, <1>3, <1>4, <1>9, <2>1, <2>2
  <2>5. /\ Ahead(Index(a, S), Index(c, S), n) = Ahead(Index(a, S), L, n) - 1
        /\ Ahead(Index(b, S), Index(c, S), n) = Ahead(Index(b, S), L, n) - 1
    BY <1>3, <1>5, <2>2, <2>4, Nearer
  <2>6. Ahead(Index(a, S), L, n) \in Int /\ Ahead(Index(b, S), L, n) \in Int
    BY <1>3, <2>2, <2>4, NextAhead
  <2>7. Ahead(Index(b, S), Index(c, S), n) < Ahead(Index(a, S), Index(c, S), n)
    BY <2>2, <2>5, <2>6
  <2> QED
    BY <2>1, <2>2, <2>3, <2>4, <2>7
<1> QED
  BY <1>8, <1>9

\* Where nobody is chosen, the turns stay as they were or are forgotten.
LEMMA OthersTurn ==
  ASSUME TurnInv, Only("round-robin"), setting' = setting,
         \/ Remember(None, Available, Available') /\ lastAssignmentIndex' = lastAssignmentIndex
         \/ passed' = [a \in Members |-> [over |-> {}, same |-> FALSE]]
  PROVE  Turns'
<1>1. Members' = Members
  BY Settled
<1>2. SUFFICES ASSUME NEW a \in Members, NEW b \in passed'[a].over, passed'[a].same
               PROVE  /\ a \in Available' /\ b \in Available' /\ a # b
                      /\ lastAssignmentIndex' \in 0..(Cardinality(Available') - 1)
                      /\ Ahead(Index(b, Available'), lastAssignmentIndex', Cardinality(Available'))
                           < Ahead(Index(a, Available'), lastAssignmentIndex', Cardinality(Available'))
  BY <1>1 DEF Turns
<1>3. Remember(None, Available, Available') /\ lastAssignmentIndex' = lastAssignmentIndex
  BY <1>2
<1>4. a # None
  BY DEF TurnInv, Inv, Typed
<1>5. b \in passed[a].over /\ passed[a].same /\ Available' = Available
  BY <1>2, <1>3, <1>4, NotChosen DEF TurnInv, Inv
<1> QED
  BY <1>3, <1>5 DEF TurnInv, Turns

LEMMA TurnStep == TurnInv /\ [Next]_vars => TurnInv'
<1> SUFFICES ASSUME TurnInv, [Next]_vars
             PROVE  TurnInv'
  OBVIOUS
<1>1. Inv'
  BY InvStep DEF TurnInv
<1>2. setting' = setting
  BY DEF Next, ClaimTask, Release, Toggle, Restart, Crash, vars
<1>3. SUFFICES ASSUME Only("round-robin")
               PROVE  Turns'
  BY <1>1, <1>2, Settled DEF TurnInv
<1>4. CASE UNCHANGED vars
  <2>1. Available' = Available /\ Members' = Members /\ UNCHANGED <<passed, lastAssignmentIndex>>
    BY <1>4 DEF vars, roster, Available, Members
  <2> QED
    BY <1>3, <2>1 DEF TurnInv, Turns, Index
<1>5. CASE \E t \in Requests : ClaimTask(t)
  BY <1>3, <1>5, ClaimTurns
<1>6. CASE \E a \in Members : Release(a) \/ Toggle(a)
  BY <1>2, <1>3, <1>6, OthersTurn DEF Release, Toggle
<1>7. CASE Restart \/ Crash
  BY <1>2, <1>3, <1>7, OthersTurn DEF Restart, Crash
<1> QED
  BY <1>4, <1>5, <1>6, <1>7 DEF Next

\* A load that grows is a claim's, and its agent the one that the claim chose.
LEMMA ChosenInClaim ==
  ASSUME Inv, [Next]_vars, NEW a \in Members, Chosen(a)
  PROVE  \E t \in Requests : ClaimTask(t)
<1>1. load[a] \in Nat
  BY Fields DEF Inv
<1>2. ~UNCHANGED load
  BY <1>1 DEF Chosen
<1>3. ~\E b \in Members : Release(b)
  <2> SUFFICES ASSUME NEW b \in Members, Release(b)
               PROVE  FALSE
    OBVIOUS
  <2>1. load'[a] = load[a] \/ load'[a] = load[a] - 1
    BY DEF Release, Inv, Typed, TypeOK
  <2> QED
    BY <1>1, <2>1 DEF Chosen
<1> QED
  BY <1>2, <1>3 DEF Next, Toggle, Restart, Crash, vars

LEMMA ChosenIs ==
  ASSUME Inv, NEW t \in Requests, ClaimTask(t), NEW a \in Members, Chosen(a)
  PROVE  a \in Available /\ a \in DistributeTask(t, Available)
<1>1. PICK c \in Available :
        /\ c \in DistributeTask(t, Available)
        /\ load' = [load EXCEPT ![c] = @ + 1]
  BY Claims DEF Inv
<1>2. load[a] \in Nat
  BY Fields DEF Inv
<1>3. a # c => load'[a] = load[a]
  BY <1>1 DEF Inv, Typed, TypeOK
<1>4. a = c
  BY <1>2, <1>3 DEF Chosen
<1> QED
  BY <1>1, <1>4

LEMMA TurnsTaken ==
  ASSUME TurnInv, [Next]_vars, Only("round-robin")
  PROVE  TakesTurns
<1> SUFFICES ASSUME NEW a \in Members, Chosen(a), passed[a].same, NEW b \in passed[a].over
             PROVE  FALSE
  BY DEF TakesTurns
<1> DEFINE S == Available
           n == Cardinality(S)
<1>1. PICK t \in Requests : ClaimTask(t)
  BY ChosenInClaim DEF TurnInv
<1>2. a \in S /\ a \in DistributeTask(t, S)
  BY <1>1, ChosenIs DEF TurnInv
<1>3. SelectDistributionStrategy(t) = "round-robin"
  BY DEF Only
<1>4. a \in RoundRobin(S)
  BY <1>2, <1>3 DEF DistributeTask
<1>5. Index(a, S) = (lastAssignmentIndex + 1) % n
  BY <1>4 DEF RoundRobin
<1>6. /\ b \in S /\ lastAssignmentIndex \in 0..(n - 1)
      /\ Ahead(Index(b, S), lastAssignmentIndex, n) < Ahead(Index(a, S), lastAssignmentIndex, n)
  BY DEF TurnInv, Turns
<1>7. S \in SUBSET Agents
  BY AvailableMembers DEF TurnInv, Inv, Typed
<1>8. n \in Nat /\ Index(a, S) \in 0..(n - 1) /\ Index(b, S) \in 0..(n - 1)
  BY <1>2, <1>6, <1>7, Indices
<1> HIDE DEF S, n
<1>9. Ahead(Index(a, S), lastAssignmentIndex, n) = 0
  BY <1>5, <1>6, <1>8, NextAhead
<1>10. Ahead(Index(b, S), lastAssignmentIndex, n) \in 0..(n - 1)
  BY <1>6, <1>8, NextAhead
<1> QED
  BY <1>6, <1>9, <1>10

-----------------------------------------------------------------------------
(* Skills and sticky keys.                                                 *)

\* Half of the skills outweigh all that an idle agent has to offer without any:
\* m of n skills, capacities p and q, loads l and k.
LEMMA HalfOutweighs ==
  ASSUME NEW n \in Nat \ {0}, NEW m \in Nat, 2 * m >= n,
         NEW p \in Nat \ {0}, NEW q \in Nat \ {0}, NEW l \in Nat, NEW k \in Nat, l < p
  PROVE  (7 * m * p + 3 * (p - l) * n) * q > (7 * 0 * q + 3 * (q - k) * n) * p
<1> DEFINE r == p * q
<1>1. r \in Nat \ {0}
  OBVIOUS
<1>2. (7 * m * p + 3 * (p - l) * n) * q = 7 * (m * r) + 3 * (n * ((p - l) * q))
  OBVIOUS
<1>3. (7 * 0 * q + 3 * (q - k) * n) * p = 3 * (n * r) - 3 * (n * (k * p))
  OBVIOUS
<1>4. n * ((p - l) * q) \in Nat /\ n * (k * p) \in Nat
  <2>1. (p - l) * q \in Nat /\ k * p \in Nat
    OBVIOUS
  <2> QED
    BY <2>1
<1>5. 2 * (m * r) >= n * r /\ n * r > 0 /\ m * r \in Nat /\ n * r \in Nat
  <2>1. r * n <= r * (2 * m)
    BY <1>1, Scale
  <2>2. r * (2 * m) = 2 * (m * r) /\ r * n = n * r
    BY <1>1
  <2>3. m * r \in Nat /\ n * r \in Nat \ {0}
    BY <1>1
  <2> HIDE DEF r
  <2> QED
    BY <2>1, <2>2, <2>3
<1> HIDE DEF r
<1> QED
  BY <1>2, <1>3, <1>4, <1>5

LEMMA Matches ==
  ASSUME NEW needed \in SUBSET Skills, NEW a
  PROVE  /\ IsFiniteSet(Matched(a, needed)) /\ Cardinality(Matched(a, needed)) \in Nat
         /\ Cardinality(needed) \in Nat /\ (needed # {} => Cardinality(needed) > 0)
         /\ Matched(a, needed) = {} => Cardinality(Matched(a, needed)) = 0
<1>1. IsFiniteSet(needed)
  BY FS_Subset
<1>2. Matched(a, needed) \in SUBSET needed
  BY DEF Matched
<1>3. IsFiniteSet(Matched(a, needed))
  BY <1>1, <1>2, FS_Subset
<1> QED
  BY <1>1, <1>3, FS_CardinalityType, FS_EmptySet

Scored(a, b, needed) == Score(a, needed) * capacity[b] > Score(b, needed) * capacity[a]
BestScored(S, needed) ==
  {a \in S : \A b \in S : ~Scored(b, a, needed) /\ (Scored(a, b, needed) \/ Rank[a] <= Rank[b])}

LEMMA SkillBasedIs ==
  ASSUME NEW S, NEW needed
  PROVE  SkillBased(S, needed)
           = {a \in BestScored(S, needed) : needed # {} => Matched(a, needed) # {}}
BY DEF SkillBased, FirstBest, BestScored, Scored

LEMMA ScoreType ==
  ASSUME Typed, NEW a \in Members, NEW needed \in SUBSET Skills
  PROVE  Score(a, needed) \in Int
<1>1. Cardinality(Matched(a, needed)) \in Nat /\ Cardinality(needed) \in Nat
  BY Matches
<1>2. load[a] \in Nat /\ capacity[a] \in Nat
  BY Fields
<1> QED
  BY <1>1, <1>2 DEF Score

LEMMA BestScoredFound ==
  ASSUME Typed, NEW S \in SUBSET Members, S # {}, NEW needed \in SUBSET Skills
  PROVE  BestScored(S, needed) # {}
<1> DEFINE v == [a \in S |-> -Score(a, needed)]
           w == [a \in S |-> capacity[a]]
<1>1. S \in SUBSET Agents /\ v \in [S -> Int] /\ w \in [S -> Nat \ {0}]
  BY Fields, ScoreType
<1>2. \A a, b \in S : /\ v[a] * w[b] = -(Score(a, needed) * capacity[b])
                      /\ Score(a, needed) * capacity[b] \in Int
  <2> SUFFICES ASSUME NEW a \in S, NEW b \in S
               PROVE  /\ v[a] * w[b] = -(Score(a, needed) * capacity[b])
                      /\ Score(a, needed) * capacity[b] \in Int
    OBVIOUS
  <2>1. v[a] = -Score(a, needed) /\ w[b] = capacity[b]
    OBVIOUS
  <2>2. Score(a, needed) \in Int /\ capacity[b] \in Int
    BY Fields, ScoreType
  <2> HIDE DEF v, w
  <2>3. \A x, y \in Int : (-x) * y = -(x * y) /\ x * y \in Int
    OBVIOUS
  <2> QED
    BY <2>1, <2>2, <2>3
<1> HIDE DEF v, w
<1>3. PICK a \in S : \A b \in S :
           /\ v[a] * w[b] <= v[b] * w[a]
           /\ v[a] * w[b] < v[b] * w[a] \/ Rank[a] <= Rank[b]
  BY <1>1, LeastRatio
<1>4. ASSUME NEW b \in S
      PROVE  ~Scored(b, a, needed) /\ (Scored(a, b, needed) \/ Rank[a] <= Rank[b])
  <2> DEFINE x == Score(a, needed) * capacity[b]
             y == Score(b, needed) * capacity[a]
  <2>1. v[a] * w[b] = -x /\ v[b] * w[a] = -y /\ x \in Int /\ y \in Int
    BY <1>2
  <2>2. -x <= -y /\ (-x < -y \/ Rank[a] <= Rank[b])
    BY <1>3, <2>1
  <2>3. Scored(b, a, needed) <=> y > x
    BY DEF Scored
  <2>4. Scored(a, b, needed) <=> x > y
    BY DEF Scored
  <2> HIDE DEF x, y
  <2>5. ~(y > x) /\ (x > y \/ Rank[a] <= Rank[b])
    BY <2>1, <2>2
  <2> QED
    BY <2>3, <2>4, <2>5
<1> QED
  BY <1>4 DEF BestScored

\* The best agent has some of the skills, when one has half of them.
LEMMA BestIsSkilled ==
  ASSUME Inv, NEW needed \in SUBSET Skills, needed # {}, NEW b \in Available,
         2 * Cardinality(Matched(b, needed)) >= Cardinality(needed),
         NEW a \in BestScored(Available, needed)
  PROVE  Matched(a, needed) # {}
<1> SUFFICES ASSUME Matched(a, needed) = {}
             PROVE  FALSE
  OBVIOUS
<1>1. a \in Members /\ b \in Members /\ load[b] < capacity[b]
  BY AvailableMembers DEF BestScored, Inv, Available
<1>2. /\ load[a] \in Nat /\ capacity[a] \in Nat \ {0}
      /\ load[b] \in Nat /\ capacity[b] \in Nat \ {0}
  BY <1>1, Fields DEF Inv
<1>3. /\ Cardinality(Matched(a, needed)) = 0 /\ Cardinality(Matched(b, needed)) \in Nat
      /\ Cardinality(needed) \in Nat \ {0}
  BY Matches
<1>4. ~Scored(b, a, needed)
  BY DEF BestScored
<1>5. /\ Score(a, needed) = 7 * 0 * capacity[a] + 3 * (capacity[a] - load[a]) * Cardinality(needed)
      /\ Score(b, needed) = 7 * Cardinality(Matched(b, needed)) * capacity[b]
                            + 3 * (capacity[b] - load[b]) * Cardinality(needed)
  BY <1>3 DEF Score
<1>6. Score(b, needed) * capacity[a] > Score(a, needed) * capacity[b]
  <2> DEFINE n == Cardinality(needed)
             m == Cardinality(Matched(b, needed))
  <2>1. n \in Nat \ {0} /\ m \in Nat /\ 2 * m >= n
    BY <1>3
  <2> HIDE DEF n, m
  <2>2. (7 * m * capacity[b] + 3 * (capacity[b] - load[b]) * n) * capacity[a]
          > (7 * 0 * capacity[a] + 3 * (capacity[a] - load[a]) * n) * capacity[b]
    BY <1>1, <1>2, <2>1, HalfOutweighs
  <2>3. /\ Score(a, needed) = 7 * 0 * capacity[a] + 3 * (capacity[a] - load[a]) * n
        /\ Score(b, needed) = 7 * m * capacity[b] + 3 * (capacity[b] - load[b]) * n
    BY <1>5 DEF n, m
  <2> QED
    BY <2>2, <2>3
<1> QED
  BY <1>4, <1>6 DEF Scored

LEMMA SkillsPreferred ==
  ASSUME Inv
  PROVE  PrefersHalfSkilled
<1> SUFFICES ASSUME NEW t \in Requests, NEW a \in Members, NEW b \in Members,
                    t.requiredSkills # {}, SelectDistributionStrategy(t) = "skill-based",
                    b \in Available,
                    2 * Cardinality(Matched(b, t.requiredSkills)) >= Cardinality(t.requiredSkills),
                    Gets(t, a)
             PROVE  Matched(a, t.requiredSkills) # {}
  BY DEF PrefersHalfSkilled
<1> DEFINE needed == t.requiredSkills
<1>1. a \in DistributeTask(t, Available)
  BY ChosenIs DEF Gets
<1>2. needed \in SUBSET Skills
  BY RequestFields DEF Inv
<1>3. \A c \in BestScored(Available, needed) : Matched(c, needed) # {}
  BY <1>2, BestIsSkilled
<1>4. BestScored(Available, needed) # {}
  BY <1>2, AvailableMembers, BestScoredFound DEF Inv
<1>5. SkillBased(Available, needed) # {}
  BY <1>3, <1>4, SkillBasedIs
<1>6. a \in SkillBased(Available, needed)
  BY <1>1, <1>5 DEF DistributeTask, OrLoadBased
<1> QED
  BY <1>6, SkillBasedIs

LEMMA KeysKept ==
  ASSUME Inv, [Next]_vars, "crash" \notin Allowed
  PROVE  KeepsKeys
<1> SUFFICES ASSUME NEW k \in StickyKeys, stickyAssignments[k] # None,
                    stickyAssignments'[k] # stickyAssignments[k],
                    stickyAssignments[k] \in Available
             PROVE  \E t \in Requests : t.stickyKey = k /\ t.routingHint # None /\ ClaimTask(t)
  BY DEF KeepsKeys
<1>1. ~UNCHANGED stickyAssignments
  OBVIOUS
<1>2. ~Restart
  <2> SUFFICES ASSUME Restart PROVE FALSE
    OBVIOUS
  <2>1. stickyMap'[k] = stickyAssignments[k] /\ stickyAssignments' = stickyMap'
    BY DEF Restart
  <2> QED
    BY <2>1
<1>3. PICK t \in Requests : ClaimTask(t)
  BY <1>1, <1>2 DEF Next, Release, Toggle, Crash, vars
<1>4. PICK a \in Available :
        /\ a \in DistributeTask(t, Available)
        /\ stickyAssignments' = IF t.stickyKey = None THEN stickyAssignments
                                ELSE [stickyAssignments EXCEPT ![t.stickyKey] = a]
  BY <1>3, Claims DEF Inv
<1>5. stickyAssignments \in [StickyKeys -> Members \cup {None}]
  BY DEF Inv, Typed, TypeOK
<1>6. t.stickyKey = k /\ k # None
  BY <1>4, <1>5
<1>7. a # stickyAssignments[k]
  BY <1>4, <1>5, <1>6
<1>8. t.routingHint # None
  <2> SUFFICES ASSUME t.routingHint = None PROVE FALSE
    OBVIOUS
  <2>1. SelectDistributionStrategy(t) = "sticky"
    BY <1>6 DEF SelectDistributionStrategy
  <2>2. Sticky(Available, t.stickyKey) = {stickyAssignments[k]}
    BY <1>6 DEF Sticky
  <2>3. a \in {stickyAssignments[k]}
    BY <1>4, <2>1, <2>2 DEF DistributeTask, OrLoadBased
  <2> QED
    BY <1>7, <2>3
<1> QED
  BY <1>3, <1>6, <1>8

\* While the available agents stay the same, round-robin claims choose nobody again
\* before all the others; a task never goes to an agent without any of the skills
\* it requires when one that is available has half of them; and a sticky key
\* changes hands only when its agent cannot take the task, unless the queue
\* crashes or the task asks for another strategy.
THEOREM StrategiesAreKept == Spec => StrategiesKept
<1>1. Init => TurnInv
  <2> SUFFICES ASSUME Init PROVE TurnInv
    OBVIOUS
  <2>1. \A a \in Members : passed[a].over = {}
    BY DEF Init
  <2> QED
    BY <2>1, InitInv DEF TurnInv, Turns
<1>2. TurnInv /\ [Next]_vars =>
        [/\ Only("round-robin") => TakesTurns
         /\ PrefersHalfSkilled
         /\ "crash" \notin Allowed => KeepsKeys]_vars
  BY TurnsTaken, SkillsPreferred, KeysKept DEF TurnInv
<1> QED
  BY <1>1, <1>2, TurnStep, PTL DEF Spec, StrategiesKept
=============================================================================
