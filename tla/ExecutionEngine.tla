-------------------------- MODULE ExecutionEngine --------------------------
(***************************************************************************)
(* DependencyResolver and ExecutionEngine of src/src/federation: the       *)
(* dependencies of the tasks are cut into levels, and the tasks of a level *)
(* run together, each with its retries; the next level starts when all of  *)
(* them have settled.  A caller may abort the signal at any time; the      *)
(* engine looks at it between attempts and between levels only.            *)
(***************************************************************************)
EXTENDS Integers, Sequences, FiniteSets

CONSTANTS
  Tasks,
  RetryAttempts   \* retryAttempts

TasksAssumption == IsFiniteSet(Tasks)
RetryAssumption == RetryAttempts \in Nat

VARIABLES
  dependencies,        \* of each task; a run of the engine does not change them
  continueOnFailure,   \* the option; a run does not change it
  levels,              \* the levels of the plan
  level,               \* the level that runs, 0 before the first
  task,                \* each task: where it stands and the attempt it is at
  results,             \* state.results: the status of the tasks of finished levels
  aborted,             \* options.signal.aborted
  outcome

vars == <<dependencies, continueOnFailure, levels, level, task, results, aborted, outcome>>
settings == <<dependencies, continueOnFailure>>

Settled == {"completed", "failed", "cancelled"}
MaxAttempts == RetryAttempts + 1

Init ==
  /\ dependencies \in [Tasks -> SUBSET Tasks]
  /\ continueOnFailure \in BOOLEAN
  /\ levels = <<>> /\ level = 0
  /\ task = [t \in Tasks |-> [at |-> "waiting", attempt |-> 0]]
  /\ results = [t \in {} |-> "none"]
  /\ aborted = FALSE
  /\ outcome = "none"

-----------------------------------------------------------------------------
\* getExecutionLevels: a task enters the next level when the last of its
\* dependencies is in a level, which takes its in-degree to 0.
AnyOfThem(done) == {t \in Tasks \ done : dependencies[t] = {} \/ dependencies[t] \cap done # {}}   \* mutant: one dependency placed is enough
NextLevel(done) == {t \in Tasks \ done : dependencies[t] \subseteq done}

Planned ==   \* the tasks of the first n levels
  LET upTo[n \in 0..Cardinality(Tasks)] == IF n = 0 THEN {} ELSE upTo[n - 1] \cup NextLevel(upTo[n - 1])
  IN  upTo

LevelCount == Cardinality({n \in 1..Cardinality(Tasks) : Planned[n] # Planned[n - 1]})

\* resolve(): a graph with a cycle has no plan, any other one has its levels;
\* executePlan is done with no levels at once.
Resolve ==
  /\ outcome = "none" /\ level = 0 /\ levels = <<>>
  /\ IF Planned[Cardinality(Tasks)] # Tasks
     THEN outcome' = "invalid" /\ UNCHANGED levels
     ELSE /\ levels' = [n \in 1..LevelCount |-> Planned[n] \ Planned[n - 1]]
          /\ outcome' = IF Tasks = {} THEN "completed" ELSE "none"
  /\ UNCHANGED <<settings, level, task, results, aborted>>

-----------------------------------------------------------------------------
\* The first attempt of a task, or its cancellation, in the turn that starts
\* its level.
Begun == [t \in levels[level + 1] |-> [at |-> "running", attempt |-> 1]]

\* executePlan: the next level starts, unless the signal is aborted.
StartLevel ==
  /\ outcome = "none" /\ level < Len(levels)
  /\ level > 0 => levels[level] \subseteq DOMAIN results
  /\ IF aborted
     THEN outcome' = "cancelled" /\ UNCHANGED <<level, task>>
     ELSE /\ level' = level + 1
          /\ task' = [t \in Tasks |-> IF t \in levels[level + 1] THEN Begun[t] ELSE task[t]]
          /\ UNCHANGED outcome
  /\ UNCHANGED <<settings, levels, results, aborted>>

\* executeTask returns its result: the agent was chosen and the executor did
\* the task.
Succeed(t) ==
  /\ task[t].at = "running"
  /\ task' = [task EXCEPT ![t].at = "completed"]
  /\ UNCHANGED <<settings, levels, level, results, aborted, outcome>>

AfterFailure(attempt) == IF attempt < MaxAttempts THEN "delay" ELSE "failed"

\* No agent was found or the executor threw: the task waits for its next
\* attempt, if it has one.
Fail(t) ==
  /\ task[t].at = "running"
  /\ task' = [task EXCEPT ![t].at = AfterFailure(task[t].attempt)]
  /\ UNCHANGED <<settings, levels, level, results, aborted, outcome>>

\* The delay is over: the signal is looked at before the next attempt.
Retry(t) ==
  /\ task[t].at = "delay"
  /\ task' = [task EXCEPT ![t] = [at |-> IF aborted THEN "cancelled" ELSE "running", attempt |-> @.attempt + 1]]
  /\ UNCHANGED <<settings, levels, level, results, aborted, outcome>>

\* A level with a failure ends the plan, unless continueOnFailure; so does
\* the last level.
AfterLevel ==
  IF ~continueOnFailure /\ \E t \in levels[level] : task[t].at = "failed" THEN "failed"
  ELSE IF level = Len(levels) THEN "completed"
  ELSE "none"

\* Promise.all waits for every task of the level.
AllSettled == \A t \in levels[level] : task[t].at \in Settled

\* Promise.all of the level resolves, its results are stored, and its
\* failures are looked at.
EndLevel ==
  /\ outcome = "none" /\ level > 0
  /\ ~(levels[level] \subseteq DOMAIN results)
  /\ AllSettled
  /\ results' = [t \in DOMAIN results \cup levels[level] |->
       IF t \in levels[level] THEN task[t].at ELSE results[t]]
  /\ outcome' = AfterLevel
  /\ UNCHANGED <<settings, levels, level, task, aborted>>

\* The caller aborts the signal.  cancel() of the engine only emits an event.
Abort ==
  /\ outcome = "none" /\ levels # <<>> /\ ~aborted
  /\ aborted' = TRUE
  /\ UNCHANGED <<settings, levels, level, task, results, outcome>>

Engine == Resolve \/ StartLevel \/ EndLevel \/ \E t \in Tasks : Succeed(t) \/ Fail(t) \/ Retry(t)
Next == Engine \/ Abort

Spec == Init /\ [][Next]_vars

\* Delays end, the executor answers, and what is ready is scheduled.
Fairness == WF_vars(Engine)
FairSpec == Spec /\ Fairness

-----------------------------------------------------------------------------
\* The state keeps its type; a task takes no more attempts than it has.
TypeOK ==
  /\ dependencies \in [Tasks -> SUBSET Tasks] /\ continueOnFailure \in BOOLEAN
  /\ levels \in Seq(SUBSET Tasks) /\ level \in 0..Len(levels)
  /\ task \in [Tasks -> [at : {"waiting", "running", "delay"} \cup Settled, attempt : 0..MaxAttempts]]
  /\ DOMAIN results \subseteq Tasks /\ \A t \in DOMAIN results : results[t] \in Settled
  /\ aborted \in BOOLEAN /\ outcome \in {"none", "invalid", "completed", "failed", "cancelled"}

\* A task runs only when the tasks that it depends on have settled, and when
\* they have all completed if failures are not to be passed over, whatever
\* the graph and whenever the signal is aborted.
DependenciesFirst ==
  \A t \in Tasks : task[t].at # "waiting" => \A d \in dependencies[t] :
    /\ task[d].at \in Settled
    /\ ~continueOnFailure => task[d].at = "completed"

\* When the plan returns nothing of it is left running, and a plan that is
\* reported completed did all of its tasks, but for failures passed over and
\* an abort that came too late for a level to notice.
ReturnsWhole ==
  outcome # "none" =>
    /\ \A t \in Tasks : task[t].at \in {"waiting"} \cup Settled
    /\ outcome = "completed" => /\ DOMAIN results = Tasks
                                /\ \A t \in Tasks : \/ results[t] = "completed"
                                                    \/ results[t] = "failed" /\ continueOnFailure
                                                    \/ results[t] = "cancelled" /\ aborted

\* Every plan returns.
PlanReturns == <>(outcome # "none")
=============================================================================
