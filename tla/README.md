# Godel: specifications and proofs

Godel (`src/`) is a TypeScript control plane for fleets of coding agents: it
queues tasks in Redis and hands them to agents, runs workflows, keeps the state
machine of each agent, watches agents and clusters through circuit breakers, and
wraps all of that in an HTTP API, a command line and integrations. This
directory holds TLA+ models of the parts that carry its own logic, the TLC
configurations that check them, and TLAPS proofs about them. All paths below
are relative to `src/src/` unless they say otherwise.

## Inventory

| Part | State | Operations and interactions | What is hard | What makes it correct |
|---|---|---|---|---|
| Task queue (`queue/task-queue.ts`) | Redis: one JSON record per task and per agent, a sorted set per priority, the scheduled and processing sets, the pending list, the dead letter set, the set of agent ids | enqueue, dequeue, claim, start, progress, complete, fail, cancel, replay, register, unregister, heartbeat, and two timers (due tasks, late agents) | every operation is several Redis commands with no transaction; agents die; timers overlap operations | no entry is handed out twice, no task is lost or run by two agents, finished tasks stay finished, loads and capacity are kept, tasks of dead agents come back |
| Work distribution (`queue/work-distributor.ts`) | round-robin index, sticky map | four strategies behind `distributeTask`; called by the queue's claim | the index refers to a list that changes; fallbacks between strategies | only agents with a free slot; circular order; skills and sticky keys respected |
| Workflow engine (`workflow/engine.ts`, `state-machine.ts`, `dag.ts`) | status of the workflow and of each step, attempts, active executions | execute by layers of the dependency graph, retry, condition, cancel, pause, resume | steps of a layer run concurrently; cancel and pause race them; one failure aborts the wait | order of dependencies, legal transitions, an execution ends in one final state |
| Agent circuit breaker (`federation/circuit-breaker.ts`) | closed / open / half-open, failure window, reset timer | record success and failure, force, reset, timer | results of old calls arrive in a later state; timer and clock both open the half state | opens at the threshold, waits for its timeout, closes on enough successes, is tried again |
| Agent state machine (`loop/state-machine.ts`) | state, history, snapshots, registry | guarded transitions with asynchronous guards and hooks; persistence; recovery | the state is read before awaits and used after them; crash between save and change | only allowed transitions; terminal state final; storage and memory agree |
| Event-sourced loop (`loop/aggregate.ts`, `event-store.ts`, `event-replay.ts`) | the agent aggregate with its version and uncommitted events, a buffer of events, groups of a replay | commands emit events, handlers apply them, load and restore; append, flush, read, close; replay in parallel | flushes overlap and fail on one session; a snapshot shares an object with the living agent; a group throws while others work | versions have no gap, a rebuilt agent is the one its events describe, no event is lost, replays end |
| Federation (`federation/migration.ts`, `cluster-registry.ts`, `execution-engine.ts`, `dependency-resolver.ts`, `dag.ts`) | capacity and health of clusters, migrations in progress; levels of a plan, results | migrate an agent by HTTP requests to two clusters; resolve and execute a plan level by level | an answer is lost after its request was applied; rollback half-way; abort during retries | an agent always runs somewhere, and where its callers believe; dependencies first; plans return |
| Agent lifecycle (`core/lifecycle.ts`) | state, record, runtime and session of each agent, a map of mutexes | spawn, start, pause, resume, kill, complete, fail, retry, each under the agent's mutex | the mutex is deleted while others wait for it; an operation calls another one that takes it | ended agents stay ended, the record agrees with the state, operations take turns and return |
| Scheduling (`scheduling/scheduler.ts`, `resource-tracker.ts`, `preemption-system.ts`) | allocations of nodes and agents in Redis, priorities, preempted agents | schedule, preempt, reschedule, unschedule | reads and pipelines of overlapping calls; victims released one by one | allocations agree with placements, no node above its capacity, a preempted agent has no place |
| Approvals (`safety/approval.ts`, `pending.ts`, `escalation.ts`) | the requests and the pending queue, a monitor's interval | create, respond, escalate, expire, override | time-outs race answers; the queue is not the map | what is unanswered can be reached, what the monitor denied stays so |
| Transactions (`storage/transaction.ts`) | a pool of clients, rows with versions | run an operation in a transaction with savepoints, timer, retry, forced rollback | the timer does not stop the operation, whose queries reach a client that others use | clients in the pool are clean, no update lost or applied twice, callers are told the truth |
| Task lists (`tasks/tasklist.ts`, `storage.ts`) | a file per task and per list | create, start, complete, block, link, move, delete | links are kept on both sides, locks are never taken | both sides agree, a blocked task has a cause, a task is in one list |
| API, CLI, dashboard, integrations, Kubernetes, telemetry, tooling, language-model orchestration | connections | requests around the parts above | I/O | not modelled: see the end |

`PROJECT.json` lists every part, the modelled ones with their modules, and under
"hazards" the places where this code is hard to test.

## Plan

## Modules

One module per component; where a component's constants or environments need
definitions, an `MC` module gives them; components that share actors but no state
are composed by a module (`AgentManagement`, `Federation`, `EventSourcing`) and checked together
(a behaviour is one of one part, named by the variable `part`, the others staying as
they begin). `...Proofs`
modules hold the theorems; `InductionLemmas` holds what they share: induction,
recursion and sums over finite sets.

| Module | Models | Checked by | Theorems |
|---|---|---|---|
| `TaskQueue` | `queue/task-queue.ts`, command by command | `QueueSafety`, `QueueRecovery` | types, claims are backed, queues agree, tasks are exclusive, finished is final |
| `WorkDistribution` | `queue/work-distributor.ts` and its state; closes the choice of agent that `TaskQueue` leaves open | `Distribution` | capacity, claims find an agent and keep loads level, turns, skills and keys |
| `WorkflowEngine` | `workflow/engine.ts`, `state-machine.ts`, `dag.ts` | `Flow` | dependencies first, final status stays, nothing starts after cancel, executions end truthfully |
| `AgentStateMachine` | `loop/state-machine.ts` with persistence and registry | `AgentStates`, `StoppedAgentWorks` | the registry and the storage agree, serial calls keep to the table |
| `Transactions` | `storage/transaction.ts` over a model of PostgreSQL | `Transacted` | types, clients come back clean, updates are counted, calls are told the truth |
| `AgentMigration`, `ExecutionEngine`, `AgentCircuitBreaker` | `federation/migration.ts` with `cluster-registry.ts`; `execution-engine.ts` with `dependency-resolver.ts` and `dag.ts`; `circuit-breaker.ts` as `load-balancer.ts` uses it | `Federation` (`Federation`, `MCFederation`) | agents are kept, plans are kept, failures are noticed, timeout and trials are kept |
| `AgentLifecycle`, `Placement`, `Approvals` | `core/lifecycle.ts`; `scheduling/`; `safety/` | `Agents` (`AgentManagement`, `MCAgents`), `LifecycleRetryHangs` | records agree and operations take turns, the ledger of the nodes, what is unanswered is queued, ends are final |
| `AgentAggregate`, `EventStore`, `EventReplay` | `loop/aggregate.ts`, `event-store.ts`, `event-replay.ts` | `EventSourcing` (`EventSourcing`, `MCEventSourcing`) | agents are rebuilt, events are not lost, replays are kept |
| `TaskLists` | `tasks/tasklist.ts` over `tasks/storage.ts` | `Tasks` | both sides of a dependency agree; blocked tasks have a cause and tasks one list |

Few runs answer many questions: a component's environments (how it is used, which
faults it meets) are initial values of a variable that never changes, so that one run
covers them all, and a property that joins several facts is a conjunction whose parts
are named and commented in the module.

| Run | Properties | Instance |
|---|---|---|
| `QueueSafety` | `ClaimsBacked`, `Exclusive`, `QueuesAgree`, `BooksAgree`, `FinishedIsFinal` | 1 or 2 tasks, 2 agents, 1 client, 1 timer callback, three environments |
| `QueueRecovery` | `TypeOK`, `Recovered` | 1 task, 2 agents that die, fair timers |
| `Distribution` | `CapacityKept`, `Distributed`, `StrategiesKept` | five settings, 2 or 3 agents |
| `Flow` | `EndsTruthfully`, `ExecutionEnds`, `DependenciesFirst`, `FinalStays`, `NothingStartsAfterCancel` | every graph over 3 steps, every policy |
| `AgentStates` | `RegistryAgrees`, `LegalSerially`, `CallsEnd` | 2 callers, 2 tasks, four environments |
| `StoppedAgentWorks` | `StoppedIsFinal`, violated | 3 callers, 1 task, 1 machine |
| `Transacted` | `PoolClean`, `UpdatesCount`, `Reported`, `CallsEnd` | 2 calls, 2 clients, 2 rows, 2 attempts |
| `Federation` | `AgentsKept`, `PlanKept`, `FailsFast`, `OpenLasts`, `ProvenByTrials`, `AllEnd`, `Retried` | 2 migrations of 2 agents, 1 fault, 1 report; every plan over 3 tasks, 1 retry; the breaker of 1 agent, with and without operators and automatic recovery |
| `Agents` | `LifecycleKept`, `NodesKept`, `UnansweredQueued`, `EndsAreFinal`, `AllEnd` | 4 operations on an agent; 5 calls, 3 agents, 2 nodes, 2 workers; 2 requests of 2 risks |
| `LifecycleRetryHangs` | `RetryEnds`, violated | 2 operations |
| `EventSourcing` | `Rebuilt`, `NoneLost`, `ReplayKept`, `AllEnd` | 3 events on both kinds of store; 3 events, 2 flushes, 1 failure; groups of 2, 1 and 1 events, 2 workers, 2 replays |
| `Tasks` | `LinksAgree`, `ListsKept` | 3 tasks, 2 lists, 4 calls in sequence or 2 that overlap |

Two of everything is enough for every pair of interleaved operations, three where an
order or a graph is the matter.

## TaskQueue

`TaskQueue.tla` models `queue/task-queue.ts` at the granularity at which it
interleaves: one Redis command per step. A public operation is an async function
that reads, decides and then awaits a fixed list of Redis commands. The action
of the same name performs the first read with the code's guards and leaves the
remaining commands in `todo[c]`, where `c` is the caller: an agent (`dequeue`,
`startTask`, `completeTask`, ...), a client (`enqueue`, `claimTask`,
`cancelTask`, `replayDeadLetter`, `unregisterAgent`) or a timer callback in
flight (`processScheduledTasks`, `checkAgentHeartbeats`). `WriteTask`,
`ZAddTask`, `ZRemTask`, `WriteList`, `PutDeadLetter`, `DropDeadLetter`,
`ReadLoad`, `WriteAgent` and `WriteMembers` each issue one command. Operations
with control flow between their commands keep their local variables in
`call[c]`: the pop (`Peek`, `Take`, `Fetch`, `Give`), the loops of the two timers
(`Wake`; `Sweep`, `FailNext`) and of `unregisterAgent` (`Requeue`).

| State | Code |
|---|---|
| `task`, `agent`, `members` | the JSON records `task:<id>`, `agent:<id>` and the set `agents`; of a task its status, assignee and retry count, of an agent its status, load and whether its last heartbeat is recent |
| `zset` | the sorted sets: priority (a task has one priority for life, so the sets are one set and `Level`), scheduled, processing |
| `list` | how often an id occurs in the pending list |
| `dead` | dead letter entries of a task, with the assignee each one recorded |
| `held`, `alive` | what each agent process believes it executes; which processes run |
| `credit` | history: pushes to a priority set less hand-outs |

Abstracted: time (a delay may end at any moment; a heartbeat is in time or not),
payloads, progress and error texts, metrics counters, the event handlers and the
event stream, the seven-day TTL of tasks, and the strategies, of which any agent
that was available when the claim began may be the choice (`WorkDistribution`
models them). `getAllAgents` and `getAgentTasks` read record after record in the
code and in one step here.

The variable `environment` never changes: it is one of the constant
`Environments`, each a record that says which optional operations are used
(`allowed`), whether calls exclude each other (`serial`), and the bounds. `timely`
says that a call (milliseconds) ends before a delay (100 ms poll, 1 s base
retry), a heartbeat timeout (30 s) or an operator's reaction to it does, and that
only agents that stopped look late. `CutShort` ends a call between two commands:
the process exits or Redis refuses; `Expire` is the TTL of an agent's key while
no timer runs to notice. Both count as `faults`.

### What the runs show

`QueueSafety` checks three environments over the same constants:

* `Racing`: all commands of the calls about one task interleave. An entry is won
  by one caller, no two running agents hold the task, between calls the task is
  where its status says (`QueuesAgree`: `NoTaskLost` and `NoStrayEntry`), finished tasks stay
  finished.
* `Faulty`: a call is cut short anywhere or an agent's key expires, and agents
  die: still no task on two agents and no finished task revived. `NoTaskLost` and
  `NoStrayEntry` ask nothing after a fault: a failure between the `zrem` of a pop
  and the `zadd` of the processing set plainly loses the task.
* `Serially`: calls one after another, two tasks of two priorities, nearly every
  operation. Loads agree with the assignments (`LoadAgrees`), capacities hold
  (`CapacityKept`), the pending list agrees with the priority sets
  (`PendingListed`): the books the code keeps in several places, together
  `BooksAgree`. They are
  stated of serial environments only, because concurrent calls break them; see
  below.

`QueueRecovery` is liveness: the tasks of a dead agent are taken from it. Fairness
is that of the event loop and the clock: a started call continues (`WF` of
`Running`), `setInterval` fires the timers that `start()` creates, and a silent
agent's heartbeat grows old. It says nothing of clients or agents, whose
behaviour nothing forces.

Met while modelling, and the reason why some properties are conditional:

* the sweep of late agents writes back the record it read before it failed the
  agent's tasks, so the load of the agent stays as it was (`task-queue.ts:881`). The
  environment `LateHeartbeat` of `MCTaskQueue` shows it: with
  `Environments <- OnlyLateHeartbeat`, `BooksAgree` is violated;
* `failTask` and the other reports accept a task in any status (430), so a task that a
  client cancelled while an agent worked on it is retried when the agent reports a
  failure; with `Environments <- OnlyCancelsHeld`, `FinishedIsFinal` is violated;
* two concurrent claims pass the same capacity test and exceed it
  (`task-queue.ts:240`), and two concurrent `updateAgentLoad` lose one change (1048);
* a pop between the two commands of an enqueue leaves a ghost in the pending
  list, which the metrics count (1014);
* a dead task's record is never marked dead, so it can still be cancelled (502);
* a claim may choose an agent that is unregistering; the agent is then no member
  and the sweep never takes the task back (610);
* a pop that is cut short between the removal from the priority set and the entry in
  the processing set loses the task (1030);
* two passes of `processScheduledTasks` that overlap push a due task twice (112).

Bounds: one or two tasks, two agents, one client, one timer callback. Two agents
and a client give every pair of popping calls; two tasks are needed only for
priorities. `MaxRetries = 2` lets a task be retried once and then die; one replay
and one fault at most; `maxCredit` bounds the pushes of a task that are not yet
handed out, above what the runs reach without overlapping timers. Deadlock is
not checked: a queue with nothing to do stops.

### What is proved

`TaskQueueProofs.tla` proves for every value of the constants, and so for any
number of tasks, agents, clients and timer callbacks in flight:

* `TypeCorrect`: `Spec => []TypeOK`. The work is in the lists of commands still to
  issue: each operation issues well-formed commands and each command consumed
  leaves a well-formed rest.
* `ClaimsAreBacked`: `Spec => []ClaimsBacked`. `ClaimsBacked` is not inductive: a
  hand-out (`Give`) lowers `credit` long after the `zrem` that won the entry. The
  inductive invariant `Backed` says that the credit of a task covers its pops in
  flight (`InFlight`, callers between the `zrem` and the return) and the entry
  still waiting in its priority set (`Waiting`). `TakeBacked` moves one unit from
  `Waiting` to `InFlight` - this is where the result of `zrem` matters -
  `FetchBacked` keeps or drops it, `GiveBacked` spends it, `ZAddBacked` pays for a
  new entry, and `OtherSteps` shows that nothing else touches them. The only
  assumption on the constants used is that the set of callers is finite.
* `QueueInOrder`, the invariant `InOrder` behind the next three. Between two commands
  of a call the record of a task, its sets and its dead letters disagree, so the
  invariant is not about what they are but about what they will be once the commands
  already issued for the task have run: `Rec`, `In` and `Died`. Seen so, a command
  changes nothing (`CommandInOrder`) and each operation changes the task in one step.
  `Sound` says that a task is then where its record says; `Steady` that the commands of
  at most one call are under way for it, and none that write over a finished record;
  `InHand` that the calls and agents with the task in their local variables are those
  its record names; `Still` and `Guarded` what overlapping calls leave alone meanwhile;
  `OfAgent` and `OfCaller` that an agent that runs is registered and in time, and that
  no command under way says otherwise. Induction needs all of them together: a sweep,
  for example, is harmless only because an agent it found late has stopped, and stays
  stopped until its tasks are taken from it. There is one lemma per operation and step
  (`EnqueueInOrder`, `TakeInOrder`, `FailNextInOrder`, ...).
* `QueuesStayAgreed`: `Spec => [](Careful(environment) => QueuesAgree)`.
* `TasksAreExclusive`: `Spec => [](Undisturbed => Exclusive)`.
* `FinishedStaysFinal`: `Spec /\ []Undisturbed => FinishedIsFinal`.
* `QueueKeepsBooks`, the invariant `Kept` of the books, for calls that do not overlap, and
  from it `BooksStayAgreed`: `Spec => [](Undisturbed => BooksAgree)`. A list of commands
  changes a record, a set, the pending list and a load one after the other, so the books
  disagree in the middle of it; but it holds at most one command on the pending list and
  at most one on an agent's record (`Once`), and `Numbered` and `Counted` say what the
  books are before that command and what it makes of them. `Team(a)` is the tasks that
  are the agent's once the commands have run; `Fits` bounds them together with those of
  before, which is why capacity holds in the middle of a call too. `Ready` is about
  copies: the agents that a pop chose from still have a free slot when the task is
  assigned, an agent in the sweep's snapshot has not come back, and the tasks that
  `unregisterAgent` read are still all that the agent has. The lemmas `Books...` say
  what each list of commands does to the books, and there is one lemma per operation and
  step (`EnqueueKept`, `TakeKept`, `AssignKept`, ...) that rests on what `InOrder` says
  of the tasks.

`Careful(e)` says how the queue is used: `timely`, no cancelling of work in progress, no
agent that comes back under its id, and, where calls overlap, no cancelling or
unregistering at all and one timer callback at a time. None of it can be left out: with
`Racing` changed to allow any one of them, TLC finds `QueuesAgree` violated. A cancel
that read the task before a pop took it writes over the assignment; an agent that comes
back while a sweep of its absence is under way has tasks taken from it that it was given
since; a task returned by `unregisterAgent` is pushed while it is retried; a timeout
shorter than a call takes tasks from agents that run; two timer callbacks wake a
task twice. `BooksAgree` needs the first three too: an agent that comes back under its id
starts from load 0 with the tasks it had, a late heartbeat of one that runs makes the
sweep restore an old load, and a task cancelled while it is worked on is taken off the
load twice. `Undisturbed` adds that no call was cut short and no key expired so
far; that no task is executed twice or revived, and what the books are, after a fault is
checked by the run and not proved. All environments of `QueueSafety` are careful ones.


## WorkDistribution

`WorkDistribution.tla` models the functions of `queue/work-distributor.ts` as
operators on the set of available agents - a strategy is the set of the agents it
may choose, empty where the code returns null - and around them the state they
keep between claims: the round-robin index, the sticky map and its saved copy.
Ratios and scores are compared after multiplying out the denominators, which
gives the order of the floating-point ones for these sizes. `ClaimTask` is the
whole of `claimTask()` from the list of available agents to the update of that
state, in one step: `TaskQueue` takes the same call apart and leaves the choice of
the agent open, this module closes it. `Release`, `Toggle`, `Restart` and `Crash`
are the ends of tasks, heartbeats, `stop()`/`start()`, and an exit without `stop()`.
`passed` is a history variable for the fairness of round-robin. `Rank` is the
order in which redis returns agent ids.

`Distribution` checks five settings at once (`MCWorkDistribution`; the variable
`setting`, one of them, never changes):

| Setting | Shows | Bounds |
|---|---|---|
| any | no agent above its capacity, and a claim with anyone available always finds an agent (`Distributed`): the branch that puts a popped task back is dead code | 2 agents of capacity 1 or 2, all strategies and hints, all environment steps |
| skill (`StrategiesKept`, as in the rows below) | a task goes to an agent without any required skill only if no available agent has half of them | 2 agents of capacity up to 5, 3 skills, all or one required |
| turn | everyone has a turn while the list of agents is the same | 3 agents, agents go offline and return |
| load | load-based claims keep the loads level (`Distributed`, as the first row) | 3 agents, all capacities to 4 |
| key | a key moves only when it must, also across restarts | 2 agents, 2 keys |

Three things the documentation leads one not to expect hold of the code and bound
what the settings claim: the round-robin index refers to the list of the previous
claim, so when the list changes an agent may be passed over
(`work-distributor.ts:40`); an idle agent without a skill outscores a skilled
agent that is busy (hence half of the skills, `work-distributor.ts:127`), and a full
agent loses its sticky key for good (176).

Proved for every value of the constants, so for any agents, capacities, skills,
keys, requests and settings (`WorkDistributionProofs`):

- `CapacityIsKept`, `Spec => [](TypeOK /\ CapacityKept)`. The invariant is inductive
  as it stands; the argument is that every strategy, with its fallback, chooses
  within the available agents, which all have a free slot (`ChosenAmong`).
  Concurrent claims exceed the capacity (see TaskQueue): the theorem is about claims
  that follow each other.
- `ClaimsAreDistributed`, `Spec => []Distributed`. That load-based and round-robin
  always find someone needs that ratios, compared crosswise, order any finite list
  (`Ratios`, `FirstOfOrder`, `LeastRatio`) and that every position of the list is
  someone's index (`PositionTaken`). Levelness is inductive together with the
  capacities: an agent that is not available is full, so that its ratio is no less
  than that of the agent chosen (`ClaimLevels`).
- `StrategiesAreKept`, `Spec => StrategiesKept`. Turns need the invariant `Turns`:
  going round the list from `lastAssignmentIndex`, everyone that was passed over
  since a was last chosen comes before a. Skills and keys need no more than the
  types: half of the skills is worth 0.35 of the score, all that an idle agent
  without any can have is 0.3 (`HalfOutweighs`).

They assume that the ids have distinct places in the list that redis returns
(`Rank`) and that there are finitely many agents and skills.

## WorkflowEngine

`WorkflowEngine.tla` models one `execute()` of `workflow/engine.ts`. JavaScript runs
one continuation at a time, so a step of the model is the code between two
awaits: the loop over the layers (`StartLayer`, `LayerDone`, `Catch`, `Finish`), the
continuation of `executeStep()` of one step (`Continue`), the settling of the race
it awaits (`Work` for the executor, `Timeout`, and `Cancel` for the abort signal), and
the calls `pause`, `resume`, `cancel`. `exec` is where `execute()` stands, `frame[s]`
where the call of `executeStep()` for `s` stands. The transition tables of
`state-machine.ts` are the sets `WorkflowTransitions` and `StepTransitions`, and each
transition is guarded by them as in the code: an impossible one throws, which
`Settle` and `Fail` turn into the outcome the exception leads to. Conditions may be
true or false (`skipped` in `StartLayer`). `Sorted` gives the layers of
`topologicalSort` as the steps whose dependencies lie in earlier layers;
`AllDependencies` is the transitive closure.

`Flow` takes every graph over three steps without self-loops, cyclic ones
included, and every failure policy. Steps wait for their dependencies, final
statuses stay, completion means what it says, nothing starts after a
cancellation, `execute()` ends even if executors never answer, and what it
answers agrees with what happened (`EndsTruthfully`: `OutcomeAgrees` and
`CompletedMeansDone`). That last property spells out
what the code makes of two cases its interface does not suggest: `pause()` only
changes the status, so a paused execution runs on, dies of an impossible
transition from paused and cannot be resumed; and a cancelled execution rejects
with the error of an impossible transition rather than that of a cancellation.
Siblings of a failed step run on after the workflow has failed.

Fairness: promise continuations run and timers fire (`WF` of the engine's steps,
of each `Continue(s)` and each `Timeout(s)`), which is the event loop's contract.
Nothing is assumed of executors, `resume` or `cancel`.

No step is ever retried: `canRetryStep` wants a failed step and is asked while the step
is running (`engine.ts:319`), so the retry branch of `executeStep()` is unreachable. It
is modelled all the same (`frame[s] = "delay"`), so that the proofs hold of it too. A
dependency that is listed twice counts twice in the in-degree and is removed once, so
that the graph is reported to have a cycle (`workflow/dag.ts:26`); the graphs of the
model are sets and do not have that case.

Proved for every graph, policy and number of steps (`WorkflowEngineProofs`), from
`Inv`: types; `Live`, the statuses a running execution can have; `Delayed`, a step that
waits for its retry is marked so; `Supported`, a step once started had all its
dependencies done. `Supported` is needed because a retried step starts again
without looking at its dependencies. `SupportStays` shows it of every step that
leaves finished steps alone (`StepsStay`).

* `FinalStatusStays`: `Spec => FinalStays`;
* `DependenciesComeFirst`: `Spec => DependenciesFirst`;
* `CancelStopsStarts`: `Spec => NothingStartsAfterCancel`;
* `OutcomeTellsStatus`: `Spec => []OutcomeAgrees`, the first half of `EndsTruthfully`;
  `Live` gives the statuses in which the last transition is tried;
* `EndsAsItSays`: `Spec => []EndsTruthfully`.

That a workflow completes only when every step is done is the property that needs the
sort. `LayerInv` says that a step has been looked at once the loop has passed its
layer (`LayersOver`), that calls under way belong to the layer at hand (`Framed`), and that
after the last layer nothing is left (`NothingLeft`); and the lemmas on the layers
(`LayersGrow`, `DependenciesBefore`, `LastLayerSorts`) say what the recursive function
computes for every finite graph, by the induction of `InductionLemmas`: without a cycle as
many layers as there are steps hold them all.

## AgentCircuitBreaker

`AgentCircuitBreaker.tla` models `federation/circuit-breaker.ts` as `LoadBalancer` in
`federation/load-balancer.ts` uses it: `getHealthyAgents` asks every breaker
(`GetHealthyAgents`, whose question may turn an open circuit half-open), and
`recordSuccess` and `recordFailure` tell it what became of work, in whatever state the
answer finds it. Operators open, close, reset and remove breakers. All of this is
synchronous, so each operation is one action; what interleaves is the order of
calls, the timer (`Fire`, at its time or later) and the clock (`Tick`).

Time enters as ages. `failures[k]` is the age of the k-th latest failure, up to
`failureThreshold` of them, which decides whether there are too many in the window;
`lastFailure` is the age of `lastFailureTime`; `timer` is what is left of the reset
timer. Each age stops at the first value from which nothing changes, which makes the
model finite without a bound on calls or time. `since` is a history for the
properties: for how long the circuit is open, the failures since it was closed, the
successes since it became half-open. `halfOpenCallCount`, `openedCount` and
`consecutiveFailures` decide nothing in the code and are left out.

Its part of the run `Federation` has one agent (agents share only the clock), a threshold of three failures
and two successes, a timeout of two and a window of three ticks: the window outlasts
the timeout, as in the defaults (30 s and 60 s), so that failures from before an
opening are still counted after it. It runs with and without operators and automatic recovery.
`OpenLasts` and `ProvenByTrials` concern circuits that no operator touches: the timeout
is measured from the last failure, so a circuit that an operator opens is tried
early (`circuit-breaker.ts:363`), and `closeCircuit` keeps the failures, so a
circuit that an operator closes opens again at the next one while they are in the
window (302).

Fairness: time passes (`WF` of `Tick`) and due timers run (`WF` of `Fire`). Nobody
has to ask: `Retried` holds by the timer alone.

Proved (`FederationProofs`) for any agents, thresholds, times and uses:
`FailureIsNoticed` (with the type), `OpenForTimeout`, `ClosedByTrials`, assuming that
thresholds and timeout are positive (a threshold of 0 would make the latest failures an
empty list). The invariant `Sound` speaks of one breaker and its history: the breaker's
window has at least the failures of the history (`CountedIn`), an open circuit's last
failure is not older than its opening and its timer not early, and in the half state the
successes agree (`Awaited`). Each operation has a lemma (`Succeeded`, `Failed`, `Fired`,
`Checked`, `Aged`, `Opened`, `Closed`) which shows both that `Sound` is kept and that the
step is allowed (`Step`); `BreakerSteps` puts them together.

## AgentStateMachine

`AgentStateMachine.tla` models the machine of one agent id and the registry around
it (`loop/state-machine.ts`): `transition()` of the base class with its awaited guard
and action, the override that starts a debounced save, `loadState()`, and
`StatefulAgentRegistry`, whose operations end in transitions and bookkeeping. The
storage is `InMemoryStateStorage`.

What can interleave is decided by the event loop, so the model has one: `ready`
holds the continuations that are ready in order, and a step runs the first one to
its next await, which puts it at the end; `timers` holds the pending 100 ms timers,
which fire in order when nothing is ready. A caller calls at most once in the turn
of others (`turn`). `frame[c]` is where the operation of caller `c` stands: inside
`transition` (`Conclude`), in its override (`PersistState`), back in the operation
(`NextTransition`, `Report`, `StopFurther`, `Sleep`, `StopAnyway`), or deleting the
saved state (`Deleted`, `Forget`). `machine[m]` is the m-th machine made for the id;
older ones live on as long as an operation or a timer refers to them. `Begin` is the
synchronous head of `transition()`.

| Code | Model |
|---|---|
| `stateMachines`, `agentStates`, record in `AgentRegistry` | `registered`, `entry` |
| `currentState`, `context.task`, `context.errorCount` (and `hasErrors`) | `machine[m]` |
| `saveTimeout`, the timer of a graceful stop | `timers` |
| `InMemoryStateStorage.states` | `saved` |

`AgentStates` runs two callers and two tasks (one can be checkpointed and saved, one
cannot) in four environments: an agent that is registered a second time, either whenever a
caller asks (`settled` false) or only when no continuation is ready; one that fails up
to the limit of `canRecover` (three errors); and calls that never overlap. One id is
enough: nothing of one id touches another. `LegalSerially` says that calls that
follow each other keep to the table. Calls that
overlap do not: `assignWork` checks its guard from idle, `stopAgent` moves the machine
to stopping, and the machine becomes busy (`state-machine.ts:484`). Not even stopped is
kept: `StoppedAgentWorks` has a third caller whose `stopAgent`, in the same turn, takes
the machine on to stopped before the guard's answer makes it busy, and checks
`StoppedIsFinal`, which the comment at `state-machine.ts:45` claims. Two callers do not
show it, since each path of one call to stopped takes more turns than a guard.

`RegistryAgrees` joins the type, what a stop forgets (`StoppedIsForgotten`) and
`PersistedAgrees`, which relates the storage to the registered machine once nothing is
pending, although saves and deletions of an earlier machine hit the same entry. This
last one supposes `settled`: with four callers, TLC finds that an agent that is unregistered
and registered again while a transition of the old machine is under way is saved first, and
the old machine last. What a caller may rely on is that it registers an id anew when
no call on the old machine runs, but for the wait of 100 ms in `stopAgent`.

Fairness: the event loop runs what is ready (`WF` of `Microtask`), and timers are
served between turns however often callers call (`SF` of `Fire`). Callers owe nothing.

Proved (`LoopProofs`), for any callers, tasks and environments, from
`EnvironmentsAssumption` and `NamesAssumption`: `RegistryIsKept` and
`RegistryChangesLegally`. The inductive invariant `RegistryInv` adds to the properties what
they hang on: a call that runs is in the queue (`Queued`); no call waits for a guard on its way to stopped
(`NotToStopped`); what `loadState` reads replaces the state before the call that
registers, or any other, goes on (`LoadsFirst`); where calls follow each other, the
transition that waits is still in the table when it concludes (`Alone`); the call that
took a registered machine to stopped will forget it (`Stopping`); and until then either the
machine is about to be saved, or its save is the last pending timer, or nothing is pending and the
storage agrees (`StorageKept`). TLC checked the same invariant with three callers and two
machines. `Begin`, through which every operation goes, is described once
(`CallKeeps`, `BeginOnTable`), so that each action has only its own bookkeeping to argue.

The model shows, without a statement in the repository to hold it against, that a
recovered agent never gets work (`hasErrors` is never cleared, 246), that a save pending at
the time of a deletion brings the entry back (1106), and that what `loadState` reads
replaces the state in which `register` already initialised the machine.

## Transactions

`Transactions.tla` models `TransactionManager.withTransaction`, `withSavepoint`, the
optimistic updates, `compareAndSwap`, `atomicIncrement` and `forceRollback` of
`storage/transaction.ts` over a pool of `pg` clients. A call is two threads: its main
thread (`main`: connecting, BEGIN, racing, COMMIT or ROLLBACK, waiting before a retry)
and its operation (`op`, at statement `step`), which the timer does not stop. Each client
sends its queries one at a time (`queue`); the server is an external part, PostgreSQL
at READ COMMITTED: a write locks its row until its transaction ends, an update that
waited compares with the row as it then is, an error aborts the transaction, COMMIT of
an aborted transaction rolls back without an error, a connection may be lost while a
COMMIT is on its way. A row is the log of the writes committed to it; `Work` is what each
operation does, an arbitrary constant.

`Transacted` runs two operations that take two rows in opposite orders, one of them with
a savepoint, on two clients, with deadlocks, cancelled statements, lost connections, a
timer that may fire at any time and rollbacks forced at any time: every event that the
code handles, at every point. `PoolClean` says that a client in the pool is nobody's and
has no transaction, although queries of timed-out operations still arrive on it.
`UpdatesCount` says that no versioned update is lost and no statement applied twice.
`Reported` says that effects are all or nothing and that callers are told which, unless
a call was timed out or forced back: then a batch may be left half applied
(`transaction.ts:323`), because the rest of it runs on the released client, outside any
transaction. `CallsEnd` is liveness.

Proved (`TransactionsProofs`) for any calls, clients, rows, operations and attempts:
`ClientsComeBackClean`, `Spec => []PoolClean`, and the type. `PoolClean` is not inductive: that
COMMIT or ROLLBACK ends the transaction of the client that is then released depends on
who sent it. The inductive invariant `Inv` adds that a transaction belongs to a call that
holds its client and has begun (`Owned`), that a query of a main thread is the one that its
call waits for, on the client it holds, and is there once (`Asks`), whereas operations and
`forceRollback` send other queries and may do so at any time. `PoolStays`, `PoolMoves` and `PoolRelease`
say what the ways of moving a call do to the pool; `ServeKeeps`, `MainAnswered` and `LeaveKeeps` reduce
the steps to them. `AttemptsAssumption` is the only assumption used.

Proved from it: `UpdatesAreCounted`, `Spec => []UpdatesCount`. What
is committed says too little about what may be: `UInv` adds that what each client has
pending would be in turn and unrepeated as well if it were committed now (`InOrder`,
`Unrepeated`), that a row with uncommitted writes is locked by one client (`Locked`), and that
each write is of a statement its call has passed, on the client of that call (`Attributed`).
A write is appended where its call found the version it had seen; other clients cannot
add to the row before it is committed, and the operation does not come back to the
statement. A retry does come back, and reads nothing again: that this is no second write
needs `Untouched` (a call that begins again, or may, has committed nothing) and, for it,
`Threads`: the only error retried is a deadlock, it leaves the operation at once, and it can only
befall a client with an open transaction, since it takes part in a cycle. Errors and
`ROLLBACK TO SAVEPOINT` leave a first part of what was pending (`Nested`, `Prefix`), and an operation
that outlives its call may write on, but only what it has not passed (`Awaits`). `Shrinks` and
`Commits` carry this through all steps that write nothing. `WorkAssumption` is used for what a
statement is.

Proved from both: `CallsAreToldTheTruth`, `Spec => []Reported`. `Reported` looks at calls that have
ended; `Told` says of each call, by its main thread, what its session and the rows hold:
nothing of it is committed before its COMMIT is answered, and while it commits, its
transaction is open and has all the required statements. That follows from `Working`, by how far the
operation is: up to a failure the transaction is open and has the statements passed
so far (`Through`), a guarded statement has its savepoint (`Marked`), and each savepoint
has what comes before its own statement (`Saved`), so that ROLLBACK TO takes back no required one.
A statement that fails outside a savepoint leaves the operation, and then nothing
returns. What a session has pending is of the call that has begun it (`EveryOwned`), so COMMIT
makes no other call's writes visible. All this holds of undisturbed runs only: the
operation runs no longer than its call waits for it. `StaysDisturbed` shows that a
timeout (`Late`) and a forced rollback are never forgotten, so that the invariant may assume
that there was none so far.

Fairness: the server answers and breaks cycles, the operation's code goes on, and the
pool hands a free client to whoever waits (`SF` of `Connect`: its queue is first in
first out). Timers, lost connections and forced rollbacks are never owed.

Met while modelling: `atomicIncrement` and `compareAndSwap` do not change the version
column, so an optimistic update does not notice them; the repositories cast
`PostgresPool` to the pool of `pg`, whose `connect` is private and returns nothing there,
so that their transactions throw at once, and are not modelled.

## Federation

`Federation` composes the migrator, the execution engine and the circuit breakers
above; `MCFederation` gives the values of the run.

`AgentMigration.tla` models `migrateAgent` of `federation/migration.ts`. A migration is a
series of HTTP requests to two clusters; `Answer` lets each be applied and answered,
refused, or applied with its answer lost, and the code goes by the answer alone. `capacity`
is what `ClusterRegistry` keeps of a cluster, `running` and `memory` are the clusters'
own state (external), `home` is where the callers believe an agent to be; each migration
starts from there, and no agent is migrated twice at once. Those two are assumptions on
the callers: the code takes whatever source it is told. `AgentsKept` is the type,
`NeverLost` (every agent runs on some cluster), `RunsAtHome` (an agent that nobody is
moving runs where its callers believe), and the limit of concurrent migrations.

Met while modelling: a rollback gives back a slot of the target even when the migration
failed before it reserved one; a failed export is only logged, and the source's copy of
the state is removed all the same (`exportAgentState`, `cleanupSource`); the failover of
an unhealthy cluster is refused, because the source of a migration must be healthy; with
a limit of 0, `migrateMultipleAgents` never ends. Bulk migration and failover are not
modelled.

Proved (`FederationProofs`) for any agents, clusters, limits and numbers of faults:
`MigratedAgentsAreKept`, `MCSpec => []AgentsKept`. The inductive invariant `MigratorInv` adds what each
step knows: up to the verification, and while rolling back, the source runs the agent;
from the stop of the source on, the target does (`Moving`); active calls move different
agents, each away from its home (`Apart`). `OneMoves` shows once for all that a step of one
call, which touches its own agent only, keeps `Inv`; the lemmas after it check its
premises for each request, for a failure at any step (`ThrownKeeps`) and for the
capacities.

`ExecutionEngine.tla` models `DependencyResolver.resolve`, the levels of
`federation/dag.ts` and `executePlan` with retries, the failure policy and the abort signal.
`dependencies` is any graph, cyclic ones included. `PlanKept`: a task runs only when what
it depends on has settled (and completed, unless failures are passed over), nothing
is left running when the plan returns, and a plan reported completed was. The levels are
a recursive function, which `NextLevel` builds as Kahn's algorithm does.

Proved (`FederationProofs`) for any finite set of tasks, any graph and any number of retries:
`PlansAreKept`, `MCSpec => []PlanKept`. `Leveled` shows that the recursive function satisfies its
equation, `LevelsGrow` that levels are disjoint and that what a task of a level depends on is
in earlier ones, `LevelsCounted` that there are at most as many non-empty levels as tasks (each adds one).
`EngineInv` adds to the property that `levels` is that plan (`PlanMade`), that the levels behind are
settled and those ahead untouched (`Reached`), that what is stored is what became of the task
(`Stored`), and that a failure which ends the plan has been noticed (`Noticed`).

Met while modelling: dependents of a failed task are not skipped under
`continueOnFailure`, although a comment says so; `cancel()` only emits an event; the
limits of concurrency and time in the options are used nowhere.

Fairness (`AllEnd`): requests are answered or time out, delays end, executors answer.

## Agents: lifecycle, scheduling, approvals

`AgentManagement` composes three parts that deal with the same agents and share no state;
`MCAgents` gives the values of the run.

`AgentLifecycle.tla` models the operations of `core/lifecycle.ts` on one agent. Each takes
the agent's mutex from a map; `queue[g]` is the g-th mutex ever made, first in first out,
and `mutex` the one that is in the map. The operation that ends the agent removes it
there while others still wait for it, so two operations can be at work at once; the
model shows that this harms no property: ended agents stay ended (`EndedStaysEnded`), the
record agrees with the state (`StoredAgrees`), operations on a living agent take turns
(`OneAtATime`), and all return.

All this holds as long as nobody retries the agent. `retryInternal` calls `startAgent` while
it has the agent's mutex, which is not reentrant: the call waits for itself, the agent
stays "retrying", and every later operation on it waits too. `LifecycleRetryHangs` is
that run; a comment at the place says that the lock would be released first. `PROJECT.json`
quotes it.

`Placement.tla` models `schedule`, `reschedule` and `unschedule` of `scheduling/scheduler.ts`
with the allocations of `resource-tracker.ts` and the preemption of
`preemption-system.ts`, one Redis command or pipeline per step. Where callers wait for each
other (`serial`), allocations agree with placements and no node has more than its
capacity (`LedgerAgrees`), and a preempted agent has no place (`PreemptedIsOut`). Calls that
overlap over-allocate a node, because what is verified was read before the pipeline
that adds to it; for them the run shows the type and that calls return.

`Approvals.tla` models requests (`approval.ts`), the queue (`pending.ts`) and the monitor
(`escalation.ts`). Every operation is synchronous. `UnansweredQueued`: whatever nobody has
answered is in the queue that the emergency override acts on. `AutoDeniedIsFinal`: what the
monitor denied stays so. `PendingEnds`: expired requests do not stay pending while the monitor
runs and may deny.

Proved (`AgentManagementProofs`) of the composition, for any number of agents, nodes, sizes,
priorities, operations, requests and limits, from `PartsAssumption` (finitely many agents
and nodes, sizes that are positive numbers, settings that are numbers, and `None` neither a
node nor a request):

* `AgentsAreKept`: `MCSpec => []LifecycleKept`. `LifecycleInv` adds to what the run checks
  that a call which needs the mutex has its token in a queue (`Queued`), what a call knows
  of the agent by where it stands (`Begun`: whoever waits out a delay or calls inside
  has marked the agent as retried, whoever terminates or kills a session has ended it),
  and that until the agent ends or is retried there is one mutex only (`OneMutex`), from which
  `OneAtATime` follows. `TurnDoes` sums up what the fourteen turns do, so that `TurnKeeps`
  has four cases.
* `NodesAreKept`: `MCSpec => []NodesKept`. Where calls do not overlap one call at most is under
  way (`Alone`) and what it has read is still so (`Current`): the pipelines then write what
  they should (`Books`). The sums over the agents of a node are those of `InductionLemmas`;
  `Occupied` and `Vacated` are the two ways in which they change.
* `UnansweredAreQueued`: `MCSpec => []UnansweredQueued`, from an invariant which adds that what the
  monitor denied has left the queue (`DeniedIsOut`), for the override approves whatever it
  finds there.
* `EndsRemain`: `MCSpec => EndsAreFinal`, from the same invariants.

Met while modelling: an escalated request is never looked at again and takes no answer,
because `findExpiredRequests` and `respondToRequest` accept pending ones only, so that the
automatic denial after the last escalation (`escalation.ts:111`) is reached only where no
escalation is allowed; an answer leaves the request in the queue, so the override can
approve what a human denied; the status "expired" is never set; every command of the
command line begins with empty maps.

Fairness: runtimes, sessions, delays and Redis answer, ready turns are taken, the
monitor's interval fires and time passes.

Bounds: four operations per agent are a spawn and three that overlap; five calls of the
scheduler fill two nodes, preempt, reschedule and release; three agents have one who
preempts another who preempts the third. Risks are one that may escalate once and one
that may not.

## Event-sourced loop

`EventSourcing` composes the aggregate, the event store and the replay engine, which meet in
the events they exchange only; `MCEventSourcing` gives the values of the run.

`AgentAggregate.tla` models the commands and handlers of `loop/aggregate.ts`. The
repository around it (external: the source has its interface only) saves, loads and
restores at any moment, dropping what was not saved. `Rebuilt`: versions are numbered
without a gap and a rebuilt agent is the one its events describe. The snapshot does not
copy the metadata, which holds the state to resume to; `shared` says whether the store in
use keeps the object itself (`InMemorySnapshotStore`) or a serialized copy. With a shared
one an agent that is paused after the snapshot and restored from it resumes to another
state, which is why `Rebuilt` lets these two fields differ there. Pausing a paused agent
has the same effect in any store: it resumes to "paused".

`EventStore.tla` models the buffering of `PostgresEventStore`. Flushes are started by a full
buffer, the timer, reads and `close`; nothing keeps them apart and they share one database
session, whose transaction one flush may commit or roll back for the other. `NoneLost`: every
appended event is in the buffer, a batch or the table, as long as not both happens, two
flushes overlap and a statement fails (then a rollback can drop rows whose flush believes
them committed). Not guaranteed: that a read sees an event which another flush has taken
(`event-store.ts:139`).

`EventReplay.tla` models the parallel and sequential replay of `event-replay.ts`: groups share
`MaxWorkers` places. `ReplayKept`: places are never exceeded and never lost, a completed
replay handled everything. A replay that rejects is over while other groups still handle
events, and the next one may start beside them.

Fairness (`AllEnd`): the session answers, the timer fires until the store is closed,
handlers return or throw.

Proved (`LoopProofs`) of the composition, from `PartsAssumption` (bounds are numbers, a batch has
at least one event, `None` is no task):

* `AgentsAreRebuilt`: `MCSpec => []Rebuilt`. `Rebuilt` says nothing of snapshots, so it is not
  inductive. `AggregateInv` says that there is a course of the log (`Course`, `Lives`), one
  agent for each number of events, such that the agent is where it ends and the
  snapshot's agent is where it was at the snapshot's version. `LoadEnds` shows that
  `loadFromHistory` computes the end of the course for every log, `EventsSince` what
  `getEventsSince` returns, `CourseExtends` and `CoursePart` that a command lengthens the course and
  a reload keeps a first part of it. Where a store shares the snapshot's metadata,
  `Alike` leaves out the state and what it resumes to; `CoursesAlike` shows that no handler lets
  these two reach the other fields. That a busy agent has a task is an invariant of
  every agent on the course (`BusyHolds`), because a restore may go back to any of them.
* `EventsAreNotLost`: `MCSpec => []NoneLost`. `StoreInv` adds that without overlap one flush at most is
  at work (`OneFlush`), that nothing rolls back without a failure (`NoFailure`), and
  that what a flush counts as inserted is in the table or in the transaction (`Inserted`):
  with overlap it may be a transaction that another flush has committed.
* `ReplaysAreKept`: `MCSpec => []ReplayKept`. `EngineInv` adds that the queue of a replay is without
  repetition and holds exactly the groups that wait (`QueueHolds`), and that a group's
  events are handled when it is done (`EventsHold`); a place that is given back goes to
  the first who waits (`GroupEnds`), so the number of active groups stays (`PlacesHold`).

## TaskLists

`TaskLists.tla` models `tasks/tasklist.ts` over the files of `tasks/storage.ts`. An operation is
a list of writes made of what it read and what it will read after them, so that calls
interleave between file operations. `LinksAgree` (dependencies and the lists of what they
block agree, and none was deleted), `InOneList` and `BlockedHasCause` are about callers that
wait for each other: the locks of the storage are never taken, and overlapping calls lose
updates. `excused` marks what the code is known to leave behind: a task moved to the list
that has it is in none afterwards, and the tasks that a deleted one blocked stay blocked.

Also met: `addDependency` finds circles of two tasks only; `deleteTaskList` of the default
list deletes the files of all tasks; a completed list is never reopened. The model lets
`createTask` depend on tasks that exist only; the code does not check. Identifiers are
not used twice. Four calls are enough to link, block, move and delete three tasks in any
order; overlapping users are two, and make two calls.

Proved (`AgentManagementProofs`, its last part) for any finite sets of tasks and lists and any
number of calls, from `NamesAssumption` (tasks are not lists, the default list is one),
`NeverAssumption` (a file that is not there differs from every task) and `CallsAssumption`:
`LinksAreKept`, `Spec => []LinksAgree`, and `ListsAreKept`, `Spec => []ListsKept`. Both speak of moments at
which no call runs; in the middle of a call the files disagree, so neither is inductive.
`TasksInv` says what holds at every step: `Consistent` of the files as they *will be* once the one
call that runs has made its writes (`After`; the last write of a file decides), of what it
will read after them, and of what is excused. `Consistent` allows each disagreement exactly as
long as the call is still going to mend it: a dependency whose other side is not told is
about to be linked or its task dropped (`LinksMeet`); of a task that will be dropped,
everybody who refers to it will be told, and it goes last (`DeletesAll`, `DropsLast`); a blocked task without a cause
is about to be looked at (`Caused`); what will be linked or blocked still depends on the other
(`Sensible`); a call does one kind of thing, or deletes (`OneKind`); a task is in one list (`Placed`). A write then
changes nothing (`AfterFirst`: made or to be made, the files will be the same), a read moves
one piece of work from the second argument to the first (`LinkRead`, `UnlinkRead`,
`UndependRead`, `StatusRead`, `DropRead`), and each operation begins consistently. Where calls overlap,
`TasksTyped` is what is left: the types, and that no task depends on itself.

## What is only model-checked, and what is not modelled

Left to TLC, because the prover handles neither fairness nor ENABLED: the liveness
properties `Recovered`, `ExecutionEnds`, `CallsEnd`, `Retried` and `AllEnd`, what
`LifecycleRetryHangs` and `StoppedAgentWorks` show, and that no run deadlocks where it does not say
`CHECK_DEADLOCK FALSE`. The configurations that say so are those in which every actor may be done. The library's induction theorems take an operator, which the
provers cannot instantiate; `InductionLemmas` states them about sets instead, and with
them what the recursive functions and the folds of the models compute for every input
is proved where a theorem needs it. The models use no recursive operators. Safety properties without a theorem are checked on
the instances named above only: what holds of the task queue after a fault.

Mutants named in the modules (definitions marked "mutant") are wrong versions of the
definition that follows them. `PROJECT.json` says which property each of them
breaks.

Not modelled:

* the rest of the system, part by part, with the reasons, in `PROJECT.json`: most of the
  repository is not logic of its own state;
* pure I/O and user interfaces: HTTP API, command line, dashboard, SDK, integrations,
  Kubernetes, telemetry, backup;
* everything decided by a language model: orchestrators, skills, reasoning, task
  decomposition from text;
* within the modelled parts: payloads, metrics, event streams, wording, custom
  transition tables and executors, and failures of Redis itself beyond a caller that
  dies between two commands.
