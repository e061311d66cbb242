------------------------------ MODULE TaskQueue ------------------------------
(***************************************************************************)
(* The Redis-backed task queue of src/src/queue/task-queue.ts, at the      *)
(* granularity at which it really interleaves: one Redis command per step. *)
(*                                                                         *)
(* Every public operation is an async function that reads a few keys,      *)
(* decides, and then issues a fixed list of Redis commands, one `await`    *)
(* each.  An action named after the operation performs its first read,     *)
(* with the code's guards, and leaves in todo[c] the commands its caller c *)
(* has still to issue; the actions in the second half of the module each   *)
(* issue one such command.  Operations with control flow between their     *)
(* commands (the pop, the two timers, unregisterAgent) keep their local    *)
(* variables in call[c].                                                   *)
(***************************************************************************)
EXTENDS Integers, Sequences, FiniteSets

CONSTANTS
  Tasks, Agents,     \* task and agent identifiers
  Clients,           \* callers that submit, cancel, replay, distribute work
  Ticks,             \* timer callbacks that can be in flight at once
  None,              \* no assignee
  NumLevels,         \* number of priorities, the highest scanned first
  Level,             \* priority of each task
  Rank,              \* order of the task ids inside one sorted set
  Capacity,          \* capacity an agent registers with
  MaxRetries,        \* config.maxRetries
  Environments       \* what may happen around the queue, see Environment

Callers == Agents \cup Clients \cup Ticks
Levels == 1..NumLevels
Operations == {"claim", "dequeue", "delay", "cancel", "cancelHeld", "replay",
               "unregister", "leave", "die", "rejoin", "heartbeat", "progress", "expire"}

Environment == [
  tasks : SUBSET Tasks,          \* the tasks that clients submit
  allowed : SUBSET Operations,   \* the optional operations that are used
  serial : BOOLEAN,              \* a call starts only when no other is running
  timely : BOOLEAN,              \* a call ends before a delay does or an operator acts
                                 \* on its outcome, and only agents that died seem lost
  maxFaults : Nat,               \* bound on calls cut short and keys expired
  maxReplays : Nat,              \* bound on replays of dead letters
  maxCredit : Nat]               \* bound on pushes of a task not yet handed out

ASSUME TaskQueueAssumption ==
  /\ None \notin Agents
  /\ IsFiniteSet(Callers)
  /\ NumLevels \in Nat \ {0}
  /\ Level \in [Tasks -> Levels]
  /\ Rank \in [Tasks -> Nat]
  /\ Capacity \in [Agents -> Nat \ {0}]
  /\ MaxRetries \in Nat
  /\ Environments \subseteq Environment

VARIABLES
  task,      \* task:<id> keys: the JSON record of each task
  zset,      \* the sorted sets: priority (one per priority, which a task
             \* never changes), scheduled and processing
  list,      \* the pending list: how often each task occurs in it
  dead,      \* dead letter entries of each task, oldest first
  agent,     \* agent:<id> keys: the JSON record of each agent
  members,   \* the set of registered agent ids
  todo,      \* Redis commands each caller has still to issue
  call,      \* local variables of each caller's operation
  alive,     \* agents that are running
  held,      \* tasks each agent believes it is executing
  credit,    \* pushes to a priority set less hand-outs to an agent
  faults, replays,
  environment   \* one of Environments, chosen at the start

store == <<task, zset, list, dead>>
roster == <<agent, members>>
world == <<alive, held>>
bounds == <<credit, faults, replays, environment>>
vars == <<store, roster, todo, call, world, bounds>>

Allowed == environment.allowed
Serial == environment.serial
Timely == environment.timely
MaxFaults == environment.maxFaults
MaxReplays == environment.maxReplays
MaxCredit == environment.maxCredit

-----------------------------------------------------------------------------
(* The values the variables take.                                          *)

Stored == {"pending", "scheduled", "assigned", "processing", "completed", "cancelled"}
TaskRec == [status : Stored \cup {"none"}, assignee : Agents \cup {None}, retry : Nat]
NoTask == [status |-> "none", assignee |-> None, retry |-> 0]

\* fresh: lastHeartbeat is within heartbeatTimeoutMs.
AgentRec == [status : {"idle", "busy", "offline", "none"}, load : Nat, fresh : BOOLEAN]
NoAgent == [status |-> "none", load |-> 0, fresh |-> FALSE]

Keys == {"priority", "scheduled", "processing"}
Command ==
       [do : {"zadd", "zrem"}, key : Keys, task : Tasks]
  \cup [do : {"lpush", "lrem"}, task : Tasks]
  \cup [do : {"setTask"}, task : Tasks, rec : TaskRec]
  \cup [do : {"putDead"}, task : Tasks, assignee : Agents \cup {None}]
  \cup [do : {"dropDead"}, task : Tasks, nth : Nat]
  \cup [do : {"del", "sadd", "srem"}, agent : Agents]
  \cup [do : {"setAgent"}, agent : Agents, rec : AgentRec]
  \cup [do : {"addLoad"}, agent : Agents, delta : {-1, 1}]

NoCall == [at |-> "none"]
Call ==
       [at : {"none"}]
  \cup [at : {"peek"}, pos : Levels, among : SUBSET Agents]
  \cup [at : {"take"}, pos : Levels, among : SUBSET Agents, task : Tasks]
  \cup [at : {"fetch"}, among : SUBSET Agents, task : Tasks]
  \cup [at : {"give"}, agent : Agents, task : Tasks]
  \cup [at : {"wake"}, due : SUBSET Tasks]
  \cup [at : {"sweep"}, late : [Agents -> AgentRec]]
  \cup [at : {"fail"}, late : [Agents -> AgentRec], agent : Agents, tasks : SUBSET Tasks]
  \cup [at : {"requeue"}, agent : Agents, recs : [Tasks -> TaskRec]]

TypeOK ==
  /\ task \in [Tasks -> TaskRec]
  /\ zset \in [Keys -> SUBSET Tasks]
  /\ list \in [Tasks -> Nat]
  /\ dead \in [Tasks -> Seq(Agents \cup {None})]
  /\ agent \in [Agents -> AgentRec]
  /\ members \subseteq Agents /\ alive \subseteq Agents
  /\ held \in [Agents -> SUBSET Tasks]
  /\ todo \in [Callers -> Seq(Command)]
  /\ call \in [Callers -> Call]
  /\ credit \in [Tasks -> Int]
  /\ faults \in Nat /\ replays \in Nat /\ environment \in Environments

-----------------------------------------------------------------------------
(* Command lists shared by the operations.                                 *)

SetTask(t, r) == [do |-> "setTask", task |-> t, rec |-> r]
ZAdd(key, t) == [do |-> "zadd", key |-> key, task |-> t]
ZRem(key, t) == [do |-> "zrem", key |-> key, task |-> t]
OnList(name, t) == [do |-> name, task |-> t]
OnAgent(name, a) == [do |-> name, agent |-> a]
SetAgent(a, r) == [do |-> "setAgent", agent |-> a, rec |-> r]
AddLoad(a, d) == [do |-> "addLoad", agent |-> a, delta |-> d]

\* enqueuePendingTask: the priority set, then the pending list.
EnqueuePending(t) == <<ZAdd("priority", t), OnList("lpush", t)>>

\* if (assignee) await this.updateAgentLoad(assignee, -1)
UnloadAnyone(a) == <<AddLoad(a, -1)>>        \* mutant: no test for an assignee
Unload(a) == IF a = None THEN <<>> ELSE <<AddLoad(a, -1)>>

\* busy or idle, from the load the writer has in hand.
Loaded(a, r, n) == [r EXCEPT !.load = n, !.status = IF n >= Capacity[a] THEN "busy" ELSE "idle"]

\* failTask after its read: one more retry, or the dead letter queue
\* (moveToDeadLetter marks only the entry dead, never the task record).
FailCommands(t) ==
  LET r == task[t] IN
  IF r.retry + 1 < MaxRetries
  THEN <<SetTask(t, [status |-> "scheduled", assignee |-> None, retry |-> r.retry + 1]),
         ZAdd("scheduled", t), ZRem("processing", t)>> \o Unload(r.assignee)
  ELSE <<[do |-> "putDead", task |-> t, assignee |-> r.assignee],
         ZRem("processing", t), OnList("lrem", t), ZRem("priority", t)>>
       \o Unload(r.assignee)

\* getAgentTasks, restricted to what its callers act on.
AllTasksOf(a) == {t \in Tasks : task[t].assignee = a}   \* mutant: any status
StartedTasksOf(a) ==                         \* mutant: forgets the assigned ones
  {t \in zset["processing"] : task[t].assignee = a /\ task[t].status = "processing"}
AgentTasks(a) ==
  {t \in zset["processing"] : task[t].assignee = a /\ task[t].status \in {"assigned", "processing"}}

\* getAvailableAgents: heartbeat in time and a free slot.
Available ==
  {a \in members : agent[a].status # "none" /\ agent[a].fresh /\ agent[a].load < Capacity[a]}

Idle(c) == todo[c] = <<>> /\ call[c] = NoCall
MayCall(c) == Idle(c) /\ (Serial => \A d \in Callers : Idle(d))
\* A running call has commands on the task still to issue.
Touched(t) ==
  \E c \in Callers : \E i \in DOMAIN todo[c] :
    todo[c][i].do \in {"zadd", "zrem", "setTask"} /\ todo[c][i].task = t

Issue(c, commands) == todo' = [todo EXCEPT ![c] = commands]
Goto(c, frame) == call' = [call EXCEPT ![c] = frame]
Return(c) == Goto(c, NoCall)

-----------------------------------------------------------------------------
(* Operations: the first read of each call, its guards, and what follows.  *)

Init ==
  /\ task = [t \in Tasks |-> NoTask]
  /\ zset = [k \in Keys |-> {}]
  /\ list = [t \in Tasks |-> 0]
  /\ dead = [t \in Tasks |-> <<>>]
  /\ agent = [a \in Agents |-> NoAgent]
  /\ members = {} /\ alive = {}
  /\ held = [a \in Agents |-> {}]
  /\ todo = [c \in Callers |-> <<>>]
  /\ call = [c \in Callers |-> NoCall]
  /\ credit = [t \in Tasks |-> 0]
  /\ faults = 0 /\ replays = 0 /\ environment \in Environments

\* The record is written by the first command of enqueue().
Enqueue(c, t) ==
  /\ c \in Clients /\ MayCall(c) /\ t \in environment.tasks /\ task[t] = NoTask
  /\ \/ /\ task' = [task EXCEPT ![t].status = "pending"]
        /\ Issue(c, EnqueuePending(t))
     \/ /\ "delay" \in Allowed
        /\ task' = [task EXCEPT ![t].status = "scheduled"]
        /\ Issue(c, <<ZAdd("scheduled", t)>>)
  /\ UNCHANGED <<zset, list, dead, roster, call, world, bounds>>

\* An agent polls for itself.
Dequeue(a) ==
  /\ "dequeue" \in Allowed /\ a \in alive /\ MayCall(a)
  /\ agent[a].status \notin {"none", "offline"}
  /\ agent[a].load < Capacity[a]
  /\ Goto(a, [at |-> "peek", pos |-> 1, among |-> {a}])
  /\ UNCHANGED <<store, roster, todo, world, bounds>>

\* claimTask() without an agent: the distributor chooses among those available.
ClaimTask(c) ==
  /\ "claim" \in Allowed /\ c \in Clients /\ MayCall(c) /\ Available # {}
  /\ Goto(c, [at |-> "peek", pos |-> 1, among |-> Available])
  /\ UNCHANGED <<store, roster, todo, world, bounds>>

StartTask(a, t) ==
  /\ a \in alive /\ t \in held[a] /\ MayCall(a)
  /\ Issue(a, <<SetTask(t, [task[t] EXCEPT !.status = "processing"])>>)
  /\ UNCHANGED <<store, roster, call, world, bounds>>

\* progress is not modelled, but the whole record is written back.
UpdateProgress(a, t) ==
  /\ "progress" \in Allowed /\ a \in alive /\ t \in held[a] /\ MayCall(a)
  /\ Issue(a, <<SetTask(t, task[t])>>)
  /\ UNCHANGED <<store, roster, call, world, bounds>>

CompleteTask(a, t) ==
  /\ a \in alive /\ t \in held[a] /\ MayCall(a)
  /\ held' = [held EXCEPT ![a] = @ \ {t}]
  /\ Issue(a, <<SetTask(t, [task[t] EXCEPT !.status = "completed"]),
                ZRem("processing", t)>> \o Unload(task[t].assignee))
  /\ UNCHANGED <<store, roster, call, alive, bounds>>

FailTask(a, t) ==
  /\ a \in alive /\ t \in held[a] /\ MayCall(a)
  /\ held' = [held EXCEPT ![a] = @ \ {t}]
  /\ Issue(a, FailCommands(t))
  /\ UNCHANGED <<store, roster, call, alive, bounds>>

\* "cancel": of work nobody is executing; "cancelHeld": at any time.
CancelTask(c, t) ==
  /\ c \in Clients /\ MayCall(c) /\ task[t].status \notin {"none", "completed"}
  /\ \/ "cancelHeld" \in Allowed
     \/ "cancel" \in Allowed /\ task[t].status \in {"pending", "scheduled"}
  /\ LET assigned == task[t].status \in {"assigned", "processing"} IN
     Issue(c, <<SetTask(t, [task[t] EXCEPT !.status = "cancelled"]),
                ZRem("scheduled", t), ZRem("processing", t),
                OnList("lrem", t), ZRem("priority", t)>>
              \o Unload(IF assigned THEN task[t].assignee ELSE None))
  /\ UNCHANGED <<store, roster, call, world, bounds>>

\* The newest entry is replayed; its task keeps the assignee it died with.
ReplayDeadLetter(c, t) ==
  /\ "replay" \in Allowed /\ c \in Clients /\ MayCall(c)
  /\ dead[t] # <<>> /\ (Timely => ~Touched(t))
  /\ replays < MaxReplays /\ credit[t] < MaxCredit
  /\ replays' = replays + 1
  /\ LET last == Len(dead[t]) IN
     Issue(c, <<[do |-> "dropDead", task |-> t, nth |-> last],
                SetTask(t, [status |-> "pending", assignee |-> dead[t][last], retry |-> 0])>>
              \o EnqueuePending(t))
  /\ UNCHANGED <<store, roster, call, world, credit, faults, environment>>

RegisterAgent(a) ==
  /\ MayCall(a) /\ a \notin alive
  /\ "rejoin" \in Allowed \/ agent[a] = NoAgent
  /\ alive' = alive \cup {a}
  /\ agent' = [agent EXCEPT ![a] = [status |-> "idle", load |-> 0, fresh |-> TRUE]]
  /\ Issue(a, <<OnAgent("sadd", a)>>)
  /\ UNCHANGED <<store, members, call, held, bounds>>

\* An agent leaves, or an operator removes it ("unregister").
UnregisterAgent(c, a) ==
  /\ MayCall(c) /\ (a \in members \/ agent[a] # NoAgent)
  /\ \/ "leave" \in Allowed /\ c = a /\ a \in alive
     \/ "unregister" \in Allowed /\ c \in Clients /\ (Timely => a \notin alive)
  /\ \A t \in AgentTasks(a) : credit[t] < MaxCredit
  /\ alive' = IF c = a THEN alive \ {a} ELSE alive
  /\ held' = IF c = a THEN [held EXCEPT ![a] = {}] ELSE held
  /\ Goto(c, [at |-> "requeue", agent |-> a,
              recs |-> [t \in Tasks |-> IF t \in AgentTasks(a) THEN task[t] ELSE NoTask]])
  /\ UNCHANGED <<store, roster, todo, bounds>>

AgentHeartbeat(a) ==
  /\ "heartbeat" \in Allowed /\ a \in alive /\ MayCall(a) /\ agent[a] # NoAgent
  /\ Issue(a, <<SetAgent(a, [Loaded(a, agent[a], agent[a].load) EXCEPT !.fresh = TRUE])>>)
  /\ UNCHANGED <<store, roster, call, world, bounds>>

\* processScheduledTasks: some of the scheduled tasks are due.
ProcessScheduledTasks(c) ==
  /\ c \in Ticks /\ MayCall(c)
  /\ \E due \in SUBSET zset["scheduled"] \ {{}} :
       /\ \A t \in due : credit[t] < MaxCredit /\ (Timely => ~Touched(t))
       /\ Goto(c, [at |-> "wake", due |-> due])
  /\ UNCHANGED <<store, roster, todo, world, bounds>>

\* checkAgentHeartbeats: its snapshot of the agents that are late.
Late == {a \in members : agent[a] # NoAgent /\ ~agent[a].fresh}
CheckAgentHeartbeats(c) ==
  /\ c \in Ticks /\ MayCall(c) /\ Late # {}
  /\ Goto(c, [at |-> "sweep", late |-> [a \in Agents |-> IF a \in Late THEN agent[a] ELSE NoAgent]])
  /\ UNCHANGED <<store, roster, todo, world, bounds>>

-----------------------------------------------------------------------------
(* The pop shared by dequeue and claimTask, and what follows it.  at:      *)
(* "peek" zrevrange, "take" zrem, "fetch" getTask, "give" the return.      *)

At(c, label) == todo[c] = <<>> /\ call[c].at = label

\* The loop visits the priorities from the highest to the lowest.
PriorityAt(pos) == NumLevels + 1 - pos

NextPriority(c) ==
  IF call[c].pos < NumLevels
  THEN Goto(c, [at |-> "peek", pos |-> call[c].pos + 1, among |-> call[c].among])
  ELSE Return(c)

Peek(c) ==
  /\ At(c, "peek")
  /\ LET present == {t \in zset["priority"] : Level[t] = PriorityAt(call[c].pos)} IN
     \/ present = {} /\ NextPriority(c)
     \/ \E t \in present :
          /\ \A u \in present : Rank[u] <= Rank[t]
          /\ Goto(c, [at |-> "take", pos |-> call[c].pos, among |-> call[c].among, task |-> t])
  /\ UNCHANGED <<store, roster, todo, world, bounds>>

\* mutants: the result of zrem is ignored; the pending list is not trimmed.
TakeUnchecked(c) ==
  /\ At(c, "take")
  /\ zset' = [zset EXCEPT !["priority"] = @ \ {call[c].task}]
  /\ Issue(c, <<OnList("lrem", call[c].task)>>)
  /\ Goto(c, [at |-> "fetch", among |-> call[c].among, task |-> call[c].task])
  /\ UNCHANGED <<task, list, dead, roster, world, bounds>>
TakeUntrimmed(c) ==
  /\ At(c, "take") /\ call[c].task \in zset["priority"]
  /\ zset' = [zset EXCEPT !["priority"] = @ \ {call[c].task}]
  /\ Goto(c, [at |-> "fetch", among |-> call[c].among, task |-> call[c].task])
  /\ UNCHANGED <<task, list, dead, roster, todo, world, bounds>>
\* zrem tells whether this caller is the one that removed the id.
Take(c) ==
  /\ At(c, "take")
  /\ LET t == call[c].task IN
     \/ /\ t \in zset["priority"]
        /\ zset' = [zset EXCEPT !["priority"] = @ \ {t}]
        /\ Issue(c, <<OnList("lrem", t)>>)
        /\ Goto(c, [at |-> "fetch", among |-> call[c].among, task |-> t])
     \/ t \notin zset["priority"] /\ NextPriority(c) /\ UNCHANGED <<zset, todo>>
  /\ UNCHANGED <<task, list, dead, roster, world, bounds>>

FetchUntracked(c) ==                         \* mutant: not added to processing
  /\ At(c, "fetch")
  /\ LET t == call[c].task IN
     \E a \in call[c].among :
       /\ Issue(c, <<SetTask(t, [task[t] EXCEPT !.status = "assigned", !.assignee = a]), AddLoad(a, 1)>>)
       /\ Goto(c, [at |-> "give", agent |-> a, task |-> t])
  /\ UNCHANGED <<store, roster, world, bounds>>
\* Only a pending task is assigned; a popped id of any other is dropped.
Fetch(c) ==
  /\ At(c, "fetch")
  /\ LET t == call[c].task IN
     \/ /\ task[t].status = "pending"
        /\ \E a \in call[c].among :
             /\ Issue(c, <<SetTask(t, [task[t] EXCEPT !.status = "assigned", !.assignee = a]),
                           ZAdd("processing", t), AddLoad(a, 1)>>)
             /\ Goto(c, [at |-> "give", agent |-> a, task |-> t])
     \/ task[t].status # "pending" /\ Return(c) /\ UNCHANGED todo
  /\ UNCHANGED <<store, roster, world, bounds>>

\* The call returns the task; the agent, if it still runs, starts on it.
Give(c) ==
  /\ At(c, "give")
  /\ held' = IF call[c].agent \in alive
             THEN [held EXCEPT ![call[c].agent] = @ \cup {call[c].task}] ELSE held
  /\ credit' = [credit EXCEPT ![call[c].task] = @ - 1]
  /\ Return(c)
  /\ UNCHANGED <<store, roster, todo, alive, faults, replays, environment>>

-----------------------------------------------------------------------------
(* The loops of the timers and of unregisterAgent: one task or agent each. *)

WakeKept(c) ==                               \* mutant: stays in the scheduled set
  /\ At(c, "wake")
  /\ \E t \in call[c].due :
       /\ Issue(c, <<SetTask(t, [task[t] EXCEPT !.status = "pending"])>> \o EnqueuePending(t))
       /\ LET rest == call[c].due \ {t} IN
          IF rest = {} THEN Return(c) ELSE Goto(c, [at |-> "wake", due |-> rest])
  /\ UNCHANGED <<store, roster, world, bounds>>
\* A due task: pending again whatever its status was.
Wake(c) ==
  /\ At(c, "wake")
  /\ \E t \in call[c].due :
       /\ Issue(c, <<ZRem("scheduled", t),
                     SetTask(t, [task[t] EXCEPT !.status = "pending"])>> \o EnqueuePending(t))
       /\ LET rest == call[c].due \ {t} IN
          IF rest = {} THEN Return(c) ELSE Goto(c, [at |-> "wake", due |-> rest])
  /\ UNCHANGED <<store, roster, world, bounds>>

\* The next late agent: getAgentTasks.
Sweep(c) ==
  /\ At(c, "sweep")
  /\ \E a \in Agents :
       /\ call[c].late[a] # NoAgent
       /\ Goto(c, [at |-> "fail", late |-> call[c].late, agent |-> a, tasks |-> AgentTasks(a)])
  /\ UNCHANGED <<store, roster, todo, world, bounds>>

\* failTask for each of them; then the agent's snapshot is written back as offline.
FailNext(c) ==
  /\ At(c, "fail")
  /\ LET a == call[c].agent
         rest == [call[c].late EXCEPT ![a] = NoAgent] IN
     \/ \E t \in call[c].tasks :
          /\ Issue(c, FailCommands(t))
          /\ Goto(c, [call[c] EXCEPT !.tasks = @ \ {t}])
     \/ /\ call[c].tasks = {}
        /\ Issue(c, <<SetAgent(a, [call[c].late[a] EXCEPT !.status = "offline"])>>)
        /\ IF \A b \in Agents : rest[b] = NoAgent
           THEN Return(c) ELSE Goto(c, [at |-> "sweep", late |-> rest])
  /\ UNCHANGED <<store, roster, world, bounds>>

\* The snapshot of each task is written back as pending; then the agent goes.
Requeue(c) ==
  /\ At(c, "requeue")
  /\ LET recs == call[c].recs IN
     \/ \E t \in Tasks :
          /\ recs[t] # NoTask
          /\ Issue(c, <<SetTask(t, [recs[t] EXCEPT !.status = "pending", !.assignee = None])>>
                      \o EnqueuePending(t))
          /\ Goto(c, [call[c] EXCEPT !.recs = [recs EXCEPT ![t] = NoTask]])
     \/ /\ \A t \in Tasks : recs[t] = NoTask
        /\ Issue(c, <<OnAgent("del", call[c].agent), OnAgent("srem", call[c].agent)>>)
        /\ Return(c)
  /\ UNCHANGED <<store, roster, world, bounds>>

-----------------------------------------------------------------------------
(* The Redis commands: each takes the head of its caller's list.           *)

Doing(c, names) == todo[c] # <<>> /\ Head(todo[c]).do \in names
NextCommand(c) == todo' = [todo EXCEPT ![c] = Tail(@)]

WriteTask(c) ==
  /\ Doing(c, {"setTask"})
  /\ LET cmd == Head(todo[c]) IN task' = [task EXCEPT ![cmd.task] = cmd.rec]
  /\ NextCommand(c)
  /\ UNCHANGED <<zset, list, dead, roster, call, world, bounds>>

ZAddTask(c) ==
  /\ Doing(c, {"zadd"})
  /\ LET cmd == Head(todo[c]) IN
       /\ zset' = [zset EXCEPT ![cmd.key] = @ \cup {cmd.task}]
       /\ credit' = IF cmd.key = "priority" THEN [credit EXCEPT ![cmd.task] = @ + 1] ELSE credit
  /\ NextCommand(c)
  /\ UNCHANGED <<task, list, dead, roster, call, world, faults, replays, environment>>

ZRemTask(c) ==
  /\ Doing(c, {"zrem"})
  /\ LET cmd == Head(todo[c]) IN zset' = [zset EXCEPT ![cmd.key] = @ \ {cmd.task}]
  /\ NextCommand(c)
  /\ UNCHANGED <<task, list, dead, roster, call, world, bounds>>

\* lpush adds an occurrence, lrem 0 removes them all.
WriteList(c) ==
  /\ Doing(c, {"lpush", "lrem"})
  /\ LET cmd == Head(todo[c]) IN
       list' = [list EXCEPT ![cmd.task] = IF cmd.do = "lpush" THEN @ + 1 ELSE 0]
  /\ NextCommand(c)
  /\ UNCHANGED <<task, zset, dead, roster, call, world, bounds>>

PutDeadLetter(c) ==
  /\ Doing(c, {"putDead"})
  /\ LET cmd == Head(todo[c]) IN dead' = [dead EXCEPT ![cmd.task] = Append(@, cmd.assignee)]
  /\ NextCommand(c)
  /\ UNCHANGED <<task, zset, list, roster, call, world, bounds>>

\* zrem of the entry that was read, unless another replay already removed it.
DropDeadLetter(c) ==
  /\ Doing(c, {"dropDead"})
  /\ LET cmd == Head(todo[c])
         old == dead[cmd.task] IN
     dead' = [dead EXCEPT ![cmd.task] =
                IF cmd.nth \in DOMAIN old
                THEN SubSeq(old, 1, cmd.nth - 1) \o SubSeq(old, cmd.nth + 1, Len(old)) ELSE old]
  /\ NextCommand(c)
  /\ UNCHANGED <<task, zset, list, roster, call, world, bounds>>

\* The read of updateAgentLoad; its write follows as a command of its own.
ReadLoad(c) ==
  /\ Doing(c, {"addLoad"})
  /\ LET a == Head(todo[c]).agent
         n == agent[a].load + Head(todo[c]).delta IN
     IF agent[a] = NoAgent THEN NextCommand(c)
     ELSE todo' = [todo EXCEPT ![c] =
                     <<SetAgent(a, Loaded(a, agent[a], IF n < 0 THEN 0 ELSE n))>> \o Tail(@)]
  /\ UNCHANGED <<store, roster, call, world, bounds>>

WriteAgent(c) ==
  /\ Doing(c, {"setAgent", "del"})
  /\ LET cmd == Head(todo[c]) IN
     agent' = [agent EXCEPT ![cmd.agent] = IF cmd.do = "del" THEN NoAgent ELSE cmd.rec]
  /\ NextCommand(c)
  /\ UNCHANGED <<store, members, call, world, bounds>>

WriteMembers(c) ==
  /\ Doing(c, {"sadd", "srem"})
  /\ LET cmd == Head(todo[c]) IN
     members' = IF cmd.do = "sadd" THEN members \cup {cmd.agent} ELSE members \ {cmd.agent}
  /\ NextCommand(c)
  /\ UNCHANGED <<store, agent, call, world, bounds>>

-----------------------------------------------------------------------------
(* The environment.                                                        *)

\* The process ends or Redis rejects a command: the rest is never issued.
CutShort(c) ==
  /\ ~Idle(c) /\ faults < MaxFaults
  /\ faults' = faults + 1
  /\ Issue(c, <<>>) /\ Return(c)
  /\ UNCHANGED <<store, roster, world, credit, replays, environment>>

\* The agent's process ends; a call it made runs on in the queue's process.
Die(a) ==
  /\ "die" \in Allowed /\ a \in alive /\ MayCall(a)
  /\ alive' = alive \ {a}
  /\ held' = [held EXCEPT ![a] = {}]
  /\ UNCHANGED <<store, roster, todo, call, bounds>>

\* Calls take milliseconds and the timeout is thirty seconds: none of the
\* agent's own is running, and none is about to write its heartbeat back.
MissHeartbeats(a) ==
  /\ agent[a] # NoAgent /\ agent[a].fresh /\ Idle(a)
  /\ Timely => a \notin alive
  /\ \A c \in Callers : Doing(c, {"setAgent"}) => Head(todo[c]).agent # a
  /\ agent' = [agent EXCEPT ![a].fresh = FALSE]
  /\ UNCHANGED <<store, members, todo, call, world, bounds>>

\* The key's TTL runs out, when no timer has refreshed it (the queue is down).
Expire(a) ==
  /\ "expire" \in Allowed /\ agent[a] # NoAgent /\ ~agent[a].fresh
  /\ faults < MaxFaults /\ \A c \in Callers : Idle(c)
  /\ faults' = faults + 1
  /\ agent' = [agent EXCEPT ![a] = NoAgent]
  /\ UNCHANGED <<store, members, todo, call, world, credit, replays, environment>>

-----------------------------------------------------------------------------
Command1(c) ==
  \/ WriteTask(c) \/ ZAddTask(c) \/ ZRemTask(c) \/ WriteList(c)
  \/ PutDeadLetter(c) \/ DropDeadLetter(c)
  \/ ReadLoad(c) \/ WriteAgent(c) \/ WriteMembers(c)

Running(c) ==
  \/ Command1(c)
  \/ Peek(c) \/ Take(c) \/ Fetch(c) \/ Give(c)
  \/ Wake(c) \/ Sweep(c) \/ FailNext(c) \/ Requeue(c)

Next ==
  \/ \E c \in Callers : Running(c) \/ CutShort(c)
  \/ \E c \in Clients, t \in Tasks : Enqueue(c, t) \/ CancelTask(c, t) \/ ReplayDeadLetter(c, t)
  \/ \E c \in Clients : ClaimTask(c)
  \/ \E a \in Agents, t \in Tasks :
       StartTask(a, t) \/ UpdateProgress(a, t) \/ CompleteTask(a, t) \/ FailTask(a, t)
  \/ \E a \in Agents : Dequeue(a) \/ RegisterAgent(a) \/ AgentHeartbeat(a)
  \/ \E c \in Callers, a \in Agents : UnregisterAgent(c, a)
  \/ \E c \in Ticks : ProcessScheduledTasks(c) \/ CheckAgentHeartbeats(c)
  \/ \E a \in Agents : Die(a) \/ MissHeartbeats(a) \/ Expire(a)

Spec == Init /\ [][Next]_vars

\* Started calls proceed, the timers fire and time passes.
Fairness ==
  /\ \A c \in Callers : WF_vars(Running(c))
  /\ \A c \in Ticks : WF_vars(ProcessScheduledTasks(c)) /\ WF_vars(CheckAgentHeartbeats(c))
  /\ \A a \in Agents : WF_vars(MissHeartbeats(a))
FairSpec == Spec /\ Fairness

-----------------------------------------------------------------------------
(* Properties.                                                             *)

\* A task is handed to agents no more often than it was pushed to a priority
\* set: concurrent pops never both win the same entry (popNextPendingTaskId).
ClaimsBacked == \A t \in Tasks : credit[t] >= 0

Quiet == \A c \in Callers : Idle(c)
Assigned(a) == {t \in zset["processing"] :
                  task[t].assignee = a /\ task[t].status \in {"assigned", "processing"}}

\* Between calls, unless one was cut short, no unfinished task has dropped out of
\* every queue: its record's status names the set that will bring it back (or it
\* is a dead letter).
NoTaskLost ==
  Quiet /\ faults = 0 => \A t \in Tasks :
    CASE task[t].status = "pending" -> t \in zset["priority"]
      [] task[t].status = "scheduled" -> t \in zset["scheduled"]
      [] task[t].status \in {"assigned", "processing"} ->
           t \in zset["processing"] \/ dead[t] # <<>>
      [] OTHER -> TRUE

\* Conversely a queue holds no task whose record says it is elsewhere: a pop
\* would drop it, the scheduler would run it again.
NoStrayEntry ==
  Quiet /\ faults = 0 => \A t \in Tasks :
    /\ t \in zset["priority"] => task[t].status = "pending"
    /\ t \in zset["scheduled"] => task[t].status = "scheduled"

\* Between calls a task is in exactly the queue that its record names.
QueuesAgree == NoTaskLost /\ NoStrayEntry

\* Between calls that do not overlap, the pending list, whose length metrics.ts
\* reports as pendingCount, lists exactly the tasks of the priority sets.
PendingListed ==
  Serial /\ Quiet => \A t \in Tasks : list[t] = IF t \in zset["priority"] THEN 1 ELSE 0

\* Between calls that do not overlap, an online agent's currentLoad is the number
\* of tasks it has (types.ts: "Current number of tasks").
LoadAgrees ==
  Serial /\ Quiet => \A a \in members :
    agent[a].status \in {"idle", "busy"} => agent[a].load = Cardinality(Assigned(a))

\* Calls that do not overlap give no agent more tasks than its capacity
\* (types.ts: "Max concurrent tasks").
CapacityKept == Serial => \A a \in Agents : Cardinality(Assigned(a)) <= Capacity[a]

\* As long as calls do not overlap the books agree: loads, capacities, pending list.
BooksAgree == LoadAgrees /\ CapacityKept /\ PendingListed

\* No two running agents execute the same task.
Exclusive ==
  \A a, b \in Agents : a # b => held[a] \cap held[b] = {}

\* A completed or cancelled task is never queued or assigned again (the
\* lifecycle of docs/QUEUE.md has no arrow out of Completed or Cancelled).
FinishedIsFinal ==
  [][\A t \in Tasks : task[t].status \in {"completed", "cancelled"}
                       => task'[t].status = task[t].status]_vars

\* Unless something fails, the tasks of an agent that died are taken from it
\* sooner or later.  (One that leaves may be given a task while it unregisters,
\* which nothing then takes back: the sweep looks at members only.)
Recovered ==
  \A a \in Agents, t \in Tasks :
    (a \notin alive /\ t \in Assigned(a))
      ~> (a \in alive \/ t \notin Assigned(a) \/ a \notin members \/ faults > 0)
=============================================================================
