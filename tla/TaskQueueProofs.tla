-------------------------- MODULE TaskQueueProofs --------------------------
(***************************************************************************)
(* Proofs about TaskQueue for every set of tasks, agents, clients and      *)
(* timers, every bound and every choice of the optional operations.        *)
(***************************************************************************)
EXTENDS TaskQueue, FiniteSetTheorems, SequenceTheorems, TLAPS

-----------------------------------------------------------------------------
(* Type correctness.                                                       *)

\* Prepending well-formed commands to a caller's list leaves it well-formed.
LEMMA CommandLists ==
  ASSUME NEW t \in Tasks, NEW a \in Agents \cup {None}, NEW r \in TaskRec, NEW k \in Keys
  PROVE  /\ SetTask(t, r) \in Command
         /\ ZAdd(k, t) \in Command /\ ZRem(k, t) \in Command
         /\ OnList("lpush", t) \in Command /\ OnList("lrem", t) \in Command
         /\ Unload(a) \in Seq(Command)
         /\ EnqueuePending(t) \in Seq(Command)
<1>1. SetTask(t, r) \in Command
  BY DEF SetTask, Command
<1>2. ZAdd(k, t) \in Command /\ ZRem(k, t) \in Command
  BY DEF ZAdd, ZRem, Command
<1>3. OnList("lpush", t) \in Command /\ OnList("lrem", t) \in Command
  BY DEF OnList, Command
<1>4. ASSUME a # None
      PROVE  AddLoad(a, -1) \in Command
  <2>1. a \in Agents /\ -1 \in {-1, 1}
    BY <1>4
  <2> QED
    BY <2>1 DEF AddLoad, Command
<1>5. Unload(a) \in Seq(Command)
  BY <1>4 DEF Unload
<1>6. EnqueuePending(t) \in Seq(Command)
  <2>1. ZAdd("priority", t) \in Command
    BY DEF ZAdd, Command, Keys
  <2> QED
    BY <2>1, <1>3 DEF EnqueuePending
<1> QED
  BY <1>1, <1>2, <1>3, <1>5, <1>6

LEMMA FailCommandsType ==
  ASSUME TypeOK, NEW t \in Tasks
  PROVE  FailCommands(t) \in Seq(Command)
<1> DEFINE r == task[t]
           again == [status |-> "scheduled", assignee |-> None, retry |-> r.retry + 1]
<1>1. r \in TaskRec /\ again \in TaskRec /\ r.assignee \in Agents \cup {None}
  BY DEF TypeOK, TaskRec, Stored
<1>2. [do |-> "putDead", task |-> t, assignee |-> r.assignee] \in Command
  BY <1>1 DEF Command
<1>3. /\ SetTask(t, again) \in Command
      /\ ZAdd("scheduled", t) \in Command /\ ZRem("processing", t) \in Command
      /\ ZRem("priority", t) \in Command /\ OnList("lrem", t) \in Command
      /\ Unload(r.assignee) \in Seq(Command)
  BY <1>1, CommandLists DEF Keys
<1>4. <<SetTask(t, again), ZAdd("scheduled", t), ZRem("processing", t)>> \in Seq(Command)
  BY <1>3
<1>5. <<[do |-> "putDead", task |-> t, assignee |-> r.assignee],
        ZRem("processing", t), OnList("lrem", t), ZRem("priority", t)>> \in Seq(Command)
  BY <1>2, <1>3
<1> QED
  BY <1>3, <1>4, <1>5 DEF FailCommands

LEMMA AssignTodo ==
  ASSUME TypeOK, NEW c \in Callers, NEW s \in Seq(Command)
  PROVE  [todo EXCEPT ![c] = s] \in [Callers -> Seq(Command)]
  BY DEF TypeOK

LEMMA AssignCall ==
  ASSUME TypeOK, NEW c \in Callers, NEW f \in Call
  PROVE  [call EXCEPT ![c] = f] \in [Callers -> Call]
  BY DEF TypeOK

\* The head of a caller's list is a command, and so are the rest.
LEMMA HeadTail ==
  ASSUME TypeOK, NEW c \in Callers, todo[c] # <<>>
  PROVE  /\ Head(todo[c]) \in Command
         /\ Tail(todo[c]) \in Seq(Command)
         /\ [todo EXCEPT ![c] = Tail(@)] \in [Callers -> Seq(Command)]
  BY DEF TypeOK

LEMMA InitType == TaskQueueAssumption /\ Init => TypeOK
  BY DEF TaskQueueAssumption, Init, TypeOK, NoTask, NoAgent, NoCall, TaskRec, AgentRec, Call, Stored, Keys

\* What a caller's local variables are, by the label it is at.
LEMMA Frames ==
  ASSUME NEW f \in Call
  PROVE  /\ f.at = "peek" => f.pos \in Levels /\ f.among \subseteq Agents
         /\ f.at = "take" => f.pos \in Levels /\ f.among \subseteq Agents /\ f.task \in Tasks
         /\ f.at = "fetch" => f.among \subseteq Agents /\ f.task \in Tasks
         /\ f.at = "give" => f.agent \in Agents /\ f.task \in Tasks
         /\ f.at = "wake" => f.due \subseteq Tasks
         /\ f.at = "sweep" => f.late \in [Agents -> AgentRec]
         /\ f.at = "requeue" => f.agent \in Agents /\ f.recs \in [Tasks -> TaskRec]
  BY DEF Call

LEMMA FailFrame ==
  ASSUME NEW f \in Call, f.at = "fail"
  PROVE  /\ f = [at |-> "fail", late |-> f.late, agent |-> f.agent, tasks |-> f.tasks]
         /\ f.late \in [Agents -> AgentRec] /\ f.agent \in Agents /\ f.tasks \subseteq Tasks
  BY DEF Call

\* What the fields of a command are, by the command.
LEMMA Fields ==
  ASSUME NEW m \in Command
  PROVE  /\ m.do \in {"zadd", "zrem"} => m.key \in Keys /\ m.task \in Tasks
         /\ m.do \in {"lpush", "lrem"} => m.task \in Tasks
         /\ m.do = "setTask" => m.task \in Tasks /\ m.rec \in TaskRec
         /\ m.do = "putDead" => m.task \in Tasks /\ m.assignee \in Agents \cup {None}
         /\ m.do = "dropDead" => m.task \in Tasks /\ m.nth \in Nat
         /\ m.do \in {"del", "sadd", "srem"} => m.agent \in Agents
         /\ m.do = "setAgent" => m.agent \in Agents /\ m.rec \in AgentRec
         /\ m.do = "addLoad" => m.agent \in Agents /\ m.delta \in {-1, 1}
  BY DEF Command

\* The Redis commands.
LEMMA CommandType ==
  ASSUME TypeOK, NEW c \in Callers, Command1(c)
  PROVE  TypeOK'
<1> DEFINE cmd == Head(todo[c])
<1>1. todo[c] # <<>> /\ cmd \in Command /\ [todo EXCEPT ![c] = Tail(@)] \in [Callers -> Seq(Command)]
  BY HeadTail DEF Command1, Doing, WriteTask, ZAddTask, ZRemTask, WriteList, PutDeadLetter,
     DropDeadLetter, ReadLoad, WriteAgent, WriteMembers
<1>2. CASE WriteTask(c)
  <2>1. cmd.task \in Tasks /\ cmd.rec \in TaskRec
    BY <1>1, <1>2, Fields DEF WriteTask, Doing
  <2> QED
    BY <1>1, <1>2, <2>1 DEF WriteTask, NextCommand, TypeOK, roster, world, bounds
<1>3. CASE ZAddTask(c)
  <2>1. cmd.task \in Tasks /\ cmd.key \in Keys
    BY <1>1, <1>3, Fields DEF ZAddTask, Doing
  <2>2. credit' \in [Tasks -> Int]
    BY <1>3, <2>1 DEF ZAddTask, TypeOK
  <2> QED
    BY <1>1, <1>3, <2>1, <2>2 DEF ZAddTask, NextCommand, TypeOK, roster, world
<1>4. CASE ZRemTask(c)
  <2>1. cmd.task \in Tasks /\ cmd.key \in Keys
    BY <1>1, <1>4, Fields DEF ZRemTask, Doing
  <2> QED
    BY <1>1, <1>4, <2>1 DEF ZRemTask, NextCommand, TypeOK, roster, world, bounds
<1>5. CASE WriteList(c)
  <2>1. cmd.task \in Tasks
    BY <1>1, <1>5, Fields DEF WriteList, Doing
  <2> QED
    BY <1>1, <1>5, <2>1 DEF WriteList, NextCommand, TypeOK, roster, world, bounds
<1>6. CASE PutDeadLetter(c)
  <2>1. cmd.task \in Tasks /\ cmd.assignee \in Agents \cup {None}
    BY <1>1, <1>6, Fields DEF PutDeadLetter, Doing
  <2>2. Append(dead[cmd.task], cmd.assignee) \in Seq(Agents \cup {None})
    BY <2>1 DEF TypeOK
  <2> QED
    BY <1>1, <1>6, <2>1, <2>2 DEF PutDeadLetter, NextCommand, TypeOK, roster, world, bounds
<1>7. CASE DropDeadLetter(c)
  <2> DEFINE old == dead[cmd.task]
             new == IF cmd.nth \in DOMAIN old
                    THEN SubSeq(old, 1, cmd.nth - 1) \o SubSeq(old, cmd.nth + 1, Len(old)) ELSE old
  <2>1. cmd.task \in Tasks /\ cmd.nth \in Nat
    BY <1>1, <1>7, Fields DEF DropDeadLetter, Doing
  <2>2. old \in Seq(Agents \cup {None})
    BY <2>1 DEF TypeOK
  <2>3. new \in Seq(Agents \cup {None})
    <3>1. CASE cmd.nth \in DOMAIN old
      <4>1. cmd.nth \in 1..Len(old)
        BY <2>2, <3>1
      <4>2. /\ SubSeq(old, 1, cmd.nth - 1) \in Seq(Agents \cup {None})
            /\ SubSeq(old, cmd.nth + 1, Len(old)) \in Seq(Agents \cup {None})
        BY <2>1, <2>2, <4>1
      <4> QED
        BY <3>1, <4>2
    <3> QED
      BY <2>2, <3>1
  <2> QED
    BY <1>1, <1>7, <2>1, <2>3 DEF DropDeadLetter, NextCommand, TypeOK, roster, world, bounds
<1>8. CASE ReadLoad(c)
  <2> DEFINE a == cmd.agent
             n == agent[a].load + cmd.delta
             new == SetAgent(a, Loaded(a, agent[a], IF n < 0 THEN 0 ELSE n))
  <2>1. a \in Agents /\ cmd.delta \in {-1, 1}
    BY <1>1, <1>8, Fields DEF ReadLoad, Doing
  <2>2. Loaded(a, agent[a], IF n < 0 THEN 0 ELSE n) \in AgentRec
    <3>1. agent[a] \in AgentRec /\ n \in Int
      BY <2>1 DEF AgentRec, TypeOK
    <3>2. (IF n < 0 THEN 0 ELSE n) \in Nat
      BY <3>1
    <3> HIDE DEF n
    <3> QED
      BY <3>1, <3>2 DEF Loaded, AgentRec
  <2>3. new \in Command
    BY <2>1, <2>2 DEF SetAgent, Command
  <2>4. <<new>> \o Tail(todo[c]) \in Seq(Command)
    BY <1>1, <2>3, HeadTail
  <2>5. todo' \in [Callers -> Seq(Command)]
    BY <1>1, <1>8, <2>4 DEF ReadLoad, NextCommand, TypeOK
  <2> QED
    BY <1>8, <2>5 DEF ReadLoad, TypeOK, store, roster, world, bounds
<1>9. CASE WriteAgent(c)
  <2>1. cmd.agent \in Agents /\ (cmd.do # "del" => cmd.rec \in AgentRec)
    BY <1>1, <1>9, Fields DEF WriteAgent, Doing
  <2>2. NoAgent \in AgentRec
    BY DEF NoAgent, AgentRec
  <2> QED
    BY <1>1, <1>9, <2>1, <2>2 DEF WriteAgent, NextCommand, TypeOK, store, world, bounds
<1>10. CASE WriteMembers(c)
  <2>1. cmd.agent \in Agents
    BY <1>1, <1>10, Fields DEF WriteMembers, Doing
  <2> QED
    BY <1>1, <1>10, <2>1 DEF WriteMembers, NextCommand, TypeOK, store, world, bounds
<1> QED
  BY <1>2, <1>3, <1>4, <1>5, <1>6, <1>7, <1>8, <1>9, <1>10 DEF Command1

LEMMA KeepsType ==
  ASSUME TypeOK, UNCHANGED vars
  PROVE  TypeOK'
  BY DEF TypeOK, vars, store, roster, world, bounds

\* The operations of clients and agents.
LEMMA OperationType ==
  ASSUME TaskQueueAssumption, TypeOK,
         \/ \E c \in Callers, t \in Tasks : Enqueue(c, t) \/ CancelTask(c, t) \/ ReplayDeadLetter(c, t)
         \/ \E c \in Callers : ClaimTask(c)
         \/ \E a \in Agents, t \in Tasks :
              StartTask(a, t) \/ UpdateProgress(a, t) \/ CompleteTask(a, t) \/ FailTask(a, t)
         \/ \E a \in Agents : Dequeue(a) \/ RegisterAgent(a) \/ AgentHeartbeat(a)
         \/ \E c \in Callers, a \in Agents : UnregisterAgent(c, a)
  PROVE  TypeOK'
<1>0. /\ Agents \subseteq Callers /\ 1 \in Levels
      /\ \A t \in Tasks : task[t] \in TaskRec
  BY DEF TypeOK, Callers, TaskQueueAssumption, Levels
<1>1. ASSUME NEW c \in Callers, NEW t \in Tasks, Enqueue(c, t)
      PROVE  TypeOK'
  <2>1. <<ZAdd("scheduled", t)>> \in Seq(Command)
    BY DEF ZAdd, Command, Keys
  <2>2. EnqueuePending(t) \in Seq(Command)
    BY <1>0, CommandLists DEF Keys
  <2>3. PICK s \in Seq(Command) : todo' = [todo EXCEPT ![c] = s]
    BY <1>1, <2>1, <2>2 DEF Enqueue, Issue
  <2>4. todo' \in [Callers -> Seq(Command)]
    BY <2>3, AssignTodo
  <2>5. /\ [task[t] EXCEPT !.status = "pending"] \in TaskRec
        /\ [task[t] EXCEPT !.status = "scheduled"] \in TaskRec
    BY <1>0 DEF TaskRec, Stored
  <2>6. PICK r \in TaskRec : task' = [task EXCEPT ![t] = r]
    BY <1>1, <2>5 DEF Enqueue, TypeOK
  <2>7. task' \in [Tasks -> TaskRec]
    BY <2>6 DEF TypeOK
  <2> QED
    BY <1>1, <2>4, <2>7 DEF Enqueue, TypeOK, roster, world, bounds
<1>2. ASSUME NEW c \in Callers, NEW t \in Tasks, CancelTask(c, t)
      PROVE  TypeOK'
  <2> DEFINE gone == SetTask(t, [task[t] EXCEPT !.status = "cancelled"])
             who == IF task[t].status \in {"assigned", "processing"} THEN task[t].assignee ELSE None
  <2>1. [task[t] EXCEPT !.status = "cancelled"] \in TaskRec /\ who \in Agents \cup {None}
    BY <1>0 DEF TaskRec, Stored
  <2>2. /\ gone \in Command /\ Unload(who) \in Seq(Command) /\ OnList("lrem", t) \in Command
        /\ ZRem("scheduled", t) \in Command /\ ZRem("processing", t) \in Command
        /\ ZRem("priority", t) \in Command
    BY <2>1, CommandLists DEF Keys
  <2> HIDE DEF gone, who
  <2>3. <<gone, ZRem("scheduled", t), ZRem("processing", t), OnList("lrem", t), ZRem("priority", t)>>
        \o Unload(who) \in Seq(Command)
    BY <2>2
  <2>4. todo' \in [Callers -> Seq(Command)]
    BY <1>2, <2>3, AssignTodo DEF CancelTask, Issue, gone, who
  <2> QED
    BY <1>2, <2>4 DEF CancelTask, TypeOK, store, roster, world, bounds
<1>3. ASSUME NEW c \in Callers, NEW t \in Tasks, ReplayDeadLetter(c, t)
      PROVE  TypeOK'
  <2> DEFINE last == Len(dead[t])
             back == [status |-> "pending", assignee |-> dead[t][last], retry |-> 0]
             drop == [do |-> "dropDead", task |-> t, nth |-> last]
  <2>1. dead[t] \in Seq(Agents \cup {None}) /\ last \in Nat /\ last \in 1..Len(dead[t])
    BY <1>3 DEF ReplayDeadLetter, TypeOK
  <2>2. back \in TaskRec /\ drop \in Command
    BY <2>1 DEF TaskRec, Stored, Command
  <2>3. SetTask(t, back) \in Command /\ EnqueuePending(t) \in Seq(Command)
    BY <1>0, <2>2, CommandLists DEF Keys
  <2> HIDE DEF back, drop
  <2>4. <<drop, SetTask(t, back)>> \o EnqueuePending(t) \in Seq(Command)
    BY <2>2, <2>3
  <2>5. todo' \in [Callers -> Seq(Command)]
    BY <1>3, <2>4, AssignTodo DEF ReplayDeadLetter, Issue, back, drop
  <2>6. replays' \in Nat /\ UNCHANGED <<store, roster, call, world, credit, faults, environment>>
    BY <1>3 DEF ReplayDeadLetter, TypeOK
  <2> QED
    BY <2>5, <2>6 DEF TypeOK, store, roster, world
<1>4. ASSUME NEW c \in Callers, ClaimTask(c)
      PROVE  TypeOK'
  <2>1. [at |-> "peek", pos |-> 1, among |-> Available] \in Call
    BY <1>0 DEF Call, Available, TypeOK
  <2> QED
    BY <1>4, <2>1, AssignCall DEF ClaimTask, Goto, TypeOK, store, roster, world, bounds
<1>5. ASSUME NEW a \in Agents, NEW t \in Tasks, StartTask(a, t)
      PROVE  TypeOK'
  <2>1. [task[t] EXCEPT !.status = "processing"] \in TaskRec
    BY <1>0 DEF TaskRec, Stored
  <2>2. <<SetTask(t, [task[t] EXCEPT !.status = "processing"])>> \in Seq(Command)
    BY <2>1, CommandLists, None \in Agents \cup {None}, "priority" \in Keys DEF Keys
  <2>3. todo' \in [Callers -> Seq(Command)]
    BY <1>0, <1>5, <2>2, AssignTodo DEF StartTask, Issue
  <2> QED
    BY <1>5, <2>3 DEF StartTask, TypeOK, store, roster, world, bounds
<1>6. ASSUME NEW a \in Agents, NEW t \in Tasks, UpdateProgress(a, t)
      PROVE  TypeOK'
  <2>1. <<SetTask(t, task[t])>> \in Seq(Command)
    BY <1>0, CommandLists, None \in Agents \cup {None}, "priority" \in Keys DEF Keys
  <2>2. todo' \in [Callers -> Seq(Command)]
    BY <1>0, <1>6, <2>1, AssignTodo DEF UpdateProgress, Issue
  <2> QED
    BY <1>6, <2>2 DEF UpdateProgress, TypeOK, store, roster, world, bounds
<1>7. ASSUME NEW a \in Agents, NEW t \in Tasks, CompleteTask(a, t)
      PROVE  TypeOK'
  <2> DEFINE done == SetTask(t, [task[t] EXCEPT !.status = "completed"])
  <2>1. [task[t] EXCEPT !.status = "completed"] \in TaskRec /\ task[t].assignee \in Agents \cup {None}
    BY <1>0 DEF TaskRec, Stored
  <2>2. done \in Command /\ ZRem("processing", t) \in Command /\ Unload(task[t].assignee) \in Seq(Command)
    BY <2>1, CommandLists, "processing" \in Keys DEF Keys
  <2> HIDE DEF done
  <2>3. <<done, ZRem("processing", t)>> \o Unload(task[t].assignee) \in Seq(Command)
    BY <2>2
  <2>4. todo' \in [Callers -> Seq(Command)]
    BY <1>0, <1>7, <2>3, AssignTodo DEF CompleteTask, Issue, done
  <2> QED
    BY <1>7, <2>4 DEF CompleteTask, TypeOK, store, roster, bounds
<1>8. ASSUME NEW a \in Agents, NEW t \in Tasks, FailTask(a, t)
      PROVE  TypeOK'
  <2>1. todo' \in [Callers -> Seq(Command)]
    BY <1>0, <1>8, FailCommandsType, AssignTodo DEF FailTask, Issue
  <2> QED
    BY <1>8, <2>1 DEF FailTask, TypeOK, store, roster, bounds
<1>9. ASSUME NEW a \in Agents, Dequeue(a)
      PROVE  TypeOK'
  <2>1. [at |-> "peek", pos |-> 1, among |-> {a}] \in Call
    BY <1>0 DEF Call
  <2> QED
    BY <1>0, <1>9, <2>1, AssignCall DEF Dequeue, Goto, TypeOK, store, roster, world, bounds
<1>10. ASSUME NEW a \in Agents, RegisterAgent(a)
      PROVE  TypeOK'
  <2>1. <<OnAgent("sadd", a)>> \in Seq(Command)
    BY DEF OnAgent, Command
  <2>2. todo' \in [Callers -> Seq(Command)]
    BY <1>0, <1>10, <2>1, AssignTodo DEF RegisterAgent, Issue
  <2>3. [status |-> "idle", load |-> 0, fresh |-> TRUE] \in AgentRec
    BY DEF AgentRec
  <2> QED
    BY <1>10, <2>2, <2>3 DEF RegisterAgent, TypeOK, store, bounds
<1>11. ASSUME NEW a \in Agents, AgentHeartbeat(a)
      PROVE  TypeOK'
  <2> DEFINE r == [Loaded(a, agent[a], agent[a].load) EXCEPT !.fresh = TRUE]
  <2>1. r \in AgentRec
    <3>1. agent[a] \in AgentRec
      BY DEF TypeOK
    <3> QED
      BY <3>1 DEF Loaded, AgentRec
  <2>2. <<SetAgent(a, r)>> \in Seq(Command)
    BY <2>1 DEF SetAgent, Command
  <2>3. todo' \in [Callers -> Seq(Command)]
    BY <1>0, <1>11, <2>2, AssignTodo DEF AgentHeartbeat, Issue
  <2> QED
    BY <1>11, <2>3 DEF AgentHeartbeat, TypeOK, store, roster, world, bounds
<1>12. ASSUME NEW c \in Callers, NEW a \in Agents, UnregisterAgent(c, a)
      PROVE  TypeOK'
  <2> DEFINE recs == [u \in Tasks |-> IF u \in AgentTasks(a) THEN task[u] ELSE NoTask]
  <2>1. recs \in [Tasks -> TaskRec]
    BY DEF NoTask, TaskRec, TypeOK
  <2>2. [at |-> "requeue", agent |-> a, recs |-> recs] \in Call
    BY <2>1 DEF Call
  <2>3. call' \in [Callers -> Call]
    BY <1>12, <2>2, AssignCall DEF UnregisterAgent, Goto
  <2> QED
    BY <1>12, <2>3 DEF UnregisterAgent, TypeOK, store, roster, bounds
<1> QED
  BY <1>1, <1>2, <1>3, <1>4, <1>5, <1>6, <1>7, <1>8, <1>9, <1>10, <1>11, <1>12

\* The timers' first reads and the environment.
LEMMA EnvironmentType ==
  ASSUME TypeOK,
         \/ \E c \in Callers : ProcessScheduledTasks(c) \/ CheckAgentHeartbeats(c) \/ CutShort(c)
         \/ \E a \in Agents : Die(a) \/ MissHeartbeats(a) \/ Expire(a)
  PROVE  TypeOK'
<1>1. ASSUME NEW c \in Callers, ProcessScheduledTasks(c)
      PROVE  TypeOK'
  <2>1. PICK due \in SUBSET zset["scheduled"] : call' = [call EXCEPT ![c] = [at |-> "wake", due |-> due]]
    BY <1>1 DEF ProcessScheduledTasks, Goto
  <2>2. [at |-> "wake", due |-> due] \in Call
    BY <2>1 DEF Call, TypeOK, Keys
  <2> QED
    BY <1>1, <2>1, <2>2, AssignCall DEF ProcessScheduledTasks, TypeOK, store, roster, world, bounds
<1>2. ASSUME NEW c \in Callers, CheckAgentHeartbeats(c)
      PROVE  TypeOK'
  <2> DEFINE late == [b \in Agents |-> IF b \in Late THEN agent[b] ELSE NoAgent]
  <2>1. late \in [Agents -> AgentRec]
    BY DEF NoAgent, AgentRec, TypeOK
  <2>2. [at |-> "sweep", late |-> late] \in Call
    BY <2>1 DEF Call
  <2>3. call' \in [Callers -> Call]
    BY <1>2, <2>2, AssignCall DEF CheckAgentHeartbeats, Goto
  <2> QED
    BY <1>2, <2>3 DEF CheckAgentHeartbeats, TypeOK, store, roster, world, bounds
<1>3. ASSUME NEW c \in Callers, CutShort(c)
      PROVE  TypeOK'
  <2>1. <<>> \in Seq(Command) /\ NoCall \in Call
    BY DEF NoCall, Call
  <2> QED
    BY <1>3, <2>1 DEF CutShort, Issue, Return, Goto, TypeOK, store, roster, world
<1>4. ASSUME NEW a \in Agents, Die(a)
      PROVE  TypeOK'
  BY <1>4 DEF Die, TypeOK, store, roster, bounds
<1>5. ASSUME NEW a \in Agents, MissHeartbeats(a)
      PROVE  TypeOK'
  <2>1. [agent[a] EXCEPT !.fresh = FALSE] \in AgentRec
    BY DEF AgentRec, TypeOK
  <2> QED
    BY <1>5, <2>1 DEF MissHeartbeats, TypeOK, store, world, bounds
<1>6. ASSUME NEW a \in Agents, Expire(a)
      PROVE  TypeOK'
  BY <1>6 DEF Expire, NoAgent, AgentRec, TypeOK, store, world, bounds
<1> QED
  BY <1>1, <1>2, <1>3, <1>4, <1>5, <1>6

\* The pop and the loops.
LEMMA FrameType ==
  ASSUME TaskQueueAssumption, TypeOK, NEW c \in Callers,
         \/ Peek(c) \/ Take(c) \/ Fetch(c) \/ Give(c)
         \/ Wake(c) \/ Sweep(c) \/ FailNext(c) \/ Requeue(c)
  PROVE  TypeOK'
<1>0. call[c] \in Call /\ NoCall \in Call
  BY DEF TypeOK, NoCall, Call
<1>1. ASSUME NextPriority(c), call[c].at \in {"peek", "take"}
      PROVE  call' \in [Callers -> Call]
  <2>1. call[c].pos \in Levels /\ call[c].among \subseteq Agents
    BY <1>0, <1>1, Frames
  <2>2. CASE call[c].pos < NumLevels
    <3>1. call[c].pos + 1 \in Levels
      BY <2>1, <2>2 DEF Levels, TaskQueueAssumption
    <3>2. [at |-> "peek", pos |-> call[c].pos + 1, among |-> call[c].among] \in Call
      BY <2>1, <3>1 DEF Call
    <3> QED
      BY <1>1, <2>2, <3>2, AssignCall DEF NextPriority, Goto
  <2>3. CASE ~(call[c].pos < NumLevels)
    BY <1>0, <1>1, <2>3, AssignCall DEF NextPriority, Return, Goto
  <2> QED
    BY <2>2, <2>3
<1>2. CASE Peek(c)
  <2>1. call[c].at = "peek" /\ call[c].pos \in Levels /\ call[c].among \subseteq Agents
    BY <1>0, <1>2, Frames DEF Peek, At
  <2>2. ASSUME NEW t \in zset["priority"],
               Goto(c, [at |-> "take", pos |-> call[c].pos, among |-> call[c].among, task |-> t])
        PROVE  call' \in [Callers -> Call]
    <3>1. [at |-> "take", pos |-> call[c].pos, among |-> call[c].among, task |-> t] \in Call
      BY <2>1 DEF Call, TypeOK, Keys
    <3> QED
      BY <2>2, <3>1, AssignCall DEF Goto
  <2>3. call' \in [Callers -> Call]
    BY <1>1, <1>2, <2>1, <2>2 DEF Peek
  <2> QED
    BY <1>2, <2>3 DEF Peek, TypeOK, store, roster, world, bounds
<1>3. CASE Take(c)
  <2> DEFINE t == call[c].task
             f == [at |-> "fetch", among |-> call[c].among, task |-> t]
  <2>1. call[c].at = "take" /\ t \in Tasks /\ call[c].among \subseteq Agents
    BY <1>0, <1>3, Frames DEF Take, At
  <2>2. <<OnList("lrem", t)>> \in Seq(Command) /\ f \in Call
    BY <2>1 DEF OnList, Command, Call
  <2>3. CASE t \in zset["priority"]
    <3>1. /\ zset' = [zset EXCEPT !["priority"] = @ \ {t}]
          /\ Issue(c, <<OnList("lrem", t)>>) /\ Goto(c, f)
      BY <1>3, <2>3 DEF Take
    <3>2. todo' \in [Callers -> Seq(Command)] /\ call' \in [Callers -> Call]
      BY <2>2, <3>1, AssignTodo, AssignCall DEF Issue, Goto
    <3> QED
      BY <1>3, <3>1, <3>2 DEF Take, TypeOK, roster, world, bounds
  <2>4. CASE t \notin zset["priority"]
    <3>1. call' \in [Callers -> Call] /\ UNCHANGED <<zset, todo>>
      BY <1>1, <1>3, <2>1, <2>4 DEF Take
    <3> QED
      BY <1>3, <3>1 DEF Take, TypeOK, roster, world, bounds
  <2> QED
    BY <2>3, <2>4
<1>4. CASE Fetch(c)
  <2> DEFINE t == call[c].task
  <2>1. t \in Tasks /\ call[c].among \subseteq Agents /\ task[t] \in TaskRec
    BY <1>0, <1>4, Frames DEF Fetch, At, TypeOK
  <2>2. CASE task[t].status = "pending"
    <3>1. PICK a \in call[c].among :
            /\ Issue(c, <<SetTask(t, [task[t] EXCEPT !.status = "assigned", !.assignee = a]),
                          ZAdd("processing", t), AddLoad(a, 1)>>)
            /\ Goto(c, [at |-> "give", agent |-> a, task |-> t])
      BY <1>4, <2>2 DEF Fetch
    <3> DEFINE r == [task[t] EXCEPT !.status = "assigned", !.assignee = a]
    <3>2. a \in Agents /\ r \in TaskRec
      BY <2>1, <3>1 DEF TaskRec, Stored
    <3>3. SetTask(t, r) \in Command /\ ZAdd("processing", t) \in Command
      BY <2>1, <3>2, CommandLists DEF Keys
    <3>4. AddLoad(a, 1) \in Command
      BY <3>2 DEF AddLoad, Command
    <3>5. [at |-> "give", agent |-> a, task |-> t] \in Call
      BY <2>1, <3>2 DEF Call
    <3>6. <<SetTask(t, r), ZAdd("processing", t), AddLoad(a, 1)>> \in Seq(Command)
      BY <3>3, <3>4
    <3>7. todo' \in [Callers -> Seq(Command)] /\ call' \in [Callers -> Call]
      BY <3>1, <3>5, <3>6, AssignTodo, AssignCall DEF Issue, Goto
    <3>8. UNCHANGED <<store, roster, world, bounds>>
      BY <1>4 DEF Fetch
    <3> QED
      BY <3>7, <3>8 DEF TypeOK, store, roster, world, bounds
  <2>3. CASE task[t].status # "pending"
    <3>1. call' \in [Callers -> Call] /\ UNCHANGED todo
      <4>1. UNCHANGED todo /\ call' = [call EXCEPT ![c] = NoCall]
        BY <1>4, <2>3 DEF Fetch, Return, Goto
      <4> QED
        BY <1>0, <4>1, AssignCall
    <3>2. UNCHANGED <<store, roster, world, bounds>>
      BY <1>4 DEF Fetch
    <3> QED
      BY <3>1, <3>2 DEF TypeOK, store, roster, world, bounds
  <2> QED
    BY <2>2, <2>3
<1>5. CASE Give(c)
  <2>1. call[c].agent \in Agents /\ call[c].task \in Tasks
    BY <1>0, <1>5, Frames DEF Give, At
  <2>2. held' \in [Agents -> SUBSET Tasks]
    BY <1>5, <2>1 DEF Give, TypeOK
  <2>3. credit' \in [Tasks -> Int]
    BY <1>5, <2>1 DEF Give, TypeOK
  <2>4. call' \in [Callers -> Call]
    BY <1>0, <1>5, AssignCall DEF Give, Return, Goto
  <2> QED
    BY <1>5, <2>2, <2>3, <2>4 DEF Give, TypeOK, store, roster
<1>6. CASE Wake(c)
  <2>1. PICK t \in call[c].due :
          /\ Issue(c, <<ZRem("scheduled", t), SetTask(t, [task[t] EXCEPT !.status = "pending"])>>
                      \o EnqueuePending(t))
          /\ LET rest == call[c].due \ {t} IN
             IF rest = {} THEN Return(c) ELSE Goto(c, [at |-> "wake", due |-> rest])
    BY <1>6 DEF Wake
  <2> DEFINE r == [task[t] EXCEPT !.status = "pending"]
  <2>2. call[c].due \subseteq Tasks /\ t \in Tasks
    BY <1>0, <1>6, <2>1, Frames DEF Wake, At
  <2>3. r \in TaskRec
    <3>1. task[t] \in TaskRec
      BY <2>2 DEF TypeOK
    <3> QED
      BY <3>1 DEF TaskRec, Stored
  <2>4. /\ SetTask(t, r) \in Command /\ ZRem("scheduled", t) \in Command
        /\ EnqueuePending(t) \in Seq(Command)
    BY <2>2, <2>3, CommandLists, "scheduled" \in Keys, None \in Agents \cup {None} DEF Keys
  <2> HIDE DEF r
  <2>5. <<ZRem("scheduled", t), SetTask(t, r)>> \o EnqueuePending(t) \in Seq(Command)
    BY <2>4
  <2>6. [at |-> "wake", due |-> call[c].due \ {t}] \in Call
    BY <2>2 DEF Call
  <2>7. todo' \in [Callers -> Seq(Command)]
    BY <2>1, <2>5, AssignTodo DEF Issue, r
  <2>8. call' \in [Callers -> Call]
    <3>1. PICK f \in Call : call' = [call EXCEPT ![c] = f]
      <4>1. CASE call[c].due \ {t} = {}
        BY <1>0, <2>1, <4>1 DEF Return, Goto
      <4>2. CASE call[c].due \ {t} # {}
        BY <2>1, <2>6, <4>2 DEF Goto
      <4> QED
        BY <4>1, <4>2
    <3> QED
      BY <3>1, AssignCall
  <2>9. UNCHANGED <<store, roster, world, bounds>>
    BY <1>6 DEF Wake
  <2> QED
    BY <2>7, <2>8, <2>9 DEF TypeOK, store, roster, world, bounds
<1>7. CASE Sweep(c)
  <2>1. PICK a \in Agents :
          Goto(c, [at |-> "fail", late |-> call[c].late, agent |-> a, tasks |-> AgentTasks(a)])
    BY <1>7 DEF Sweep
  <2>2. call[c].late \in [Agents -> AgentRec] /\ AgentTasks(a) \subseteq Tasks
    BY <1>0, <1>7, Frames DEF Sweep, At, AgentTasks, TypeOK, Keys
  <2>3. [at |-> "fail", late |-> call[c].late, agent |-> a, tasks |-> AgentTasks(a)] \in Call
    BY <2>2 DEF Call
  <2>4. call' \in [Callers -> Call]
    BY <2>1, <2>3, AssignCall DEF Goto
  <2> QED
    BY <1>7, <2>4 DEF Sweep, TypeOK, store, roster, world, bounds
<1>8. CASE FailNext(c)
  <2> DEFINE f == call[c]
             a == f.agent
             rest == [f.late EXCEPT ![a] = NoAgent]
             off == SetAgent(a, [f.late[a] EXCEPT !.status = "offline"])
  <2>1. /\ f = [at |-> "fail", late |-> f.late, agent |-> a, tasks |-> f.tasks]
        /\ f.late \in [Agents -> AgentRec] /\ a \in Agents /\ f.tasks \subseteq Tasks
    BY <1>0, <1>8, FailFrame DEF FailNext, At
  <2>2. ASSUME NEW t \in f.tasks, Issue(c, FailCommands(t)), Goto(c, [f EXCEPT !.tasks = @ \ {t}])
        PROVE  todo' \in [Callers -> Seq(Command)] /\ call' \in [Callers -> Call]
    <3>1. [f EXCEPT !.tasks = @ \ {t}] = [at |-> "fail", late |-> f.late, agent |-> a, tasks |-> f.tasks \ {t}]
      BY <2>1
    <3>2. [f EXCEPT !.tasks = @ \ {t}] \in Call
      BY <2>1, <3>1 DEF Call
    <3>3. FailCommands(t) \in Seq(Command)
      BY <2>1, FailCommandsType
    <3> QED
      BY <2>2, <3>2, <3>3, AssignTodo, AssignCall DEF Issue, Goto
  <2>3. ASSUME Issue(c, <<off>>),
               IF \A b \in Agents : rest[b] = NoAgent
               THEN Return(c) ELSE Goto(c, [at |-> "sweep", late |-> rest])
        PROVE  todo' \in [Callers -> Seq(Command)] /\ call' \in [Callers -> Call]
    <3>1. rest \in [Agents -> AgentRec] /\ [f.late[a] EXCEPT !.status = "offline"] \in AgentRec
      BY <2>1 DEF NoAgent, AgentRec
    <3>2. [at |-> "sweep", late |-> rest] \in Call
      BY <3>1 DEF Call
    <3>3. <<off>> \in Seq(Command)
      BY <2>1, <3>1 DEF SetAgent, Command
    <3>4. todo' \in [Callers -> Seq(Command)]
      BY <2>3, <3>3, AssignTodo DEF Issue
    <3>5. call' \in [Callers -> Call]
      <4> HIDE DEF rest
      <4> QED
        BY <1>0, <2>3, <3>2, AssignCall DEF Return, Goto
    <3> QED
      BY <3>4, <3>5
  <2>4. todo' \in [Callers -> Seq(Command)] /\ call' \in [Callers -> Call]
    BY <1>8, <2>2, <2>3 DEF FailNext
  <2> QED
    BY <1>8, <2>4 DEF FailNext, TypeOK, store, roster, world, bounds
<1>9. CASE Requeue(c)
  <2> DEFINE f == call[c]
             back(t) == [f.recs[t] EXCEPT !.status = "pending", !.assignee = None]
  <2>1. /\ f = [at |-> "requeue", agent |-> f.agent, recs |-> f.recs]
        /\ f.agent \in Agents /\ f.recs \in [Tasks -> TaskRec]
    BY <1>0, <1>9 DEF Requeue, At, Call
  <2>2. ASSUME NEW t \in Tasks,
               Issue(c, <<SetTask(t, back(t))>> \o EnqueuePending(t)),
               Goto(c, [f EXCEPT !.recs = [f.recs EXCEPT ![t] = NoTask]])
        PROVE  todo' \in [Callers -> Seq(Command)] /\ call' \in [Callers -> Call]
    <3>0. f.recs[t] \in TaskRec
      BY <2>1
    <3>1. back(t) \in TaskRec /\ NoTask \in TaskRec
      BY <3>0 DEF TaskRec, Stored, NoTask
    <3>2. [f EXCEPT !.recs = [f.recs EXCEPT ![t] = NoTask]]
            = [at |-> "requeue", agent |-> f.agent, recs |-> [f.recs EXCEPT ![t] = NoTask]]
      BY <2>1
    <3>3. [f EXCEPT !.recs = [f.recs EXCEPT ![t] = NoTask]] \in Call
      BY <2>1, <3>1, <3>2 DEF Call
    <3>4. SetTask(t, back(t)) \in Command /\ EnqueuePending(t) \in Seq(Command)
      BY <3>1, CommandLists, "priority" \in Keys, None \in Agents \cup {None} DEF Keys
    <3> HIDE DEF back
    <3>5. <<SetTask(t, back(t))>> \o EnqueuePending(t) \in Seq(Command)
      BY <3>4
    <3> QED
      BY <2>2, <3>3, <3>5, AssignTodo, AssignCall DEF Issue, Goto
  <2>3. ASSUME Issue(c, <<OnAgent("del", f.agent), OnAgent("srem", f.agent)>>), Return(c)
        PROVE  todo' \in [Callers -> Seq(Command)] /\ call' \in [Callers -> Call]
    <3>1. OnAgent("del", f.agent) \in Command /\ OnAgent("srem", f.agent) \in Command
      BY <2>1 DEF OnAgent, Command
    <3>2. <<OnAgent("del", f.agent), OnAgent("srem", f.agent)>> \in Seq(Command)
      BY <3>1
    <3> QED
      BY <1>0, <2>3, <3>2, AssignTodo, AssignCall DEF Issue, Return, Goto
  <2>4. todo' \in [Callers -> Seq(Command)] /\ call' \in [Callers -> Call]
    BY <1>9, <2>2, <2>3 DEF Requeue
  <2> QED
    BY <1>9, <2>4 DEF Requeue, TypeOK, store, roster, world, bounds
<1> QED
  BY <1>2, <1>3, <1>4, <1>5, <1>6, <1>7, <1>8, <1>9

LEMMA TypeStep ==
  ASSUME TaskQueueAssumption, TypeOK, [Next]_vars
  PROVE  TypeOK'
<1>1. CASE UNCHANGED vars
  BY <1>1, KeepsType
<1>2. ASSUME NEW c \in Callers, Running(c)
      PROVE  TypeOK'
  BY <1>2, CommandType, FrameType DEF Running
<1>3. Clients \subseteq Callers /\ Ticks \subseteq Callers
  BY DEF Callers
<1> QED
  BY <1>1, <1>2, <1>3, OperationType, EnvironmentType DEF Next

\* TypeOK holds in every state the queue reaches.
THEOREM TypeCorrect == Spec => []TypeOK
<1>1. Init => TypeOK
  BY InitType, TaskQueueAssumption
<1>2. TypeOK /\ [Next]_vars => TypeOK'
  BY TypeStep, TaskQueueAssumption
<1> QED
  BY <1>1, <1>2, PTL DEF Spec

-----------------------------------------------------------------------------
(* Every hand-out is backed by a push of its own.  ClaimsBacked is not     *)
(* inductive: a pop that won its zrem is a hand-out still to come.  Backed *)
(* counts those pops, and the entry that waits in the priority set.        *)

InFlight(t) == {c \in Callers : call[c].at \in {"fetch", "give"} /\ call[c].task = t}
Waiting(t) == IF t \in zset["priority"] THEN 1 ELSE 0
Backed == \A t \in Tasks : credit[t] >= Cardinality(InFlight(t)) + Waiting(t)

LEMMA InFlightFinite ==
  ASSUME TaskQueueAssumption, NEW t \in Tasks
  PROVE  /\ IsFiniteSet(InFlight(t)) /\ Cardinality(InFlight(t)) \in Nat
         /\ IsFiniteSet(InFlight(t)')
<1>1. IsFiniteSet(Callers)
  BY DEF TaskQueueAssumption
<1>2. InFlight(t) \subseteq Callers /\ InFlight(t)' \subseteq Callers
  BY DEF InFlight
<1> QED
  BY <1>1, <1>2, FS_Subset, FS_CardinalityType

\* A step that adds no pop in flight and no waiting entry keeps Backed.
LEMMA NoNewClaim ==
  ASSUME TaskQueueAssumption, TypeOK, Backed,
         credit' = credit,
         zset'["priority"] \subseteq zset["priority"],
         \A c \in Callers : call'[c] = call[c] \/ call'[c].at \notin {"fetch", "give"}
  PROVE  Backed'
<1> SUFFICES ASSUME NEW t \in Tasks
             PROVE  credit'[t] >= Cardinality(InFlight(t)') + Waiting(t)'
  BY DEF Backed
<1>1. InFlight(t)' \subseteq InFlight(t)
  BY DEF InFlight
<1>2. Cardinality(InFlight(t)') <= Cardinality(InFlight(t)) /\ Cardinality(InFlight(t)') \in Nat
  BY <1>1, InFlightFinite, FS_Subset, FS_CardinalityType
<1>3. Waiting(t)' <= Waiting(t) /\ Waiting(t) \in Nat /\ Waiting(t)' \in Nat
  BY DEF Waiting
<1>4. credit[t] >= Cardinality(InFlight(t)) + Waiting(t) /\ credit[t] \in Int
  BY DEF Backed, TypeOK
<1> QED
  BY <1>2, <1>3, <1>4, InFlightFinite

LEMMA TakeBacked ==
  ASSUME TaskQueueAssumption, TypeOK, Backed, NEW c \in Callers, Take(c)
  PROVE  Backed'
<1> DEFINE u == call[c].task
<1>1. CASE u \notin zset["priority"]
  <2>1. zset' = zset /\ credit' = credit
    BY <1>1 DEF Take, bounds
  <2>2. \A d \in Callers : call'[d] = call[d] \/ call'[d].at \notin {"fetch", "give"}
    BY <1>1 DEF Take, NextPriority, Goto, Return, NoCall, TypeOK
  <2> QED
    BY <2>1, <2>2, NoNewClaim
<1>2. CASE u \in zset["priority"]
  <2>1. /\ zset'["priority"] = zset["priority"] \ {u} /\ credit' = credit
        /\ call' = [call EXCEPT ![c] = [at |-> "fetch", among |-> call[c].among, task |-> u]]
        /\ call[c].at = "take"
    BY <1>2 DEF Take, Goto, bounds, TypeOK, Keys, At
  <2> SUFFICES ASSUME NEW t \in Tasks
               PROVE  credit'[t] >= Cardinality(InFlight(t)') + Waiting(t)'
    BY DEF Backed
  <2>2. credit[t] >= Cardinality(InFlight(t)) + Waiting(t) /\ credit[t] \in Int
    BY DEF Backed, TypeOK
  <2>3. CASE t = u
    <3>1. InFlight(t)' = InFlight(t) \cup {c} /\ c \notin InFlight(t)
      BY <2>1, <2>3 DEF InFlight, TypeOK
    <3>2. Cardinality(InFlight(t)') = Cardinality(InFlight(t)) + 1
      BY <3>1, InFlightFinite, FS_AddElement
    <3>3. Waiting(t) = 1 /\ Waiting(t)' = 0
      BY <1>2, <2>1, <2>3 DEF Waiting
    <3> QED
      BY <2>1, <2>2, <3>2, <3>3, InFlightFinite
  <2>4. CASE t # u
    <3>1. InFlight(t)' = InFlight(t)
      BY <2>1, <2>4 DEF InFlight, TypeOK
    <3>2. Waiting(t)' = Waiting(t)
      BY <2>1, <2>4 DEF Waiting
    <3> QED
      BY <2>1, <2>2, <3>1, <3>2
  <2> QED
    BY <2>3, <2>4
<1> QED
  BY <1>1, <1>2

\* The assignment keeps the pop in flight; a popped task that is not pending
\* is dropped.
LEMMA FetchBacked ==
  ASSUME TaskQueueAssumption, TypeOK, Backed, NEW c \in Callers, Fetch(c)
  PROVE  Backed'
<1> DEFINE u == call[c].task
<1>0. zset' = zset /\ credit' = credit /\ call[c].at = "fetch"
  BY DEF Fetch, At, store, bounds
<1>1. CASE task[u].status # "pending"
  <2>0. call' = [call EXCEPT ![c] = NoCall]
    BY <1>1 DEF Fetch, Goto, Return
  <2>1. \A d \in Callers : call'[d] = call[d] \/ call'[d].at \notin {"fetch", "give"}
    BY <2>0 DEF NoCall, TypeOK
  <2> QED
    BY <1>0, <2>1, NoNewClaim
<1>2. CASE task[u].status = "pending"
  <2>1. PICK a \in call[c].among : call' = [call EXCEPT ![c] = [at |-> "give", agent |-> a, task |-> u]]
    BY <1>2 DEF Fetch, Goto
  <2>2. \A t \in Tasks : InFlight(t)' = InFlight(t)
    BY <1>0, <2>1 DEF InFlight, TypeOK
  <2> QED
    BY <1>0, <2>2 DEF Backed, Waiting
<1> QED
  BY <1>1, <1>2

LEMMA GiveBacked ==
  ASSUME TaskQueueAssumption, TypeOK, Backed, NEW c \in Callers, Give(c)
  PROVE  Backed'
<1> DEFINE u == call[c].task
<1>1. /\ call[c].at = "give" /\ u \in Tasks
      /\ credit' = [credit EXCEPT ![u] = @ - 1]
      /\ call' = [call EXCEPT ![c] = NoCall] /\ zset' = zset
  <2>1. call[c] \in Call
    BY DEF TypeOK
  <2> QED
    BY <2>1, Frames DEF Give, At, Return, Goto, store
<1> SUFFICES ASSUME NEW t \in Tasks
             PROVE  credit'[t] >= Cardinality(InFlight(t)') + Waiting(t)'
  BY DEF Backed
<1>2. credit[t] >= Cardinality(InFlight(t)) + Waiting(t) /\ credit[t] \in Int
  BY DEF Backed, TypeOK
<1>3. Waiting(t)' = Waiting(t) /\ Waiting(t) \in Nat
  BY <1>1 DEF Waiting
<1>4. CASE t = u
  <2>1. InFlight(t)' = InFlight(t) \ {c} /\ c \in InFlight(t)
    BY <1>1, <1>4 DEF InFlight, NoCall, TypeOK
  <2>2. Cardinality(InFlight(t)') = Cardinality(InFlight(t)) - 1
    <3> HIDE DEF u
    <3> DEFINE S == InFlight(t)
    <3>1. IsFiniteSet(S) /\ c \in S
      BY <2>1, InFlightFinite
    <3> HIDE DEF S
    <3>2. Cardinality(S \ {c}) = Cardinality(S) - 1
      BY <3>1, FS_RemoveElement
    <3> QED
      BY <2>1, <3>2 DEF S
  <2>3. credit'[t] = credit[t] - 1
    BY <1>1, <1>4 DEF TypeOK
  <2> QED
    BY <1>2, <1>3, <2>2, <2>3, InFlightFinite
<1>5. CASE t # u
  <2>1. InFlight(t)' = InFlight(t)
    BY <1>1, <1>5 DEF InFlight, NoCall, TypeOK
  <2>2. credit'[t] = credit[t]
    BY <1>1, <1>5 DEF TypeOK
  <2> QED
    BY <1>2, <1>3, <2>1, <2>2
<1> QED
  BY <1>4, <1>5

\* A push gives the credit that its entry uses up.
LEMMA ZAddBacked ==
  ASSUME TaskQueueAssumption, TypeOK, Backed, NEW c \in Callers, ZAddTask(c)
  PROVE  Backed'
<1> DEFINE cmd == Head(todo[c])
<1>1. cmd.key \in Keys /\ cmd.task \in Tasks
  BY HeadTail, Fields DEF ZAddTask, Doing
<1>2. /\ zset' = [zset EXCEPT ![cmd.key] = @ \cup {cmd.task}] /\ call' = call
      /\ credit' = IF cmd.key = "priority" THEN [credit EXCEPT ![cmd.task] = @ + 1] ELSE credit
  BY DEF ZAddTask
<1>3. CASE cmd.key # "priority"
  <2>1. zset'["priority"] = zset["priority"] /\ credit' = credit
    BY <1>1, <1>2, <1>3 DEF TypeOK, Keys
  <2> QED
    BY <1>2, <2>1, NoNewClaim
<1>4. CASE cmd.key = "priority"
  <2> SUFFICES ASSUME NEW t \in Tasks
               PROVE  credit'[t] >= Cardinality(InFlight(t)') + Waiting(t)'
    BY DEF Backed
  <2>1. credit[t] >= Cardinality(InFlight(t)) + Waiting(t) /\ credit[t] \in Int
    BY DEF Backed, TypeOK
  <2>2. InFlight(t)' = InFlight(t)
    BY <1>2 DEF InFlight
  <2>3. zset'["priority"] = zset["priority"] \cup {cmd.task}
    BY <1>2, <1>4 DEF TypeOK, Keys
  <2>4. CASE t = cmd.task
    <3>1. credit'[t] = credit[t] + 1
      BY <1>2, <1>4, <2>4 DEF TypeOK
    <3>2. Waiting(t)' <= Waiting(t) + 1 /\ Waiting(t) \in Nat /\ Waiting(t)' \in Nat
      BY DEF Waiting
    <3> QED
      BY <2>1, <2>2, <3>1, <3>2, InFlightFinite
  <2>5. CASE t # cmd.task
    <3>1. credit'[t] = credit[t] /\ Waiting(t)' = Waiting(t)
      BY <1>1, <1>2, <1>4, <2>3, <2>5 DEF TypeOK, Waiting
    <3> QED
      BY <2>1, <2>2, <3>1
  <2> QED
    BY <2>4, <2>5
<1> QED
  BY <1>3, <1>4

\* No other step starts a pop, hands out a task or pushes one.
LEMMA OtherSteps ==
  ASSUME TaskQueueAssumption, TypeOK, [Next]_vars,
         ~\E c \in Callers : Take(c) \/ Fetch(c) \/ Give(c) \/ ZAddTask(c)
  PROVE  /\ credit' = credit
         /\ zset'["priority"] \subseteq zset["priority"]
         /\ \A c \in Callers : call'[c] = call[c] \/ call'[c].at \notin {"fetch", "give"}
<1> DEFINE Goal == /\ credit' = credit
                   /\ zset'["priority"] \subseteq zset["priority"]
                   /\ \A c \in Callers : call'[c] = call[c] \/ call'[c].at \notin {"fetch", "give"}
<1>1. CASE UNCHANGED vars
  BY <1>1 DEF vars, store, bounds
<1>2. ASSUME NEW c \in Callers, Command1(c), ~ZAddTask(c)
      PROVE  Goal
  <2>1. CASE ZRemTask(c)
    <3>1. Head(todo[c]).key \in Keys
      BY <2>1, HeadTail, Fields DEF ZRemTask, Doing
    <3> QED
      BY <2>1, <3>1 DEF ZRemTask, bounds, TypeOK, Keys
  <2> QED
    BY <1>2, <2>1 DEF Command1, WriteTask, WriteList, PutDeadLetter, DropDeadLetter,
       ReadLoad, WriteAgent, WriteMembers, store, bounds
<1>3. ASSUME NEW c \in Callers, Peek(c)
      PROVE  Goal
  BY <1>3 DEF Peek, NextPriority, Goto, Return, NoCall, store, bounds, TypeOK
<1>4. ASSUME NEW c \in Callers, Wake(c)
      PROVE  Goal
  BY <1>4 DEF Wake, Goto, Return, NoCall, store, bounds, TypeOK
<1>5. ASSUME NEW c \in Callers, Sweep(c)
      PROVE  Goal
  BY <1>5 DEF Sweep, Goto, store, bounds, TypeOK
<1>6. ASSUME NEW c \in Callers, FailNext(c)
      PROVE  Goal
  <2>1. /\ call[c].at = "fail"
        /\ call[c] = [at |-> "fail", late |-> call[c].late, agent |-> call[c].agent, tasks |-> call[c].tasks]
    BY <1>6, FailFrame DEF FailNext, At, TypeOK
  <2>2. \A S : [call[c] EXCEPT !.tasks = S].at = "fail"
    BY <2>1
  <2>3. \A d \in Callers : call'[d] = call[d] \/ call'[d].at \notin {"fetch", "give"}
    <3>1. CASE \E t \in call[c].tasks :
                 Goto(c, [call[c] EXCEPT !.tasks = call[c].tasks \ {t}])
      BY <2>2, <3>1 DEF Goto, TypeOK
    <3>2. CASE \E late : Goto(c, [at |-> "sweep", late |-> late])
      BY <3>2 DEF Goto, TypeOK
    <3>3. CASE Return(c)
      BY <3>3 DEF Return, Goto, NoCall, TypeOK
    <3> QED
      BY <1>6, <3>1, <3>2, <3>3 DEF FailNext
  <2> QED
    BY <1>6, <2>3 DEF FailNext, store, bounds, TypeOK
<1>7. ASSUME NEW c \in Callers, Requeue(c)
      PROVE  Goal
  <2>1. call[c].at = "requeue" /\ call[c] \in Call
    BY <1>7 DEF Requeue, At, TypeOK
  <2>2. call[c] = [at |-> "requeue", agent |-> call[c].agent, recs |-> call[c].recs]
    BY <2>1 DEF Call
  <2>3. \A r : [call[c] EXCEPT !.recs = r].at = "requeue"
    BY <2>2
  <2>4. \A d \in Callers : call'[d] = call[d] \/ call'[d].at \notin {"fetch", "give"}
    <3>1. CASE \E t \in Tasks : Goto(c, [call[c] EXCEPT !.recs = [call[c].recs EXCEPT ![t] = NoTask]])
      BY <2>3, <3>1 DEF Goto, TypeOK
    <3>2. CASE Return(c)
      BY <3>2 DEF Return, Goto, NoCall, TypeOK
    <3> QED
      BY <1>7, <3>1, <3>2 DEF Requeue
  <2> QED
    BY <1>7, <2>4 DEF Requeue, store, bounds, TypeOK
<1>8. ASSUME NEW c \in Callers, NEW t \in Tasks,
             Enqueue(c, t) \/ CancelTask(c, t) \/ ReplayDeadLetter(c, t)
      PROVE  Goal
  BY <1>8 DEF Enqueue, CancelTask, ReplayDeadLetter, store, bounds
<1>9. ASSUME NEW a \in Agents, NEW t \in Tasks,
             StartTask(a, t) \/ UpdateProgress(a, t) \/ CompleteTask(a, t) \/ FailTask(a, t)
      PROVE  Goal
  BY <1>9 DEF StartTask, UpdateProgress, CompleteTask, FailTask, store, bounds
<1>10. ASSUME NEW a \in Agents, Dequeue(a) \/ RegisterAgent(a) \/ AgentHeartbeat(a)
       PROVE  Goal
  BY <1>10 DEF Dequeue, RegisterAgent, AgentHeartbeat, Goto, store, bounds, TypeOK
<1>11. ASSUME NEW c \in Callers,
              \/ ClaimTask(c) \/ ProcessScheduledTasks(c) \/ CheckAgentHeartbeats(c) \/ CutShort(c)
              \/ \E a \in Agents : UnregisterAgent(c, a)
       PROVE  Goal
  BY <1>11 DEF ClaimTask, ProcessScheduledTasks, CheckAgentHeartbeats, CutShort, UnregisterAgent,
     Goto, Return, NoCall, store, bounds, TypeOK
<1>12. ASSUME NEW a \in Agents, Die(a) \/ MissHeartbeats(a) \/ Expire(a)
       PROVE  Goal
  BY <1>12 DEF Die, MissHeartbeats, Expire, store, bounds
<1>13. Clients \subseteq Callers /\ Ticks \subseteq Callers
  BY DEF Callers
<1> QED
  BY <1>1, <1>2, <1>3, <1>4, <1>5, <1>6, <1>7, <1>8, <1>9, <1>10, <1>11, <1>12, <1>13 DEF Next, Running

\* However many callers pop at once, whatever is cut short, and however late
\* the agents are, a task is never handed out more often than it was pushed.
THEOREM ClaimsAreBacked == Spec => []ClaimsBacked
<1>1. Init => Backed
  <2> SUFFICES ASSUME Init, NEW t \in Tasks
               PROVE  credit[t] >= Cardinality(InFlight(t)) + Waiting(t)
    BY DEF Backed
  <2>1. InFlight(t) = {} /\ Waiting(t) = 0 /\ credit[t] = 0
    BY DEF Init, InFlight, Waiting, NoCall, Keys
  <2> QED
    BY <2>1, FS_EmptySet
<1>2. TypeOK /\ Backed /\ [Next]_vars => Backed'
  BY TaskQueueAssumption, TakeBacked, FetchBacked, GiveBacked, ZAddBacked, OtherSteps, NoNewClaim
<1>3. TypeOK /\ Backed => ClaimsBacked
  <2> SUFFICES ASSUME TypeOK, Backed, NEW t \in Tasks
               PROVE  credit[t] >= 0
    BY DEF ClaimsBacked
  <2>1. credit[t] >= Cardinality(InFlight(t)) + Waiting(t) /\ credit[t] \in Int
    BY DEF Backed, TypeOK
  <2>2. Cardinality(InFlight(t)) \in Nat /\ Waiting(t) \in Nat
    BY InFlightFinite, TaskQueueAssumption DEF Waiting
  <2> QED
    BY <2>1, <2>2
<1> QED
  BY <1>1, <1>2, <1>3, TypeCorrect, PTL DEF Spec

-----------------------------------------------------------------------------
(* Where each task is.  Between two commands of a call the keys of a task  *)
(* disagree.  The invariant is about what they will be once the commands   *)
(* that are issued for the task have run (Rec, In, Died): a command then   *)
(* changes nothing, and an operation changes the task in one step.         *)

\* The commands on the keys of a task; those of a list s on the keys of t.
OnKeys == {"setTask", "zadd", "zrem", "putDead", "dropDead"}
On(m, t) == m.do \in OnKeys /\ m.task = t
Ahead(s, t) == {s[i] : i \in {j \in DOMAIN s : On(s[j], t)}}

Owners(t) == {c \in Callers : Ahead(todo[c], t) # {}}
Pending(t) == UNION {Ahead(todo[c], t) : c \in Callers}

\* The record, the sets and the number of dead letters after the commands P.
Writes(P) == {m \in P : m.do = "setTask"}
Has(P, name, k) == \E m \in P : m.do = name /\ m.key = k
RecAfter(P, r) == IF Writes(P) = {} THEN r ELSE (CHOOSE m \in Writes(P) : TRUE).rec
InAfter(P, K) == {k \in Keys : Has(P, "zadd", k) \/ (k \in K /\ ~Has(P, "zrem", k))}
DiedAfter(P, n) ==
  IF \E m \in P : m.do = "putDead" THEN n + 1
  ELSE IF \E m \in P : m.do = "dropDead" THEN n - 1 ELSE n

Rec(t) == RecAfter(Pending(t), task[t])
Where(t) == {k \in Keys : t \in zset[k]}
In(t) == InAfter(Pending(t), Where(t))
Died(t) == DiedAfter(Pending(t), Len(dead[t]))

\* The calls that have the task in their local variables, and the agents that
\* work on it.
Takers(t) == {c \in Callers : call[c].at = "fetch" /\ call[c].task = t}
Givers(t) == {c \in Callers : call[c].at = "give" /\ call[c].task = t /\ call[c].agent \in alive}
Wakers(t) == {c \in Callers : call[c].at = "wake" /\ t \in call[c].due}
Failers(t) == {c \in Callers : call[c].at = "fail" /\ t \in call[c].tasks}
Requeuers(t) == {c \in Callers : call[c].at = "requeue" /\ call[c].recs[t] # NoTask}
Holders(t) == {a \in Agents : t \in held[a]}

Busy == {"assigned", "processing"}
With(t, a) == Rec(t).status \in Busy /\ Rec(t).assignee = a /\ Died(t) = 0
AtMostOne(S) == \A x, y \in S : x = y

\* Each task is where its record says.
Sound(t) ==
  /\ "priority" \in In(t) => Rec(t).status = "pending" /\ Takers(t) = {}
  /\ Takers(t) # {} => Rec(t).status = "pending" /\ AtMostOne(Takers(t))
  /\ Rec(t).status = "pending" => "priority" \in In(t) \/ Takers(t) # {}
  /\ ("scheduled" \in In(t)) <=> Rec(t).status = "scheduled"
  /\ Rec(t).status \in Busy => Died(t) \in {0, 1} /\ ("processing" \in In(t) <=> Died(t) = 0)
  /\ Rec(t).status \notin Busy => Died(t) = 0

\* No commands are issued for a task that waits or that a loop has yet to reach.
Still(t) ==
  t \in zset["priority"] \/ Takers(t) # {} \/ Wakers(t) # {} \/ Failers(t) # {} => Pending(t) = {}

\* One call at a time changes a task, and none a finished one.
Steady(t) ==
  /\ AtMostOne(Owners(t))
  /\ \A m \in Pending(t) : m.do = "dropDead" => m.nth \in DOMAIN dead[t]
  /\ Writes(Pending(t)) # {} => task[t].status \notin {"completed", "cancelled"}
  /\ task[t].status = "none" => Pending(t) = {}
  /\ \A m \in Writes(Pending(t)) : m.rec.status # "none"

\* Who has a task in hand agrees with its record.
InHand(t) ==
  /\ Wakers(t) # {} => Rec(t).status = "scheduled"
  /\ \A c \in Failers(t) \cup Requeuers(t) : With(t, call[c].agent)
  /\ \A a \in Holders(t) : a \in alive /\ With(t, a) /\ Owners(t) \subseteq {a}
  /\ \A c \in Givers(t) :
       /\ With(t, call[c].agent) /\ Owners(t) \subseteq {c}
       /\ Holders(t) = {} /\ Givers(t) \subseteq {c}

\* Calls that overlap: only a task that its agent or the sweep changes is in
\* processing, and seems to be an agent's, while it changes.
Theirs(c, r) == c \in Ticks \/ (c \in alive /\ r.assignee = c)
Guarded(t) ==
  /\ Rec(t).status \notin Busy => "processing" \notin In(t)
  /\ t \in zset["processing"] => \A c \in Owners(t) :
       /\ task[t].status \in Busy => Theirs(c, task[t])
       /\ \A m \in Writes(Pending(t)) : m.rec.status \in Busy => Theirs(c, m.rec)

OfTask(t) == Sound(t) /\ Steady(t) /\ InHand(t) /\ (~Serial => Still(t) /\ Guarded(t))

\* The commands of one list: on different keys of a task, a push to priority or
\* processing last, a change of its dead letters never last.
Same(m, n) ==
  \/ m.do = "setTask" /\ n.do = "setTask"
  \/ m.do \in {"zadd", "zrem"} /\ n.do \in {"zadd", "zrem"} /\ m.key = n.key
  \/ m.do \in {"putDead", "dropDead"} /\ n.do \in {"putDead", "dropDead"}
Before(m, n) == ~Same(m, n) /\ ~(m.do = "zadd" /\ m.key \in {"priority", "processing"})
Orderly(s) ==
  /\ \A i, j \in DOMAIN s : i < j /\ s[i].do \in OnKeys /\ On(s[j], s[i].task) => Before(s[i], s[j])
  /\ \A i \in DOMAIN s : s[i].do \in {"putDead", "dropDead"} =>
       \E j \in DOMAIN s : i < j /\ s[j].do \in {"setTask", "zadd", "zrem"} /\ s[j].task = s[i].task

\* An agent that runs is registered, with a heartbeat in time, and no record of
\* it that says otherwise is about to be written.
Registered(a) == agent[a].status # "none"
OfAgent(a) ==
  /\ a \in alive => agent[a].fresh
  /\ ~Registered(a) => agent[a] = NoAgent
True(m) ==
  /\ m.do = "setAgent" =>
       /\ m.rec.status # "none"
       /\ m.agent \in alive => m.rec.fresh
       /\ Serial \/ Registered(m.agent)
  /\ m.do = "del" => Serial /\ m.agent \notin alive

\* The local variables of a call.
Known(c) ==
  LET f == call[c] IN
  /\ f.at \in {"wake", "sweep", "fail"} => c \in Ticks
  /\ f.at \in {"peek", "take", "fetch"} => Serial \/ \A a \in f.among : Registered(a)
  /\ f.at = "give" => Serial \/ Registered(f.agent)
  /\ f.at \in {"sweep", "fail"} => \A a \in Agents : f.late[a] # NoAgent =>
       a \notin alive /\ f.late[a].status # "none" /\ (Serial \/ Registered(a))
  /\ f.at = "fail" => f.late[f.agent] # NoAgent
  /\ f.at = "requeue" => Serial /\ f.agent \notin alive

OfCaller(c) == Orderly(todo[c]) /\ Known(c) /\ \A i \in DOMAIN todo[c] : True(todo[c][i])
Alone == Serial => \A c, d \in Callers : Idle(c) \/ Idle(d) \/ c = d

InOrder ==
  /\ Alone
  /\ \A t \in Tasks : OfTask(t)
  /\ \A a \in Agents : OfAgent(a)
  /\ \A c \in Callers : OfCaller(c)

\* What the operations below may be used for.
Careful(e) ==
  /\ e.timely /\ {"cancelHeld", "rejoin"} \cap e.allowed = {}
  /\ e.serial \/ ({"cancel", "unregister", "leave"} \cap e.allowed = {} /\ AtMostOne(Ticks))

-----------------------------------------------------------------------------
(* Lists of commands.                                                      *)

LEMMA AheadNone == \A t : Ahead(<<>>, t) = {}
  BY DEF Ahead

\* A command and those behind it.
LEMMA AheadHead ==
  ASSUME NEW s \in Seq(Command), s # <<>>, NEW t
  PROVE  /\ Ahead(s, t) = Ahead(Tail(s), t) \cup (IF On(Head(s), t) THEN {Head(s)} ELSE {})
         /\ Orderly(s) /\ On(Head(s), t) => \A n \in Ahead(Tail(s), t) : Before(Head(s), n)
<1>1. /\ DOMAIN s = 1..Len(s) /\ Len(s) \in Nat \ {0}
      /\ DOMAIN Tail(s) = 1..(Len(s) - 1)
      /\ \A i \in 1..(Len(s) - 1) : Tail(s)[i] = s[i + 1]
      /\ Head(s) = s[1]
  OBVIOUS
<1>2. ASSUME NEW n \in Ahead(Tail(s), t)
      PROVE  \E i \in DOMAIN s : i > 1 /\ n = s[i] /\ On(s[i], t)
  <2>1. PICK i \in 1..(Len(s) - 1) : n = s[i + 1] /\ On(s[i + 1], t)
    BY <1>1 DEF Ahead
  <2>2. i + 1 \in DOMAIN s /\ i + 1 > 1
    BY <1>1
  <2> QED
    BY <2>1, <2>2
<1>3. ASSUME NEW i \in DOMAIN s, i > 1, On(s[i], t)
      PROVE  s[i] \in Ahead(Tail(s), t)
  <2>1. i - 1 \in DOMAIN Tail(s) /\ Tail(s)[i - 1] = s[i]
    BY <1>1, <1>3
  <2> QED
    BY <1>3, <2>1 DEF Ahead
<1>4. ASSUME NEW n \in Ahead(s, t), n \notin Ahead(Tail(s), t)
      PROVE  On(Head(s), t) /\ n = Head(s)
  <2>1. PICK i \in DOMAIN s : n = s[i] /\ On(s[i], t)
    BY DEF Ahead
  <2> QED
    BY <1>1, <1>3, <1>4, <2>1
<1>5. On(Head(s), t) => Head(s) \in Ahead(s, t)
  BY <1>1 DEF Ahead
<1>6. Ahead(Tail(s), t) \subseteq Ahead(s, t)
  BY <1>2 DEF Ahead
<1>7. ASSUME Orderly(s), On(Head(s), t), NEW n \in Ahead(Tail(s), t)
      PROVE  Before(Head(s), n)
  <2>1. PICK i \in DOMAIN s : i > 1 /\ n = s[i] /\ On(s[i], t)
    BY <1>2
  <2>2. 1 \in DOMAIN s /\ s[1].do \in OnKeys /\ s[1].task = t /\ 1 < i
    BY <1>1, <1>7, <2>1 DEF On
  <2> QED
    BY <1>1, <1>7, <2>1, <2>2 DEF Orderly
<1> QED
  BY <1>4, <1>5, <1>6, <1>7

LEMMA OrderlyTail ==
  ASSUME NEW s \in Seq(Command), s # <<>>, Orderly(s)
  PROVE  Orderly(Tail(s))
<1>1. /\ DOMAIN s = 1..Len(s) /\ Len(s) \in Nat \ {0}
      /\ DOMAIN Tail(s) = 1..(Len(s) - 1)
      /\ \A i \in 1..(Len(s) - 1) : Tail(s)[i] = s[i + 1] /\ i + 1 \in DOMAIN s
  OBVIOUS
<1>2. ASSUME NEW i \in DOMAIN Tail(s), NEW j \in DOMAIN Tail(s), i < j,
             Tail(s)[i].do \in OnKeys, On(Tail(s)[j], Tail(s)[i].task)
      PROVE  Before(Tail(s)[i], Tail(s)[j])
  <2>1. i + 1 \in DOMAIN s /\ j + 1 \in DOMAIN s /\ i + 1 < j + 1
    BY <1>1, <1>2
  <2> QED
    BY <1>1, <1>2, <2>1 DEF Orderly
<1>3. ASSUME NEW i \in DOMAIN Tail(s), Tail(s)[i].do \in {"putDead", "dropDead"}
      PROVE  \E j \in DOMAIN Tail(s) :
               i < j /\ Tail(s)[j].do \in {"setTask", "zadd", "zrem"} /\ Tail(s)[j].task = Tail(s)[i].task
  <2>1. i + 1 \in DOMAIN s /\ s[i + 1].do \in {"putDead", "dropDead"}
    BY <1>1, <1>3
  <2>2. PICK j \in DOMAIN s : i + 1 < j /\ s[j].do \in {"setTask", "zadd", "zrem"} /\ s[j].task = s[i + 1].task
    BY <2>1, <1>3 DEF Orderly
  <2>3. j - 1 \in DOMAIN Tail(s) /\ i < j - 1 /\ Tail(s)[j - 1] = s[j]
    BY <1>1, <1>3, <2>2
  <2> QED
    BY <1>1, <1>3, <2>2, <2>3
<1> QED
  BY <1>2, <1>3 DEF Orderly

\* Commands on other keys, behind a list.
Elsewhere(s) == \A i \in DOMAIN s : s[i].do \notin OnKeys

LEMMA AheadElsewhere ==
  ASSUME NEW s \in Seq(Command), NEW r \in Seq(Command), Elsewhere(r)
  PROVE  /\ \A t : Ahead(s \o r, t) = Ahead(s, t)
         /\ Orderly(s) => Orderly(s \o r)
<1>1. /\ DOMAIN s = 1..Len(s) /\ Len(s) \in Nat /\ DOMAIN r = 1..Len(r) /\ Len(r) \in Nat
      /\ DOMAIN (s \o r) = 1..(Len(s) + Len(r))
      /\ \A i \in 1..Len(s) : (s \o r)[i] = s[i]
      /\ \A i \in (Len(s) + 1)..(Len(s) + Len(r)) : (s \o r)[i] = r[i - Len(s)]
  OBVIOUS
<1>2. ASSUME NEW i \in DOMAIN (s \o r), (s \o r)[i].do \in OnKeys
      PROVE  i \in DOMAIN s /\ (s \o r)[i] = s[i]
  <2>1. CASE i \in 1..Len(s)
    BY <1>1, <2>1
  <2>2. CASE i \in (Len(s) + 1)..(Len(s) + Len(r))
    <3>1. i - Len(s) \in DOMAIN r
      BY <1>1, <2>2
    <3> QED
      BY <1>1, <1>2, <2>2, <3>1 DEF Elsewhere
  <2> QED
    BY <1>1, <2>1, <2>2
<1>3. \A i \in DOMAIN s : i \in DOMAIN (s \o r) /\ (s \o r)[i] = s[i]
  BY <1>1
<1>4. ASSUME NEW t
      PROVE  Ahead(s \o r, t) = Ahead(s, t)
  BY <1>2, <1>3 DEF Ahead, On
<1>5. ASSUME Orderly(s)
      PROVE  Orderly(s \o r)
  <2>1. {"putDead", "dropDead"} \subseteq OnKeys
    BY DEF OnKeys
  <2>2. ASSUME NEW i \in DOMAIN (s \o r), NEW j \in DOMAIN (s \o r), i < j,
               (s \o r)[i].do \in OnKeys, On((s \o r)[j], (s \o r)[i].task)
        PROVE  Before((s \o r)[i], (s \o r)[j])
    BY <1>2, <1>5, <2>2 DEF Orderly, On
  <2>3. ASSUME NEW i \in DOMAIN (s \o r), (s \o r)[i].do \in {"putDead", "dropDead"}
        PROVE  \E j \in DOMAIN (s \o r) :
                 i < j /\ (s \o r)[j].do \in {"setTask", "zadd", "zrem"} /\ (s \o r)[j].task = (s \o r)[i].task
    <3>1. i \in DOMAIN s /\ (s \o r)[i] = s[i]
      BY <1>2, <2>1, <2>3
    <3>2. PICK j \in DOMAIN s : i < j /\ s[j].do \in {"setTask", "zadd", "zrem"} /\ s[j].task = s[i].task
      BY <1>5, <2>3, <3>1 DEF Orderly
    <3> QED
      BY <1>3, <3>1, <3>2
  <2> QED
    BY <2>2, <2>3 DEF Orderly
<1> QED
  BY <1>4, <1>5

\* One of them ahead of a list.
LEMMA OrderlyBehind ==
  ASSUME NEW m \in Command, m.do \notin OnKeys, NEW s \in Seq(Command), Orderly(s)
  PROVE  Orderly(<<m>> \o s)
<1> DEFINE r == <<m>> \o s
<1>1. /\ DOMAIN s = 1..Len(s) /\ Len(s) \in Nat /\ DOMAIN r = 1..(Len(s) + 1)
      /\ r[1] = m /\ \A i \in 1..Len(s) : r[i + 1] = s[i] /\ i + 1 \in DOMAIN r
      /\ \A i \in 2..(Len(s) + 1) : r[i] = s[i - 1] /\ i - 1 \in 1..Len(s)
  OBVIOUS
<1> HIDE DEF r
<1>2. ASSUME NEW i \in DOMAIN r, r[i].do \in OnKeys
      PROVE  i \in 2..(Len(s) + 1)
  BY <1>1, <1>2
<1>3. ASSUME NEW i \in DOMAIN r, NEW j \in DOMAIN r, i < j, r[i].do \in OnKeys, On(r[j], r[i].task)
      PROVE  Before(r[i], r[j])
  <2>1. i \in 2..(Len(s) + 1) /\ j \in 2..(Len(s) + 1)
    BY <1>2, <1>3 DEF On
  <2>2. i - 1 \in DOMAIN s /\ j - 1 \in DOMAIN s /\ i - 1 < j - 1 /\ r[i] = s[i - 1] /\ r[j] = s[j - 1]
    BY <1>1, <1>3, <2>1
  <2> QED
    BY <1>3, <2>2 DEF Orderly
<1>4. ASSUME NEW i \in DOMAIN r, r[i].do \in {"putDead", "dropDead"}
      PROVE  \E j \in DOMAIN r :
               i < j /\ r[j].do \in {"setTask", "zadd", "zrem"} /\ r[j].task = r[i].task
  <2>1. i \in 2..(Len(s) + 1)
    BY <1>2, <1>4 DEF OnKeys
  <2>2. i - 1 \in DOMAIN s /\ r[i] = s[i - 1]
    BY <1>1, <2>1
  <2>3. PICK j \in DOMAIN s : i - 1 < j /\ s[j].do \in {"setTask", "zadd", "zrem"} /\ s[j].task = s[i - 1].task
    BY <1>4, <2>2 DEF Orderly
  <2>4. j + 1 \in DOMAIN r /\ r[j + 1] = s[j] /\ i < j + 1
    BY <1>1, <2>1, <2>3
  <2> QED
    BY <2>2, <2>3, <2>4
<1> QED
  BY <1>3, <1>4 DEF Orderly, r

\* A list of commands on other keys only.
LEMMA AllElsewhere ==
  ASSUME NEW s \in Seq(Command), Elsewhere(s)
  PROVE  Orderly(s) /\ \A t : Ahead(s, t) = {}
  BY DEF Elsewhere, Orderly, Ahead, On, OnKeys

-----------------------------------------------------------------------------
(* One command: what the rest does after it is what all did before it.     *)

\* P: the commands m and Q.
Effect(m, Q, P) ==
  /\ m.do = "setTask" => Writes(Q) = {} /\ \A r : RecAfter(Q, m.rec) = RecAfter(P, r)
  /\ m.do # "setTask" => Writes(Q) = Writes(P) /\ \A r : RecAfter(Q, r) = RecAfter(P, r)
  /\ m.do = "zadd" => \A K : InAfter(Q, K \cup {m.key}) = InAfter(P, K)
  /\ m.do = "zrem" => \A K : InAfter(Q, K \ {m.key}) = InAfter(P, K)
  /\ m.do \notin {"zadd", "zrem"} => \A K : InAfter(Q, K) = InAfter(P, K)
  /\ m.do = "putDead" => \A n \in Int : DiedAfter(Q, n + 1) = DiedAfter(P, n)
  /\ m.do = "dropDead" => \A n \in Int : DiedAfter(Q, n - 1) = DiedAfter(P, n)
  /\ m.do \notin {"putDead", "dropDead"} => \A n \in Int : DiedAfter(Q, n) = DiedAfter(P, n)

LEMMA OneCommand ==
  ASSUME NEW m, NEW Q, NEW P, P = Q \cup {m}, \A n \in Q : ~Same(m, n)
  PROVE  Effect(m, Q, P)
<1>1. ASSUME m.do = "setTask"
      PROVE  Writes(Q) = {} /\ \A r : RecAfter(Q, m.rec) = RecAfter(P, r)
  <2>1. Writes(Q) = {} /\ Writes(P) = {m}
    BY <1>1 DEF Same, Writes
  <2> QED
    BY <2>1 DEF RecAfter
<1>2. ASSUME m.do # "setTask"
      PROVE  Writes(Q) = Writes(P) /\ \A r : RecAfter(Q, r) = RecAfter(P, r)
  <2>1. Writes(Q) = Writes(P)
    BY <1>2 DEF Writes
  <2> QED
    BY <2>1 DEF RecAfter
<1>3. /\ m.do = "zadd" => \A K : InAfter(Q, K \cup {m.key}) = InAfter(P, K)
      /\ m.do = "zrem" => \A K : InAfter(Q, K \ {m.key}) = InAfter(P, K)
      /\ m.do \notin {"zadd", "zrem"} => \A K : InAfter(Q, K) = InAfter(P, K)
  BY DEF InAfter, Has, Same
<1>4. /\ m.do = "putDead" => \A n \in Int : DiedAfter(Q, n + 1) = DiedAfter(P, n)
      /\ m.do = "dropDead" => \A n \in Int : DiedAfter(Q, n - 1) = DiedAfter(P, n)
      /\ m.do \notin {"putDead", "dropDead"} => \A n \in Int : DiedAfter(Q, n) = DiedAfter(P, n)
  BY DEF DiedAfter, Same
<1> QED
  BY <1>1, <1>2, <1>3, <1>4 DEF Effect

-----------------------------------------------------------------------------
(* What a step does to the commands that are issued for a task.            *)

LEMMA PendingOf ==
  ASSUME NEW t
  PROVE  /\ Pending(t) = {} <=> Owners(t) = {}
         /\ \A c \in Callers : AtMostOne(Owners(t)) /\ c \in Owners(t) => Pending(t) = Ahead(todo[c], t)
         /\ \A m \in Pending(t) : On(m, t)
         /\ TypeOK => \A m \in Pending(t) : m \in Command
<1>1. Pending(t) = {} <=> Owners(t) = {}
  BY DEF Pending, Owners
<1>2. ASSUME NEW c \in Callers, AtMostOne(Owners(t)), c \in Owners(t)
      PROVE  Pending(t) = Ahead(todo[c], t)
  <2>1. \A d \in Callers : d # c => Ahead(todo[d], t) = {}
    BY <1>2 DEF Owners, AtMostOne
  <2> QED
    BY <2>1 DEF Pending
<1>3. \A m \in Pending(t) : On(m, t)
  BY DEF Pending, Ahead
<1>4. ASSUME TypeOK, NEW m \in Pending(t)
      PROVE  m \in Command
  <2>1. PICK c \in Callers : m \in Ahead(todo[c], t)
    BY DEF Pending
  <2>2. todo[c] \in Seq(Command)
    BY <1>4 DEF TypeOK
  <2> QED
    BY <2>1, <2>2 DEF Ahead
<1> QED
  BY <1>1, <1>2, <1>3, <1>4

\* The rest of a caller's list, where a record of an agent may come first.
Rest(c) == \A t : Ahead(todo'[c], t) = Ahead(Tail(todo[c]), t)

\* A caller issues its next command.
LEMMA Popped ==
  ASSUME TypeOK, NEW c \in Callers, todo[c] # <<>>, Rest(c),
         \A d \in Callers : d # c => todo'[d] = todo[d],
         NEW t, AtMostOne(Owners(t)), Orderly(todo[c])
  PROVE  /\ Owners(t)' \subseteq Owners(t) /\ Pending(t)' \subseteq Pending(t)
         /\ ~On(Head(todo[c]), t) => Pending(t)' = Pending(t)
         /\ On(Head(todo[c]), t) =>
              /\ Pending(t) = Pending(t)' \cup {Head(todo[c])}
              /\ \A n \in Pending(t)' : Before(Head(todo[c]), n)
              /\ Owners(t) = {c}
<1>0. todo[c] \in Seq(Command)
  BY DEF TypeOK
<1>1. Ahead(todo[c], t) = Ahead(todo'[c], t) \cup (IF On(Head(todo[c]), t) THEN {Head(todo[c])} ELSE {})
  BY <1>0, AheadHead DEF Rest
<1>2. Owners(t)' \subseteq Owners(t) /\ Pending(t)' \subseteq Pending(t)
  BY <1>1 DEF Owners, Pending
<1>3. ASSUME ~On(Head(todo[c]), t)
      PROVE  Pending(t)' = Pending(t)
  <2>1. \A d \in Callers : Ahead(todo'[d], t) = Ahead(todo[d], t)
    BY <1>1, <1>3
  <2> QED
    BY <2>1 DEF Pending
<1>4. ASSUME On(Head(todo[c]), t)
      PROVE  /\ Pending(t) = Pending(t)' \cup {Head(todo[c])}
             /\ \A n \in Pending(t)' : Before(Head(todo[c]), n)
             /\ Owners(t) = {c}
  <2>1. c \in Owners(t)
    BY <1>1, <1>4 DEF Owners
  <2>2. Owners(t) = {c}
    BY <2>1 DEF AtMostOne
  <2>3. \A d \in Callers : d # c => Ahead(todo'[d], t) = {}
    BY <2>2 DEF Owners
  <2>4. Pending(t)' = Ahead(todo'[c], t)
    BY <2>3 DEF Pending
  <2>6. Pending(t) = Ahead(todo[c], t)
    BY <2>1, PendingOf
  <2>5. \A n \in Ahead(Tail(todo[c]), t) : Before(Head(todo[c]), n)
    BY <1>0, <1>4, AheadHead
  <2> QED
    BY <1>1, <1>4, <2>2, <2>4, <2>5, <2>6 DEF Rest
<1> QED
  BY <1>2, <1>3, <1>4

\* An operation of c issues the list s, with commands on t and no other task.
HandedOver(c, s, t) ==
  /\ \A u : u # t => Pending(u)' = Pending(u) /\ Owners(u)' = Owners(u)
  /\ Pending(t) = {} => Pending(t)' = Ahead(s, t) /\ Owners(t)' \subseteq {c}

LEMMA Handed ==
  ASSUME TypeOK, NEW c \in Callers, todo[c] = <<>>,
         NEW s, todo' = [todo EXCEPT ![c] = s],
         NEW t, \A u : u # t => Ahead(s, u) = {}
  PROVE  HandedOver(c, s, t)
<1>1. /\ \A u : Ahead(todo[c], u) = {}
      /\ todo'[c] = s /\ \A d \in Callers : d # c => todo'[d] = todo[d]
  BY AheadNone DEF TypeOK
<1>2. ASSUME NEW u, u # t
      PROVE  Pending(u)' = Pending(u) /\ Owners(u)' = Owners(u)
  <2>1. \A d \in Callers : Ahead(todo'[d], u) = Ahead(todo[d], u)
    BY <1>1, <1>2
  <2> QED
    BY <2>1 DEF Pending, Owners
<1>3. ASSUME Pending(t) = {}
      PROVE  Pending(t)' = Ahead(s, t) /\ Owners(t)' \subseteq {c}
  <2>1. \A d \in Callers : d # c => Ahead(todo'[d], t) = {}
    BY <1>1, <1>3 DEF Pending
  <2> QED
    BY <1>1, <2>1 DEF Pending, Owners
<1> QED
  BY <1>2, <1>3 DEF HandedOver

-----------------------------------------------------------------------------
(* A command.                                                              *)

\* Of what a command finds, only the rest of its list goes on to the next step.
LEMMA CommandPops ==
  ASSUME TypeOK, NEW c \in Callers, Command1(c)
  PROVE  /\ todo[c] # <<>> /\ todo[c] \in Seq(Command) /\ Head(todo[c]) \in Command
         /\ Rest(c) /\ \A d \in Callers : d # c => todo'[d] = todo[d]
         /\ Orderly(todo[c]) => Orderly(todo'[c])
         /\ UNCHANGED <<call, alive, held, environment, faults>>
<1>1. /\ todo[c] # <<>> /\ todo[c] \in Seq(Command) /\ Head(todo[c]) \in Command
      /\ Tail(todo[c]) \in Seq(Command)
  BY HeadTail DEF TypeOK, Command1, Doing, WriteTask, ZAddTask, ZRemTask, WriteList, PutDeadLetter,
     DropDeadLetter, ReadLoad, WriteAgent, WriteMembers
<1>2. UNCHANGED <<call, alive, held, environment, faults>>
  BY DEF Command1, WriteTask, ZAddTask, ZRemTask, WriteList, PutDeadLetter,
     DropDeadLetter, ReadLoad, WriteAgent, WriteMembers, world, bounds
<1>3. CASE NextCommand(c)
  <2>1. todo'[c] = Tail(todo[c]) /\ \A d \in Callers : d # c => todo'[d] = todo[d]
    BY <1>3 DEF NextCommand, TypeOK
  <2> QED
    BY <1>1, <1>2, <2>1, OrderlyTail DEF Rest
<1>4. CASE ~NextCommand(c)
  <2>1. PICK r : /\ r.do = "setAgent" /\ r \in Command
                 /\ todo' = [todo EXCEPT ![c] = <<r>> \o Tail(todo[c])]
    <3>1. ReadLoad(c) /\ agent[Head(todo[c]).agent] # NoAgent
      BY <1>4 DEF Command1, WriteTask, ZAddTask, ZRemTask, WriteList, PutDeadLetter,
         DropDeadLetter, ReadLoad, WriteAgent, WriteMembers
    <3> DEFINE a == Head(todo[c]).agent
               n == agent[a].load + Head(todo[c]).delta
               new == SetAgent(a, Loaded(a, agent[a], IF n < 0 THEN 0 ELSE n))
    <3>2. a \in Agents /\ Head(todo[c]).delta \in {-1, 1}
      BY <1>1, <3>1, Fields DEF ReadLoad, Doing
    <3>3. agent[a] \in AgentRec /\ (IF n < 0 THEN 0 ELSE n) \in Nat
      BY <3>2 DEF TypeOK, AgentRec
    <3> HIDE DEF n
    <3>4. new \in Command /\ new.do = "setAgent"
      <4>1. Loaded(a, agent[a], IF n < 0 THEN 0 ELSE n) \in AgentRec
        BY <3>3 DEF Loaded, AgentRec
      <4> QED
        BY <3>2, <4>1 DEF SetAgent, Command
    <3>5. todo' = [todo EXCEPT ![c] = <<new>> \o Tail(todo[c])]
      BY <3>1 DEF ReadLoad, n, TypeOK
    <3> QED
      BY <3>4, <3>5
  <2>2. todo'[c] = <<r>> \o Tail(todo[c]) /\ \A d \in Callers : d # c => todo'[d] = todo[d]
    BY <2>1 DEF TypeOK
  <2>3. /\ <<r>> \in Seq(Command) /\ <<r>> \o Tail(todo[c]) \in Seq(Command)
        /\ Head(<<r>> \o Tail(todo[c])) = r /\ Tail(<<r>> \o Tail(todo[c])) = Tail(todo[c])
        /\ <<r>> \o Tail(todo[c]) # <<>>
    BY <1>1, <2>1
  <2>4. \A t : ~On(r, t)
    BY <2>1 DEF On, OnKeys
  <2>5. Rest(c)
    <3> DEFINE w == <<r>> \o Tail(todo[c])
    <3>1. w \in Seq(Command) /\ w # <<>> /\ Head(w) = r /\ Tail(w) = Tail(todo[c]) /\ todo'[c] = w
      BY <2>2, <2>3
    <3> HIDE DEF w
    <3>2. ASSUME NEW t
          PROVE  Ahead(todo'[c], t) = Ahead(Tail(todo[c]), t)
      <4>1. Ahead(w, t) = Ahead(Tail(w), t) \cup (IF On(Head(w), t) THEN {Head(w)} ELSE {})
        BY <3>1, AheadHead
      <4>2. ~On(Head(w), t)
        BY <2>4, <3>1
      <4> QED
        BY <3>1, <4>1, <4>2
    <3> QED
      BY <3>2 DEF Rest
  <2>6. ASSUME Orderly(todo[c])
        PROVE  Orderly(todo'[c])
    <3>1. Orderly(Tail(todo[c]))
      BY <1>1, <2>6, OrderlyTail
    <3>2. r.do \notin OnKeys
      BY <2>1 DEF OnKeys
    <3> QED
      BY <1>1, <2>1, <2>2, <3>1, <3>2, OrderlyBehind
  <2> QED
    BY <1>1, <1>2, <2>2, <2>5, <2>6
<1> QED
  BY <1>3, <1>4

LEMMA CommandEnds ==
  ASSUME TypeOK, NEW c \in Callers, Command1(c), Orderly(todo[c]), NEW t \in Tasks, Steady(t)
  PROVE  /\ Rec(t)' = Rec(t) /\ In(t)' = In(t) /\ Died(t)' = Died(t)
         /\ Owners(t)' \subseteq Owners(t) /\ Pending(t)' \subseteq Pending(t)
         /\ \/ task'[t] = task[t]
            \/ /\ Writes(Pending(t)') = {} /\ c \in Owners(t)
               /\ \E m \in Writes(Pending(t)) : task'[t] = m.rec
         /\ \A k \in {"priority", "processing"} :
              t \in zset'[k] => t \in zset[k] \/ Pending(t)' = {}
         /\ Steady(t)'
<1> DEFINE m == Head(todo[c])
           P == Pending(t)
           Q == Pending(t)'
           Goal == /\ RecAfter(Q, task'[t]) = RecAfter(P, task[t])
                   /\ InAfter(Q, Where(t)') = InAfter(P, Where(t))
                   /\ DiedAfter(Q, Len(dead'[t])) = DiedAfter(P, Len(dead[t]))
                   /\ task'[t] = task[t] \/ (Writes(Q) = {} /\ c \in Owners(t) /\ \E n \in Writes(P) : task'[t] = n.rec)
                   /\ \A k \in {"priority", "processing"} : t \in zset'[k] => t \in zset[k] \/ Q = {}
                   /\ \A n \in Q : n.do = "dropDead" => n.nth \in DOMAIN dead'[t]
<1>0. /\ m \in Command /\ AtMostOne(Owners(t)) /\ todo[c] # <<>>
      /\ Owners(t)' \subseteq Owners(t) /\ Q \subseteq P
      /\ ~On(m, t) => Q = P
      /\ On(m, t) => /\ P = Q \cup {m} /\ \A n \in Q : Before(m, n)
                     /\ Owners(t) = {c}
  BY CommandPops, Popped DEF Steady
<1>1. /\ Len(dead[t]) \in Int /\ dead[t] \in Seq(Agents \cup {None})
      /\ Len(dead[t]) \in Nat /\ DOMAIN dead[t] = 1..Len(dead[t])
      /\ \A n \in P : n.do = "dropDead" => n.nth \in DOMAIN dead[t]
  BY DEF TypeOK, Steady
<1> HIDE DEF m, P, Q
<1>3. ASSUME ~On(m, t)
      PROVE  Goal
  <2>1. task'[t] = task[t] /\ dead'[t] = dead[t] /\ \A k \in Keys : t \in zset'[k] <=> t \in zset[k]
    <3>1. CASE WriteTask(c)
      BY <1>0, <1>3, <3>1, Fields DEF m, On, OnKeys, TypeOK, Doing, WriteTask
    <3>2. CASE ZAddTask(c)
      BY <1>0, <1>3, <3>2, Fields DEF m, On, OnKeys, TypeOK, Doing, ZAddTask
    <3>4. CASE ZRemTask(c)
      BY <1>0, <1>3, <3>4, Fields DEF m, On, OnKeys, TypeOK, Doing, ZRemTask
    <3>3. CASE PutDeadLetter(c) \/ DropDeadLetter(c)
      BY <1>0, <1>3, <3>3, Fields DEF m, On, OnKeys, TypeOK, Doing, PutDeadLetter, DropDeadLetter
    <3> QED
      BY <3>1, <3>2, <3>3, <3>4 DEF Command1, WriteList, ReadLoad, WriteAgent, WriteMembers, store
  <2>2. Where(t)' = Where(t)
    BY <2>1 DEF Where
  <2> QED
    BY <1>0, <1>1, <1>3, <2>1, <2>2 DEF Keys
<1>4. ASSUME On(m, t)
      PROVE  Goal
  <2>0. m.task = t /\ m.do \in OnKeys /\ P = Q \cup {m} /\ c \in Owners(t) /\ \A n \in Q : ~Same(m, n)
    BY <1>0, <1>4 DEF On, Before
  <2>1. /\ m.do = "setTask" => Writes(Q) = {} /\ \A r : RecAfter(Q, m.rec) = RecAfter(P, r)
        /\ m.do # "setTask" => Writes(Q) = Writes(P) /\ \A r : RecAfter(Q, r) = RecAfter(P, r)
        /\ m.do = "zadd" => \A K : InAfter(Q, K \cup {m.key}) = InAfter(P, K)
        /\ m.do = "zrem" => \A K : InAfter(Q, K \ {m.key}) = InAfter(P, K)
        /\ m.do \notin {"zadd", "zrem"} => \A K : InAfter(Q, K) = InAfter(P, K)
        /\ m.do = "putDead" => \A n \in Int : DiedAfter(Q, n + 1) = DiedAfter(P, n)
        /\ m.do = "dropDead" => \A n \in Int : DiedAfter(Q, n - 1) = DiedAfter(P, n)
        /\ m.do \notin {"putDead", "dropDead"} => \A n \in Int : DiedAfter(Q, n) = DiedAfter(P, n)
    <3>1. Effect(m, Q, P)
      BY <2>0, OneCommand
    <3> QED
      BY <3>1 DEF Effect
  <2>2. CASE WriteTask(c)
    <3>1. m.do = "setTask" /\ task'[t] = m.rec /\ dead' = dead /\ zset' = zset /\ Where(t)' = Where(t)
      BY <2>0, <2>2 DEF WriteTask, Doing, m, TypeOK, Where
    <3>2. m \in Writes(P)
      BY <2>0, <3>1 DEF Writes
    <3> QED
      BY <1>1, <2>0, <2>1, <3>1, <3>2
  <2>3. CASE ZAddTask(c)
    <3>1. m.do = "zadd" /\ task' = task /\ dead' = dead /\ m.key \in Keys
          /\ zset'[m.key] = zset[m.key] \cup {t} /\ \A k \in Keys : k # m.key => zset'[k] = zset[k]
      BY <1>0, <2>0, <2>3, Fields DEF ZAddTask, Doing, m, TypeOK
    <3>2. Where(t)' = Where(t) \cup {m.key}
      BY <3>1 DEF Where
    <3>3. \A k \in {"priority", "processing"} : t \in zset'[k] => t \in zset[k] \/ Q = {}
      BY <1>0, <1>4, <3>1 DEF Before, Keys
    <3> QED
      BY <1>1, <2>0, <2>1, <3>1, <3>2, <3>3
  <2>4. CASE ZRemTask(c)
    <3>1. m.do = "zrem" /\ task' = task /\ dead' = dead /\ m.key \in Keys
          /\ zset'[m.key] = zset[m.key] \ {t} /\ \A k \in Keys : k # m.key => zset'[k] = zset[k]
      BY <1>0, <2>0, <2>4, Fields DEF ZRemTask, Doing, m, TypeOK
    <3>2. Where(t)' = Where(t) \ {m.key}
      BY <3>1 DEF Where
    <3>3. \A k \in {"priority", "processing"} : t \in zset'[k] => t \in zset[k]
      BY <3>1 DEF Keys
    <3> QED
      BY <1>1, <2>0, <2>1, <3>1, <3>2, <3>3
  <2>5. CASE PutDeadLetter(c)
    <3>1. m.do = "putDead" /\ task' = task /\ zset' = zset /\ m.assignee \in Agents \cup {None}
          /\ dead'[t] = Append(dead[t], m.assignee) /\ Where(t)' = Where(t)
      BY <1>0, <2>0, <2>5, Fields DEF PutDeadLetter, Doing, m, TypeOK, Where
    <3>2. Len(dead'[t]) = Len(dead[t]) + 1
      BY <1>1, <3>1
    <3>3. \A n \in Q : n.do # "dropDead"
      BY <2>0, <3>1 DEF Same
    <3> QED
      BY <1>1, <2>0, <2>1, <3>1, <3>2, <3>3
  <2>6. CASE DropDeadLetter(c)
    <3>1. m.do = "dropDead" /\ m.nth \in DOMAIN dead[t] /\ m.nth \in 1..Len(dead[t])
      BY <1>1, <2>0, <2>6 DEF DropDeadLetter, Doing, m
    <3>2. /\ task' = task /\ zset' = zset /\ Where(t)' = Where(t)
          /\ dead'[t] = SubSeq(dead[t], 1, m.nth - 1) \o SubSeq(dead[t], m.nth + 1, Len(dead[t]))
      BY <2>0, <2>6, <3>1 DEF DropDeadLetter, m, TypeOK, Where
    <3>3. Len(dead'[t]) = Len(dead[t]) - 1
      <4> DEFINE old == dead[t]
                 n == m.nth
      <4>1. old \in Seq(Agents \cup {None}) /\ n \in 1..Len(old) /\ Len(old) \in Nat
        BY <1>1, <3>1
      <4> HIDE DEF old, n
      <4>2. /\ SubSeq(old, 1, n - 1) \in Seq(Agents \cup {None}) /\ Len(SubSeq(old, 1, n - 1)) = n - 1
            /\ SubSeq(old, n + 1, Len(old)) \in Seq(Agents \cup {None})
            /\ Len(SubSeq(old, n + 1, Len(old))) = Len(old) - n
        BY <4>1
      <4>3. Len(SubSeq(old, 1, n - 1) \o SubSeq(old, n + 1, Len(old))) = Len(old) - 1
        <5> DEFINE A == SubSeq(old, 1, n - 1)
                   B == SubSeq(old, n + 1, Len(old))
        <5>1. /\ A \in Seq(Agents \cup {None}) /\ B \in Seq(Agents \cup {None})
              /\ Len(A) = n - 1 /\ Len(B) = Len(old) - n
          BY <4>2
        <5> HIDE DEF A, B
        <5>2. Len(A \o B) = Len(A) + Len(B)
          BY <5>1
        <5>3. (n - 1) + (Len(old) - n) = Len(old) - 1
          BY <4>1
        <5> QED
          BY <5>1, <5>2, <5>3 DEF A, B
      <4> QED
        BY <3>2, <4>3 DEF old, n
    <3>4. \A n \in Q : n.do # "dropDead"
      BY <2>0, <3>1 DEF Same
    <3> QED
      BY <1>1, <2>0, <2>1, <3>1, <3>2, <3>3, <3>4
  <2>7. WriteTask(c) \/ ZAddTask(c) \/ ZRemTask(c) \/ PutDeadLetter(c) \/ DropDeadLetter(c)
    BY <2>0 DEF OnKeys, m, Command1, Doing, WriteList, ReadLoad, WriteAgent, WriteMembers
  <2> QED
    BY <2>2, <2>3, <2>4, <2>5, <2>6, <2>7
<1>5. Goal
  BY <1>3, <1>4
<1>6. /\ Rec(t) = RecAfter(P, task[t]) /\ Died(t) = DiedAfter(P, Len(dead[t])) /\ In(t) = InAfter(P, Where(t))
      /\ Rec(t)' = RecAfter(Q, task'[t]) /\ Died(t)' = DiedAfter(Q, Len(dead'[t])) /\ In(t)' = InAfter(Q, Where(t)')
  BY DEF Rec, Died, In, P, Q
<1>7. Steady(t)'
  <2>1. Writes(Q) \subseteq Writes(P)
    BY <1>0 DEF Writes
  <2>2. task'[t].status = "none" => Q = {}
    BY <1>0, <1>5 DEF Steady, P, Q
  <2>3. AtMostOne(Owners(t)')
    BY <1>0 DEF AtMostOne
  <2> QED
    BY <1>5, <2>1, <2>2, <2>3 DEF Steady, P, Q
<1> QED
  BY <1>0, <1>5, <1>6, <1>7 DEF P, Q

LEMMA CommandTask ==
  ASSUME TypeOK, NEW c \in Callers, Command1(c), Orderly(todo[c]), NEW t \in Tasks, OfTask(t)
  PROVE  OfTask(t)'
<1>1. Steady(t)
  BY DEF OfTask
<1>2. /\ Rec(t)' = Rec(t) /\ In(t)' = In(t) /\ Died(t)' = Died(t)
      /\ Owners(t)' \subseteq Owners(t) /\ Pending(t)' \subseteq Pending(t)
      /\ \/ task'[t] = task[t]
         \/ /\ Writes(Pending(t)') = {} /\ c \in Owners(t)
            /\ \E m \in Writes(Pending(t)) : task'[t] = m.rec
      /\ \A k \in {"priority", "processing"} :
           t \in zset'[k] => t \in zset[k] \/ Pending(t)' = {}
      /\ Steady(t)'
  BY <1>1, CommandEnds
<1>3. UNCHANGED <<call, alive, held, environment>>
  BY CommandPops
<1>4. /\ Takers(t)' = Takers(t) /\ Givers(t)' = Givers(t) /\ Wakers(t)' = Wakers(t)
      /\ Failers(t)' = Failers(t) /\ Requeuers(t)' = Requeuers(t) /\ Holders(t)' = Holders(t)
      /\ \A a : With(t, a)' = With(t, a)
  BY <1>2, <1>3 DEF Takers, Givers, Wakers, Failers, Requeuers, Holders, With
<1>5. Sound(t)'
  BY <1>2, <1>4 DEF OfTask, Sound
<1>6. InHand(t)'
  BY <1>2, <1>3, <1>4 DEF OfTask, InHand
<1>7. ASSUME ~Serial
      PROVE  Still(t)'
  BY <1>2, <1>4, <1>7 DEF OfTask, Still
<1>8. ASSUME ~Serial
      PROVE  Guarded(t)'
  <2>1. "processing" \in In(t)' => Rec(t)'.status \in Busy
    BY <1>2, <1>8 DEF OfTask, Guarded
  <2>2. ASSUME t \in zset'["processing"], NEW d \in Owners(t)'
        PROVE  /\ task'[t].status \in Busy => Theirs(d, task[t])'
               /\ \A m \in Writes(Pending(t)') : m.rec.status \in Busy => Theirs(d, m.rec)'
    <3>1. Pending(t)' # {}
      BY <2>2, PendingOf DEF Pending, Owners
    <3>2. t \in zset["processing"] /\ d \in Owners(t)
      BY <1>2, <2>2, <3>1
    <3>3. /\ task[t].status \in Busy => Theirs(d, task[t])
          /\ \A m \in Writes(Pending(t)) : m.rec.status \in Busy => Theirs(d, m.rec)
      BY <1>8, <3>2 DEF OfTask, Guarded
    <3>4. \A r : Theirs(d, r)' <=> Theirs(d, r)
      BY <1>3 DEF Theirs
    <3>5. Writes(Pending(t)') \subseteq Writes(Pending(t))
      BY <1>2 DEF Writes
    <3>6. task'[t].status \in Busy => Theirs(d, task'[t])
      BY <1>2, <3>3
    <3>7. task'[t].status \in Busy => Theirs(d, task[t])'
      BY <1>3, <3>6 DEF Theirs
    <3> QED
      BY <3>3, <3>4, <3>5, <3>7
  <2> QED
    BY <2>1, <2>2 DEF Guarded
<1>9. Serial' = Serial
  BY <1>3 DEF Serial
<1> QED
  BY <1>2, <1>5, <1>6, <1>7, <1>8, <1>9 DEF OfTask

\* A step that leaves agents registered, and alone who is alive.
LEMMA CommandOthers ==
  ASSUME TypeOK, NEW c \in Callers, Command1(c), Alone,
         \A a \in Agents : OfAgent(a), \A d \in Callers : OfCaller(d)
  PROVE  Alone' /\ (\A a \in Agents : OfAgent(a)') /\ (\A d \in Callers : OfCaller(d)')
<1> DEFINE m == Head(todo[c])
<1>1. /\ todo[c] # <<>> /\ todo[c] \in Seq(Command) /\ m \in Command
      /\ \A d \in Callers : d # c => todo'[d] = todo[d]
      /\ Orderly(todo[c]) => Orderly(todo'[c])
      /\ UNCHANGED <<call, alive, held, environment>>
  BY CommandPops
<1>2. Serial' = Serial
  BY <1>1 DEF Serial
<1>3. True(m) /\ \A i \in DOMAIN Tail(todo[c]) : True(Tail(todo[c])[i])
  <2>1. \A i \in DOMAIN todo[c] : True(todo[c][i])
    BY DEF OfCaller
  <2>2. /\ m = todo[c][1] /\ 1 \in DOMAIN todo[c]
        /\ \A i \in DOMAIN Tail(todo[c]) : Tail(todo[c])[i] = todo[c][i + 1] /\ i + 1 \in DOMAIN todo[c]
    BY <1>1
  <2> QED
    BY <2>1, <2>2
<1>4. ASSUME NEW a \in Agents
      PROVE  OfAgent(a)' /\ (Serial \/ (Registered(a) => Registered(a)'))
  <2>1. OfAgent(a)
    OBVIOUS
  <2>2. CASE agent'[a] = agent[a]
    BY <1>1, <2>1, <2>2 DEF OfAgent, Registered
  <2>3. CASE agent'[a] # agent[a]
    <3>1. WriteAgent(c)
      BY <2>3 DEF Command1, WriteTask, ZAddTask, ZRemTask, WriteList, PutDeadLetter,
         DropDeadLetter, ReadLoad, WriteAgent, WriteMembers, roster
    <3>2. /\ m.do \in {"setAgent", "del"} /\ m.agent = a
          /\ agent'[a] = IF m.do = "del" THEN NoAgent ELSE m.rec
      BY <2>3, <3>1 DEF WriteAgent, Doing, TypeOK
    <3> HIDE DEF m
    <3> QED
      BY <1>1, <1>3, <3>2 DEF True, OfAgent, Registered, NoAgent
  <2> QED
    BY <2>2, <2>3
<1>5. \A n \in Command : True(n) => True(n)'
  <2> SUFFICES ASSUME NEW n \in Command, True(n)
               PROVE  True(n)'
    OBVIOUS
  <2>1. n.do = "setAgent" => n.agent \in Agents
    BY Fields
  <2> QED
    BY <1>1, <1>2, <1>4, <2>1 DEF True
<1>6. ASSUME NEW d \in Callers
      PROVE  OfCaller(d)'
  <2>1. Known(d)'
    <3>1. Known(d) /\ call'[d] = call[d] /\ call[d] \in Call
      BY <1>1 DEF OfCaller, TypeOK
    <3>2. /\ call[d].at \in {"peek", "take", "fetch"} => call[d].among \subseteq Agents
          /\ call[d].at = "give" => call[d].agent \in Agents
      BY <3>1, Frames
    <3> QED
      BY <1>1, <1>2, <1>4, <3>1, <3>2 DEF Known
  <2>2. \A n \in Command : (\E i \in DOMAIN todo'[d] : n = todo'[d][i]) => True(n)'
    <3>1. CASE d # c
      <4>1. todo'[d] = todo[d] /\ todo[d] \in Seq(Command) /\ \A i \in DOMAIN todo[d] : True(todo[d][i])
        BY <1>1, <3>1 DEF OfCaller, TypeOK
      <4> QED
        BY <1>5, <4>1
    <3>2. CASE d = c /\ NextCommand(c)
      <4>1. todo'[c] = Tail(todo[c]) /\ Tail(todo[c]) \in Seq(Command)
        BY <1>1, <3>2 DEF NextCommand, TypeOK
      <4> QED
        BY <1>3, <1>5, <3>2, <4>1
    <3>3. CASE d = c /\ ~NextCommand(c)
      <4>1. ReadLoad(c) /\ agent[m.agent] # NoAgent
        BY <3>3 DEF Command1, WriteTask, ZAddTask, ZRemTask, WriteList, PutDeadLetter,
           DropDeadLetter, ReadLoad, WriteAgent, WriteMembers
      <4> DEFINE a == m.agent
                 n == agent[a].load + m.delta
                 new == SetAgent(a, Loaded(a, agent[a], IF n < 0 THEN 0 ELSE n))
      <4>2. a \in Agents /\ m.delta \in {-1, 1}
        BY <1>1, <4>1, Fields DEF ReadLoad, Doing
      <4>3. agent[a] \in AgentRec /\ (IF n < 0 THEN 0 ELSE n) \in Nat
        BY <4>2 DEF TypeOK, AgentRec
      <4>4. todo'[c] = <<new>> \o Tail(todo[c])
        BY <4>1 DEF ReadLoad, TypeOK
      <4> HIDE DEF m, n
      <4>5. /\ Loaded(a, agent[a], IF n < 0 THEN 0 ELSE n) \in AgentRec
            /\ Loaded(a, agent[a], IF n < 0 THEN 0 ELSE n).status # "none"
            /\ Loaded(a, agent[a], IF n < 0 THEN 0 ELSE n).fresh = agent[a].fresh
        BY <4>3 DEF Loaded, AgentRec
      <4>6. new \in Command
        BY <4>2, <4>5 DEF SetAgent, Command
      <4>7. True(new)
        BY <4>1, <4>2, <4>5 DEF True, SetAgent, OfAgent, Registered
      <4> HIDE DEF new
      <4>8. Tail(todo[c]) \in Seq(Command)
        BY <1>1
      <4>9. \A i \in DOMAIN todo'[c] : todo'[c][i] \in Command /\ True(todo'[c][i])
        <5> DEFINE w == Tail(todo[c])
        <5>1. w \in Seq(Command) /\ (\A i \in DOMAIN w : True(w[i])) /\ todo'[c] = <<new>> \o w
          BY <1>3, <4>4, <4>8
        <5> HIDE DEF w
        <5>2. \A i \in DOMAIN (<<new>> \o w) :
                (<<new>> \o w)[i] = new \/ (i - 1 \in DOMAIN w /\ (<<new>> \o w)[i] = w[i - 1])
          BY <4>6, <5>1
        <5> QED
          BY <4>6, <4>7, <5>1, <5>2
      <4> QED
        BY <1>5, <3>3, <4>9
    <3> QED
      BY <3>1, <3>2, <3>3
  <2>3. Orderly(todo'[d])
    <3>1. Orderly(todo[d])
      BY DEF OfCaller
    <3> QED
      BY <1>1, <3>1
  <2>4. (\A i \in DOMAIN todo[d] : True(todo[d][i]))'
    <3>1. \A i \in DOMAIN todo'[d] : todo'[d][i] \in Command
      BY CommandType DEF TypeOK
    <3> QED
      BY <2>2, <3>1 DEF True
  <2> QED
    BY <2>1, <2>3, <2>4 DEF OfCaller
<1>7. Alone'
  <2>1. ~Idle(c) /\ \A d \in Callers : d # c => (Idle(d)' <=> Idle(d))
    BY <1>1 DEF Idle
  <2> QED
    BY <1>2, <2>1 DEF Alone
<1> QED
  BY <1>4, <1>6, <1>7

LEMMA CommandInOrder ==
  ASSUME TypeOK, NEW c \in Callers, Command1(c), InOrder
  PROVE  InOrder'
<1>1. Orderly(todo[c])
  BY DEF InOrder, OfCaller
<1> QED
  BY <1>1, CommandTask, CommandOthers DEF InOrder

-----------------------------------------------------------------------------
(* The lists of commands that operations issue for a task t: they write W, *)
(* add t to the sets `add`, remove it from `rem` and change the number of  *)
(* its dead letters by d.                                                  *)

Plain(s) == \A i \in DOMAIN s : s[i].do \notin {"setAgent", "del"}

Does(s, t, W, add, rem, d) ==
  /\ Orderly(s)
  /\ \A u : u # t => Ahead(s, u) = {}
  /\ Writes(Ahead(s, t)) = W
  /\ \A K : InAfter(Ahead(s, t), K) = {k \in Keys : k \in add \/ (k \in K /\ k \notin rem)}
  /\ \A n \in Int : DiedAfter(Ahead(s, t), n) = n + d
  /\ d = -1 \/ \A m \in Ahead(s, t) : m.do # "dropDead"
  /\ Plain(s)

LEMMA DoesWith ==
  ASSUME NEW s \in Seq(Command), NEW r \in Seq(Command), Elsewhere(r), Plain(r),
         NEW t, NEW W, NEW add, NEW rem, NEW d, Does(s, t, W, add, rem, d)
  PROVE  Does(s \o r, t, W, add, rem, d)
<1>1. Plain(s \o r)
  <2>1. /\ DOMAIN (s \o r) = 1..(Len(s) + Len(r)) /\ Len(s) \in Nat /\ Len(r) \in Nat
        /\ DOMAIN s = 1..Len(s) /\ DOMAIN r = 1..Len(r)
        /\ \A i \in 1..Len(s) : (s \o r)[i] = s[i]
        /\ \A i \in (Len(s) + 1)..(Len(s) + Len(r)) : (s \o r)[i] = r[i - Len(s)] /\ i - Len(s) \in DOMAIN r
    OBVIOUS
  <2>2. \A i \in DOMAIN (s \o r) : i \in 1..Len(s) \/ i \in (Len(s) + 1)..(Len(s) + Len(r))
    BY <2>1
  <2> QED
    BY <2>1, <2>2 DEF Does, Plain
<1> QED
  BY <1>1, AheadElsewhere DEF Does

LEMMA UnloadElsewhere ==
  ASSUME NEW a \in Agents \cup {None}
  PROVE  Unload(a) \in Seq(Command) /\ Elsewhere(Unload(a)) /\ Plain(Unload(a))
<1>1. a # None => AddLoad(a, -1) \in Command
  BY DEF AddLoad, Command
<1> QED
  BY <1>1 DEF Unload, Elsewhere, Plain, AddLoad, OnKeys

LEMMA DoesPush ==
  ASSUME NEW t
  PROVE  Does(EnqueuePending(t), t, {}, {"priority"}, {}, 0)
<1> DEFINE s == EnqueuePending(t)
<1>1. /\ DOMAIN s = 1..2
      /\ s[1] = ZAdd("priority", t) /\ s[2] = OnList("lpush", t)
  BY DEF EnqueuePending
<1> HIDE DEF s
<1>2. \A u : Ahead(s, u) = IF u = t THEN {ZAdd("priority", t)} ELSE {}
  BY <1>1 DEF Ahead, On, OnKeys, ZAdd, OnList
<1>3. Orderly(s)
  BY <1>1 DEF Orderly, On, OnKeys, ZAdd, OnList
<1>4. Writes(Ahead(s, t)) = {}
  BY <1>2 DEF Writes, ZAdd
<1>5. \A K : InAfter(Ahead(s, t), K) = {k \in Keys : k \in {"priority"} \/ (k \in K /\ k \notin {})}
  <2>1. \A k : /\ Has(Ahead(s, t), "zadd", k) <=> k \in {"priority"}
               /\ Has(Ahead(s, t), "zrem", k) <=> k \in {}
    <3>1. Ahead(s, t) = {ZAdd("priority", t)}
      BY <1>2
    <3> QED
      BY <3>1 DEF Has, ZAdd
  <2> QED
    BY <2>1 DEF InAfter
<1>6. \A n \in Int : DiedAfter(Ahead(s, t), n) = n + 0
  BY <1>2 DEF DiedAfter, ZAdd
<1>8. Plain(s)
  BY <1>1 DEF Plain, ZAdd, OnList
<1>9. \A m \in Ahead(s, t) : m.do # "dropDead"
  BY <1>2 DEF ZAdd, OnList
<1> QED
  BY <1>2, <1>3, <1>4, <1>5, <1>6, <1>8, <1>9 DEF Does, s

LEMMA DoesSchedule ==
  ASSUME NEW t
  PROVE  Does(<<ZAdd("scheduled", t)>>, t, {}, {"scheduled"}, {}, 0)
<1> DEFINE s == <<ZAdd("scheduled", t)>>
<1>1. DOMAIN s = 1..1 /\ s[1] = ZAdd("scheduled", t)
  OBVIOUS
<1> HIDE DEF s
<1>2. \A u : Ahead(s, u) = IF u = t THEN {ZAdd("scheduled", t)} ELSE {}
  BY <1>1 DEF Ahead, On, OnKeys, ZAdd
<1>3. Orderly(s)
  BY <1>1 DEF Orderly, On, OnKeys, ZAdd
<1>8. Plain(s)
  BY <1>1 DEF Plain, ZAdd
<1>9. \A m \in Ahead(s, t) : m.do # "dropDead"
  BY <1>2 DEF ZAdd
<1> QED
  BY <1>2, <1>3, <1>8, <1>9 DEF Does, Writes, InAfter, Has, DiedAfter, ZAdd, s

LEMMA DoesWrite ==
  ASSUME NEW t, NEW r
  PROVE  Does(<<SetTask(t, r)>>, t, {SetTask(t, r)}, {}, {}, 0)
<1> DEFINE s == <<SetTask(t, r)>>
<1>1. DOMAIN s = 1..1 /\ s[1] = SetTask(t, r)
  OBVIOUS
<1> HIDE DEF s
<1>2. \A u : Ahead(s, u) = IF u = t THEN {SetTask(t, r)} ELSE {}
  BY <1>1 DEF Ahead, On, OnKeys, SetTask
<1>3. Orderly(s)
  BY <1>1 DEF Orderly, On, OnKeys, SetTask
<1>8. Plain(s)
  BY <1>1 DEF Plain, SetTask
<1>9. \A m \in Ahead(s, t) : m.do # "dropDead"
  BY <1>2 DEF SetTask
<1> QED
  BY <1>2, <1>3, <1>8, <1>9 DEF Does, Writes, InAfter, Has, DiedAfter, SetTask, s

LEMMA DoesComplete ==
  ASSUME NEW t, NEW r
  PROVE  Does(<<SetTask(t, r), ZRem("processing", t)>>, t, {SetTask(t, r)}, {}, {"processing"}, 0)
<1> DEFINE s == <<SetTask(t, r), ZRem("processing", t)>>
<1>1. DOMAIN s = 1..2 /\ s[1] = SetTask(t, r) /\ s[2] = ZRem("processing", t)
  OBVIOUS
<1> HIDE DEF s
<1>2. \A u : Ahead(s, u) = IF u = t THEN {SetTask(t, r), ZRem("processing", t)} ELSE {}
  BY <1>1 DEF Ahead, On, OnKeys, SetTask, ZRem
<1>3. Orderly(s)
  BY <1>1 DEF Orderly, On, OnKeys, SetTask, ZRem, Before, Same
<1>8. Plain(s)
  BY <1>1 DEF Plain, SetTask, ZRem
<1>9. \A m \in Ahead(s, t) : m.do # "dropDead"
  BY <1>2 DEF SetTask, ZRem
<1> QED
  BY <1>2, <1>3, <1>8, <1>9 DEF Does, Writes, InAfter, Has, DiedAfter, SetTask, ZRem, s

LEMMA DoesRetry ==
  ASSUME NEW t, NEW r
  PROVE  Does(<<SetTask(t, r), ZAdd("scheduled", t), ZRem("processing", t)>>,
              t, {SetTask(t, r)}, {"scheduled"}, {"processing"}, 0)
<1> DEFINE s == <<SetTask(t, r), ZAdd("scheduled", t), ZRem("processing", t)>>
<1>1. DOMAIN s = 1..3 /\ s[1] = SetTask(t, r) /\ s[2] = ZAdd("scheduled", t) /\ s[3] = ZRem("processing", t)
  OBVIOUS
<1> HIDE DEF s
<1>2. \A u : Ahead(s, u) = IF u = t THEN {SetTask(t, r), ZAdd("scheduled", t), ZRem("processing", t)} ELSE {}
  BY <1>1 DEF Ahead, On, OnKeys, SetTask, ZAdd, ZRem
<1>3. Orderly(s)
  BY <1>1 DEF Orderly, On, OnKeys, SetTask, ZAdd, ZRem, Before, Same
<1>8. Plain(s)
  BY <1>1 DEF Plain, SetTask, ZAdd, ZRem
<1>9. \A m \in Ahead(s, t) : m.do # "dropDead"
  BY <1>2 DEF SetTask, ZAdd, ZRem
<1> QED
  BY <1>2, <1>3, <1>8, <1>9 DEF Does, Writes, InAfter, Has, DiedAfter, SetTask, ZAdd, ZRem, s

LEMMA DoesBury ==
  ASSUME NEW t, NEW a
  PROVE  Does(<<[do |-> "putDead", task |-> t, assignee |-> a],
                ZRem("processing", t), OnList("lrem", t), ZRem("priority", t)>>,
              t, {}, {}, {"processing", "priority"}, 1)
<1> DEFINE m == [do |-> "putDead", task |-> t, assignee |-> a]
           s == <<m, ZRem("processing", t), OnList("lrem", t), ZRem("priority", t)>>
<1>1. /\ DOMAIN s = 1..4 /\ s[1] = m /\ s[2] = ZRem("processing", t) /\ s[3] = OnList("lrem", t)
      /\ s[4] = ZRem("priority", t)
  OBVIOUS
<1> HIDE DEF s
<1>2. \A u : Ahead(s, u) = IF u = t THEN {m, ZRem("processing", t), ZRem("priority", t)} ELSE {}
  BY <1>1 DEF Ahead, On, OnKeys, OnList, ZRem
<1>3. Orderly(s)
  BY <1>1 DEF Orderly, On, OnKeys, OnList, ZRem, Before, Same
<1>8. Plain(s)
  BY <1>1 DEF Plain, OnList, ZRem
<1>9. \A n \in Ahead(s, t) : n.do # "dropDead"
  BY <1>2 DEF OnList, ZRem
<1> QED
  BY <1>2, <1>3, <1>8, <1>9 DEF Does, Writes, InAfter, Has, DiedAfter, ZRem, s

LEMMA DoesCancel ==
  ASSUME NEW t, NEW r
  PROVE  Does(<<SetTask(t, r), ZRem("scheduled", t), ZRem("processing", t),
                OnList("lrem", t), ZRem("priority", t)>>,
              t, {SetTask(t, r)}, {}, Keys, 0)
<1> DEFINE s == <<SetTask(t, r), ZRem("scheduled", t), ZRem("processing", t),
                  OnList("lrem", t), ZRem("priority", t)>>
<1>1. /\ DOMAIN s = 1..5 /\ s[1] = SetTask(t, r) /\ s[2] = ZRem("scheduled", t)
      /\ s[3] = ZRem("processing", t) /\ s[4] = OnList("lrem", t) /\ s[5] = ZRem("priority", t)
  OBVIOUS
<1> HIDE DEF s
<1>2. \A u : Ahead(s, u) = IF u = t THEN {SetTask(t, r), ZRem("scheduled", t), ZRem("processing", t),
                                            ZRem("priority", t)} ELSE {}
  BY <1>1 DEF Ahead, On, OnKeys, SetTask, OnList, ZRem
<1>3. Orderly(s)
  BY <1>1 DEF Orderly, On, OnKeys, OnList, SetTask, ZRem, Before, Same
<1>8. Plain(s)
  BY <1>1 DEF Plain, OnList, SetTask, ZRem
<1>9. \A m \in Ahead(s, t) : m.do # "dropDead"
  BY <1>2 DEF OnList, SetTask, ZRem
<1> QED
  BY <1>2, <1>3, <1>8, <1>9 DEF Does, Writes, InAfter, Has, DiedAfter, SetTask, ZRem, Keys, s

LEMMA DoesReplay ==
  ASSUME NEW t, NEW r, NEW nth
  PROVE  LET m == [do |-> "dropDead", task |-> t, nth |-> nth]
             s == <<m, SetTask(t, r)>> \o EnqueuePending(t)
         IN  /\ Does(s, t, {SetTask(t, r)}, {"priority"}, {}, -1)
             /\ \A x \in Ahead(s, t) : x.do = "dropDead" => x = m
<1> DEFINE m == [do |-> "dropDead", task |-> t, nth |-> nth]
           s == <<m, SetTask(t, r)>> \o EnqueuePending(t)
<1>1. /\ DOMAIN s = 1..4 /\ s[1] = m /\ s[2] = SetTask(t, r) /\ s[3] = ZAdd("priority", t)
      /\ s[4] = OnList("lpush", t)
  BY DEF EnqueuePending
<1> HIDE DEF s
<1>2. \A u : Ahead(s, u) = IF u = t THEN {m, SetTask(t, r), ZAdd("priority", t)} ELSE {}
  BY <1>1 DEF Ahead, On, OnKeys, SetTask, OnList, ZAdd
<1>3. Orderly(s)
  BY <1>1 DEF Orderly, On, OnKeys, OnList, SetTask, ZAdd, Before, Same
<1>4. Writes(Ahead(s, t)) = {SetTask(t, r)}
  BY <1>2 DEF Writes, SetTask, ZAdd
<1>5. \A K : InAfter(Ahead(s, t), K) = {k \in Keys : k \in {"priority"} \/ (k \in K /\ k \notin {})}
  <2>1. \A k : /\ Has(Ahead(s, t), "zadd", k) <=> k \in {"priority"}
               /\ Has(Ahead(s, t), "zrem", k) <=> k \in {}
    <3>1. Ahead(s, t) = {m, SetTask(t, r), ZAdd("priority", t)}
      BY <1>2
    <3> QED
      BY <3>1 DEF Has, SetTask, ZAdd
  <2> QED
    BY <2>1 DEF InAfter
<1>6. \A n \in Int : DiedAfter(Ahead(s, t), n) = n + (-1)
  <2>1. Ahead(s, t) = {m, SetTask(t, r), ZAdd("priority", t)}
    BY <1>2
  <2>2. (\A x \in Ahead(s, t) : x.do # "putDead") /\ \E x \in Ahead(s, t) : x.do = "dropDead"
    BY <2>1 DEF SetTask, ZAdd
  <2> QED
    BY <2>2 DEF DiedAfter
<1>7. \A x \in Ahead(s, t) : x.do = "dropDead" => x = m
  BY <1>2 DEF SetTask, ZAdd
<1>8. Plain(s)
  BY <1>1 DEF Plain, OnList, SetTask, ZAdd
<1> QED
  BY <1>2, <1>3, <1>4, <1>5, <1>6, <1>7, <1>8 DEF Does, s

LEMMA DoesWake ==
  ASSUME NEW t, NEW r
  PROVE  Does(<<ZRem("scheduled", t), SetTask(t, r)>> \o EnqueuePending(t),
              t, {SetTask(t, r)}, {"priority"}, {"scheduled"}, 0)
<1> DEFINE s == <<ZRem("scheduled", t), SetTask(t, r)>> \o EnqueuePending(t)
<1>1. /\ DOMAIN s = 1..4 /\ s[1] = ZRem("scheduled", t) /\ s[2] = SetTask(t, r) /\ s[3] = ZAdd("priority", t)
      /\ s[4] = OnList("lpush", t)
  BY DEF EnqueuePending
<1> HIDE DEF s
<1>2. \A u : Ahead(s, u) = IF u = t THEN {ZRem("scheduled", t), SetTask(t, r), ZAdd("priority", t)} ELSE {}
  BY <1>1 DEF Ahead, On, OnKeys, SetTask, OnList, ZAdd, ZRem
<1>3. Orderly(s)
  BY <1>1 DEF Orderly, On, OnKeys, OnList, SetTask, ZAdd, ZRem, Before, Same
<1>4. Writes(Ahead(s, t)) = {SetTask(t, r)}
  BY <1>2 DEF Writes, SetTask, ZAdd, ZRem
<1>5. \A K : InAfter(Ahead(s, t), K) = {k \in Keys : k \in {"priority"} \/ (k \in K /\ k \notin {"scheduled"})}
  <2>1. \A k : /\ Has(Ahead(s, t), "zadd", k) <=> k \in {"priority"}
               /\ Has(Ahead(s, t), "zrem", k) <=> k \in {"scheduled"}
    <3>1. Ahead(s, t) = {ZRem("scheduled", t), SetTask(t, r), ZAdd("priority", t)}
      BY <1>2
    <3> QED
      BY <3>1 DEF Has, SetTask, ZAdd, ZRem
  <2> QED
    BY <2>1 DEF InAfter
<1>6. \A n \in Int : DiedAfter(Ahead(s, t), n) = n + 0
  BY <1>2 DEF DiedAfter, SetTask, ZAdd, ZRem
<1>8. Plain(s)
  BY <1>1 DEF Plain, OnList, SetTask, ZAdd, ZRem
<1>9. \A m \in Ahead(s, t) : m.do # "dropDead"
  BY <1>2 DEF OnList, SetTask, ZAdd, ZRem
<1> QED
  BY <1>2, <1>3, <1>4, <1>5, <1>6, <1>8, <1>9 DEF Does, s

LEMMA DoesRequeue ==
  ASSUME NEW t, NEW r
  PROVE  Does(<<SetTask(t, r)>> \o EnqueuePending(t), t, {SetTask(t, r)}, {"priority"}, {}, 0)
<1> DEFINE s == <<SetTask(t, r)>> \o EnqueuePending(t)
<1>1. DOMAIN s = 1..3 /\ s[1] = SetTask(t, r) /\ s[2] = ZAdd("priority", t) /\ s[3] = OnList("lpush", t)
  BY DEF EnqueuePending
<1> HIDE DEF s
<1>2. \A u : Ahead(s, u) = IF u = t THEN {SetTask(t, r), ZAdd("priority", t)} ELSE {}
  BY <1>1 DEF Ahead, On, OnKeys, SetTask, OnList, ZAdd
<1>3. Orderly(s)
  BY <1>1 DEF Orderly, On, OnKeys, OnList, SetTask, ZAdd, Before, Same
<1>4. Writes(Ahead(s, t)) = {SetTask(t, r)}
  BY <1>2 DEF Writes, SetTask, ZAdd
<1>5. \A K : InAfter(Ahead(s, t), K) = {k \in Keys : k \in {"priority"} \/ (k \in K /\ k \notin {})}
  <2>1. \A k : /\ Has(Ahead(s, t), "zadd", k) <=> k \in {"priority"}
               /\ Has(Ahead(s, t), "zrem", k) <=> k \in {}
    <3>1. Ahead(s, t) = {SetTask(t, r), ZAdd("priority", t)}
      BY <1>2
    <3> QED
      BY <3>1 DEF Has, SetTask, ZAdd
  <2> QED
    BY <2>1 DEF InAfter
<1>6. \A n \in Int : DiedAfter(Ahead(s, t), n) = n + 0
  BY <1>2 DEF DiedAfter, SetTask, ZAdd
<1>8. Plain(s)
  BY <1>1 DEF Plain, OnList, SetTask, ZAdd
<1>9. \A m \in Ahead(s, t) : m.do # "dropDead"
  BY <1>2 DEF OnList, SetTask, ZAdd
<1> QED
  BY <1>2, <1>3, <1>4, <1>5, <1>6, <1>8, <1>9 DEF Does, s

LEMMA DoesAssign ==
  ASSUME NEW t, NEW r, NEW a
  PROVE  Does(<<SetTask(t, r), ZAdd("processing", t), AddLoad(a, 1)>>,
              t, {SetTask(t, r)}, {"processing"}, {}, 0)
<1> DEFINE s == <<SetTask(t, r), ZAdd("processing", t), AddLoad(a, 1)>>
<1>1. DOMAIN s = 1..3 /\ s[1] = SetTask(t, r) /\ s[2] = ZAdd("processing", t) /\ s[3] = AddLoad(a, 1)
  OBVIOUS
<1> HIDE DEF s
<1>2. \A u : Ahead(s, u) = IF u = t THEN {SetTask(t, r), ZAdd("processing", t)} ELSE {}
  BY <1>1 DEF Ahead, On, OnKeys, SetTask, AddLoad, ZAdd
<1>3. Orderly(s)
  BY <1>1 DEF Orderly, On, OnKeys, AddLoad, SetTask, ZAdd, Before, Same
<1>8. Plain(s)
  BY <1>1 DEF Plain, AddLoad, SetTask, ZAdd
<1>9. \A m \in Ahead(s, t) : m.do # "dropDead"
  BY <1>2 DEF AddLoad, SetTask, ZAdd
<1> QED
  BY <1>2, <1>3, <1>8, <1>9 DEF Does, Writes, InAfter, Has, DiedAfter, SetTask, ZAdd, s

-----------------------------------------------------------------------------
(* What an operation finds.                                                *)

\* Without commands, what will be is what is.
LEMMA Unissued ==
  ASSUME TypeOK, NEW t \in Tasks, Pending(t) = {}
  PROVE  /\ Rec(t) = task[t] /\ Died(t) = Len(dead[t]) /\ Owners(t) = {}
         /\ \A k \in Keys : k \in In(t) <=> t \in zset[k]
<1>1. Writes({}) = {}
  BY DEF Writes
<1>2. Rec(t) = task[t]
  BY <1>1 DEF Rec, RecAfter
<1>3. Died(t) = Len(dead[t])
  BY DEF Died, DiedAfter
<1>4. \A k \in Keys : k \in In(t) <=> t \in zset[k]
  BY DEF In, InAfter, Has, Where
<1> QED
  BY <1>2, <1>3, <1>4, PendingOf

LEMMA UnissuedNext ==
  ASSUME NEW t \in Tasks, Pending(t)' = {}
  PROVE  /\ Rec(t)' = task'[t] /\ Died(t)' = Len(dead'[t]) /\ Owners(t)' = {}
         /\ \A k \in Keys : k \in In(t)' <=> t \in zset'[k]
<1>1. Writes({}) = {}
  BY DEF Writes
<1>2. Rec(t)' = task'[t]
  BY <1>1 DEF Rec, RecAfter
<1>3. Died(t)' = Len(dead'[t])
  BY DEF Died, DiedAfter
<1>4. \A k \in Keys : k \in In(t)' <=> t \in zset'[k]
  BY DEF In, InAfter, Has, Where
<1>5. Owners(t)' = {}
  BY DEF Pending, Owners
<1> QED
  BY <1>2, <1>3, <1>4, <1>5

\* What is once an operation of c has issued commands for t.
Issued(c, t, W, add, rem, d) ==
  /\ Owners(t)' \subseteq {c} /\ Writes(Pending(t)') = W
  /\ W = {} => Rec(t)' = task'[t]
  /\ \A r : W = {SetTask(t, r)} => Rec(t)' = r
  /\ \A k \in Keys : k \in In(t)' <=> (k \in add \/ (t \in zset'[k] /\ k \notin rem))
  /\ Died(t)' = Len(dead'[t]) + d
  /\ d # -1 => \A m \in Pending(t)' : m.do # "dropDead"

LEMMA Issuing ==
  ASSUME TypeOK, TypeOK', NEW c \in Callers, todo[c] = <<>>, NEW t \in Tasks, Pending(t) = {},
         NEW s, todo' = [todo EXCEPT ![c] = s],
         NEW W, NEW add, NEW rem, NEW d, Does(s, t, W, add, rem, d)
  PROVE  /\ Issued(c, t, W, add, rem, d) /\ Pending(t)' = Ahead(s, t)
         /\ \A u : u # t => Pending(u)' = Pending(u) /\ Owners(u)' = Owners(u)
<1>1. /\ Pending(t)' = Ahead(s, t) /\ Owners(t)' \subseteq {c}
      /\ \A u : u # t => Pending(u)' = Pending(u) /\ Owners(u)' = Owners(u)
  <2>1. \A u : u # t => Ahead(s, u) = {}
    BY DEF Does
  <2>2. HandedOver(c, s, t)
    BY <2>1, Handed
  <2> QED
    BY <2>2 DEF HandedOver
<1>2. Writes(Pending(t)') = W
  BY <1>1 DEF Does
<1>3. /\ Rec(t)' = RecAfter(Pending(t)', task'[t]) /\ In(t)' = InAfter(Pending(t)', Where(t)')
      /\ Died(t)' = DiedAfter(Pending(t)', Len(dead'[t]))
  BY DEF Rec, In, Died
<1>4. W = {} => Rec(t)' = task'[t]
  BY <1>2, <1>3 DEF RecAfter
<1>5. ASSUME NEW r, W = {SetTask(t, r)}
      PROVE  Rec(t)' = r
  <2> DEFINE m == SetTask(t, r)
  <2>1. (CHOOSE n \in {m} : TRUE) = m /\ m.rec = r
    BY DEF SetTask
  <2> HIDE DEF m
  <2>2. Writes(Pending(t)') = {m} /\ {m} # {}
    BY <1>2, <1>5 DEF m
  <2> QED
    BY <1>3, <2>1, <2>2 DEF RecAfter
<1>6. \A k \in Keys : k \in In(t)' <=> (k \in add \/ (t \in zset'[k] /\ k \notin rem))
  BY <1>1, <1>3 DEF Does, Where
<1>7. Died(t)' = Len(dead'[t]) + d
  <2>1. Len(dead'[t]) \in Int
    BY DEF TypeOK
  <2> QED
    BY <1>1, <1>3, <2>1 DEF Does
<1>8. d # -1 => \A m \in Pending(t)' : m.do # "dropDead"
  BY <1>1 DEF Does
<1> QED
  BY <1>1, <1>2, <1>4, <1>5, <1>6, <1>7, <1>8 DEF Issued

\* A call that issues commands on other keys only.
LEMMA IssuingElsewhere ==
  ASSUME TypeOK, NEW c \in Callers, todo[c] = <<>>,
         NEW s \in Seq(Command), Elsewhere(s), todo' = [todo EXCEPT ![c] = s]
  PROVE  \A u : Pending(u)' = Pending(u) /\ Owners(u)' = Owners(u)
<1>1. \A u : Ahead(s, u) = {} /\ Ahead(todo[c], u) = {}
  BY AllElsewhere, AheadNone
<1>2. \A u : \A d \in Callers : Ahead(todo'[d], u) = Ahead(todo[d], u)
  BY <1>1 DEF TypeOK
<1> QED
  BY <1>2 DEF Pending, Owners

\* A step of one caller's local variables, to f.
Framed(c, f, t) ==
  /\ \A d : d \in Takers(t)' <=> (d \in Takers(t) /\ d # c) \/ (d = c /\ f.at = "fetch" /\ f.task = t)
  /\ \A d : d \in Givers(t)' <=>
       (d \in Givers(t) /\ d # c) \/ (d = c /\ f.at = "give" /\ f.task = t /\ f.agent \in alive)
  /\ \A d : d \in Wakers(t)' <=> (d \in Wakers(t) /\ d # c) \/ (d = c /\ f.at = "wake" /\ t \in f.due)
  /\ \A d : d \in Failers(t)' <=> (d \in Failers(t) /\ d # c) \/ (d = c /\ f.at = "fail" /\ t \in f.tasks)
  /\ \A d : d \in Requeuers(t)' <=>
       (d \in Requeuers(t) /\ d # c) \/ (d = c /\ f.at = "requeue" /\ f.recs[t] # NoTask)
  /\ call'[c] = f /\ \A d \in Callers : d # c => call'[d] = call[d]

LEMMA Framing ==
  ASSUME TypeOK, NEW c \in Callers, NEW f, call' = [call EXCEPT ![c] = f], alive' = alive
  PROVE  \A t : Framed(c, f, t)
<1>1. call'[c] = f /\ \A d \in Callers : d # c => call'[d] = call[d]
  BY DEF TypeOK
<1> QED
  BY <1>1 DEF Framed, Takers, Givers, Wakers, Failers, Requeuers

\* Who can have a task in hand, by its status.
LEMMA Free ==
  ASSUME NEW t \in Tasks, OfTask(t)
  PROVE  /\ (Rec(t).status \notin Busy \/ Died(t) # 0) =>
              Failers(t) = {} /\ Requeuers(t) = {} /\ Holders(t) = {} /\ Givers(t) = {}
         /\ Rec(t).status # "scheduled" => Wakers(t) = {} /\ "scheduled" \notin In(t)
         /\ Rec(t).status # "pending" => Takers(t) = {} /\ "priority" \notin In(t)
         /\ Takers(t) # {} => "priority" \notin In(t)
  BY DEF OfTask, InHand, Sound, With

\* Calls that do not overlap find no commands and no other local variables.
LEMMA Reads ==
  ASSUME TypeOK, Alone, Serial, NEW c \in Callers, todo[c] = <<>>, MayCall(c) \/ ~Idle(c)
  PROVE  /\ \A t \in Tasks : Pending(t) = {} /\ Owners(t) = {}
         /\ \A d \in Callers : d # c => todo[d] = <<>> /\ call[d] = NoCall
<1>1. \A d \in Callers : d # c => todo[d] = <<>> /\ call[d] = NoCall
  BY DEF Alone, MayCall, Idle
<1>2. \A d \in Callers, t \in Tasks : Ahead(todo[d], t) = {}
  BY <1>1, AheadNone
<1> QED
  BY <1>1, <1>2 DEF Pending, Owners

\* So do those that leave a task alone on which commands are issued.
LEMMA Untouched ==
  ASSUME TypeOK, \A c \in Callers : OfCaller(c), NEW t \in Tasks, ~Touched(t)
  PROVE  Pending(t) = {}
<1> SUFFICES ASSUME NEW c \in Callers, NEW m \in Ahead(todo[c], t)
             PROVE  FALSE
  BY DEF Pending
<1>1. PICK i \in DOMAIN todo[c] : m = todo[c][i] /\ m.do \in OnKeys /\ m.task = t
  BY DEF Ahead, On
<1>2. \A j \in DOMAIN todo[c] : ~(todo[c][j].do \in {"zadd", "zrem", "setTask"} /\ todo[c][j].task = t)
  BY DEF Touched
<1>3. m.do \in {"putDead", "dropDead"}
  BY <1>1, <1>2 DEF OnKeys
<1> QED
  BY <1>1, <1>2, <1>3 DEF OfCaller, Orderly

\* A timer loop is alone, either way.
LEMMA OneTimer ==
  ASSUME Careful(environment), Alone, \A c \in Callers : OfCaller(c),
         NEW c \in Callers, NEW d \in Callers,
         call[c].at \in {"wake", "sweep", "fail"}, call[d].at \in {"wake", "sweep", "fail"}
  PROVE  c = d
<1>1. c \in Ticks /\ d \in Ticks
  BY DEF OfCaller, Known
<1>2. ~Idle(c) /\ ~Idle(d)
  BY DEF Idle, NoCall
<1> QED
  BY <1>1, <1>2 DEF Alone, Careful, AtMostOne, Serial

\* What an agent finds of a task that it holds, between its calls.
LEMMA HeldTask ==
  ASSUME TypeOK, InOrder, NEW a \in Agents, NEW t \in Tasks, t \in held[a], todo[a] = <<>>
  PROVE  /\ Pending(t) = {} /\ Holders(t) = {a} /\ a \in alive
         /\ task[t].status \in Busy /\ task[t].assignee = a /\ Len(dead[t]) = 0
         /\ t \in zset["processing"] /\ t \notin zset["priority"] /\ t \notin zset["scheduled"]
         /\ Takers(t) = {} /\ Givers(t) = {} /\ Wakers(t) = {} /\ Failers(t) = {} /\ Requeuers(t) = {}
<1>1. OfTask(t) /\ a \in Holders(t)
  BY DEF InOrder, Holders
<1>2. a \in alive /\ With(t, a) /\ Owners(t) \subseteq {a}
  BY <1>1 DEF OfTask, InHand
<1>3. Pending(t) = {}
  BY <1>2, PendingOf, AheadNone DEF Owners
<1>4. /\ Rec(t) = task[t] /\ Died(t) = Len(dead[t])
      /\ \A k \in Keys : k \in In(t) <=> t \in zset[k]
  BY <1>3, Unissued
<1>5. Rec(t).status \in Busy /\ Rec(t).assignee = a /\ Died(t) = 0
  BY <1>2 DEF With
<1>6. Rec(t).status # "scheduled" /\ Rec(t).status # "pending"
  BY <1>5 DEF Busy
<1>7. /\ Wakers(t) = {} /\ Takers(t) = {}
      /\ "scheduled" \notin In(t) /\ "priority" \notin In(t) /\ "processing" \in In(t)
  BY <1>1, <1>5, <1>6, Free DEF OfTask, Sound
<1>8. \A b \in Holders(t) : b = a
  BY <1>1, <1>5 DEF OfTask, InHand, With
<1>9. Givers(t) = {}
  BY <1>1 DEF OfTask, InHand
<1>10. ASSUME NEW d \in Failers(t) \cup Requeuers(t)
       PROVE  FALSE
  <2>1. d \in Callers /\ call[d].agent = a
    BY <1>1, <1>5 DEF OfTask, InHand, With, Failers, Requeuers
  <2>2. Known(d)
    BY <2>1 DEF InOrder, OfCaller
  <2> QED
    BY <1>2, <2>1, <2>2 DEF Known, Failers, Requeuers
<1> QED
  BY <1>1, <1>2, <1>3, <1>4, <1>5, <1>7, <1>8, <1>9, <1>10 DEF Keys

-----------------------------------------------------------------------------
(* What an operation leaves alone.                                         *)

\* A task that it does not write, and that nobody takes in hand.
LEMMA Aside ==
  ASSUME NEW u \in Tasks, OfTask(u), environment' = environment,
         Pending(u)' = Pending(u), Owners(u)' = Owners(u), task'[u] = task[u], dead'[u] = dead[u],
         \A k \in Keys : u \in zset'[k] <=> u \in zset[k],
         Takers(u)' = Takers(u), Wakers(u)' \subseteq Wakers(u), Failers(u)' \subseteq Failers(u),
         Requeuers(u)' \subseteq Requeuers(u), Givers(u)' \subseteq Givers(u), Holders(u)' \subseteq Holders(u),
         \A d \in Failers(u)' \cup Requeuers(u)' \cup Givers(u)' : call'[d].agent = call[d].agent,
         \A b \in Holders(u)' \cup Owners(u) : b \in alive => b \in alive'
  PROVE  OfTask(u)'
<1>1. /\ Rec(u)' = Rec(u) /\ In(u)' = In(u) /\ Died(u)' = Died(u)
      /\ Serial' = Serial
  <2>1. Where(u)' = Where(u)
    BY DEF Where
  <2> QED
    BY <2>1 DEF Rec, In, Died, Serial
<1>2. \A a : With(u, a)' <=> With(u, a)
  BY <1>1 DEF With
<1>3. Sound(u)'
  BY <1>1 DEF OfTask, Sound
<1>4. Steady(u)'
  BY DEF OfTask, Steady
<1>5. InHand(u)'
  <2>1. InHand(u)
    BY DEF OfTask
  <2>2. Wakers(u)' # {} => Rec(u)'.status = "scheduled"
    BY <1>1, <2>1 DEF InHand
  <2>3. \A d \in Failers(u)' \cup Requeuers(u)' : With(u, call[d].agent)' /\ call'[d].agent = call[d].agent
    BY <1>2, <2>1 DEF InHand
  <2>4. \A a \in Holders(u)' : a \in alive' /\ With(u, a)' /\ Owners(u)' \subseteq {a}
    BY <1>2, <2>1 DEF InHand
  <2>5. \A d \in Givers(u)' :
          /\ With(u, call[d].agent) /\ call'[d].agent = call[d].agent /\ Owners(u)' \subseteq {d}
          /\ Holders(u)' = {} /\ Givers(u)' \subseteq {d}
    BY <2>1 DEF InHand
  <2>6. \A d \in Failers(u)' \cup Requeuers(u)' \cup Givers(u)' : With(u, call[d].agent) => With(u, call'[d].agent)
    OBVIOUS
  <2> QED
    BY <1>1, <2>1, <2>2, <2>3, <2>4, <2>5, <2>6 DEF InHand, With
<1>6. ASSUME ~Serial
      PROVE  Still(u)' /\ Guarded(u)'
  <2>1. Still(u) /\ Guarded(u)
    BY <1>6 DEF OfTask
  <2>2. Still(u)'
    BY <2>1 DEF Still, Keys
  <2>3. \A d \in Owners(u) : \A r : Theirs(d, r) => Theirs(d, r)'
    BY DEF Theirs
  <2>4. task[u]' = task[u]
    OBVIOUS
  <2> QED
    BY <1>1, <2>1, <2>2, <2>3, <2>4 DEF Guarded, Keys
<1> QED
  BY <1>1, <1>3, <1>4, <1>5, <1>6 DEF OfTask

\* The other callers, when an operation of c changes no agent's record.
LEMMA Acts ==
  ASSUME TypeOK, TypeOK', InOrder, NEW c \in Callers, NEW f, NEW s,
         call' = [call EXCEPT ![c] = f], todo' = [todo EXCEPT ![c] = s],
         agent' = agent, alive' = alive, environment' = environment,
         MayCall(c) \/ ~Idle(c), Orderly(s), \A i \in DOMAIN s : True(s[i]), Known(c)',
         \A t \in Tasks : OfTask(t)'
  PROVE  InOrder'
<1>1. /\ call'[c] = f /\ todo'[c] = s /\ Serial' = Serial
      /\ \A d \in Callers : d # c => call'[d] = call[d] /\ todo'[d] = todo[d]
  BY DEF TypeOK, Serial
<1>2. Alone'
  <2>1. \A d \in Callers : d # c => (Idle(d)' <=> Idle(d))
    BY <1>1 DEF Idle
  <2> QED
    BY <1>1, <2>1 DEF InOrder, Alone, MayCall
<1>3. \A a \in Agents : OfAgent(a)'
  BY DEF InOrder, OfAgent, Registered
<1>4. \A m : True(m)' <=> True(m)
  BY <1>1 DEF True, Registered
<1>5. ASSUME NEW d \in Callers
      PROVE  OfCaller(d)'
  <2>1. Orderly(todo'[d])
    BY <1>1 DEF InOrder, OfCaller
  <2>2. Known(d)'
    <3>1. CASE d # c
      <4>1. Known(d) /\ call'[d] = call[d]
        BY <1>1, <3>1 DEF InOrder, OfCaller
      <4> QED
        BY <1>1, <4>1 DEF Known, Registered
    <3> QED
      BY <3>1
  <2>3. \A i \in DOMAIN todo'[d] : True(todo'[d][i])
    BY <1>1 DEF InOrder, OfCaller
  <2>4. (\A i \in DOMAIN todo[d] : True(todo[d][i]))'
    BY <1>1, <2>3 DEF True, Registered
  <2> QED
    BY <2>1, <2>2, <2>4 DEF OfCaller
<1> QED
  BY <1>2, <1>3, <1>5 DEF InOrder

\* The same, when the local variables of c stay as they are.
LEMMA Issues ==
  ASSUME TypeOK, TypeOK', InOrder, NEW c \in Callers, NEW s,
         call' = call, todo' = [todo EXCEPT ![c] = s],
         agent' = agent, alive' = alive, environment' = environment,
         MayCall(c), Orderly(s), \A i \in DOMAIN s : True(s[i]),
         \A t \in Tasks : OfTask(t)'
  PROVE  InOrder'
<1>1. call' = [call EXCEPT ![c] = call[c]] /\ call'[c] = call[c] /\ call[c].at = "none"
  BY DEF TypeOK, MayCall, Idle, NoCall
<1>2. Known(c)'
  BY <1>1 DEF Known
<1> QED
  BY <1>1, <1>2, Acts

LEMMA PlainTrue ==
  ASSUME NEW s, Plain(s)
  PROVE  \A i \in DOMAIN s : True(s[i])
  BY DEF Plain, True

-----------------------------------------------------------------------------
(* The operations of clients and agents on a task.                         *)

\* What they leave alone: every other task, and the calls that run.
LEMMA OnOneTask ==
  ASSUME TypeOK, TypeOK', InOrder, NEW c \in Callers, MayCall(c), NEW t \in Tasks, Pending(t) = {},
         NEW s, NEW W, NEW add, NEW rem, NEW d, Does(s, t, W, add, rem, d),
         todo' = [todo EXCEPT ![c] = s],
         UNCHANGED <<zset, dead, agent, call, alive, environment>>,
         \A u \in Tasks : u # t => task'[u] = task[u],
         \A a \in Agents : held'[a] \subseteq held[a],
         OfTask(t)'
  PROVE  InOrder'
<1>1. todo[c] = <<>>
  BY DEF MayCall, Idle
<1>2. \A u : u # t => Pending(u)' = Pending(u) /\ Owners(u)' = Owners(u)
  BY <1>1, Issuing
<1>3. ASSUME NEW u \in Tasks, u # t
      PROVE  OfTask(u)'
  <2>1. OfTask(u)
    BY DEF InOrder
  <2>2. /\ Takers(u)' = Takers(u) /\ Wakers(u)' = Wakers(u) /\ Failers(u)' = Failers(u)
        /\ Requeuers(u)' = Requeuers(u) /\ Givers(u)' = Givers(u) /\ Holders(u)' \subseteq Holders(u)
    BY DEF Takers, Wakers, Failers, Requeuers, Givers, Holders
  <2>3. Pending(u)' = Pending(u) /\ Owners(u)' = Owners(u)
    BY <1>2, <1>3
  <2>4. \A b \in Holders(u)' \cup Owners(u) : b \in alive => b \in alive'
    OBVIOUS
  <2> QED
    BY <1>3, <2>1, <2>2, <2>3, <2>4, Aside
<1>4. Orderly(s) /\ Plain(s)
  BY DEF Does
<1> QED
  BY <1>3, <1>4, PlainTrue, Issues

\* The sets of those that have a task in hand.
LEMMA SameHands ==
  ASSUME UNCHANGED <<call, alive, environment>>, NEW t
  PROVE  /\ Takers(t)' = Takers(t) /\ Wakers(t)' = Wakers(t) /\ Failers(t)' = Failers(t)
         /\ Requeuers(t)' = Requeuers(t) /\ Givers(t)' = Givers(t) /\ Serial' = Serial
         /\ (held' = held => Holders(t)' = Holders(t))
  BY DEF Takers, Wakers, Failers, Requeuers, Givers, Holders, Serial

LEMMA EnqueueInOrder ==
  ASSUME TypeOK, TypeOK', InOrder, NEW c \in Callers, NEW t \in Tasks, Enqueue(c, t)
  PROVE  InOrder'
<1>1. OfTask(t) /\ task[t].status = "none" /\ Pending(t) = {}
  BY DEF InOrder, OfTask, Steady, Enqueue, NoTask
<1>2. /\ Rec(t) = task[t] /\ Died(t) = Len(dead[t]) /\ \A k \in Keys : k \in In(t) <=> t \in zset[k]
  BY <1>1, Unissued
<1>3. /\ Failers(t) = {} /\ Requeuers(t) = {} /\ Holders(t) = {} /\ Givers(t) = {}
      /\ Wakers(t) = {} /\ Takers(t) = {} /\ "scheduled" \notin In(t) /\ "priority" \notin In(t)
      /\ Died(t) = 0
  BY <1>1, <1>2, Free DEF Busy, OfTask, Sound
<1>4. ASSUME NEW st \in {"pending", "scheduled"}, NEW s, NEW k \in Keys, Does(s, t, {}, {k}, {}, 0),
             task' = [task EXCEPT ![t].status = st], todo' = [todo EXCEPT ![c] = s],
             k = IF st = "pending" THEN "priority" ELSE "scheduled"
      PROVE  InOrder'
  <2>1. /\ UNCHANGED <<zset, dead, agent, call, alive, environment, held>> /\ MayCall(c) /\ todo[c] = <<>>
    BY DEF Enqueue, roster, world, bounds, MayCall, Idle
  <2>2. task'[t].status = st /\ task'[t].assignee = task[t].assignee /\ \A u \in Tasks : u # t => task'[u] = task[u]
    BY <1>4 DEF TypeOK, TaskRec
  <2>3. Issued(c, t, {}, {k}, {}, 0)
    BY <1>1, <1>4, <2>1, Issuing
  <2>4. /\ Owners(t)' \subseteq {c} /\ Writes(Pending(t)') = {} /\ Rec(t)' = task'[t]
        /\ \A i \in Keys : i \in In(t)' <=> (i = k \/ t \in zset[i])
        /\ Died(t)' = 0 /\ \A m \in Pending(t)' : m.do # "dropDead"
    <3>1. Len(dead'[t]) = 0
      BY <1>2, <1>3, <2>1
    <3> QED
      BY <2>1, <2>3, <3>1 DEF Issued
  <2>5. /\ Failers(t)' = {} /\ Requeuers(t)' = {} /\ Holders(t)' = {} /\ Givers(t)' = {}
        /\ Wakers(t)' = {} /\ Takers(t)' = {} /\ Serial' = Serial
    BY <1>3, <2>1, SameHands
  <2>6. Sound(t)'
    BY <1>2, <1>3, <1>4, <2>2, <2>4, <2>5 DEF Sound, Busy, Keys
  <2>7. Steady(t)'
    BY <2>2, <2>4 DEF Steady, AtMostOne
  <2>8. InHand(t)'
    BY <2>5 DEF InHand
  <2>9. ASSUME ~Serial
        PROVE  Still(t)' /\ Guarded(t)'
    <3>1. "processing" \notin In(t)
      BY <1>1, <1>2, <2>9 DEF OfTask, Guarded, Busy
    <3> QED
      BY <1>2, <1>3, <1>4, <2>1, <2>2, <2>4, <2>5, <3>1 DEF Still, Guarded, Keys, Busy
  <2>10. OfTask(t)'
    BY <2>5, <2>6, <2>7, <2>8, <2>9 DEF OfTask
  <2>11. \A a \in Agents : held'[a] \subseteq held[a]
    BY <2>1
  <2> QED
    BY <1>1, <1>4, <2>1, <2>2, <2>10, <2>11, OnOneTask
<1> QED
  BY <1>4, DoesPush, DoesSchedule DEF Enqueue, Issue, Keys

\* Calls that do not overlap cancel what waits.
LEMMA CancelInOrder ==
  ASSUME TypeOK, TypeOK', InOrder, Careful(environment), NEW c \in Callers, NEW t \in Tasks, CancelTask(c, t)
  PROVE  InOrder'
<1>1. /\ Serial /\ MayCall(c) /\ todo[c] = <<>> /\ task[t].status \in {"pending", "scheduled"}
      /\ UNCHANGED <<task, zset, dead, agent, call, alive, held, environment>>
  BY DEF Careful, CancelTask, Allowed, Serial, MayCall, Idle, store, roster, world, bounds
<1>2. Pending(t) = {} /\ OfTask(t) /\ Takers(t) = {}
  <2>1. \A d \in Callers : call[d] = NoCall
    BY <1>1 DEF MayCall, Idle
  <2> QED
    BY <1>1, <2>1, Reads DEF InOrder, Takers, NoCall
<1>3. /\ Rec(t) = task[t] /\ Died(t) = Len(dead[t])
  BY <1>2, Unissued
<1>4. /\ Failers(t) = {} /\ Requeuers(t) = {} /\ Holders(t) = {} /\ Givers(t) = {} /\ Died(t) = 0
  BY <1>1, <1>2, <1>3, Free DEF Busy, OfTask, Sound
<1>5. Wakers(t) = {}
  BY <1>1 DEF MayCall, Idle, Wakers, NoCall
<1> DEFINE r == [task[t] EXCEPT !.status = "cancelled"]
           s == <<SetTask(t, r), ZRem("scheduled", t), ZRem("processing", t), OnList("lrem", t), ZRem("priority", t)>>
           who == IF task[t].status \in {"assigned", "processing"} THEN task[t].assignee ELSE None
<1>6. r.status = "cancelled" /\ r \in TaskRec /\ Unload(who) = <<>>
  <2>1. task[t] \in TaskRec
    BY DEF TypeOK
  <2>2. r.status = "cancelled" /\ r \in TaskRec
    BY <1>1, <2>1 DEF TaskRec, Stored
  <2>3. Unload(who) = <<>>
    BY <1>1 DEF Unload
  <2> QED
    BY <2>2, <2>3
<1>7. s \in Seq(Command) /\ todo' = [todo EXCEPT ![c] = s]
  <2>1. todo' = [todo EXCEPT ![c] = s \o Unload(who)]
    BY DEF CancelTask, Issue
  <2>2. s \in Seq(Command)
    <3>1. /\ SetTask(t, r) \in Command /\ OnList("lrem", t) \in Command
          /\ \A k \in Keys : ZRem(k, t) \in Command
      BY <1>6 DEF SetTask, OnList, ZRem, Command
    <3> HIDE DEF r
    <3> QED
      BY <3>1 DEF Keys
  <2> HIDE DEF s
  <2>3. s \o Unload(who) = s
    BY <1>6, <2>2
  <2> QED
    BY <2>1, <2>2, <2>3
<1>8. Does(s, t, {SetTask(t, r)}, {}, Keys, 0)
  BY DoesCancel
<1> HIDE DEF r, s
<1>9. Issued(c, t, {SetTask(t, r)}, {}, Keys, 0)
  BY <1>1, <1>2, <1>7, <1>8, Issuing
<1>10. /\ Owners(t)' \subseteq {c} /\ Writes(Pending(t)') = {SetTask(t, r)} /\ Rec(t)' = r
       /\ \A k \in Keys : k \notin In(t)'
       /\ Died(t)' = 0 /\ \A m \in Pending(t)' : m.do # "dropDead"
  <2>1. Len(dead'[t]) = 0
    BY <1>1, <1>3, <1>4
  <2> QED
    BY <1>9, <2>1 DEF Issued
<1>11. /\ Failers(t)' = {} /\ Requeuers(t)' = {} /\ Holders(t)' = {} /\ Givers(t)' = {}
       /\ Wakers(t)' = {} /\ Takers(t)' = {} /\ Serial' = Serial
  BY <1>1, <1>2, <1>4, <1>5, SameHands
<1>12. Sound(t)'
  BY <1>6, <1>10, <1>11 DEF Sound, Busy, Keys
<1>13. Steady(t)'
  <2>1. SetTask(t, r).rec = r
    BY DEF SetTask
  <2> QED
    BY <1>1, <1>6, <1>10, <2>1 DEF Steady, AtMostOne
<1>14. InHand(t)'
  BY <1>11 DEF InHand
<1>15. OfTask(t)'
  BY <1>1, <1>11, <1>12, <1>13, <1>14 DEF OfTask
<1> QED
  BY <1>1, <1>2, <1>7, <1>8, <1>15, OnOneTask

\* A dead letter is of a task that its record has in the hands of an agent, and
\* that no longer is in processing.
LEMMA ReplayInOrder ==
  ASSUME TypeOK, TypeOK', InOrder, Careful(environment), NEW c \in Callers, NEW t \in Tasks,
         ReplayDeadLetter(c, t)
  PROVE  InOrder'
<1> DEFINE last == Len(dead[t])
           r == [status |-> "pending", assignee |-> dead[t][last], retry |-> 0]
           m == [do |-> "dropDead", task |-> t, nth |-> last]
           s == <<m, SetTask(t, r)>> \o EnqueuePending(t)
<1>1. /\ MayCall(c) /\ todo[c] = <<>> /\ dead[t] # <<>> /\ todo' = [todo EXCEPT ![c] = s]
      /\ UNCHANGED <<task, zset, dead, agent, call, alive, held, environment>>
  BY DEF ReplayDeadLetter, MayCall, Idle, Issue, store, roster, world
<1>2. Pending(t) = {} /\ OfTask(t)
  <2>1. ~Touched(t)
    BY DEF ReplayDeadLetter, Careful, Timely
  <2> QED
    BY <2>1, Untouched DEF InOrder
<1>3. /\ Rec(t) = task[t] /\ Died(t) = last /\ \A k \in Keys : k \in In(t) <=> t \in zset[k]
  BY <1>2, Unissued
<1>4. last \in Nat \ {0} /\ last \in DOMAIN dead[t]
  BY <1>1 DEF TypeOK
<1>5. Rec(t).status \in Busy /\ Died(t) = 1
  BY <1>2, <1>3, <1>4 DEF OfTask, Sound
<1>6. /\ Failers(t) = {} /\ Requeuers(t) = {} /\ Holders(t) = {} /\ Givers(t) = {}
      /\ Wakers(t) = {} /\ Takers(t) = {}
      /\ t \notin zset["scheduled"] /\ t \notin zset["priority"] /\ t \notin zset["processing"]
  <2>1. Rec(t).status # "scheduled" /\ Rec(t).status # "pending" /\ Died(t) # 0
    BY <1>5 DEF Busy
  <2>2. "processing" \notin In(t)
    BY <1>2, <1>5 DEF OfTask, Sound
  <2> QED
    BY <1>2, <1>3, <2>1, <2>2, Free DEF Keys
<1>7. /\ Does(s, t, {SetTask(t, r)}, {"priority"}, {}, -1)
      /\ \A x \in Ahead(s, t) : x.do = "dropDead" => x = m
  BY DoesReplay
<1>8. r.status = "pending" /\ m.nth = last
  OBVIOUS
<1> HIDE DEF r, s, m
<1>9. Issued(c, t, {SetTask(t, r)}, {"priority"}, {}, -1) /\ Pending(t)' = Ahead(s, t)
  BY <1>1, <1>2, <1>7, Issuing
<1>10. /\ Owners(t)' \subseteq {c} /\ Writes(Pending(t)') = {SetTask(t, r)} /\ Rec(t)' = r
       /\ \A k \in Keys : k \in In(t)' <=> k = "priority"
       /\ Died(t)' = 0 /\ \A x \in Pending(t)' : x.do = "dropDead" => x.nth \in DOMAIN dead'[t]
  <2>1. Len(dead'[t]) = 1 /\ 1 + (-1) = 0
    BY <1>1, <1>3, <1>5
  <2>2. \A k \in Keys : t \notin zset'[k]
    BY <1>1, <1>6 DEF Keys
  <2> QED
    BY <1>1, <1>4, <1>7, <1>8, <1>9, <2>1, <2>2 DEF Issued
<1>11. /\ Failers(t)' = {} /\ Requeuers(t)' = {} /\ Holders(t)' = {} /\ Givers(t)' = {}
       /\ Wakers(t)' = {} /\ Takers(t)' = {} /\ Serial' = Serial
  BY <1>1, <1>6, SameHands
<1>12. Sound(t)'
  BY <1>8, <1>10, <1>11 DEF Sound, Busy, Keys
<1>13. Steady(t)'
  <2>1. SetTask(t, r).rec = r /\ task'[t].status \in Busy
    BY <1>1, <1>3, <1>5 DEF SetTask
  <2> QED
    BY <1>8, <1>10, <2>1 DEF Steady, AtMostOne, Busy
<1>14. InHand(t)'
  BY <1>11 DEF InHand
<1>15. Still(t)' /\ Guarded(t)'
  BY <1>1, <1>6, <1>8, <1>10, <1>11 DEF Still, Guarded, Busy, Keys
<1>16. OfTask(t)'
  BY <1>11, <1>12, <1>13, <1>14, <1>15 DEF OfTask
<1> QED
  BY <1>1, <1>2, <1>7, <1>16, OnOneTask

\* The list s takes t from the agent that its record names: the task ends there,
\* or is pending again.
Ends(s, t) ==
  \/ \E r : r.status = "completed" /\ Does(s, t, {SetTask(t, r)}, {}, {"processing"}, 0)
  \/ \E r : r.status = "scheduled" /\ Does(s, t, {SetTask(t, r)}, {"scheduled"}, {"processing"}, 0)
  \/ Does(s, t, {}, {}, {"processing", "priority"}, 1)
TakesOff(s, t) ==
  \/ Ends(s, t)
  \/ Serial /\ \E r : r.status = "pending" /\ Does(s, t, {SetTask(t, r)}, {"priority"}, {}, 0)

NoHands(t) ==
  /\ Takers(t) = {} /\ Givers(t) = {} /\ Wakers(t) = {}
  /\ Failers(t) = {} /\ Requeuers(t) = {} /\ Holders(t) = {}

LEMMA TakenOff ==
  ASSUME TypeOK, TypeOK', NEW c \in Callers, NEW t \in Tasks, todo[c] = <<>>, Pending(t) = {},
         NEW s, TakesOff(s, t), todo' = [todo EXCEPT ![c] = s],
         UNCHANGED <<task, zset, dead, environment>>,
         task[t].status \in Busy, Len(dead[t]) = 0,
         t \notin zset["priority"], t \notin zset["scheduled"], t \in zset["processing"],
         Serial \/ Theirs(c, task[t])', NoHands(t)'
  PROVE  OfTask(t)'
<1>1. ASSUME NEW r, NEW W, NEW add, NEW rem, NEW d, Does(s, t, W, add, rem, d),
             W = {} \/ W = {SetTask(t, r)},
             \/ W # {} /\ r.status = "completed" /\ add = {} /\ rem = {"processing"} /\ d = 0
             \/ W # {} /\ r.status = "scheduled" /\ add = {"scheduled"} /\ rem = {"processing"} /\ d = 0
             \/ W = {} /\ add = {} /\ rem = {"processing", "priority"} /\ d = 1
             \/ Serial /\ W # {} /\ r.status = "pending" /\ add = {"priority"} /\ rem = {} /\ d = 0
      PROVE  OfTask(t)'
  <2>1. Issued(c, t, W, add, rem, d)
    BY <1>1, Issuing
  <2>2. /\ Owners(t)' \subseteq {c} /\ Writes(Pending(t)') = W
        /\ W = {} => Rec(t)' = task[t]
        /\ W # {} => Rec(t)' = r
        /\ \A k \in Keys : k \in In(t)' <=> (k \in add \/ (t \in zset[k] /\ k \notin rem))
        /\ Died(t)' = d
        /\ \A m \in Pending(t)' : m.do # "dropDead"
    <3>1. Len(dead'[t]) = 0 /\ task'[t] = task[t] /\ \A k : zset'[k] = zset[k]
      OBVIOUS
    <3>2. d \in {0, 1} /\ 0 + d = d /\ d # -1
      BY <1>1
    <3> QED
      BY <1>1, <2>1, <3>1, <3>2 DEF Issued
  <2>3. /\ Failers(t)' = {} /\ Requeuers(t)' = {} /\ Holders(t)' = {} /\ Givers(t)' = {}
        /\ Wakers(t)' = {} /\ Takers(t)' = {} /\ Serial' = Serial
    BY DEF NoHands, Serial
  <2>4. Sound(t)'
    BY <1>1, <2>2, <2>3 DEF Sound, Busy, Keys
  <2>5. SetTask(t, r).rec = r
    BY DEF SetTask
  <2>6. Steady(t)'
    BY <1>1, <2>2, <2>5 DEF Steady, AtMostOne, Busy
  <2>7. InHand(t)'
    BY <2>3 DEF InHand
  <2>8. ASSUME ~Serial
        PROVE  Still(t)' /\ Guarded(t)'
    <3>1. Still(t)'
      BY <2>3 DEF Still
    <3>2. Rec(t)'.status \notin Busy => "processing" \notin In(t)'
      BY <1>1, <2>2, <2>8 DEF Busy, Keys
    <3>3. \A m \in Writes(Pending(t)') : m.rec.status \notin Busy
      BY <1>1, <2>2, <2>5 DEF Busy
    <3>4. Theirs(c, task[t])'
      BY <2>8
    <3> QED
      BY <2>2, <3>1, <3>2, <3>3, <3>4 DEF Guarded
  <2> QED
    BY <2>3, <2>4, <2>6, <2>7, <2>8 DEF OfTask
<1>2. ASSUME NEW r, r.status = "completed", Does(s, t, {SetTask(t, r)}, {}, {"processing"}, 0)
      PROVE  OfTask(t)'
  BY <1>1, <1>2
<1>3. ASSUME NEW r, r.status = "scheduled", Does(s, t, {SetTask(t, r)}, {"scheduled"}, {"processing"}, 0)
      PROVE  OfTask(t)'
  BY <1>1, <1>3
<1>4. ASSUME Does(s, t, {}, {}, {"processing", "priority"}, 1)
      PROVE  OfTask(t)'
  BY <1>1, <1>4
<1>5. ASSUME Serial, NEW r, r.status = "pending", Does(s, t, {SetTask(t, r)}, {"priority"}, {}, 0)
      PROVE  OfTask(t)'
  BY <1>1, <1>5
<1> QED
  BY <1>2, <1>3, <1>4, <1>5 DEF TakesOff, Ends

LEMMA FailEnds ==
  ASSUME TypeOK, NEW t \in Tasks
  PROVE  Ends(FailCommands(t), t)
<1> DEFINE r == task[t]
           again == [status |-> "scheduled", assignee |-> None, retry |-> r.retry + 1]
           m == [do |-> "putDead", task |-> t, assignee |-> r.assignee]
           s1 == <<SetTask(t, again), ZAdd("scheduled", t), ZRem("processing", t)>>
           s2 == <<m, ZRem("processing", t), OnList("lrem", t), ZRem("priority", t)>>
<1>1. r \in TaskRec /\ again \in TaskRec /\ again.status = "scheduled" /\ r.assignee \in Agents \cup {None}
  BY DEF TypeOK, TaskRec, Stored
<1>2. Unload(r.assignee) \in Seq(Command) /\ Elsewhere(Unload(r.assignee)) /\ Plain(Unload(r.assignee))
  BY <1>1, UnloadElsewhere
<1>3. /\ SetTask(t, again) \in Command /\ m \in Command
      /\ ZAdd("scheduled", t) \in Command /\ ZRem("processing", t) \in Command
      /\ ZRem("priority", t) \in Command /\ OnList("lrem", t) \in Command
  BY <1>1 DEF SetTask, ZAdd, ZRem, OnList, Command, Keys
<1>4. s1 \in Seq(Command) /\ s2 \in Seq(Command)
  BY <1>3
<1>5. /\ Does(s1, t, {SetTask(t, again)}, {"scheduled"}, {"processing"}, 0)
      /\ Does(s2, t, {}, {}, {"processing", "priority"}, 1)
  BY DoesRetry, DoesBury
<1>6. FailCommands(t) = s1 \o Unload(r.assignee) \/ FailCommands(t) = s2 \o Unload(r.assignee)
  BY DEF FailCommands
<1> HIDE DEF s1, s2, again
<1>7. Does(s1 \o Unload(r.assignee), t, {SetTask(t, again)}, {"scheduled"}, {"processing"}, 0)
  BY <1>2, <1>4, <1>5, DoesWith
<1>8. Does(s2 \o Unload(r.assignee), t, {}, {}, {"processing", "priority"}, 1)
  BY <1>2, <1>4, <1>5, DoesWith
<1> QED
  BY <1>1, <1>6, <1>7, <1>8 DEF Ends

\* An agent ends its work on a task.
LEMMA EndsInOrder ==
  ASSUME TypeOK, TypeOK', InOrder, NEW a \in Agents, NEW t \in Tasks, t \in held[a], MayCall(a),
         NEW s, TakesOff(s, t), todo' = [todo EXCEPT ![a] = s],
         held' = [held EXCEPT ![a] = @ \ {t}],
         UNCHANGED <<task, zset, dead, agent, call, alive, environment>>
  PROVE  InOrder'
<1>1. a \in Callers /\ todo[a] = <<>>
  BY DEF Callers, MayCall, Idle
<1>2. /\ Pending(t) = {} /\ Holders(t) = {a} /\ a \in alive
      /\ task[t].status \in Busy /\ task[t].assignee = a /\ Len(dead[t]) = 0
      /\ t \in zset["processing"] /\ t \notin zset["priority"] /\ t \notin zset["scheduled"]
      /\ Takers(t) = {} /\ Givers(t) = {} /\ Wakers(t) = {} /\ Failers(t) = {} /\ Requeuers(t) = {}
  BY <1>1, HeldTask
<1>3. NoHands(t)'
  <2>1. Holders(t)' = {}
    <3>1. ASSUME NEW b \in Agents, t \in held'[b]
          PROVE  FALSE
      <4>1. b # a /\ t \in held[b]
        BY <3>1 DEF TypeOK
      <4> QED
        BY <1>2, <4>1 DEF Holders
    <3> QED
      BY <3>1 DEF Holders
  <2> QED
    BY <1>2, <2>1, SameHands DEF NoHands
<1>4. Theirs(a, task[t])'
  BY <1>2 DEF Theirs
<1>5. OfTask(t)'
  BY <1>1, <1>2, <1>3, <1>4, TakenOff
<1>6. \E W, add, rem, d : Does(s, t, W, add, rem, d)
  BY DEF TakesOff, Ends
<1>7. \A b \in Agents : held'[b] \subseteq held[b]
  BY DEF TypeOK
<1> QED
  BY <1>1, <1>2, <1>5, <1>6, <1>7, OnOneTask

LEMMA CompleteInOrder ==
  ASSUME TypeOK, TypeOK', InOrder, NEW a \in Agents, NEW t \in Tasks, CompleteTask(a, t)
  PROVE  InOrder'
<1> DEFINE r == [task[t] EXCEPT !.status = "completed"]
           s1 == <<SetTask(t, r), ZRem("processing", t)>>
           s2 == Unload(task[t].assignee)
<1>1. r.status = "completed" /\ r \in TaskRec /\ task[t].assignee \in Agents \cup {None}
  <2>1. task[t] \in TaskRec
    BY DEF TypeOK
  <2> QED
    BY <2>1 DEF TaskRec, Stored
<1>2. s1 \in Seq(Command)
  BY <1>1 DEF SetTask, ZRem, Command, Keys
<1>3. s2 \in Seq(Command) /\ Elsewhere(s2) /\ Plain(s2)
  BY <1>1, UnloadElsewhere
<1>4. Does(s1, t, {SetTask(t, r)}, {}, {"processing"}, 0)
  BY DoesComplete
<1>5. /\ t \in held[a] /\ MayCall(a) /\ todo' = [todo EXCEPT ![a] = s1 \o s2]
      /\ held' = [held EXCEPT ![a] = @ \ {t}]
      /\ UNCHANGED <<task, zset, dead, agent, call, alive, environment>>
  BY DEF CompleteTask, Issue, store, roster, bounds
<1> HIDE DEF r, s1, s2
<1>6. Does(s1 \o s2, t, {SetTask(t, r)}, {}, {"processing"}, 0)
  BY <1>2, <1>3, <1>4, DoesWith
<1>7. TakesOff(s1 \o s2, t)
  BY <1>1, <1>6 DEF TakesOff, Ends
<1> QED
  BY <1>5, <1>7, EndsInOrder

LEMMA FailInOrder ==
  ASSUME TypeOK, TypeOK', InOrder, NEW a \in Agents, NEW t \in Tasks, FailTask(a, t)
  PROVE  InOrder'
<1>1. /\ t \in held[a] /\ MayCall(a) /\ todo' = [todo EXCEPT ![a] = FailCommands(t)]
      /\ held' = [held EXCEPT ![a] = @ \ {t}]
      /\ UNCHANGED <<task, zset, dead, agent, call, alive, environment>>
  BY DEF FailTask, Issue, store, roster, bounds
<1> QED
  BY <1>1, FailEnds, EndsInOrder DEF TakesOff

\* An agent that works on a task writes its record back.
LEMMA WorksInOrder ==
  ASSUME TypeOK, TypeOK', InOrder, NEW a \in Agents, NEW t \in Tasks, t \in held[a], MayCall(a),
         NEW r \in TaskRec, r.assignee = task[t].assignee, r.status = task[t].status \/ r.status = "processing",
         todo' = [todo EXCEPT ![a] = <<SetTask(t, r)>>],
         UNCHANGED <<task, zset, dead, agent, call, alive, held, environment>>
  PROVE  InOrder'
<1> DEFINE s == <<SetTask(t, r)>>
<1>1. a \in Callers /\ todo[a] = <<>>
  BY DEF Callers, MayCall, Idle
<1>2. /\ Pending(t) = {} /\ Holders(t) = {a} /\ a \in alive
      /\ task[t].status \in Busy /\ task[t].assignee = a /\ Len(dead[t]) = 0
      /\ t \in zset["processing"] /\ t \notin zset["priority"] /\ t \notin zset["scheduled"]
      /\ Takers(t) = {} /\ Givers(t) = {} /\ Wakers(t) = {} /\ Failers(t) = {} /\ Requeuers(t) = {}
  BY <1>1, HeldTask
<1>3. Does(s, t, {SetTask(t, r)}, {}, {}, 0) /\ todo' = [todo EXCEPT ![a] = s]
  BY DoesWrite
<1> HIDE DEF s
<1>4. Issued(a, t, {SetTask(t, r)}, {}, {}, 0)
  BY <1>1, <1>2, <1>3, Issuing
<1>5. /\ Owners(t)' \subseteq {a} /\ Writes(Pending(t)') = {SetTask(t, r)} /\ Rec(t)' = r
      /\ \A k \in Keys : k \in In(t)' <=> t \in zset[k]
      /\ Died(t)' = 0 /\ \A m \in Pending(t)' : m.do # "dropDead"
  <2>1. Len(dead'[t]) = 0
    BY <1>2
  <2> QED
    BY <1>4, <2>1 DEF Issued
<1>6. r.status \in Busy /\ r.assignee = a /\ SetTask(t, r).rec = r
  BY <1>2 DEF Busy, SetTask
<1>7. /\ Failers(t)' = {} /\ Requeuers(t)' = {} /\ Holders(t)' = {a} /\ Givers(t)' = {}
      /\ Wakers(t)' = {} /\ Takers(t)' = {} /\ Serial' = Serial
  BY <1>2, SameHands
<1>8. Sound(t)'
  BY <1>2, <1>5, <1>6, <1>7 DEF Sound, Busy, Keys
<1>9. Steady(t)'
  BY <1>2, <1>5, <1>6 DEF Steady, AtMostOne, Busy
<1>10. InHand(t)'
  BY <1>2, <1>5, <1>6, <1>7 DEF InHand, With
<1>11. Theirs(a, task[t])' /\ Theirs(a, r)'
  BY <1>2, <1>6 DEF Theirs
<1>12. Still(t)'
  BY <1>2, <1>7 DEF Still
<1>13. Guarded(t)'
  BY <1>5, <1>6, <1>11 DEF Guarded, Theirs
<1>14. OfTask(t)'
  BY <1>8, <1>9, <1>10, <1>12, <1>13 DEF OfTask
<1>15. \A b \in Agents : held'[b] \subseteq held[b]
  OBVIOUS
<1> QED
  BY <1>1, <1>2, <1>3, <1>14, <1>15, OnOneTask

LEMMA StartInOrder ==
  ASSUME TypeOK, TypeOK', InOrder, NEW a \in Agents, NEW t \in Tasks, StartTask(a, t) \/ UpdateProgress(a, t)
  PROVE  InOrder'
<1>1. /\ t \in held[a] /\ MayCall(a)
      /\ UNCHANGED <<task, zset, dead, agent, call, alive, held, environment>>
  BY DEF StartTask, UpdateProgress, store, roster, world, bounds
<1>2. task[t] \in TaskRec
  BY DEF TypeOK
<1>3. CASE StartTask(a, t)
  <2> DEFINE r == [task[t] EXCEPT !.status = "processing"]
  <2>1. r \in TaskRec /\ r.assignee = task[t].assignee /\ r.status = "processing"
    BY <1>2 DEF TaskRec, Stored
  <2>2. todo' = [todo EXCEPT ![a] = <<SetTask(t, r)>>]
    BY <1>3 DEF StartTask, Issue
  <2> HIDE DEF r
  <2> QED
    BY <1>1, <2>1, <2>2, WorksInOrder
<1>4. CASE UpdateProgress(a, t)
  <2>1. todo' = [todo EXCEPT ![a] = <<SetTask(t, task[t])>>]
    BY <1>4 DEF UpdateProgress, Issue
  <2> QED
    BY <1>1, <1>2, <2>1, WorksInOrder
<1> QED
  BY <1>3, <1>4

-----------------------------------------------------------------------------
(* The local variables of the calls.                                       *)

\* A step that takes no task in hand and issues no command on one.
LEMMA Moves ==
  ASSUME TypeOK, TypeOK', InOrder, NEW c \in Callers, todo[c] = <<>>, MayCall(c) \/ ~Idle(c),
         NEW f, call' = [call EXCEPT ![c] = f],
         NEW s \in Seq(Command), Elsewhere(s), todo' = [todo EXCEPT ![c] = s],
         UNCHANGED <<task, zset, dead, agent, alive, held, environment>>,
         call[c].at # "fetch", f.at \notin {"fetch", "give", "wake", "fail", "requeue"},
         Known(c)', \A i \in DOMAIN s : True(s[i])
  PROVE  InOrder'
<1>1. \A u : Pending(u)' = Pending(u) /\ Owners(u)' = Owners(u)
  BY IssuingElsewhere
<1>2. ASSUME NEW u \in Tasks
      PROVE  OfTask(u)'
  <2>1. OfTask(u)
    BY DEF InOrder
  <2>2. /\ \A d : d \in Takers(u)' <=> (d \in Takers(u) /\ d # c)
        /\ \A d : d \in Givers(u)' <=> (d \in Givers(u) /\ d # c)
        /\ \A d : d \in Wakers(u)' <=> (d \in Wakers(u) /\ d # c)
        /\ \A d : d \in Failers(u)' <=> (d \in Failers(u) /\ d # c)
        /\ \A d : d \in Requeuers(u)' <=> (d \in Requeuers(u) /\ d # c)
        /\ \A d \in Callers : d # c => call'[d] = call[d]
    <3>1. Framed(c, f, u)
      BY Framing
    <3> QED
      BY <3>1 DEF Framed
  <2>3. c \notin Takers(u) /\ Holders(u)' = Holders(u)
    BY DEF Takers, Holders
  <2>4. /\ Takers(u)' = Takers(u) /\ Wakers(u)' \subseteq Wakers(u) /\ Failers(u)' \subseteq Failers(u)
        /\ Requeuers(u)' \subseteq Requeuers(u) /\ Givers(u)' \subseteq Givers(u)
        /\ \A d \in Callers : d \in Failers(u)' \cup Requeuers(u)' \cup Givers(u)' => call'[d].agent = call[d].agent
    BY <2>2, <2>3
  <2>5. Failers(u)' \cup Requeuers(u)' \cup Givers(u)' \subseteq Callers
    BY DEF Failers, Requeuers, Givers
  <2> QED
    BY <1>1, <2>1, <2>3, <2>4, <2>5, Aside
<1>3. Orderly(s)
  BY AllElsewhere
<1> QED
  BY <1>2, <1>3, Acts

\* The same for a step that issues no commands at all.
LEMMA Steps ==
  ASSUME TypeOK, TypeOK', InOrder, NEW c \in Callers, todo[c] = <<>>, MayCall(c) \/ ~Idle(c),
         NEW f, call' = [call EXCEPT ![c] = f],
         UNCHANGED <<todo, task, zset, dead, agent, alive, held, environment>>,
         call[c].at # "fetch", f.at \notin {"fetch", "give", "wake", "fail", "requeue"},
         Known(c)'
  PROVE  InOrder'
<1>1. <<>> \in Seq(Command) /\ todo' = [todo EXCEPT ![c] = <<>>]
  BY DEF TypeOK
<1>2. Elsewhere(<<>>) /\ \A i \in DOMAIN <<>> : True(<<>>[i])
  BY DEF Elsewhere
<1> QED
  BY <1>1, <1>2, Moves

LEMMA PollInOrder ==
  ASSUME TypeOK, TypeOK', InOrder, NEW c \in Callers,
         ClaimTask(c) \/ (c \in Agents /\ Dequeue(c))
  PROVE  InOrder'
<1>1. /\ MayCall(c) /\ todo[c] = <<>> /\ call[c].at = "none"
      /\ UNCHANGED <<todo, task, zset, dead, agent, alive, held, environment>>
  BY DEF ClaimTask, Dequeue, MayCall, Idle, NoCall, store, roster, world, bounds
<1>2. PICK S \in SUBSET Agents :
        /\ call' = [call EXCEPT ![c] = [at |-> "peek", pos |-> 1, among |-> S]]
        /\ \A a \in S : Registered(a)
  <2>1. CASE ClaimTask(c)
    <3>1. Available \in SUBSET Agents /\ \A a \in Available : Registered(a)
      BY DEF Available, Registered, TypeOK
    <3> QED
      BY <2>1, <3>1 DEF ClaimTask, Goto
  <2>2. CASE c \in Agents /\ Dequeue(c)
    <3>1. {c} \in SUBSET Agents /\ \A a \in {c} : Registered(a)
      BY <2>2 DEF Dequeue, Registered
    <3> QED
      BY <2>2, <3>1 DEF Dequeue, Goto
  <2> QED
    BY <2>1, <2>2
<1>3. call'[c] = [at |-> "peek", pos |-> 1, among |-> S]
  BY <1>2 DEF TypeOK
<1>4. Known(c)'
  BY <1>1, <1>2, <1>3 DEF Known, Registered
<1> QED
  BY <1>1, <1>2, <1>4, Steps

\* The next priority, or none.
LEMMA PassesInOrder ==
  ASSUME TypeOK, TypeOK', InOrder, NEW c \in Callers, todo[c] = <<>>, call[c].at \in {"peek", "take"},
         \/ NextPriority(c)
         \/ \E t \in Tasks : Goto(c, [at |-> "take", pos |-> call[c].pos, among |-> call[c].among, task |-> t]),
         UNCHANGED <<todo, task, zset, dead, agent, alive, held, environment>>
  PROVE  InOrder'
<1>1. ~Idle(c) /\ Known(c) /\ (Serial \/ \A a \in call[c].among : Registered(a))
  BY DEF Idle, NoCall, InOrder, OfCaller, Known
<1>2. Serial' = Serial /\ \A a : Registered(a)' <=> Registered(a)
  BY DEF Serial, Registered
<1>3. PICK f : /\ call' = [call EXCEPT ![c] = f]
               /\ f.at \in {"peek", "take", "none"} /\ (f.at # "none" => f.among = call[c].among)
  BY DEF NextPriority, Goto, Return, NoCall
<1>4. call'[c] = f
  BY <1>3 DEF TypeOK
<1>5. Known(c)'
  BY <1>1, <1>2, <1>3, <1>4 DEF Known
<1> QED
  BY <1>1, <1>3, <1>5, Steps

LEMMA PeekInOrder ==
  ASSUME TypeOK, TypeOK', InOrder, NEW c \in Callers, Peek(c)
  PROVE  InOrder'
<1>1. /\ todo[c] = <<>> /\ call[c].at = "peek"
      /\ UNCHANGED <<todo, task, zset, dead, agent, alive, held, environment>>
  BY DEF Peek, At, store, roster, world, bounds
<1>2. \/ NextPriority(c)
      \/ \E t \in Tasks : Goto(c, [at |-> "take", pos |-> call[c].pos, among |-> call[c].among, task |-> t])
  BY DEF Peek, TypeOK, Keys
<1> QED
  BY <1>1, <1>2, PassesInOrder

\* A popped id is of a pending task that nobody else has popped.
LEMMA PopInOrder ==
  ASSUME TypeOK, TypeOK', InOrder, NEW c \in Callers, Take(c),
         NEW t \in Tasks, t = call[c].task, t \in zset["priority"]
  PROVE  InOrder'
<1> DEFINE f == [at |-> "fetch", among |-> call[c].among, task |-> t]
           s == <<OnList("lrem", t)>>
<1>0. /\ todo[c] = <<>> /\ call[c].at = "take" /\ ~Idle(c)
      /\ UNCHANGED <<task, dead, agent, alive, held, environment>>
  BY DEF Take, At, Idle, NoCall, roster, world, bounds
<1>1. /\ zset' = [zset EXCEPT !["priority"] = @ \ {t}]
      /\ todo' = [todo EXCEPT ![c] = s] /\ call' = [call EXCEPT ![c] = f]
  BY DEF Take, Issue, Goto
<1>2. t \in Tasks /\ OfTask(t) /\ f.at = "fetch" /\ f.task = t
  <2>1. call[c] \in Call
    BY DEF TypeOK
  <2> QED
    BY <1>0, <2>1, Frames DEF InOrder
<1>3. s \in Seq(Command) /\ Elsewhere(s) /\ \A i \in DOMAIN s : True(s[i])
  BY <1>2 DEF OnList, Command, Elsewhere, OnKeys, True
<1>4. Known(c)'
  <2>1. call'[c] = f /\ f.among = call[c].among /\ Known(c)
    BY <1>1 DEF TypeOK, InOrder, OfCaller
  <2> QED
    BY <1>0, <1>2, <2>1 DEF Known, Registered, Serial
<1> HIDE DEF f, s
<1>5. \A u : Pending(u)' = Pending(u) /\ Owners(u)' = Owners(u)
  BY <1>0, <1>1, <1>3, IssuingElsewhere
<1>6. \A k \in Keys : \A u : u \in zset'[k] <=> (u \in zset[k] /\ ~(k = "priority" /\ u = t))
  BY <1>1 DEF TypeOK
<1>7. ASSUME NEW u \in Tasks
      PROVE  /\ \A d : d \in Takers(u)' <=> (d \in Takers(u) \/ (d = c /\ u = t))
             /\ Givers(u)' = Givers(u) /\ Wakers(u)' = Wakers(u)
             /\ Failers(u)' = Failers(u) /\ Requeuers(u)' = Requeuers(u) /\ Holders(u)' = Holders(u)
             /\ \A d \in Callers : d # c => call'[d] = call[d]
             /\ c \notin Failers(u) \cup Requeuers(u) \cup Givers(u)
  <2>1. /\ c \notin Takers(u) /\ c \notin Givers(u) /\ c \notin Wakers(u) /\ c \notin Failers(u)
        /\ c \notin Requeuers(u) /\ Holders(u)' = Holders(u)
    BY <1>0 DEF Takers, Givers, Wakers, Failers, Requeuers, Holders
  <2>2. /\ \A d : d \in Takers(u)' <=> (d \in Takers(u) /\ d # c) \/ (d = c /\ f.task = u)
        /\ \A d : d \in Givers(u)' <=> (d \in Givers(u) /\ d # c)
        /\ \A d : d \in Wakers(u)' <=> (d \in Wakers(u) /\ d # c)
        /\ \A d : d \in Failers(u)' <=> (d \in Failers(u) /\ d # c)
        /\ \A d : d \in Requeuers(u)' <=> (d \in Requeuers(u) /\ d # c)
        /\ \A d \in Callers : d # c => call'[d] = call[d]
    <3>1. Framed(c, f, u)
      BY <1>0, <1>1, Framing
    <3> QED
      BY <1>2, <3>1 DEF Framed
  <2> QED
    BY <1>2, <2>1, <2>2
<1>8. ASSUME NEW u \in Tasks, u # t
      PROVE  OfTask(u)'
  <2>1. OfTask(u) /\ Takers(u)' = Takers(u)
    BY <1>7, <1>8 DEF InOrder
  <2>2. \A d \in Failers(u)' \cup Requeuers(u)' \cup Givers(u)' : call'[d].agent = call[d].agent
    BY <1>7 DEF Failers, Requeuers, Givers
  <2>3. \A k \in Keys : u \in zset'[k] <=> u \in zset[k]
    BY <1>6, <1>8
  <2> QED
    BY <1>0, <1>5, <1>7, <2>1, <2>2, <2>3, Aside
<1>9. Pending(t) = {}
  <2>1. CASE Serial
    BY <1>0, <1>2, <2>1, Reads DEF InOrder
  <2>2. CASE ~Serial
    BY <1>2, <2>2 DEF OfTask, Still
  <2> QED
    BY <2>1, <2>2
<1>10. /\ Rec(t) = task[t] /\ Died(t) = Len(dead[t]) /\ \A k \in Keys : k \in In(t) <=> t \in zset[k]
  BY <1>2, <1>9, Unissued
<1>11. /\ Rec(t)' = task'[t] /\ Died(t)' = Len(dead'[t]) /\ Pending(t)' = {} /\ Owners(t)' = {}
       /\ \A k \in Keys : k \in In(t)' <=> t \in zset'[k]
  BY <1>2, <1>5, <1>9, UnissuedNext
<1>12. /\ Rec(t).status = "pending" /\ Takers(t) = {} /\ "priority" \in In(t)
  BY <1>2, <1>9, <1>10 DEF OfTask, Sound, Keys
<1>13. /\ Failers(t) = {} /\ Requeuers(t) = {} /\ Holders(t) = {} /\ Givers(t) = {} /\ Wakers(t) = {}
       /\ "scheduled" \notin In(t) /\ Died(t) = 0
  BY <1>2, <1>12, Free DEF Busy, OfTask, Sound
<1>14. /\ Failers(t)' = {} /\ Requeuers(t)' = {} /\ Holders(t)' = {} /\ Givers(t)' = {} /\ Wakers(t)' = {}
       /\ Takers(t)' = {c}
  BY <1>2, <1>7, <1>12, <1>13
<1>15. Rec(t)' = Rec(t) /\ Died(t)' = Died(t) /\ Serial' = Serial
       /\ \A k \in Keys : k \in In(t)' <=> (k \in In(t) /\ k # "priority")
  BY <1>0, <1>6, <1>10, <1>11 DEF Serial
<1>16. Sound(t)'
  BY <1>12, <1>13, <1>14, <1>15 DEF Sound, Busy, Keys, AtMostOne
<1>17. Steady(t)'
  BY <1>0, <1>2, <1>5 DEF OfTask, Steady
<1>18. InHand(t)'
  BY <1>14 DEF InHand
<1>19. ASSUME ~Serial
       PROVE  Still(t)' /\ Guarded(t)'
  <2>1. Guarded(t)
    BY <1>2, <1>19 DEF OfTask
  <2> QED
    BY <1>11, <1>15, <2>1 DEF Still, Guarded, Keys
<1>20. OfTask(t)'
  BY <1>15, <1>16, <1>17, <1>18, <1>19 DEF OfTask
<1>21. Orderly(s)
  BY <1>3, AllElsewhere
<1> QED
  BY <1>0, <1>1, <1>3, <1>4, <1>8, <1>20, <1>21, Acts

LEMMA TakeInOrder ==
  ASSUME TypeOK, TypeOK', InOrder, NEW c \in Callers, Take(c)
  PROVE  InOrder'
<1>1. /\ todo[c] = <<>> /\ call[c].at = "take"
      /\ UNCHANGED <<task, dead, agent, alive, held, environment>>
  BY DEF Take, At, roster, world, bounds
<1>2. CASE call[c].task \notin zset["priority"]
  BY <1>1, <1>2, PassesInOrder DEF Take
<1>3. CASE call[c].task \in zset["priority"]
  <2>1. call[c].task \in Tasks
    BY <1>1, Frames DEF TypeOK
  <2> QED
    BY <1>3, <2>1, PopInOrder
<1> QED
  BY <1>2, <1>3

\* A call that issues commands for one of its tasks t.
LEMMA Handles ==
  ASSUME TypeOK, TypeOK', InOrder, NEW c \in Callers, todo[c] = <<>>, ~Idle(c),
         NEW t \in Tasks, Pending(t) = {},
         NEW s, NEW W, NEW add, NEW rem, NEW d, Does(s, t, W, add, rem, d),
         todo' = [todo EXCEPT ![c] = s],
         NEW f, call' = [call EXCEPT ![c] = f],
         UNCHANGED <<task, zset, dead, agent, alive, held, environment>>,
         \A u \in Tasks : u # t =>
           /\ c \notin Takers(u) /\ c \notin Takers(u)' /\ c \notin Givers(u)'
           /\ c \in Wakers(u)' => c \in Wakers(u)
           /\ c \in Failers(u)' => c \in Failers(u) /\ f.agent = call[c].agent
           /\ c \in Requeuers(u)' => c \in Requeuers(u) /\ f.agent = call[c].agent,
         Known(c)', OfTask(t)'
  PROVE  InOrder'
<1>1. \A u : u # t => Pending(u)' = Pending(u) /\ Owners(u)' = Owners(u)
  BY Issuing
<1>2. ASSUME NEW u \in Tasks, u # t
      PROVE  OfTask(u)'
  <2>1. OfTask(u) /\ Framed(c, f, u)
    BY Framing DEF InOrder
  <2>0. /\ c \notin Takers(u) /\ c \notin Takers(u)' /\ c \notin Givers(u)'
        /\ c \in Wakers(u)' => c \in Wakers(u)
        /\ c \in Failers(u)' => c \in Failers(u)
        /\ c \in Requeuers(u)' => c \in Requeuers(u)
    BY <1>2
  <2>2. /\ Takers(u)' = Takers(u) /\ Wakers(u)' \subseteq Wakers(u) /\ Failers(u)' \subseteq Failers(u)
        /\ Requeuers(u)' \subseteq Requeuers(u) /\ Givers(u)' \subseteq Givers(u)
    <3>1. \A x : x # c => /\ x \in Takers(u)' <=> x \in Takers(u)
                          /\ x \in Wakers(u)' => x \in Wakers(u)
                          /\ x \in Failers(u)' => x \in Failers(u)
                          /\ x \in Requeuers(u)' => x \in Requeuers(u)
                          /\ x \in Givers(u)' => x \in Givers(u)
      BY <2>1 DEF Framed
    <3>2. \A x : /\ x \in Takers(u)' <=> x \in Takers(u)
                 /\ x \in Wakers(u)' => x \in Wakers(u)
                 /\ x \in Failers(u)' => x \in Failers(u)
                 /\ x \in Requeuers(u)' => x \in Requeuers(u)
                 /\ x \in Givers(u)' => x \in Givers(u)
      <4> SUFFICES ASSUME NEW x
                   PROVE  /\ x \in Takers(u)' <=> x \in Takers(u)
                          /\ x \in Wakers(u)' => x \in Wakers(u)
                          /\ x \in Failers(u)' => x \in Failers(u)
                          /\ x \in Requeuers(u)' => x \in Requeuers(u)
                          /\ x \in Givers(u)' => x \in Givers(u)
        OBVIOUS
      <4> QED
        BY <2>0, <3>1, x = c \/ x # c
    <3>3. Takers(u)' = Takers(u)
      BY <3>2
    <3> QED
      BY <3>2, <3>3
  <2>3. \A x \in Failers(u)' \cup Requeuers(u)' \cup Givers(u)' : call'[x].agent = call[x].agent
    <3>1. Failers(u)' \cup Requeuers(u)' \cup Givers(u)' \subseteq Callers
      BY DEF Failers, Requeuers, Givers
    <3> QED
      BY <1>2, <2>1, <3>1 DEF Framed
  <2>4. Holders(u)' = Holders(u)
    BY DEF Holders
  <2> QED
    BY <1>1, <1>2, <2>1, <2>2, <2>3, <2>4, Aside
<1>3. Orderly(s) /\ \A i \in DOMAIN s : True(s[i])
  BY PlainTrue DEF Does
<1> QED
  BY <1>2, <1>3, Acts

\* The assignment of a popped task.
LEMMA AssignInOrder ==
  ASSUME TypeOK, TypeOK', InOrder, NEW c \in Callers, Fetch(c),
         NEW t \in Tasks, t = call[c].task, Pending(t) = {},
         NEW a \in call[c].among,
         todo' = [todo EXCEPT ![c] = <<SetTask(t, [task[t] EXCEPT !.status = "assigned", !.assignee = a]),
                                       ZAdd("processing", t), AddLoad(a, 1)>>],
         call' = [call EXCEPT ![c] = [at |-> "give", agent |-> a, task |-> t]]
  PROVE  InOrder'
<1> DEFINE f == [at |-> "give", agent |-> a, task |-> t]
           r == [task[t] EXCEPT !.status = "assigned", !.assignee = a]
           s == <<SetTask(t, r), ZAdd("processing", t), AddLoad(a, 1)>>
<1>1. /\ todo[c] = <<>> /\ call[c].at = "fetch" /\ ~Idle(c) /\ c \in Takers(t) /\ OfTask(t)
      /\ UNCHANGED <<task, zset, dead, agent, alive, held, environment>>
  <2>1. At(c, "fetch") /\ UNCHANGED <<store, roster, world, bounds>>
    BY DEF Fetch
  <2> QED
    BY <2>1 DEF At, Idle, NoCall, InOrder, store, roster, world, bounds, Takers
<1>2. a \in Agents /\ (Serial \/ Registered(a))
  <2>1. call[c].among \subseteq Agents
    BY <1>1, Frames DEF TypeOK
  <2>2. Known(c)
    BY DEF InOrder, OfCaller
  <2> QED
    BY <1>1, <2>1, <2>2 DEF Known
<1>3. r.status = "assigned" /\ r.assignee = a /\ SetTask(t, r).rec = r
  BY DEF TypeOK, TaskRec, SetTask
<1>4. Does(s, t, {SetTask(t, r)}, {"processing"}, {}, 0) /\ todo' = [todo EXCEPT ![c] = s]
  BY DoesAssign
<1>5. f.at = "give" /\ f.agent = a /\ f.task = t /\ call' = [call EXCEPT ![c] = f]
  OBVIOUS
<1> HIDE DEF f, r, s
<1>6. \A u : Framed(c, f, u)
  BY <1>1, <1>5, Framing
<1>7. Known(c)'
  <2>1. call'[c] = f
    BY <1>6 DEF Framed
  <2> QED
    BY <1>1, <1>2, <1>5, <2>1 DEF Known, Registered, Serial
<1>8. /\ Rec(t) = task[t] /\ Died(t) = Len(dead[t]) /\ \A k \in Keys : k \in In(t) <=> t \in zset[k]
  BY <1>1, Unissued
<1>9. /\ Rec(t).status = "pending" /\ Takers(t) = {c} /\ "priority" \notin In(t)
  BY <1>1 DEF OfTask, Sound, AtMostOne
<1>10. /\ Failers(t) = {} /\ Requeuers(t) = {} /\ Holders(t) = {} /\ Givers(t) = {} /\ Wakers(t) = {}
       /\ "scheduled" \notin In(t) /\ Died(t) = 0
  BY <1>1, <1>9, Free DEF Busy, OfTask, Sound
<1>11. Issued(c, t, {SetTask(t, r)}, {"processing"}, {}, 0)
  BY <1>1, <1>4, Issuing
<1>12. /\ Owners(t)' \subseteq {c} /\ Writes(Pending(t)') = {SetTask(t, r)} /\ Rec(t)' = r
       /\ \A k \in Keys : k \in In(t)' <=> (k = "processing" \/ k \in In(t))
       /\ Died(t)' = 0 /\ \A m \in Pending(t)' : m.do # "dropDead"
  <2>1. Len(dead'[t]) = 0
    BY <1>1, <1>8, <1>10
  <2> QED
    BY <1>1, <1>8, <1>11, <2>1 DEF Issued
<1>13. /\ Failers(t)' = {} /\ Requeuers(t)' = {} /\ Holders(t)' = {} /\ Givers(t)' \subseteq {c} /\ Wakers(t)' = {}
       /\ Takers(t)' = {} /\ call'[c] = f /\ Serial' = Serial
  <2>1. Holders(t)' = Holders(t) /\ Serial' = Serial
    BY <1>1 DEF Holders, Serial
  <2>2. Framed(c, f, t)
    BY <1>6
  <2> QED
    BY <1>5, <1>9, <1>10, <2>1, <2>2 DEF Framed
<1>14. Sound(t)'
  BY <1>3, <1>9, <1>10, <1>12, <1>13 DEF Sound, Busy, Keys
<1>15. Steady(t)'
  BY <1>1, <1>3, <1>8, <1>9, <1>12 DEF Steady, AtMostOne
<1>16. InHand(t)'
  BY <1>3, <1>5, <1>12, <1>13 DEF InHand, With, Busy
<1>17. ASSUME ~Serial
       PROVE  Still(t)' /\ Guarded(t)'
  <2>1. t \notin zset["priority"] /\ t \notin zset["processing"]
    <3>1. "processing" \notin In(t)
      BY <1>1, <1>9, <1>17 DEF OfTask, Guarded, Busy
    <3> QED
      BY <1>8, <1>9, <3>1 DEF Keys
  <2> QED
    BY <1>1, <1>3, <1>12, <1>13, <2>1 DEF Still, Guarded, Busy
<1>18. OfTask(t)'
  BY <1>13, <1>14, <1>15, <1>16, <1>17 DEF OfTask
<1>19. ASSUME NEW u \in Tasks, u # t
       PROVE  /\ c \notin Takers(u) /\ c \notin Takers(u)' /\ c \notin Givers(u)'
              /\ c \notin Wakers(u)' /\ c \notin Failers(u)' /\ c \notin Requeuers(u)'
  <2>1. Framed(c, f, u) /\ c \notin Takers(u)
    BY <1>6, <1>19 DEF Takers
  <2> QED
    BY <1>5, <1>19, <2>1 DEF Framed
<1> QED
  BY <1>1, <1>4, <1>5, <1>7, <1>18, <1>19, Handles

LEMMA FetchInOrder ==
  ASSUME TypeOK, TypeOK', InOrder, NEW c \in Callers, Fetch(c)
  PROVE  InOrder'
<1> DEFINE u == call[c].task
<1>1. /\ todo[c] = <<>> /\ call[c].at = "fetch" /\ ~Idle(c) /\ u \in Tasks
  <2>1. At(c, "fetch") /\ call[c] \in Call
    BY DEF Fetch, TypeOK
  <2> QED
    BY <2>1, Frames DEF At, Idle, NoCall
<1>2. PICK t \in Tasks : t = u
  BY <1>1
<1>3. OfTask(t) /\ c \in Takers(t)
  BY <1>1, <1>2 DEF InOrder, Takers
<1>4. Pending(t) = {}
  <2>1. CASE Serial
    BY <1>1, <2>1, Reads DEF InOrder
  <2>2. CASE ~Serial
    BY <1>3, <2>2 DEF OfTask, Still
  <2> QED
    BY <2>1, <2>2
<1>5. task[t].status = "pending"
  BY <1>3, <1>4, Unissued DEF OfTask, Sound
<1> QED
  BY <1>2, <1>4, <1>5, AssignInOrder DEF Fetch, Issue, Goto

\* The agent that runs takes the task in hand.
LEMMA GiveInOrder ==
  ASSUME TypeOK, TypeOK', InOrder, NEW c \in Callers, Give(c)
  PROVE  InOrder'
<1>1. PICK a \in Agents, t \in Tasks : a = call[c].agent /\ t = call[c].task
  BY Frames DEF Give, At, TypeOK
<1>2. /\ todo[c] = <<>> /\ call[c].at = "give" /\ ~Idle(c) /\ call' = [call EXCEPT ![c] = NoCall]
      /\ UNCHANGED <<todo, task, zset, dead, agent, alive, environment>>
      /\ held' = IF a \in alive THEN [held EXCEPT ![a] = @ \cup {t}] ELSE held
  BY <1>1 DEF Give, At, Idle, NoCall, Return, Goto, store, roster
<1>3. NoCall.at = "none"
  BY DEF NoCall
<1>4. \A u : Pending(u)' = Pending(u) /\ Owners(u)' = Owners(u)
  BY <1>2 DEF Pending, Owners
<1>5. ASSUME NEW u \in Tasks
      PROVE  /\ \A d : d \in Takers(u)' <=> d \in Takers(u)
             /\ \A d : d \in Givers(u)' <=> d \in Givers(u) /\ d # c
             /\ Wakers(u)' = Wakers(u) /\ Failers(u)' = Failers(u) /\ Requeuers(u)' = Requeuers(u)
             /\ \A d \in Failers(u) \cup Requeuers(u) \cup Givers(u)' : call'[d].agent = call[d].agent
  <2>1. Framed(c, NoCall, u)
    BY <1>2, Framing
  <2>2. c \notin Takers(u) /\ c \notin Wakers(u) /\ c \notin Failers(u) /\ c \notin Requeuers(u)
    BY <1>2 DEF Takers, Wakers, Failers, Requeuers
  <2>3. Failers(u) \cup Requeuers(u) \cup Givers(u)' \subseteq Callers
    BY DEF Failers, Requeuers, Givers
  <2> QED
    BY <1>3, <2>1, <2>2, <2>3 DEF Framed
<1>6. ASSUME NEW u \in Tasks, u # t \/ a \notin alive
      PROVE  OfTask(u)'
  <2>1. Holders(u)' = Holders(u)
    BY <1>2, <1>6 DEF Holders, TypeOK
  <2>2. OfTask(u)
    BY DEF InOrder
  <2> QED
    BY <1>2, <1>4, <1>5, <2>1, <2>2, Aside
<1>7. ASSUME a \in alive
      PROVE  OfTask(t)'
  <2>1. OfTask(t) /\ c \in Givers(t)
    BY <1>1, <1>2, <1>7 DEF InOrder, Givers
  <2>2. With(t, a) /\ Owners(t) \subseteq {c} /\ Holders(t) = {} /\ Givers(t) = {c}
    BY <1>1, <2>1 DEF OfTask, InHand
  <2>3. Pending(t) = {} /\ Owners(t) = {}
    BY <1>2, <2>2, PendingOf, AheadNone DEF Owners
  <2>4. Holders(t)' = {a}
    BY <1>2, <1>7, <2>2 DEF Holders, TypeOK
  <2>5. Givers(t)' = {} /\ Takers(t)' = Takers(t)
    BY <1>5, <2>2
  <2>6. /\ Rec(t)' = Rec(t) /\ In(t)' = In(t) /\ Died(t)' = Died(t) /\ Serial' = Serial
        /\ \A b : With(t, b)' <=> With(t, b)
    <3>1. Where(t)' = Where(t)
      BY <1>2 DEF Where
    <3> QED
      BY <1>2, <1>4, <3>1 DEF Rec, In, Died, Serial, With
  <2>7. Sound(t)'
    BY <2>1, <2>5, <2>6 DEF OfTask, Sound
  <2>8. Steady(t)'
    BY <1>2, <1>4, <2>1 DEF OfTask, Steady
  <2>9. InHand(t)'
    <3>1. \A d \in Failers(t) \cup Requeuers(t) : With(t, call[d].agent) /\ call'[d].agent = call[d].agent
      BY <1>5, <2>1 DEF OfTask, InHand
    <3>2. \A d \in Failers(t)' \cup Requeuers(t)' : With(t, call'[d].agent)
      BY <1>5, <3>1
    <3>3. \A b : With(t, b) => Rec(t)'.status \in Busy /\ Rec(t)'.assignee = b /\ Died(t)' = 0
      BY <2>6 DEF With
    <3> QED
      BY <1>2, <1>4, <1>5, <1>7, <2>1, <2>2, <2>3, <2>4, <2>5, <2>6, <3>2, <3>3 DEF OfTask, InHand, With
  <2>10. ASSUME ~Serial
         PROVE  Still(t)' /\ Guarded(t)'
    BY <1>2, <1>4, <1>5, <2>1, <2>3, <2>5, <2>6, <2>10 DEF OfTask, Still, Guarded
  <2> QED
    BY <2>6, <2>7, <2>8, <2>9, <2>10 DEF OfTask
<1>8. \A u \in Tasks : OfTask(u)'
  BY <1>6, <1>7
<1>9. Known(c)'
  <2>1. call'[c] = NoCall
    BY <1>2 DEF TypeOK
  <2> QED
    BY <1>3, <2>1 DEF Known
<1>10. <<>> \in Seq(Command) /\ todo' = [todo EXCEPT ![c] = <<>>]
  BY <1>2 DEF TypeOK
<1>11. Elsewhere(<<>>) /\ \A i \in DOMAIN <<>> : True(<<>>[i])
  BY DEF Elsewhere
<1> QED
  BY <1>2, <1>8, <1>9, <1>10, <1>11, AllElsewhere, Acts

-----------------------------------------------------------------------------
(* The timers.                                                             *)

\* A loop starts on tasks on which no commands are issued.
LEMMA Enters ==
  ASSUME TypeOK, TypeOK', InOrder, NEW c \in Callers, todo[c] = <<>>, MayCall(c) \/ ~Idle(c),
         call[c].at \in {"none", "sweep"},
         NEW f, call' = [call EXCEPT ![c] = f], f.at \in {"wake", "fail"},
         UNCHANGED <<todo, task, zset, dead, agent, alive, held, environment>>,
         \A u \in Tasks :
           /\ f.at = "wake" /\ u \in f.due => Pending(u) = {} /\ u \in zset["scheduled"]
           /\ f.at = "fail" /\ u \in f.tasks => Pending(u) = {} /\ With(u, f.agent),
         Known(c)'
  PROVE  InOrder'
<1>1. \A u : Pending(u)' = Pending(u) /\ Owners(u)' = Owners(u)
  BY DEF Pending, Owners
<1>2. \A u : /\ Rec(u)' = Rec(u) /\ In(u)' = In(u) /\ Died(u)' = Died(u) /\ Serial' = Serial
             /\ Holders(u)' = Holders(u)
             /\ \A b : With(u, b)' <=> With(u, b)
  <2>1. \A u : Where(u)' = Where(u)
    BY DEF Where
  <2> QED
    BY <1>1, <2>1 DEF Rec, In, Died, Serial, With, Holders
<1>3. ASSUME NEW u \in Tasks
      PROVE  OfTask(u)'
  <2>1. OfTask(u) /\ Framed(c, f, u)
    BY Framing DEF InOrder
  <2>2. c \notin Takers(u) /\ c \notin Givers(u) /\ c \notin Wakers(u) /\ c \notin Failers(u) /\ c \notin Requeuers(u)
    BY DEF Takers, Givers, Wakers, Failers, Requeuers
  <2>3. /\ \A x : x \in Takers(u)' <=> x \in Takers(u)
        /\ \A x : x \in Givers(u)' <=> x \in Givers(u)
        /\ \A x : x \in Requeuers(u)' <=> x \in Requeuers(u)
        /\ \A x : x \in Wakers(u)' <=> x \in Wakers(u) \/ (x = c /\ f.at = "wake" /\ u \in f.due)
        /\ \A x : x \in Failers(u)' <=> x \in Failers(u) \/ (x = c /\ f.at = "fail" /\ u \in f.tasks)
        /\ call'[c] = f /\ \A d \in Callers : d # c => call'[d] = call[d]
    BY <2>1, <2>2 DEF Framed
  <2>4. Takers(u)' = Takers(u) /\ Givers(u)' = Givers(u) /\ Requeuers(u)' = Requeuers(u)
    BY <2>3
  <2>5. CASE f.at = "wake" /\ u \in f.due
    <3>1. Pending(u) = {} /\ Rec(u).status = "scheduled"
      <4>1. Pending(u) = {} /\ "scheduled" \in In(u)
        BY <2>5, Unissued DEF Keys
      <4> QED
        BY <2>1, <4>1 DEF OfTask, Sound
    <3>2. Failers(u) = {} /\ Requeuers(u) = {} /\ Givers(u) = {} /\ Failers(u)' = {} /\ Holders(u) = {}
      <4>1. Rec(u).status \notin Busy
        BY <3>1 DEF Busy
      <4> QED
        BY <2>1, <2>3, <2>5, <4>1, Free
    <3>3. Sound(u)' /\ Steady(u)'
      BY <1>1, <1>2, <2>1, <2>4 DEF OfTask, Sound, Steady
    <3>4. InHand(u)'
      BY <1>2, <2>4, <3>1, <3>2 DEF InHand
    <3>5. ~Serial => Still(u)' /\ Guarded(u)'
      BY <1>1, <1>2, <2>1, <3>1 DEF OfTask, Still, Guarded, Owners, Pending
    <3> QED
      BY <1>2, <3>3, <3>4, <3>5 DEF OfTask
  <2>6. CASE f.at = "fail" /\ u \in f.tasks
    <3>1. Pending(u) = {} /\ With(u, f.agent)
      BY <2>6
    <3>2. Wakers(u)' = Wakers(u) /\ Owners(u) = {}
      BY <2>3, <2>6, <3>1, PendingOf
    <3>3. Sound(u)' /\ Steady(u)'
      BY <1>1, <1>2, <2>1, <2>4 DEF OfTask, Sound, Steady
    <3>4. InHand(u)'
      <4>1. \A d \in Failers(u)' \cup Requeuers(u)' : With(u, call'[d].agent)
        <5>1. Failers(u) \cup Requeuers(u) \subseteq Callers
          BY DEF Failers, Requeuers
        <5> QED
          BY <2>1, <2>3, <2>4, <3>1, <5>1 DEF OfTask, InHand
      <4>2. \A d \in Givers(u) : call'[d].agent = call[d].agent
        BY <2>2, <2>3 DEF Givers
      <4>3. \A b : With(u, b) => Rec(u)'.status \in Busy /\ Rec(u)'.assignee = b /\ Died(u)' = 0
        BY <1>2 DEF With
      <4> QED
        BY <1>1, <1>2, <2>1, <2>4, <3>2, <4>1, <4>2, <4>3 DEF OfTask, InHand, With
    <3>5. ~Serial => Still(u)' /\ Guarded(u)'
      <4>1. Owners(u)' = {} /\ Pending(u)' = {}
        BY <1>1, <3>1, <3>2
      <4> QED
        BY <1>2, <2>1, <4>1 DEF OfTask, Still, Guarded
    <3> QED
      BY <1>2, <3>3, <3>4, <3>5 DEF OfTask
  <2>7. CASE ~(f.at = "wake" /\ u \in f.due) /\ ~(f.at = "fail" /\ u \in f.tasks)
    <3>1. Wakers(u)' = Wakers(u) /\ Failers(u)' = Failers(u)
      BY <2>3, <2>7
    <3>2. \A d \in Failers(u)' \cup Requeuers(u)' \cup Givers(u)' : call'[d].agent = call[d].agent
      <4>1. Failers(u) \cup Requeuers(u) \cup Givers(u) \subseteq Callers
        BY DEF Failers, Requeuers, Givers
      <4> QED
        BY <2>2, <2>3, <2>4, <3>1, <4>1
    <3> QED
      BY <1>1, <1>2, <2>1, <2>4, <3>1, <3>2, Aside
  <2> QED
    BY <2>5, <2>6, <2>7
<1>4. <<>> \in Seq(Command) /\ todo' = [todo EXCEPT ![c] = <<>>]
  BY DEF TypeOK
<1>5. Elsewhere(<<>>) /\ \A i \in DOMAIN <<>> : True(<<>>[i])
  BY DEF Elsewhere
<1> QED
  BY <1>3, <1>4, <1>5, AllElsewhere, Acts

LEMMA ScheduleInOrder ==
  ASSUME TypeOK, TypeOK', InOrder, Careful(environment), NEW c \in Callers, ProcessScheduledTasks(c)
  PROVE  InOrder'
<1>1. /\ MayCall(c) /\ todo[c] = <<>> /\ call[c].at = "none" /\ c \in Ticks
      /\ UNCHANGED <<todo, task, zset, dead, agent, alive, held, environment>>
  BY DEF ProcessScheduledTasks, MayCall, Idle, NoCall, store, roster, world, bounds
<1>2. PICK due \in SUBSET zset["scheduled"] :
        /\ \A t \in due : ~Touched(t)
        /\ call' = [call EXCEPT ![c] = [at |-> "wake", due |-> due]]
  BY DEF ProcessScheduledTasks, Goto, Careful, Timely
<1> DEFINE f == [at |-> "wake", due |-> due]
<1>3. f.at = "wake" /\ f.due = due /\ call' = [call EXCEPT ![c] = f]
  BY <1>2
<1> HIDE DEF f
<1>4. call'[c] = f
  BY <1>3 DEF TypeOK
<1>5. Known(c)'
  BY <1>1, <1>3, <1>4 DEF Known
<1>6. \A u \in Tasks : u \in f.due => Pending(u) = {} /\ u \in zset["scheduled"]
  BY <1>2, <1>3, Untouched DEF InOrder
<1> QED
  BY <1>1, <1>3, <1>5, <1>6, Enters

\* The agents that are late do not run.
LEMMA LateInOrder ==
  ASSUME TypeOK, TypeOK', InOrder, NEW c \in Callers, CheckAgentHeartbeats(c)
  PROVE  InOrder'
<1>1. /\ MayCall(c) /\ todo[c] = <<>> /\ call[c].at = "none" /\ c \in Ticks
      /\ UNCHANGED <<todo, task, zset, dead, agent, alive, held, environment>>
  BY DEF CheckAgentHeartbeats, MayCall, Idle, NoCall, store, roster, world, bounds
<1> DEFINE late == [a \in Agents |-> IF a \in Late THEN agent[a] ELSE NoAgent]
           f == [at |-> "sweep", late |-> late]
<1>2. call' = [call EXCEPT ![c] = f]
  BY DEF CheckAgentHeartbeats, Goto
<1>3. f.at = "sweep" /\ f.late = late
  OBVIOUS
<1>4. \A a \in Agents : late[a] # NoAgent => a \notin alive /\ late[a].status # "none" /\ Registered(a)
  BY DEF Late, InOrder, OfAgent, Registered
<1> HIDE DEF f, late
<1>5. call'[c] = f
  BY <1>2 DEF TypeOK
<1>6. Known(c)'
  BY <1>1, <1>3, <1>4, <1>5 DEF Known, Registered
<1> QED
  BY <1>1, <1>2, <1>3, <1>6, Steps

\* The tasks of an agent that does not run are its own until the sweep takes
\* them: nobody else issues commands on them.
LEMMA SweepInOrder ==
  ASSUME TypeOK, TypeOK', InOrder, Careful(environment), NEW c \in Callers, Sweep(c)
  PROVE  InOrder'
<1>1. /\ todo[c] = <<>> /\ call[c].at = "sweep" /\ ~Idle(c) /\ Known(c)
      /\ UNCHANGED <<todo, task, zset, dead, agent, alive, held, environment>>
  BY DEF Sweep, At, Idle, NoCall, InOrder, OfCaller, store, roster, world, bounds
<1>2. PICK a \in Agents :
        /\ call[c].late[a] # NoAgent
        /\ call' = [call EXCEPT ![c] = [at |-> "fail", late |-> call[c].late, agent |-> a, tasks |-> AgentTasks(a)]]
  BY DEF Sweep, Goto
<1>3. c \in Ticks /\ a \notin alive
  BY <1>1, <1>2 DEF Known
<1> DEFINE f == [at |-> "fail", late |-> call[c].late, agent |-> a, tasks |-> AgentTasks(a)]
<1>4. /\ f.at = "fail" /\ f.late = call[c].late /\ f.agent = a /\ f.tasks = AgentTasks(a)
      /\ call' = [call EXCEPT ![c] = f]
  BY <1>2
<1> HIDE DEF f
<1>5. call'[c] = f
  BY <1>4 DEF TypeOK
<1>6. Known(c)'
  BY <1>1, <1>2, <1>4, <1>5 DEF Known, Registered, Serial
<1>7. ASSUME NEW u \in Tasks, u \in f.tasks
      PROVE  Pending(u) = {} /\ With(u, f.agent)
  <2>1. /\ OfTask(u) /\ u \in zset["processing"] /\ task[u].assignee = a /\ task[u].status \in Busy
    BY <1>4, <1>7 DEF AgentTasks, Busy, InOrder
  <2>2. Pending(u) = {}
    <3>1. CASE Serial
      BY <1>1, <3>1, Reads DEF InOrder
    <3>2. CASE ~Serial
      <4>1. AtMostOne(Ticks)
        BY <3>2 DEF Careful, Serial
      <4>2. ASSUME NEW d \in Owners(u)
            PROVE  FALSE
        <5>1. Theirs(d, task[u])
          BY <2>1, <3>2 DEF OfTask, Guarded
        <5>2. d # c
          BY <1>1, AheadNone DEF Owners
        <5> QED
          BY <1>3, <2>1, <4>1, <5>1, <5>2 DEF Theirs, AtMostOne
      <4> QED
        BY <4>2, PendingOf
    <3> QED
      BY <3>1, <3>2
  <2>3. Rec(u) = task[u] /\ "processing" \in In(u)
    BY <2>1, <2>2, Unissued DEF Keys
  <2>4. Died(u) = 0
    BY <2>1, <2>3 DEF OfTask, Sound
  <2> QED
    BY <1>4, <2>1, <2>2, <2>3, <2>4 DEF With
<1> QED
  BY <1>1, <1>4, <1>6, <1>7, Enters

\* A due task is pending again.
LEMMA WakesInOrder ==
  ASSUME TypeOK, TypeOK', InOrder, Careful(environment), NEW c \in Callers, At(c, "wake"),
         NEW t \in Tasks, t \in call[c].due,
         UNCHANGED <<store, roster, world, bounds>>,
         todo' = [todo EXCEPT ![c] = <<ZRem("scheduled", t), SetTask(t, [task[t] EXCEPT !.status = "pending"])>>
                                     \o EnqueuePending(t)],
         NEW f, call' = [call EXCEPT ![c] = f],
         f = NoCall \/ f = [at |-> "wake", due |-> call[c].due \ {t}]
  PROVE  InOrder'
<1> DEFINE r == [task[t] EXCEPT !.status = "pending"]
           s == <<ZRem("scheduled", t), SetTask(t, r)>> \o EnqueuePending(t)
<1>1. /\ todo[c] = <<>> /\ call[c].at = "wake" /\ ~Idle(c) /\ c \in Wakers(t) /\ OfTask(t) /\ Known(c)
      /\ UNCHANGED <<task, zset, dead, agent, alive, held, environment>>
  BY DEF At, Idle, NoCall, InOrder, OfCaller, Wakers, store, roster, world, bounds
<1>2. r.status = "pending" /\ SetTask(t, r).rec = r
  BY DEF TypeOK, TaskRec, SetTask
<1>3. Does(s, t, {SetTask(t, r)}, {"priority"}, {"scheduled"}, 0) /\ todo' = [todo EXCEPT ![c] = s]
  BY DoesWake
<1> HIDE DEF r, s
<1>4. \A u : Framed(c, f, u)
  BY <1>1, Framing
<1>5. f.at \in {"none", "wake"} /\ (f.at = "wake" => f.due = call[c].due \ {t})
  BY DEF NoCall
<1>6. Known(c)'
  <2>1. call'[c] = f
    BY <1>4 DEF Framed
  <2> QED
    BY <1>1, <1>5, <2>1 DEF Known
<1>7. Pending(t) = {}
  <2>1. CASE Serial
    BY <1>1, <2>1, Reads DEF InOrder
  <2>2. CASE ~Serial
    BY <1>1, <2>2 DEF OfTask, Still
  <2> QED
    BY <2>1, <2>2
<1>8. /\ Rec(t) = task[t] /\ Died(t) = Len(dead[t]) /\ \A k \in Keys : k \in In(t) <=> t \in zset[k]
  BY <1>7, Unissued
<1>9. Rec(t).status = "scheduled"
  BY <1>1 DEF OfTask, InHand
<1>10. /\ Failers(t) = {} /\ Requeuers(t) = {} /\ Holders(t) = {} /\ Givers(t) = {} /\ Takers(t) = {}
       /\ "priority" \notin In(t) /\ Died(t) = 0
  <2>1. Rec(t).status \notin Busy /\ Rec(t).status # "pending"
    BY <1>9 DEF Busy
  <2> QED
    BY <1>1, <2>1, Free DEF OfTask, Sound
<1>11. Wakers(t) = {c}
  BY <1>1, OneTimer DEF Wakers, InOrder
<1>12. Issued(c, t, {SetTask(t, r)}, {"priority"}, {"scheduled"}, 0)
  BY <1>1, <1>3, <1>7, Issuing
<1>13. /\ Owners(t)' \subseteq {c} /\ Writes(Pending(t)') = {SetTask(t, r)} /\ Rec(t)' = r
       /\ \A k \in Keys : k \in In(t)' <=> (k = "priority" \/ (k \in In(t) /\ k # "scheduled"))
       /\ Died(t)' = 0 /\ \A m \in Pending(t)' : m.do # "dropDead"
  <2>1. Len(dead'[t]) = 0
    BY <1>1, <1>8, <1>10
  <2> QED
    BY <1>1, <1>8, <1>12, <2>1 DEF Issued
<1>14. /\ Failers(t)' = {} /\ Requeuers(t)' = {} /\ Holders(t)' = {} /\ Givers(t)' = {} /\ Wakers(t)' = {}
       /\ Takers(t)' = {} /\ Serial' = Serial
  <2>1. Holders(t)' = Holders(t) /\ Serial' = Serial
    BY <1>1 DEF Holders, Serial
  <2>2. Framed(c, f, t)
    BY <1>4
  <2> QED
    BY <1>5, <1>10, <1>11, <2>1, <2>2 DEF Framed
<1>15. Sound(t)'
  BY <1>2, <1>10, <1>13, <1>14 DEF Sound, Busy, Keys
<1>16. Steady(t)'
  BY <1>1, <1>2, <1>8, <1>9, <1>13 DEF Steady, AtMostOne
<1>17. InHand(t)'
  BY <1>14 DEF InHand
<1>18. ASSUME ~Serial
       PROVE  Still(t)' /\ Guarded(t)'
  <2>1. t \notin zset["priority"] /\ t \notin zset["processing"]
    <3>1. "processing" \notin In(t)
      BY <1>1, <1>9, <1>18 DEF OfTask, Guarded, Busy
    <3> QED
      BY <1>8, <1>10, <3>1 DEF Keys
  <2>2. "processing" \notin In(t)'
    BY <1>8, <1>13, <2>1 DEF Keys
  <2> QED
    BY <1>1, <1>2, <1>13, <1>14, <2>1, <2>2 DEF Still, Guarded, Busy
<1>19. OfTask(t)'
  BY <1>14, <1>15, <1>16, <1>17, <1>18 DEF OfTask
<1>20. ASSUME NEW u \in Tasks, u # t
       PROVE  /\ c \notin Takers(u) /\ c \notin Takers(u)' /\ c \notin Givers(u)'
              /\ c \in Wakers(u)' => c \in Wakers(u)
              /\ c \notin Failers(u)' /\ c \notin Requeuers(u)'
  <2>1. Framed(c, f, u) /\ c \notin Takers(u)
    BY <1>1, <1>4 DEF Takers
  <2> QED
    BY <1>1, <1>5, <2>1 DEF Framed, Wakers
<1> QED
  BY <1>1, <1>3, <1>6, <1>7, <1>19, <1>20, Handles

LEMMA WakeInOrder ==
  ASSUME TypeOK, TypeOK', InOrder, Careful(environment), NEW c \in Callers, Wake(c)
  PROVE  InOrder'
<1>1. At(c, "wake") /\ UNCHANGED <<store, roster, world, bounds>> /\ call[c].due \subseteq Tasks
  <2>1. At(c, "wake") /\ UNCHANGED <<store, roster, world, bounds>> /\ call[c] \in Call
    BY DEF Wake, TypeOK
  <2> QED
    BY <2>1, Frames DEF At
<1>2. PICK t \in call[c].due :
        /\ todo' = [todo EXCEPT ![c] = <<ZRem("scheduled", t), SetTask(t, [task[t] EXCEPT !.status = "pending"])>>
                                     \o EnqueuePending(t)]
        /\ \E f : /\ call' = [call EXCEPT ![c] = f]
                  /\ f = NoCall \/ f = [at |-> "wake", due |-> call[c].due \ {t}]
  BY DEF Wake, Issue, Return, Goto
<1> QED
  BY <1>1, <1>2, WakesInOrder

\* The sweep fails a task of an agent that is late.
LEMMA SweptInOrder ==
  ASSUME TypeOK, TypeOK', InOrder, Careful(environment), NEW c \in Callers, At(c, "fail"),
         NEW t \in Tasks, t \in call[c].tasks,
         UNCHANGED <<store, roster, world, bounds>>,
         todo' = [todo EXCEPT ![c] = FailCommands(t)],
         NEW f, call' = [call EXCEPT ![c] = f],
         f = [at |-> "fail", late |-> call[c].late, agent |-> call[c].agent, tasks |-> call[c].tasks \ {t}]
  PROVE  InOrder'
<1>1. /\ todo[c] = <<>> /\ call[c].at = "fail" /\ ~Idle(c) /\ c \in Failers(t) /\ OfTask(t) /\ Known(c)
      /\ UNCHANGED <<task, zset, dead, agent, alive, held, environment>>
  BY DEF At, Idle, NoCall, InOrder, OfCaller, Failers, store, roster, world, bounds
<1>2. /\ f.at = "fail" /\ f.late = call[c].late /\ f.agent = call[c].agent /\ f.tasks = call[c].tasks \ {t}
  OBVIOUS
<1>3. \A u : Framed(c, f, u)
  BY <1>1, Framing
<1>4. Known(c)'
  <2>1. call'[c] = f
    BY <1>3 DEF Framed
  <2> QED
    BY <1>1, <1>2, <2>1 DEF Known, Registered, Serial
<1>5. Pending(t) = {}
  <2>1. CASE Serial
    BY <1>1, <2>1, Reads DEF InOrder
  <2>2. CASE ~Serial
    BY <1>1, <2>2 DEF OfTask, Still
  <2> QED
    BY <2>1, <2>2
<1>6. /\ Rec(t) = task[t] /\ Died(t) = Len(dead[t]) /\ \A k \in Keys : k \in In(t) <=> t \in zset[k]
  BY <1>5, Unissued
<1>7. With(t, call[c].agent) /\ call[c].agent \in Agents /\ call[c].agent \notin alive /\ c \in Ticks
  <2>1. call[c].agent \in Agents
    BY <1>1, FailFrame DEF TypeOK
  <2> QED
    BY <1>1, <2>1 DEF OfTask, InHand, Known
<1>8. /\ task[t].status \in Busy /\ Len(dead[t]) = 0
      /\ t \notin zset["priority"] /\ t \notin zset["scheduled"] /\ t \in zset["processing"]
      /\ Takers(t) = {} /\ Wakers(t) = {}
  <2>1. Rec(t).status \in Busy /\ Died(t) = 0
    BY <1>7 DEF With
  <2>2. Rec(t).status # "pending" /\ Rec(t).status # "scheduled"
    BY <2>1 DEF Busy
  <2>3. "processing" \in In(t)
    BY <1>1, <2>1 DEF OfTask, Sound
  <2> QED
    BY <1>1, <1>6, <2>1, <2>2, <2>3, Free DEF Keys
<1>9. Holders(t) = {} /\ Givers(t) = {}
  BY <1>1, <1>7 DEF OfTask, InHand, With, Givers
<1>10. Failers(t) = {c}
  BY <1>1, OneTimer DEF Failers, InOrder
<1>11. Requeuers(t) = {}
  <2>1. ASSUME NEW d \in Requeuers(t)
        PROVE  FALSE
    <3>1. d \in Callers /\ call[d].at = "requeue" /\ d # c
      BY <1>1 DEF Requeuers
    <3>2. Serial /\ ~Idle(d)
      BY <3>1 DEF InOrder, OfCaller, Known, Idle, NoCall
    <3> QED
      BY <1>1, <3>1, <3>2 DEF InOrder, Alone
  <2> QED
    BY <2>1
<1>12. NoHands(t)'
  <2>1. Holders(t)' = Holders(t)
    BY <1>1 DEF Holders
  <2>2. Framed(c, f, t)
    BY <1>3
  <2> QED
    BY <1>2, <1>8, <1>9, <1>10, <1>11, <2>1, <2>2 DEF Framed, NoHands
<1>13. TakesOff(FailCommands(t), t)
  BY FailEnds DEF TakesOff
<1>14. Theirs(c, task[t])'
  BY <1>7 DEF Theirs
<1>15. OfTask(t)'
  BY <1>1, <1>5, <1>8, <1>12, <1>13, <1>14, TakenOff
<1>16. \E W, add, rem, d : Does(FailCommands(t), t, W, add, rem, d)
  BY <1>13 DEF TakesOff, Ends
<1>17. ASSUME NEW u \in Tasks, u # t
       PROVE  /\ c \notin Takers(u) /\ c \notin Takers(u)' /\ c \notin Givers(u)'
              /\ c \notin Wakers(u)' /\ c \notin Requeuers(u)'
              /\ c \in Failers(u)' => c \in Failers(u) /\ f.agent = call[c].agent
  <2>1. Framed(c, f, u) /\ c \notin Takers(u)
    BY <1>1, <1>3 DEF Takers
  <2> QED
    BY <1>1, <1>2, <2>1 DEF Framed, Failers
<1> QED
  BY <1>1, <1>4, <1>5, <1>15, <1>16, <1>17, Handles

\* The agent is marked offline, as the snapshot has it.
LEMMA SweepEndInOrder ==
  ASSUME TypeOK, TypeOK', InOrder, NEW c \in Callers, At(c, "fail"),
         UNCHANGED <<store, roster, world, bounds>>,
         NEW a, a = call[c].agent,
         todo' = [todo EXCEPT ![c] = <<SetAgent(a, [call[c].late[a] EXCEPT !.status = "offline"])>>],
         NEW f, call' = [call EXCEPT ![c] = f],
         f = NoCall \/ f = [at |-> "sweep", late |-> [call[c].late EXCEPT ![a] = NoAgent]]
  PROVE  InOrder'
<1> DEFINE r == [call[c].late[a] EXCEPT !.status = "offline"]
           s == <<SetAgent(a, r)>>
<1>1. /\ todo[c] = <<>> /\ call[c].at = "fail" /\ ~Idle(c) /\ Known(c)
      /\ UNCHANGED <<task, zset, dead, agent, alive, held, environment>>
  BY DEF At, Idle, NoCall, InOrder, OfCaller, store, roster, world, bounds
<1>2. call[c].late \in [Agents -> AgentRec] /\ a \in Agents /\ call[c].late[a] \in AgentRec
  BY <1>1, FailFrame DEF TypeOK
<1>3. /\ call[c].late[a] # NoAgent /\ a \notin alive /\ (Serial \/ Registered(a)) /\ c \in Ticks
  BY <1>1, <1>2 DEF Known
<1>4. r \in AgentRec /\ r.status = "offline"
  BY <1>2 DEF AgentRec
<1>5. s \in Seq(Command) /\ Elsewhere(s) /\ \A i \in DOMAIN s : True(s[i])
  <2> HIDE DEF r
  <2>1. SetAgent(a, r) \in Command
    BY <1>2, <1>4 DEF SetAgent, Command
  <2>2. True(SetAgent(a, r)) /\ SetAgent(a, r).do \notin OnKeys
    BY <1>3, <1>4 DEF True, SetAgent, OnKeys
  <2> QED
    BY <2>1, <2>2 DEF Elsewhere
<1>6. f.at \in {"none", "sweep"} /\ (f.at = "sweep" => f.late = [call[c].late EXCEPT ![a] = NoAgent])
  BY DEF NoCall
<1>7. Known(c)'
  <2>1. call'[c] = f
    BY DEF TypeOK
  <2>2. f.at = "sweep" => \A b \in Agents : f.late[b] # NoAgent =>
          f.late[b] = call[c].late[b] /\ call[c].late[b] # NoAgent
    BY <1>2, <1>6
  <2> QED
    BY <1>1, <1>3, <1>6, <2>1, <2>2 DEF Known, Registered, Serial
<1> HIDE DEF s
<1> QED
  BY <1>1, <1>5, <1>6, <1>7, Moves DEF s

LEMMA FailNextInOrder ==
  ASSUME TypeOK, TypeOK', InOrder, Careful(environment), NEW c \in Callers, FailNext(c)
  PROVE  InOrder'
<1>1. At(c, "fail") /\ UNCHANGED <<store, roster, world, bounds>>
  BY DEF FailNext
<1>2. /\ call[c] = [at |-> "fail", late |-> call[c].late, agent |-> call[c].agent, tasks |-> call[c].tasks]
      /\ call[c].tasks \subseteq Tasks
  BY <1>1, FailFrame DEF TypeOK, At
<1>3. \A S : [call[c] EXCEPT !.tasks = S] = [at |-> "fail", late |-> call[c].late, agent |-> call[c].agent, tasks |-> S]
  BY <1>2
<1>4. ASSUME NEW t \in call[c].tasks, Issue(c, FailCommands(t)), Goto(c, [call[c] EXCEPT !.tasks = @ \ {t}])
      PROVE  InOrder'
  <2> DEFINE f == [call[c] EXCEPT !.tasks = @ \ {t}]
  <2>1. f = [at |-> "fail", late |-> call[c].late, agent |-> call[c].agent, tasks |-> call[c].tasks \ {t}]
    BY <1>3
  <2>2. call' = [call EXCEPT ![c] = f] /\ todo' = [todo EXCEPT ![c] = FailCommands(t)] /\ t \in Tasks
    BY <1>2, <1>4 DEF Issue, Goto
  <2> HIDE DEF f
  <2> QED
    BY <1>1, <1>4, <2>1, <2>2, SweptInOrder
<1> DEFINE a == call[c].agent
           rest == [call[c].late EXCEPT ![a] = NoAgent]
<1>5. ASSUME Issue(c, <<SetAgent(a, [call[c].late[a] EXCEPT !.status = "offline"])>>),
             Return(c) \/ Goto(c, [at |-> "sweep", late |-> rest])
      PROVE  InOrder'
  BY <1>1, <1>5, SweepEndInOrder DEF Issue, Goto, Return
<1> QED
  BY <1>4, <1>5 DEF FailNext

-----------------------------------------------------------------------------
(* Agents that leave, come, die and are late.                              *)

\* One that is unregistered gives back a task, between calls of nobody else.
LEMMA RequeuesInOrder ==
  ASSUME TypeOK, TypeOK', InOrder, NEW c \in Callers, At(c, "requeue"),
         NEW t \in Tasks, call[c].recs[t] # NoTask,
         UNCHANGED <<store, roster, world, bounds>>,
         NEW r, r.status = "pending",
         todo' = [todo EXCEPT ![c] = <<SetTask(t, r)>> \o EnqueuePending(t)],
         NEW f, call' = [call EXCEPT ![c] = f],
         f = [at |-> "requeue", agent |-> call[c].agent, recs |-> [call[c].recs EXCEPT ![t] = NoTask]]
  PROVE  InOrder'
<1> DEFINE s == <<SetTask(t, r)>> \o EnqueuePending(t)
<1>1. /\ todo[c] = <<>> /\ call[c].at = "requeue" /\ ~Idle(c) /\ c \in Requeuers(t) /\ OfTask(t) /\ Known(c)
      /\ UNCHANGED <<task, zset, dead, agent, alive, held, environment>>
  BY DEF At, Idle, NoCall, InOrder, OfCaller, Requeuers, store, roster, world, bounds
<1>2. /\ f.at = "requeue" /\ f.agent = call[c].agent
      /\ \A u \in Tasks : f.recs[u] = IF u = t THEN NoTask ELSE call[c].recs[u]
  <2>1. call[c].recs \in [Tasks -> TaskRec]
    BY <1>1, Frames DEF TypeOK
  <2> QED
    BY <2>1
<1>3. \A u : Framed(c, f, u)
  BY <1>1, Framing
<1>4. Known(c)' /\ Serial /\ call[c].agent \notin alive
  <2>1. call'[c] = f
    BY <1>3 DEF Framed
  <2> QED
    BY <1>1, <1>2, <2>1 DEF Known, Registered, Serial
<1>5. Pending(t) = {} /\ \A d \in Callers : d # c => call[d] = NoCall
  BY <1>1, <1>4, Reads DEF InOrder
<1>6. /\ Rec(t) = task[t] /\ Died(t) = Len(dead[t]) /\ \A k \in Keys : k \in In(t) <=> t \in zset[k]
  BY <1>5, Unissued
<1>7. With(t, call[c].agent)
  BY <1>1 DEF OfTask, InHand
<1>8. /\ task[t].status \in Busy /\ Len(dead[t]) = 0
      /\ t \notin zset["priority"] /\ t \notin zset["scheduled"] /\ t \in zset["processing"]
      /\ Takers(t) = {} /\ Wakers(t) = {}
  <2>1. Rec(t).status \in Busy /\ Died(t) = 0
    BY <1>7 DEF With
  <2>2. Rec(t).status # "pending" /\ Rec(t).status # "scheduled"
    BY <2>1 DEF Busy
  <2>3. "processing" \in In(t)
    BY <1>1, <2>1 DEF OfTask, Sound
  <2> QED
    BY <1>1, <1>6, <2>1, <2>2, <2>3, Free DEF Keys
<1>9. Holders(t) = {}
  BY <1>1, <1>4, <1>7 DEF OfTask, InHand, With
<1>10. NoHands(t)'
  <2>1. Holders(t)' = Holders(t)
    BY <1>1 DEF Holders
  <2>2. Framed(c, f, t)
    BY <1>3
  <2>3. /\ \A d : d \in Givers(t) => d = c
        /\ \A d : d \in Failers(t) => d = c
        /\ \A d : d \in Requeuers(t) => d = c
    BY <1>5 DEF Givers, Failers, Requeuers, NoCall
  <2> QED
    BY <1>2, <1>8, <1>9, <2>1, <2>2, <2>3 DEF Framed, NoHands
<1>11. Does(s, t, {SetTask(t, r)}, {"priority"}, {}, 0) /\ todo' = [todo EXCEPT ![c] = s]
  BY DoesRequeue
<1> HIDE DEF s
<1>12. TakesOff(s, t)
  BY <1>4, <1>11 DEF TakesOff
<1>13. OfTask(t)'
  BY <1>1, <1>4, <1>5, <1>8, <1>10, <1>11, <1>12, TakenOff
<1>14. ASSUME NEW u \in Tasks, u # t
       PROVE  /\ c \notin Takers(u) /\ c \notin Takers(u)' /\ c \notin Givers(u)'
              /\ c \notin Wakers(u)' /\ c \notin Failers(u)'
              /\ c \in Requeuers(u)' => c \in Requeuers(u) /\ f.agent = call[c].agent
  <2>1. Framed(c, f, u) /\ c \notin Takers(u)
    BY <1>1, <1>3 DEF Takers
  <2> QED
    BY <1>1, <1>2, <1>14, <2>1 DEF Framed, Requeuers
<1> QED
  BY <1>1, <1>4, <1>5, <1>11, <1>13, <1>14, Handles

\* Then its record is deleted.
LEMMA RemovesInOrder ==
  ASSUME TypeOK, TypeOK', InOrder, NEW c \in Callers, At(c, "requeue"),
         UNCHANGED <<store, roster, world, bounds>>,
         NEW a, a = call[c].agent,
         todo' = [todo EXCEPT ![c] = <<OnAgent("del", a), OnAgent("srem", a)>>],
         call' = [call EXCEPT ![c] = NoCall]
  PROVE  InOrder'
<1> DEFINE s == <<OnAgent("del", a), OnAgent("srem", a)>>
<1>1. /\ todo[c] = <<>> /\ call[c].at = "requeue" /\ ~Idle(c) /\ Known(c)
      /\ UNCHANGED <<task, zset, dead, agent, alive, held, environment>>
  BY DEF At, Idle, NoCall, InOrder, OfCaller, store, roster, world, bounds
<1>2. a \in Agents /\ a \notin alive /\ Serial
  <2>1. a \in Agents
    BY <1>1, Frames DEF TypeOK
  <2> QED
    BY <1>1, <2>1 DEF Known
<1>3. s \in Seq(Command) /\ Elsewhere(s) /\ \A i \in DOMAIN s : True(s[i])
  <2>1. OnAgent("del", a) \in Command /\ OnAgent("srem", a) \in Command
    BY <1>2 DEF OnAgent, Command
  <2>2. /\ True(OnAgent("del", a)) /\ True(OnAgent("srem", a))
        /\ OnAgent("del", a).do \notin OnKeys /\ OnAgent("srem", a).do \notin OnKeys
    BY <1>2 DEF True, OnAgent, OnKeys
  <2> QED
    BY <2>1, <2>2 DEF Elsewhere
<1>4. NoCall.at = "none"
  BY DEF NoCall
<1>5. Known(c)'
  <2>1. call'[c] = NoCall
    BY DEF TypeOK
  <2> QED
    BY <1>4, <2>1 DEF Known
<1> HIDE DEF s
<1> QED
  BY <1>1, <1>3, <1>4, <1>5, Moves DEF s

LEMMA RequeueInOrder ==
  ASSUME TypeOK, TypeOK', InOrder, NEW c \in Callers, Requeue(c)
  PROVE  InOrder'
<1> DEFINE recs == call[c].recs
<1>1. At(c, "requeue") /\ UNCHANGED <<store, roster, world, bounds>> /\ call[c] \in Call
  BY DEF Requeue, TypeOK
<1>2. call[c] = [at |-> "requeue", agent |-> call[c].agent, recs |-> recs] /\ recs \in [Tasks -> TaskRec]
  BY <1>1 DEF Call, At
<1>3. \A R : [call[c] EXCEPT !.recs = R] = [at |-> "requeue", agent |-> call[c].agent, recs |-> R]
  BY <1>2
<1>4. ASSUME NEW t \in Tasks, recs[t] # NoTask,
             Issue(c, <<SetTask(t, [recs[t] EXCEPT !.status = "pending", !.assignee = None])>> \o EnqueuePending(t)),
             Goto(c, [call[c] EXCEPT !.recs = [recs EXCEPT ![t] = NoTask]])
      PROVE  InOrder'
  <2> DEFINE f == [call[c] EXCEPT !.recs = [recs EXCEPT ![t] = NoTask]]
             r == [recs[t] EXCEPT !.status = "pending", !.assignee = None]
  <2>1. f = [at |-> "requeue", agent |-> call[c].agent, recs |-> [recs EXCEPT ![t] = NoTask]]
    BY <1>3
  <2>2. r.status = "pending"
    BY <1>2 DEF TaskRec
  <2>3. call' = [call EXCEPT ![c] = f] /\ todo' = [todo EXCEPT ![c] = <<SetTask(t, r)>> \o EnqueuePending(t)]
    BY <1>4 DEF Issue, Goto
  <2> HIDE DEF f, r
  <2> QED
    BY <1>1, <1>4, <2>1, <2>2, <2>3, RequeuesInOrder
<1>5. ASSUME Issue(c, <<OnAgent("del", call[c].agent), OnAgent("srem", call[c].agent)>>), Return(c)
      PROVE  InOrder'
  BY <1>1, <1>5, RemovesInOrder DEF Issue, Return, Goto
<1> QED
  BY <1>4, <1>5 DEF Requeue

\* Only calls that do not overlap unregister agents; the tasks to give back are
\* those that the agent, which no longer runs, has.
LEMMA UnregisterInOrder ==
  ASSUME TypeOK, TypeOK', InOrder, Careful(environment), NEW c \in Callers, NEW a \in Agents,
         UnregisterAgent(c, a)
  PROVE  InOrder'
<1> DEFINE recs == [t \in Tasks |-> IF t \in AgentTasks(a) THEN task[t] ELSE NoTask]
           f == [at |-> "requeue", agent |-> a, recs |-> recs]
<1>1. /\ Serial /\ MayCall(c) /\ \A d \in Callers : Idle(d)
      /\ UNCHANGED <<todo, task, zset, dead, agent, environment>>
      /\ call' = [call EXCEPT ![c] = f]
  BY DEF UnregisterAgent, Careful, Allowed, Serial, MayCall, Goto, store, roster, bounds
<1>2. a \notin alive' /\ alive' \subseteq alive /\ alive \subseteq alive' \cup {a}
  BY DEF UnregisterAgent, Careful, Timely
<1>3. \A u : Holders(u)' \subseteq Holders(u) /\ a \notin Holders(u)'
  <2>1. CASE c = a
    <3>1. held' = [held EXCEPT ![a] = {}]
      BY <2>1 DEF UnregisterAgent
    <3> QED
      BY <3>1 DEF Holders, TypeOK
  <2>2. CASE c # a
    <3>1. held' = held /\ a \notin alive
      BY <1>2, <2>2 DEF UnregisterAgent
    <3>2. held[a] = {}
      <4>1. \A t \in Tasks : t \notin held[a]
        BY <3>1 DEF InOrder, OfTask, InHand, Holders
      <4> QED
        BY <4>1 DEF TypeOK
    <3> QED
      BY <3>1, <3>2 DEF Holders
  <2> QED
    BY <2>1, <2>2
<1>4. f.at = "requeue" /\ f.agent = a /\ f.recs = recs
  OBVIOUS
<1>5. \A t \in Tasks : recs[t] # NoTask =>
        t \in zset["processing"] /\ task[t].assignee = a /\ task[t].status \in Busy
  BY DEF AgentTasks, Busy
<1> HIDE DEF f, recs
<1>6. /\ call'[c] = f /\ \A d \in Callers : d # c => call'[d] = NoCall
      /\ \A d \in Callers : todo[d] = <<>> /\ call[d] = NoCall
  BY <1>1 DEF TypeOK, Idle
<1>7. \A t : Pending(t) = {} /\ Owners(t) = {} /\ Pending(t)' = {} /\ Owners(t)' = {}
  BY <1>1, <1>6, AheadNone DEF Pending, Owners
<1>8. Serial' = Serial
  BY <1>1 DEF Serial
<1>9. ASSUME NEW t \in Tasks
      PROVE  OfTask(t)'
  <2>1. OfTask(t)
    BY DEF InOrder
  <2>2. /\ Rec(t) = task[t] /\ Died(t) = Len(dead[t]) /\ \A k \in Keys : k \in In(t) <=> t \in zset[k]
    BY <1>7, Unissued
  <2>3. /\ Rec(t)' = task'[t] /\ Died(t)' = Len(dead'[t]) /\ \A k \in Keys : k \in In(t)' <=> t \in zset'[k]
    BY <1>7, UnissuedNext
  <2>4. /\ Takers(t) = {} /\ Takers(t)' = {} /\ Wakers(t)' = {} /\ Failers(t)' = {} /\ Givers(t)' = {}
        /\ \A d \in Requeuers(t)' : d = c /\ recs[t] # NoTask
    BY <1>4, <1>6 DEF Takers, Wakers, Failers, Givers, Requeuers, NoCall
  <2>5. Rec(t)' = Rec(t) /\ Died(t)' = Died(t) /\ \A k \in Keys : k \in In(t)' <=> k \in In(t)
    BY <1>1, <2>2, <2>3
  <2>6. \A b : With(t, b)' <=> With(t, b)
    BY <2>5 DEF With
  <2>7. Sound(t)'
    BY <2>1, <2>4, <2>5 DEF OfTask, Sound, Keys
  <2>8. Steady(t)'
    BY <1>7 DEF Steady, AtMostOne, Writes
  <2>9. InHand(t)'
    <3>1. ASSUME recs[t] # NoTask
          PROVE  With(t, a)
      <4>1. Rec(t).status \in Busy /\ Rec(t).assignee = a /\ "processing" \in In(t)
        BY <1>5, <2>2, <3>1 DEF Keys
      <4> QED
        BY <2>1, <4>1 DEF OfTask, Sound, With
    <3>3. \A d \in Requeuers(t)' : call'[d].agent = a /\ With(t, a)'
      BY <1>4, <1>6, <2>4, <2>6, <3>1
    <3>2. \A b \in Holders(t)' : b \in alive' /\ With(t, b)'
      BY <1>2, <1>3, <2>1, <2>6 DEF OfTask, InHand
    <3> QED
      BY <1>7, <2>4, <3>2, <3>3 DEF InHand, With
  <2> QED
    BY <1>1, <1>8, <2>7, <2>8, <2>9 DEF OfTask
<1>10. \A b \in Agents : OfAgent(b)'
  BY <1>1, <1>2 DEF InOrder, OfAgent, Registered
<1>11. ASSUME NEW d \in Callers
       PROVE  OfCaller(d)'
  <2>1. Known(d)'
    BY <1>1, <1>2, <1>4, <1>6, <1>8 DEF Known, NoCall
  <2>2. Orderly(todo'[d]) /\ DOMAIN todo'[d] = {}
    BY <1>1, <1>6 DEF Orderly
  <2>3. (\A i \in DOMAIN todo[d] : True(todo[d][i]))'
    BY <2>2
  <2> QED
    BY <2>1, <2>2, <2>3 DEF OfCaller
<1>12. Alone'
  <2>1. \A d \in Callers : d # c => Idle(d)'
    BY <1>1, <1>6 DEF Idle
  <2> QED
    BY <2>1 DEF Alone
<1> QED
  BY <1>9, <1>10, <1>11, <1>12 DEF InOrder

\* One that registers is new: no call, no command and no timer knows of it.
LEMMA RegisterInOrder ==
  ASSUME TypeOK, TypeOK', InOrder, Careful(environment), NEW a \in Agents, RegisterAgent(a)
  PROVE  InOrder'
<1> DEFINE s == <<OnAgent("sadd", a)>>
<1>1. /\ a \in Callers /\ MayCall(a) /\ Idle(a) /\ todo[a] = <<>> /\ a \notin alive
      /\ agent[a] = NoAgent /\ ~Registered(a)
      /\ alive' = alive \cup {a} /\ Serial' = Serial /\ todo' = [todo EXCEPT ![a] = s]
      /\ UNCHANGED <<task, zset, dead, call, held, environment>>
  BY DEF RegisterAgent, Careful, Allowed, Issue, MayCall, Idle, Registered, NoAgent, Serial, Callers, store, bounds
<1>2. /\ agent'[a].status # "none" /\ agent'[a].fresh
      /\ \A b \in Agents : b # a => agent'[b] = agent[b]
  BY DEF RegisterAgent, TypeOK
<1>3. s \in Seq(Command) /\ Elsewhere(s) /\ \A i \in DOMAIN s : s[i].do \notin {"setAgent", "del"}
  <2>1. OnAgent("sadd", a) \in Command
    BY DEF OnAgent, Command
  <2>2. OnAgent("sadd", a).do = "sadd"
    BY DEF OnAgent
  <2> QED
    BY <2>1, <2>2 DEF Elsewhere, OnKeys
<1> HIDE DEF s
<1>4. todo'[a] = s /\ \A d \in Callers : d # a => todo'[d] = todo[d]
  BY <1>1 DEF TypeOK
<1>5. \A d \in Callers : Serial => todo[d] = <<>> /\ call[d] = NoCall
  BY <1>1 DEF MayCall, Idle
<1>6. \A b \in Agents : Registered(b) => Registered(b)' /\ b # a
  BY <1>1, <1>2 DEF Registered
<1>7. \A u : Pending(u)' = Pending(u) /\ Owners(u)' = Owners(u)
  BY <1>1, <1>3, IssuingElsewhere
<1>8. \A d \in Callers : call[d].at = "give" => call[d].agent # a
  <2> SUFFICES ASSUME NEW d \in Callers, call[d].at = "give", call[d].agent = a
               PROVE  FALSE
    OBVIOUS
  <2>1. ~Serial
    BY <1>5 DEF NoCall
  <2>2. Registered(a)
    BY <2>1 DEF InOrder, OfCaller, Known
  <2> QED
    BY <1>1, <2>2
<1>9. ASSUME NEW u \in Tasks
      PROVE  OfTask(u)'
  <2>1. OfTask(u)
    BY DEF InOrder
  <2>2. /\ Takers(u)' = Takers(u) /\ Wakers(u)' = Wakers(u) /\ Failers(u)' = Failers(u)
        /\ Requeuers(u)' = Requeuers(u) /\ Holders(u)' = Holders(u)
    BY <1>1 DEF Takers, Wakers, Failers, Requeuers, Holders
  <2>3. Givers(u)' = Givers(u)
    BY <1>1, <1>8 DEF Givers
  <2> QED
    BY <1>1, <1>7, <2>1, <2>2, <2>3, Aside
<1>10. \A b \in Agents : OfAgent(b)'
  <2>1. \A b \in Agents : b # a => OfAgent(b)'
    BY <1>1, <1>2 DEF InOrder, OfAgent, Registered
  <2>2. OfAgent(a)'
    BY <1>2 DEF OfAgent, Registered
  <2> QED
    BY <2>1, <2>2
<1>11. ASSUME NEW d \in Callers
       PROVE  OfCaller(d)'
  <2>1. Orderly(todo'[d])
    BY <1>3, <1>4, AllElsewhere DEF InOrder, OfCaller
  <2>2. Known(d)'
    <3>1. call[d] \in Call /\ Known(d) /\ call'[d] = call[d]
      BY <1>1 DEF TypeOK, InOrder, OfCaller
    <3>2. CASE Serial
      BY <1>1, <1>5, <3>1, <3>2 DEF Known, NoCall
    <3>3. CASE ~Serial
      <4>1. call[d].at \in {"peek", "take", "fetch"} => \A b \in call[d].among : Registered(b)'
        BY <1>6, <3>1, <3>3, Frames DEF Known
      <4>2. call[d].at = "give" => Registered(call[d].agent)'
        BY <1>6, <3>1, <3>3, Frames DEF Known
      <4>3. call[d].at \in {"sweep", "fail"} => \A b \in Agents : call[d].late[b] # NoAgent =>
              b \notin alive /\ b # a /\ call[d].late[b].status # "none" /\ Registered(b)'
        BY <1>6, <3>1, <3>3 DEF Known
      <4> QED
        BY <1>1, <3>1, <3>3, <4>1, <4>2, <4>3 DEF Known
    <3> QED
      BY <3>2, <3>3
  <2>3. \A i \in DOMAIN todo'[d] : LET m == todo'[d][i] IN
          /\ m.do = "setAgent" =>
               m.rec.status # "none" /\ (m.agent \in alive' => m.rec.fresh)
               /\ (Serial \/ agent'[m.agent].status # "none")
          /\ m.do = "del" => Serial /\ m.agent \notin alive'
    <3>1. CASE d = a
      BY <1>3, <1>4, <3>1
    <3>2. CASE d # a
      <4> SUFFICES ASSUME NEW i \in DOMAIN todo[d]
                   PROVE  LET m == todo[d][i] IN
                          /\ m.do = "setAgent" =>
                               m.rec.status # "none" /\ (m.agent \in alive' => m.rec.fresh)
                               /\ (Serial \/ agent'[m.agent].status # "none")
                          /\ m.do = "del" => Serial /\ m.agent \notin alive'
        BY <1>4, <3>2
      <4>1. ~Serial
        BY <1>5
      <4>2. True(todo[d][i]) /\ todo[d][i] \in Command
        BY DEF InOrder, OfCaller, TypeOK
      <4>3. todo[d][i].do = "setAgent" => Registered(todo[d][i].agent) /\ todo[d][i].agent \in Agents
        BY <4>1, <4>2, Fields DEF True
      <4> QED
        BY <1>1, <1>6, <4>1, <4>2, <4>3 DEF True, Registered
    <3> QED
      BY <3>1, <3>2
  <2> QED
    BY <1>1, <2>1, <2>2, <2>3 DEF OfCaller, True, Registered
<1>12. Alone'
  <2>1. \A d \in Callers : Serial => Idle(d)
    BY <1>5 DEF Idle
  <2>2. \A d \in Callers : d # a => (Idle(d)' <=> Idle(d))
    BY <1>1, <1>4 DEF Idle
  <2> QED
    BY <1>1, <2>1, <2>2 DEF Alone
<1> QED
  BY <1>9, <1>10, <1>11, <1>12 DEF InOrder

\* A heartbeat writes back a record that the agent has.
LEMMA HeartbeatInOrder ==
  ASSUME TypeOK, TypeOK', InOrder, NEW a \in Agents, AgentHeartbeat(a)
  PROVE  InOrder'
<1> DEFINE r == [Loaded(a, agent[a], agent[a].load) EXCEPT !.fresh = TRUE]
           s == <<SetAgent(a, r)>>
<1>1. /\ a \in Callers /\ MayCall(a) /\ todo[a] = <<>> /\ agent[a] # NoAgent /\ Registered(a)
      /\ todo' = [todo EXCEPT ![a] = s]
      /\ UNCHANGED <<task, zset, dead, agent, call, alive, held, environment>>
  BY DEF AgentHeartbeat, Issue, MayCall, Idle, InOrder, OfAgent, Callers, store, roster, world, bounds
<1>2. r \in AgentRec /\ r.status # "none" /\ r.fresh
  <2>1. agent[a] \in AgentRec
    BY DEF TypeOK
  <2> QED
    BY <2>1 DEF Loaded, AgentRec
<1> HIDE DEF r
<1>3. s \in Seq(Command) /\ Elsewhere(s) /\ \A i \in DOMAIN s : True(s[i])
  <2>1. SetAgent(a, r) \in Command
    BY <1>2 DEF SetAgent, Command
  <2>2. True(SetAgent(a, r)) /\ SetAgent(a, r).do \notin OnKeys
    BY <1>1, <1>2 DEF True, SetAgent, OnKeys
  <2> QED
    BY <2>1, <2>2 DEF Elsewhere
<1> HIDE DEF s
<1>4. \A u : Pending(u)' = Pending(u) /\ Owners(u)' = Owners(u)
  BY <1>1, <1>3, IssuingElsewhere
<1>5. ASSUME NEW u \in Tasks
      PROVE  OfTask(u)'
  <2>1. OfTask(u)
    BY DEF InOrder
  <2>2. /\ Takers(u)' = Takers(u) /\ Wakers(u)' = Wakers(u) /\ Failers(u)' = Failers(u)
        /\ Requeuers(u)' = Requeuers(u) /\ Givers(u)' = Givers(u) /\ Holders(u)' = Holders(u)
    BY <1>1 DEF Takers, Wakers, Failers, Requeuers, Givers, Holders
  <2> QED
    BY <1>1, <1>4, <2>1, <2>2, Aside
<1>6. Orderly(s)
  BY <1>3, AllElsewhere
<1> QED
  BY <1>1, <1>3, <1>5, <1>6, Issues

\* One that dies has no call running: what it had in hand it changes no more.
LEMMA DieInOrder ==
  ASSUME TypeOK, TypeOK', InOrder, NEW a \in Agents, Die(a)
  PROVE  InOrder'
<1>1. /\ todo[a] = <<>> /\ alive' = alive \ {a} /\ Serial' = Serial
      /\ UNCHANGED <<task, zset, dead, agent, todo, call, environment>>
  BY DEF Die, MayCall, Idle, Serial, store, roster, bounds
<1>2. \A u : Holders(u)' \subseteq Holders(u) /\ a \notin Holders(u)'
  BY DEF Die, Holders, TypeOK
<1>3. \A u : Pending(u)' = Pending(u) /\ Owners(u)' = Owners(u) /\ a \notin Owners(u)
  BY <1>1, AheadNone DEF Pending, Owners
<1>4. ASSUME NEW u \in Tasks
      PROVE  OfTask(u)'
  <2>1. OfTask(u)
    BY DEF InOrder
  <2>2. /\ Takers(u)' = Takers(u) /\ Wakers(u)' = Wakers(u) /\ Failers(u)' = Failers(u)
        /\ Requeuers(u)' = Requeuers(u) /\ Givers(u)' \subseteq Givers(u)
    BY <1>1 DEF Takers, Wakers, Failers, Requeuers, Givers
  <2>3. \A b \in Holders(u)' \cup Owners(u) : b \in alive => b \in alive'
    BY <1>1, <1>2, <1>3
  <2> QED
    BY <1>1, <1>2, <1>3, <2>1, <2>2, <2>3, Aside
<1>5. \A b \in Agents : OfAgent(b)'
  BY <1>1 DEF InOrder, OfAgent, Registered
<1>6. \A d \in Callers : OfCaller(d)'
  BY <1>1 DEF InOrder, OfCaller, Known, True, Registered
<1>7. Alone'
  BY <1>1 DEF InOrder, Alone, Idle
<1> QED
  BY <1>4, <1>5, <1>6, <1>7 DEF InOrder

\* Only one that died is late.
LEMMA MissInOrder ==
  ASSUME TypeOK, TypeOK', InOrder, Careful(environment), NEW a \in Agents, MissHeartbeats(a)
  PROVE  InOrder'
<1>1. /\ a \notin alive /\ agent[a] # NoAgent /\ Serial' = Serial
      /\ UNCHANGED <<task, zset, dead, todo, call, alive, held, environment>>
  BY DEF MissHeartbeats, Careful, Timely, Serial, store, world, bounds
<1>2. \A b \in Agents : agent'[b].status = agent[b].status /\ (b # a => agent'[b] = agent[b])
  BY DEF MissHeartbeats, TypeOK, AgentRec
<1>3. \A b \in Agents : Registered(b)' <=> Registered(b)
  BY <1>2 DEF Registered
<1>4. \A u : Pending(u)' = Pending(u) /\ Owners(u)' = Owners(u)
  BY <1>1 DEF Pending, Owners
<1>5. ASSUME NEW u \in Tasks
      PROVE  OfTask(u)'
  <2>1. OfTask(u)
    BY DEF InOrder
  <2>2. /\ Takers(u)' = Takers(u) /\ Wakers(u)' = Wakers(u) /\ Failers(u)' = Failers(u)
        /\ Requeuers(u)' = Requeuers(u) /\ Givers(u)' = Givers(u) /\ Holders(u)' = Holders(u)
    BY <1>1 DEF Takers, Wakers, Failers, Requeuers, Givers, Holders
  <2> QED
    BY <1>1, <1>4, <2>1, <2>2, Aside
<1>6. \A b \in Agents : OfAgent(b)'
  <2>1. Registered(a)
    BY <1>1 DEF InOrder, OfAgent
  <2> QED
    BY <1>1, <1>2, <1>3, <2>1 DEF InOrder, OfAgent
<1>7. ASSUME NEW d \in Callers
      PROVE  OfCaller(d)'
  <2>1. call[d] \in Call /\ Known(d) /\ call'[d] = call[d] /\ todo'[d] = todo[d]
    BY <1>1 DEF TypeOK, InOrder, OfCaller
  <2>2. Known(d)'
    <3>1. call[d].at \in {"peek", "take", "fetch"} => Serial \/ \A b \in call[d].among : Registered(b)'
      BY <1>3, <2>1, Frames DEF Known
    <3>2. call[d].at = "give" => Serial \/ Registered(call[d].agent)'
      BY <1>3, <2>1, Frames DEF Known
    <3> QED
      BY <1>1, <1>3, <2>1, <3>1, <3>2 DEF Known
  <2>3. ASSUME NEW i \in DOMAIN todo[d]
        PROVE  (True(todo[d][i]))'
    <3>1. True(todo[d][i]) /\ todo[d][i] \in Command /\ todo'[d][i] = todo[d][i]
      BY <1>1 DEF InOrder, OfCaller, TypeOK
    <3>2. todo[d][i].do = "setAgent" => todo[d][i].agent \in Agents
      BY <3>1, Fields
    <3> QED
      BY <1>1, <1>3, <3>1, <3>2 DEF True
  <2> QED
    BY <2>1, <2>2, <2>3 DEF InOrder, OfCaller
<1>8. Alone'
  BY <1>1 DEF InOrder, Alone, Idle
<1> QED
  BY <1>5, <1>6, <1>7, <1>8 DEF InOrder

-----------------------------------------------------------------------------
(* Every step keeps it.                                                    *)

LEMMA StutterInOrder ==
  ASSUME TypeOK, InOrder, UNCHANGED vars
  PROVE  InOrder'
<1>1. /\ Serial' = Serial
      /\ UNCHANGED <<task, zset, dead, agent, todo, call, alive, held, environment>>
  BY DEF vars, store, roster, world, bounds, Serial
<1>2. ASSUME NEW u \in Tasks
      PROVE  OfTask(u)'
  <2>1. OfTask(u)
    BY DEF InOrder
  <2>2. /\ Takers(u)' = Takers(u) /\ Wakers(u)' = Wakers(u) /\ Failers(u)' = Failers(u)
        /\ Requeuers(u)' = Requeuers(u) /\ Givers(u)' = Givers(u) /\ Holders(u)' = Holders(u)
        /\ Pending(u)' = Pending(u) /\ Owners(u)' = Owners(u)
    BY <1>1 DEF Takers, Wakers, Failers, Requeuers, Givers, Holders, Pending, Owners
  <2> QED
    BY <1>1, <2>1, <2>2, Aside
<1>3. \A b \in Agents : OfAgent(b)'
  BY <1>1 DEF InOrder, OfAgent, Registered
<1>4. \A d \in Callers : OfCaller(d)'
  BY <1>1 DEF InOrder, OfCaller, Known, True, Registered
<1>5. Alone'
  BY <1>1 DEF InOrder, Alone, Idle
<1> QED
  BY <1>2, <1>3, <1>4, <1>5 DEF InOrder

\* A step that is no fault.
LEMMA StepInOrder ==
  ASSUME TypeOK, TypeOK', InOrder, Careful(environment), faults' = 0, [Next]_vars
  PROVE  InOrder'
<1>1. CASE UNCHANGED vars
  BY <1>1, StutterInOrder
<1>2. ASSUME NEW c \in Callers, Running(c)
      PROVE  InOrder'
  BY <1>2, CommandInOrder, PeekInOrder, TakeInOrder, FetchInOrder, GiveInOrder, WakeInOrder, SweepInOrder,
     FailNextInOrder, RequeueInOrder DEF Running
<1>3. ASSUME NEW c \in Callers, CutShort(c)
      PROVE  FALSE
  BY <1>3 DEF CutShort, TypeOK
<1>4. ASSUME NEW c \in Clients, NEW t \in Tasks, Enqueue(c, t) \/ CancelTask(c, t) \/ ReplayDeadLetter(c, t)
      PROVE  InOrder'
  <2>1. c \in Callers
    BY DEF Callers
  <2> QED
    BY <1>4, <2>1, EnqueueInOrder, CancelInOrder, ReplayInOrder
<1>5. ASSUME NEW c \in Clients, ClaimTask(c)
      PROVE  InOrder'
  BY <1>5, PollInOrder DEF Callers
<1>6. ASSUME NEW a \in Agents, NEW t \in Tasks,
             StartTask(a, t) \/ UpdateProgress(a, t) \/ CompleteTask(a, t) \/ FailTask(a, t)
      PROVE  InOrder'
  BY <1>6, StartInOrder, CompleteInOrder, FailInOrder
<1>7. ASSUME NEW a \in Agents, Dequeue(a) \/ RegisterAgent(a) \/ AgentHeartbeat(a)
      PROVE  InOrder'
  <2>1. a \in Callers
    BY DEF Callers
  <2> QED
    BY <1>7, <2>1, PollInOrder, RegisterInOrder, HeartbeatInOrder
<1>8. ASSUME NEW c \in Callers, NEW a \in Agents, UnregisterAgent(c, a)
      PROVE  InOrder'
  BY <1>8, UnregisterInOrder
<1>9. ASSUME NEW c \in Ticks, ProcessScheduledTasks(c) \/ CheckAgentHeartbeats(c)
      PROVE  InOrder'
  <2>1. c \in Callers
    BY DEF Callers
  <2> QED
    BY <1>9, <2>1, ScheduleInOrder, LateInOrder
<1>10. ASSUME NEW a \in Agents, Die(a) \/ MissHeartbeats(a)
       PROVE  InOrder'
  BY <1>10, DieInOrder, MissInOrder
<1>11. ASSUME NEW a \in Agents, Expire(a)
       PROVE  FALSE
  BY <1>11 DEF Expire, TypeOK
<1> QED
  BY <1>1, <1>2, <1>3, <1>4, <1>5, <1>6, <1>7, <1>8, <1>9, <1>10, <1>11 DEF Next

LEMMA InitInOrder ==
  ASSUME TypeOK, Init
  PROVE  InOrder
<1>1. \A c \in Callers : todo[c] = <<>> /\ call[c] = NoCall /\ Idle(c)
  BY DEF Init, Idle
<1>2. ASSUME NEW t \in Tasks
      PROVE  OfTask(t)
  <2>1. Pending(t) = {} /\ Owners(t) = {}
    BY <1>1, AheadNone DEF Pending, Owners
  <2>2. /\ task[t].status = "none" /\ Len(dead[t]) = 0 /\ \A k \in Keys : t \notin zset[k]
    BY DEF Init, NoTask
  <2>3. /\ Rec(t) = task[t] /\ Died(t) = 0 /\ \A k \in Keys : k \notin In(t)
    BY <2>1, <2>2, Unissued
  <2>4. /\ Takers(t) = {} /\ Givers(t) = {} /\ Wakers(t) = {} /\ Failers(t) = {} /\ Requeuers(t) = {}
        /\ Holders(t) = {}
    BY <1>1 DEF NoCall, Takers, Givers, Wakers, Failers, Requeuers, Holders, Init
  <2>5. Sound(t)
    BY <2>2, <2>3, <2>4 DEF Sound, Busy, Keys
  <2>6. Steady(t)
    BY <2>1 DEF Steady, AtMostOne, Writes
  <2>7. InHand(t)
    BY <2>4 DEF InHand
  <2>8. Still(t) /\ Guarded(t)
    BY <2>1, <2>2, <2>3, <2>4 DEF Still, Guarded, Keys
  <2> QED
    BY <2>5, <2>6, <2>7, <2>8 DEF OfTask
<1>3. \A a \in Agents : OfAgent(a)
  BY DEF Init, OfAgent, Registered
<1>4. ASSUME NEW c \in Callers
      PROVE  OfCaller(c)
  <2>1. Known(c)
    BY <1>1 DEF Known, NoCall
  <2> QED
    BY <1>1, <2>1 DEF OfCaller, Orderly
<1>5. Alone
  BY <1>1 DEF Alone
<1> QED
  BY <1>2, <1>3, <1>4, <1>5 DEF InOrder

\* As long as nothing fails: a call that is cut short leaves a task wherever it was.
Undisturbed == Careful(environment) /\ faults = 0

LEMMA FaultsStay ==
  ASSUME TypeOK, [Next]_vars
  PROVE  environment' = environment /\ (faults' = 0 => faults = 0)
<1> DEFINE Goal == environment' = environment /\ (faults' = 0 => faults = 0)
<1>1. CASE UNCHANGED vars
  BY <1>1 DEF vars, bounds
<1>2. ASSUME NEW c \in Callers, Running(c)
      PROVE  Goal
  BY <1>2 DEF Running, Command1, WriteTask, ZAddTask, ZRemTask, WriteList, PutDeadLetter, DropDeadLetter,
     ReadLoad, WriteAgent, WriteMembers, Peek, Take, Fetch, Give, Wake, Sweep, FailNext, Requeue, bounds
<1>3. ASSUME NEW c \in Callers, CutShort(c) \/ ClaimTask(c) \/ ProcessScheduledTasks(c) \/ CheckAgentHeartbeats(c)
      PROVE  Goal
  BY <1>3 DEF CutShort, ClaimTask, ProcessScheduledTasks, CheckAgentHeartbeats, bounds, TypeOK
<1>4. ASSUME NEW c \in Clients, NEW t \in Tasks, Enqueue(c, t) \/ CancelTask(c, t) \/ ReplayDeadLetter(c, t)
      PROVE  Goal
  BY <1>4 DEF Enqueue, CancelTask, ReplayDeadLetter, bounds
<1>5. ASSUME NEW a \in Agents, NEW t \in Tasks,
             StartTask(a, t) \/ UpdateProgress(a, t) \/ CompleteTask(a, t) \/ FailTask(a, t)
      PROVE  Goal
  BY <1>5 DEF StartTask, UpdateProgress, CompleteTask, FailTask, bounds
<1>6. ASSUME NEW a \in Agents,
             \/ Dequeue(a) \/ RegisterAgent(a) \/ AgentHeartbeat(a) \/ Die(a) \/ MissHeartbeats(a)
             \/ \E c \in Callers : UnregisterAgent(c, a)
      PROVE  Goal
  BY <1>6 DEF Dequeue, RegisterAgent, AgentHeartbeat, Die, MissHeartbeats, UnregisterAgent, bounds
<1>7. ASSUME NEW a \in Agents, Expire(a)
      PROVE  Goal
  <2>1. environment' = environment /\ faults' = faults + 1 /\ faults \in Nat
    BY <1>7 DEF Expire, TypeOK
  <2> QED
    BY <2>1
<1>8. Clients \subseteq Callers /\ Ticks \subseteq Callers
  BY DEF Callers
<1> QED
  BY <1>1, <1>2, <1>3, <1>4, <1>5, <1>6, <1>8, <1>7 DEF Next

\* In every state the queue reaches undisturbed, each task is where its record
\* says, and what has yet to be written of it is written by one call.
THEOREM QueueInOrder == Spec => [](TypeOK /\ (Undisturbed => InOrder))
<1>1. TypeOK /\ Init => InOrder
  BY InitInOrder
<1>2. TypeOK /\ TypeOK' /\ (Undisturbed => InOrder) /\ [Next]_vars => (Undisturbed => InOrder)'
  BY FaultsStay, StepInOrder DEF Undisturbed
<1> QED
  BY <1>1, <1>2, TypeCorrect, PTL DEF Spec

-----------------------------------------------------------------------------
(* What it promises.                                                       *)

LEMMA InOrderAgrees ==
  ASSUME TypeOK, Undisturbed => InOrder
  PROVE  Careful(environment) => QueuesAgree
<1> SUFFICES ASSUME InOrder, Quiet, NEW t \in Tasks
             PROVE  /\ task[t].status = "pending" => t \in zset["priority"]
                    /\ task[t].status = "scheduled" => t \in zset["scheduled"]
                    /\ task[t].status \in {"assigned", "processing"} => t \in zset["processing"] \/ dead[t] # <<>>
                    /\ t \in zset["priority"] => task[t].status = "pending"
                    /\ t \in zset["scheduled"] => task[t].status = "scheduled"
  BY DEF QueuesAgree, NoTaskLost, NoStrayEntry, Undisturbed
<1>1. \A c \in Callers : todo[c] = <<>> /\ call[c].at = "none"
  BY DEF Quiet, Idle, NoCall
<1>2. Pending(t) = {} /\ Takers(t) = {}
  BY <1>1, AheadNone DEF Pending, Takers
<1>3. Rec(t) = task[t] /\ Died(t) = Len(dead[t]) /\ \A k \in Keys : k \in In(t) <=> t \in zset[k]
  BY <1>2, Unissued
<1>4. Sound(t)
  BY DEF InOrder, OfTask
<1>5. Len(dead[t]) = 0 \/ dead[t] # <<>>
  OBVIOUS
<1> QED
  BY <1>2, <1>3, <1>4, <1>5 DEF Sound, Busy, Keys

\* Whoever calls at once, and whichever agents die: between calls, unless one was
\* cut short, each task is in the queue that its record names, and in no other.
THEOREM QueuesStayAgreed == Spec => [](Careful(environment) => QueuesAgree)
  BY QueueInOrder, InOrderAgrees, PTL

LEMMA InOrderExclusive ==
  ASSUME TypeOK, InOrder
  PROVE  Exclusive
<1> SUFFICES ASSUME NEW a \in Agents, NEW b \in Agents, a # b, NEW t \in held[a] \cap held[b]
             PROVE  FALSE
  BY DEF Exclusive
<1>1. t \in Tasks /\ a \in Holders(t) /\ b \in Holders(t)
  BY DEF TypeOK, Holders
<1>2. With(t, a) /\ With(t, b)
  BY <1>1 DEF InOrder, OfTask, InHand
<1> QED
  BY <1>2 DEF With

\* As long as nothing fails, no two running agents ever execute the same task,
\* however their polls, a client's claims and the sweep overlap.
THEOREM TasksAreExclusive == Spec => [](Undisturbed => Exclusive)
<1>1. TypeOK /\ (Undisturbed => InOrder) => (Undisturbed => Exclusive)
  BY InOrderExclusive
<1> QED
  BY <1>1, QueueInOrder, PTL

LEMMA FinalStep ==
  ASSUME TypeOK, InOrder, [Next]_vars, NEW t \in Tasks, task[t].status \in {"completed", "cancelled"}
  PROVE  task'[t].status = task[t].status
<1> DEFINE Goal == task'[t].status = task[t].status
<1>1. CASE UNCHANGED vars
  BY <1>1 DEF vars, store
<1>2. ASSUME NEW c \in Callers, WriteTask(c)
      PROVE  Goal
  <2> DEFINE cmd == Head(todo[c])
  <2>1. cmd.do = "setTask" /\ todo[c] # <<>> /\ task' = [task EXCEPT ![cmd.task] = cmd.rec]
    BY <1>2 DEF WriteTask, Doing
  <2>2. CASE cmd.task = t
    <3>1. todo[c] \in Seq(Command)
      BY DEF TypeOK
    <3>2. On(cmd, t)
      BY <2>1, <2>2 DEF On, OnKeys
    <3>3. cmd \in Ahead(todo[c], t)
      BY <2>1, <3>1, <3>2, AheadHead
    <3>4. cmd \in Writes(Pending(t))
      BY <2>1, <3>3 DEF Pending, Writes
    <3> QED
      BY <3>4 DEF InOrder, OfTask, Steady
  <2>3. CASE cmd.task # t
    BY <2>1, <2>3 DEF TypeOK
  <2> QED
    BY <2>2, <2>3
<1>3. ASSUME NEW c \in Clients, NEW u \in Tasks, Enqueue(c, u)
      PROVE  Goal
  <2>1. u # t
    BY <1>3 DEF Enqueue, NoTask
  <2> QED
    BY <1>3, <2>1 DEF Enqueue, TypeOK
<1>4. ASSUME NEW c \in Callers, Running(c), ~WriteTask(c)
      PROVE  Goal
  BY <1>4 DEF Running, Command1, ZAddTask, ZRemTask, WriteList, PutDeadLetter, DropDeadLetter,
     ReadLoad, WriteAgent, WriteMembers, Peek, Take, Fetch, Give, Wake, Sweep, FailNext, Requeue, store
<1>5. ASSUME NEW c \in Callers, CutShort(c) \/ ClaimTask(c) \/ ProcessScheduledTasks(c) \/ CheckAgentHeartbeats(c)
      PROVE  Goal
  BY <1>5 DEF CutShort, ClaimTask, ProcessScheduledTasks, CheckAgentHeartbeats, store
<1>6. ASSUME NEW c \in Clients, NEW u \in Tasks, CancelTask(c, u) \/ ReplayDeadLetter(c, u)
      PROVE  Goal
  BY <1>6 DEF CancelTask, ReplayDeadLetter, store
<1>7. ASSUME NEW a \in Agents, NEW u \in Tasks,
             StartTask(a, u) \/ UpdateProgress(a, u) \/ CompleteTask(a, u) \/ FailTask(a, u)
      PROVE  Goal
  BY <1>7 DEF StartTask, UpdateProgress, CompleteTask, FailTask, store
<1>8. ASSUME NEW a \in Agents,
             \/ Dequeue(a) \/ RegisterAgent(a) \/ AgentHeartbeat(a) \/ Die(a) \/ MissHeartbeats(a) \/ Expire(a)
             \/ \E c \in Callers : UnregisterAgent(c, a)
      PROVE  Goal
  BY <1>8 DEF Dequeue, RegisterAgent, AgentHeartbeat, Die, MissHeartbeats, Expire, UnregisterAgent, store
<1>9. Clients \subseteq Callers /\ Ticks \subseteq Callers
  BY DEF Callers
<1> QED
  BY <1>1, <1>2, <1>3, <1>4, <1>5, <1>6, <1>7, <1>8, <1>9 DEF Next

\* As long as nothing fails, a completed or cancelled task is never queued or
\* assigned again, whatever is replayed, swept or scheduled meanwhile.
THEOREM FinishedStaysFinal == Spec /\ []Undisturbed => FinishedIsFinal
<1>1. TypeOK /\ (Undisturbed => InOrder) /\ Undisturbed /\ [Next]_vars
        => [\A t \in Tasks : task[t].status \in {"completed", "cancelled"}
                              => task'[t].status = task[t].status]_vars
  BY FinalStep
<1> QED
  BY <1>1, QueueInOrder, PTL DEF Spec, FinishedIsFinal
-----------------------------------------------------------------------------
(* The books.  Calls that do not overlap: at most one list of commands is  *)
(* under way, with at most one command on the pending list and one on the  *)
(* record of an agent.  The invariant says what the books will be when     *)
(* they have run.                                                          *)

OnLists == {"lpush", "lrem"}
OnRecords == {"addLoad", "setAgent", "del"}
All(s, names) == {s[i] : i \in {j \in DOMAIN s : s[j].do \in names}}
Sent(names) == UNION {All(todo[c], names) : c \in Callers}
Once(s) == \A i, j \in DOMAIN s :
  {s[i].do, s[j].do} \subseteq OnLists \/ {s[i].do, s[j].do} \subseteq OnRecords => i = j

\* The pending list has a task once if it is in a priority set.
Numbered(t) ==
  /\ (\A m \in Sent(OnLists) : m.task # t) => list[t] = IF "priority" \in In(t) THEN 1 ELSE 0
  /\ \A m \in Sent(OnLists) : m.task = t =>
       /\ m.do = "lpush" => list[t] = 0 /\ "priority" \in In(t)
       /\ m.do = "lrem" => "priority" \notin In(t)

\* The tasks of an agent, and a record of it that agrees with them.
Team(a) == {t \in Tasks : With(t, a)}
Leaving(a) == \E c \in Callers : call[c].at = "requeue" /\ call[c].agent = a
Right(a, r) ==
  /\ r.status \in {"idle", "busy"} => r.load = Cardinality(Team(a))
  /\ r.status \in {"offline", "none"} => Team(a) = {}
  /\ r.status = "offline" => ~r.fresh
Counted(a) ==
  /\ ~Leaving(a) /\ (\A m \in Sent(OnRecords) : m.agent # a) => Right(a, agent[a])
  /\ \A m \in Sent(OnRecords) : m.agent = a =>
       /\ m.do = "setAgent" => Right(a, m.rec)
       /\ m.do = "addLoad" =>
            agent[a].status \in {"idle", "busy"} /\ agent[a].load + m.delta = Cardinality(Team(a))
       /\ m.do = "del" => Team(a) = {}

\* An agent has, while a list runs, the tasks of before or those of after it.
Ever(a) == Assigned(a) \cup Team(a)
Fits(a) == IsFiniteSet(Ever(a)) /\ Cardinality(Ever(a)) <= Capacity[a]

\* No task that is written is a dead letter.
Lives(t) == Writes(Pending(t)) # {} /\ Rec(t).status \in Busy => Died(t) = 0

\* What the local variables of the running call say of the books.
Ready(c) ==
  LET f == call[c] IN
  /\ f.at \in {"peek", "take", "fetch"} =>
       /\ All(todo[c], OnRecords) = {}
       /\ \A a \in f.among : agent[a].status \in {"idle", "busy"} /\ Cardinality(Team(a)) < Capacity[a]
  /\ f.at \in {"sweep", "fail"} => \A a \in Agents : f.late[a] # NoAgent => ~f.late[a].fresh
  /\ f.at = "fail" => Team(f.agent) \subseteq f.tasks
  /\ f.at = "requeue" => \A t \in Team(f.agent) : f.recs[t] # NoTask

Kept ==
  /\ \A c \in Callers : Once(todo[c]) /\ Ready(c)
  /\ \A t \in Tasks : Numbered(t) /\ Lives(t)
  /\ \A a \in Agents : Counted(a) /\ Fits(a)
-----------------------------------------------------------------------------
(* The commands that are under way.                                        *)

LEMMA AllNone == \A names : All(<<>>, names) = {}
  BY DEF All

LEMMA AllTail ==
  ASSUME NEW s \in Seq(Command), s # <<>>, Once(s)
  PROVE  /\ Once(Tail(s))
         /\ \A names : Head(s).do \notin names => All(Tail(s), names) = All(s, names)
         /\ Head(s).do \in OnLists => All(s, OnLists) = {Head(s)} /\ All(Tail(s), OnLists) = {}
         /\ Head(s).do \in OnRecords => All(s, OnRecords) = {Head(s)} /\ All(Tail(s), OnRecords) = {}
<1>1. /\ DOMAIN s = 1..Len(s) /\ Len(s) \in Nat \ {0}
      /\ DOMAIN Tail(s) = 1..(Len(s) - 1)
      /\ \A i \in 1..(Len(s) - 1) : Tail(s)[i] = s[i + 1]
      /\ Head(s) = s[1]
  OBVIOUS
<1>2. Once(Tail(s))
  <2> SUFFICES ASSUME NEW i \in DOMAIN Tail(s), NEW j \in DOMAIN Tail(s),
                      {Tail(s)[i].do, Tail(s)[j].do} \subseteq OnLists \/ {Tail(s)[i].do, Tail(s)[j].do} \subseteq OnRecords
               PROVE  i = j
    BY DEF Once
  <2>1. i + 1 \in DOMAIN s /\ j + 1 \in DOMAIN s /\ Tail(s)[i] = s[i + 1] /\ Tail(s)[j] = s[j + 1]
    BY <1>1
  <2>2. i + 1 = j + 1
    BY <2>1 DEF Once
  <2> QED
    BY <1>1, <2>2
<1>3. ASSUME NEW names, Head(s).do \notin names
      PROVE  All(Tail(s), names) = All(s, names)
  <2>1. ASSUME NEW m \in All(s, names)
        PROVE  m \in All(Tail(s), names)
    <3>1. PICK i \in DOMAIN s : m = s[i] /\ s[i].do \in names
      BY DEF All
    <3>2. i # 1
      BY <1>1, <1>3, <3>1
    <3>3. i - 1 \in DOMAIN Tail(s) /\ Tail(s)[i - 1] = s[i]
      BY <1>1, <3>2
    <3> QED
      BY <3>1, <3>3 DEF All
  <2>2. ASSUME NEW m \in All(Tail(s), names)
        PROVE  m \in All(s, names)
    <3>1. PICK i \in DOMAIN Tail(s) : m = Tail(s)[i] /\ Tail(s)[i].do \in names
      BY DEF All
    <3>2. i + 1 \in DOMAIN s /\ Tail(s)[i] = s[i + 1]
      BY <1>1
    <3> QED
      BY <3>1, <3>2 DEF All
  <2> QED
    BY <2>1, <2>2
<1>4. ASSUME NEW names \in {OnLists, OnRecords}, Head(s).do \in names
      PROVE  All(s, names) = {Head(s)} /\ All(Tail(s), names) = {}
  <2>1. \A i \in DOMAIN s : s[i].do \in names => i = 1
    <3> SUFFICES ASSUME NEW i \in DOMAIN s, s[i].do \in names
                 PROVE  i = 1
      OBVIOUS
    <3>1. 1 \in DOMAIN s /\ s[1].do \in names
      BY <1>1, <1>4
    <3>2. {s[i].do, s[1].do} \subseteq OnLists \/ {s[i].do, s[1].do} \subseteq OnRecords
      BY <3>1
    <3> QED
      BY <3>1, <3>2 DEF Once
  <2>2. All(s, names) = {Head(s)}
    <3>1. 1 \in DOMAIN s /\ s[1] = Head(s)
      BY <1>1
    <3> QED
      BY <1>4, <2>1, <3>1 DEF All
  <2>3. \A i \in DOMAIN Tail(s) : Tail(s)[i].do \notin names
    <3> SUFFICES ASSUME NEW i \in DOMAIN Tail(s), Tail(s)[i].do \in names
                 PROVE  FALSE
      OBVIOUS
    <3>1. i + 1 \in DOMAIN s /\ Tail(s)[i] = s[i + 1] /\ i + 1 # 1
      BY <1>1
    <3> QED
      BY <2>1, <3>1
  <2> QED
    BY <2>2, <2>3 DEF All
<1> QED
  BY <1>2, <1>3, <1>4

\* They are those of the one call that runs.
LEMMA Sends ==
  ASSUME NEW c \in Callers
  PROVE  /\ (\A d \in Callers : d # c => todo[d] = <<>>) => \A names : Sent(names) = All(todo[c], names)
         /\ (\A d \in Callers : d # c => todo'[d] = <<>>) => \A names : Sent(names)' = All(todo'[c], names)
<1>1. ASSUME \A d \in Callers : d # c => todo[d] = <<>>
      PROVE  \A names : Sent(names) = All(todo[c], names)
  <2>1. \A names : \A d \in Callers : d # c => All(todo[d], names) = {}
    BY <1>1, AllNone
  <2> QED
    BY <2>1 DEF Sent
<1>2. ASSUME \A d \in Callers : d # c => todo'[d] = <<>>
      PROVE  \A names : Sent(names)' = All(todo'[c], names)
  <2>1. \A names : \A d \in Callers : d # c => All(todo'[d], names) = {}
    BY <1>2, AllNone
  <2> QED
    BY <2>1 DEF Sent
<1> QED
  BY <1>1, <1>2

-----------------------------------------------------------------------------
(* What the parts depend on.                                               *)

\* The tasks as they will be.
Placed(t) == Rec(t)' = Rec(t) /\ Died(t)' = Died(t) /\ ("priority" \in In(t)' <=> "priority" \in In(t))

LEMMA TeamStays ==
  ASSUME \A t \in Tasks : Rec(t)' = Rec(t) /\ Died(t)' = Died(t)
  PROVE  \A a : Team(a)' = Team(a) /\ \A r : Right(a, r) => Right(a, r)'
<1>1. \A a : Team(a)' = Team(a)
  BY DEF Team, With
<1> QED
  BY <1>1 DEF Right

\* A task stays an agent's while commands run, or it will be.
LEMMA EverShrinks ==
  ASSUME TypeOK, NEW c \in Callers, Command1(c), InOrder, Kept, NEW a \in Agents
  PROVE  Ever(a)' \subseteq Ever(a)
<1> SUFFICES ASSUME NEW t \in Assigned(a)'
             PROVE  t \in Ever(a)
  <2>1. \A t \in Tasks : Rec(t)' = Rec(t) /\ Died(t)' = Died(t)
    BY CommandEnds DEF InOrder, OfTask, OfCaller
  <2> QED
    BY <2>1, TeamStays DEF Ever
<1>0. TypeOK'
  BY CommandType
<1>1. /\ t \in Tasks /\ t \in zset'["processing"]
      /\ task'[t].assignee = a /\ task'[t].status \in Busy
  BY <1>0 DEF Assigned, TypeOK, Keys, Busy
<1>2. /\ Rec(t)' = Rec(t) /\ In(t)' = In(t) /\ Died(t)' = Died(t)
      /\ \/ task'[t] = task[t]
         \/ /\ Writes(Pending(t)') = {} /\ c \in Owners(t)
            /\ \E m \in Writes(Pending(t)) : task'[t] = m.rec
      /\ t \in zset'["processing"] => t \in zset["processing"] \/ Pending(t)' = {}
  BY <1>1, CommandEnds DEF InOrder, OfTask, OfCaller
<1>3. CASE task'[t] = task[t] /\ t \in zset["processing"]
  BY <1>1, <1>3 DEF Ever, Assigned, Busy
<1>4. CASE t \notin zset["processing"]
  <2>1. Pending(t)' = {}
    BY <1>1, <1>2, <1>4
  <2>2. Rec(t)' = task'[t] /\ "processing" \in In(t)'
    BY <1>1, <2>1, UnissuedNext DEF Keys
  <2>3. Rec(t).status \in Busy /\ Rec(t).assignee = a /\ "processing" \in In(t)
    BY <1>1, <1>2, <2>2
  <2>4. With(t, a)
    BY <1>1, <2>3 DEF InOrder, OfTask, Sound, With
  <2> QED
    BY <1>1, <2>4 DEF Ever, Team
<1>5. CASE Writes(Pending(t)') = {} /\ Writes(Pending(t)) # {}
  <2>1. Rec(t)' = task'[t]
    BY <1>5 DEF Rec, RecAfter
  <2>2. Rec(t).status \in Busy /\ Rec(t).assignee = a
    BY <1>1, <1>2, <2>1
  <2>3. With(t, a)
    BY <1>1, <1>5, <2>2 DEF Kept, Lives, With
  <2> QED
    BY <1>1, <2>3 DEF Ever, Team
<1> QED
  BY <1>1, <1>2, <1>3, <1>4, <1>5
-----------------------------------------------------------------------------
(* The commands keep the books.                                            *)

\* What every command leaves to the caller whose call runs.
LEMMA CommandSends ==
  ASSUME TypeOK, Serial, NEW c \in Callers, Command1(c), InOrder, Kept
  PROVE  /\ todo[c] # <<>> /\ todo[c] \in Seq(Command) /\ Head(todo[c]) \in Command /\ Once(todo[c])
         /\ \A d \in Callers : d # c => todo'[d] = <<>> /\ call[d] = NoCall
         /\ \A names : Sent(names) = All(todo[c], names) /\ Sent(names)' = All(todo'[c], names)
         /\ call' = call /\ Serial' = Serial
<1>1. /\ todo[c] # <<>> /\ todo[c] \in Seq(Command) /\ Head(todo[c]) \in Command
      /\ \A d \in Callers : d # c => todo'[d] = todo[d]
      /\ UNCHANGED <<call, environment>>
  BY CommandPops
<1>2. \A d \in Callers : d # c => todo[d] = <<>> /\ call[d] = NoCall
  BY <1>1 DEF InOrder, Alone, Idle
<1> QED
  BY <1>1, <1>2, Sends DEF Kept, Serial

\* The books of a task, when the command is not on the pending list.
LEMMA ListStays ==
  ASSUME NEW t \in Tasks, Numbered(t), list'[t] = list[t], Sent(OnLists)' = Sent(OnLists),
         In(t)' = In(t)
  PROVE  Numbered(t)'
  BY DEF Numbered

LEMMA RecordStays ==
  ASSUME \A t \in Tasks : Rec(t)' = Rec(t) /\ Died(t)' = Died(t),
         NEW a, Counted(a), agent'[a] = agent[a], Sent(OnRecords)' = Sent(OnRecords), call' = call
  PROVE  Counted(a)'
<1>1. Team(a)' = Team(a) /\ (Leaving(a)' <=> Leaving(a)) /\ \A r : Right(a, r)' <=> Right(a, r)
  <2>1. Team(a)' = Team(a)
    BY TeamStays
  <2> QED
    BY <2>1 DEF Leaving, Right
<1> QED
  BY <1>1 DEF Counted, Right

LEMMA CommandOnList ==
  ASSUME TypeOK, Serial, NEW c \in Callers, WriteList(c), InOrder, Kept,
         \A t \in Tasks : In(t)' = In(t), NEW t \in Tasks
  PROVE  Numbered(t)'
<1> DEFINE m == Head(todo[c])
<1>1. Command1(c)
  BY DEF Command1
<1>2. /\ todo[c] # <<>> /\ m.do \in OnLists /\ m.task \in Tasks
      /\ list' = [list EXCEPT ![m.task] = IF m.do = "lpush" THEN list[m.task] + 1 ELSE 0]
      /\ todo' = [todo EXCEPT ![c] = Tail(todo[c])]
  BY <1>1, CommandSends, Fields DEF WriteList, Doing, NextCommand, OnLists
<1>3. Sent(OnLists) = {m} /\ Sent(OnLists)' = {}
  <2>1. todo'[c] = Tail(todo[c])
    BY <1>2 DEF TypeOK
  <2>2. All(todo[c], OnLists) = {m} /\ All(todo'[c], OnLists) = {}
    BY <1>1, <1>2, <2>1, CommandSends, AllTail
  <2> QED
    BY <1>1, <2>2, CommandSends
<1>4. list \in [Tasks -> Nat] /\ Numbered(t) /\ In(t)' = In(t)
  BY DEF TypeOK, Kept
<1> HIDE DEF m
<1>5. CASE m.task = t
  <2>1. /\ m.do = "lpush" => list[t] = 0 /\ "priority" \in In(t)
        /\ m.do = "lrem" => "priority" \notin In(t)
    BY <1>3, <1>4, <1>5 DEF Numbered
  <2>2. list'[t] = IF m.do = "lpush" THEN list[t] + 1 ELSE 0
    BY <1>2, <1>4, <1>5
  <2>3. list'[t] = IF "priority" \in In(t) THEN 1 ELSE 0
    BY <1>2, <2>1, <2>2 DEF OnLists
  <2> QED
    BY <1>3, <1>4, <2>3 DEF Numbered
<1>6. CASE m.task # t
  <2>1. list'[t] = list[t]
    BY <1>2, <1>4, <1>6
  <2>2. list[t] = IF "priority" \in In(t) THEN 1 ELSE 0
    BY <1>3, <1>4, <1>6 DEF Numbered
  <2> QED
    BY <1>3, <1>4, <2>1, <2>2 DEF Numbered
<1> QED
  BY <1>5, <1>6

\* The load is read, and the record with the new one is written next.
LEMMA CommandReads ==
  ASSUME TypeOK, Serial, NEW c \in Callers, ReadLoad(c), InOrder, Kept,
         \A t \in Tasks : Rec(t)' = Rec(t) /\ Died(t)' = Died(t)
  PROVE  /\ \A b \in Agents : Counted(b)'
         /\ Once(todo'[c]) /\ Sent(OnLists)' = Sent(OnLists)
<1> DEFINE m == Head(todo[c])
           a == m.agent
           n == agent[a].load + m.delta
           r == Loaded(a, agent[a], IF n < 0 THEN 0 ELSE n)
<1>1. Command1(c)
  BY DEF Command1
<1>2. /\ todo[c] # <<>> /\ todo[c] \in Seq(Command) /\ Once(todo[c]) /\ m.do = "addLoad" /\ a \in Agents
      /\ agent' = agent /\ call' = call
  <2>1. m.do = "addLoad" /\ m \in Command
    BY <1>1, CommandSends DEF ReadLoad, Doing
  <2> QED
    BY <1>1, <2>1, CommandSends, Fields DEF ReadLoad, roster
<1>3. Sent(OnRecords) = {m} /\ All(Tail(todo[c]), OnRecords) = {} /\ All(Tail(todo[c]), OnLists) = All(todo[c], OnLists)
  <2>1. m.do \in OnRecords /\ m.do \notin OnLists
    BY <1>2 DEF OnRecords, OnLists
  <2>2. All(todo[c], OnRecords) = {m} /\ All(Tail(todo[c]), OnRecords) = {}
    BY <1>2, <2>1, AllTail
  <2>3. All(Tail(todo[c]), OnLists) = All(todo[c], OnLists)
    BY <1>2, <2>1, AllTail
  <2>4. Sent(OnRecords) = All(todo[c], OnRecords)
    BY <1>1, CommandSends
  <2> QED
    BY <2>2, <2>3, <2>4
<1>4. agent[a].status \in {"idle", "busy"} /\ n = Cardinality(Team(a))
  BY <1>2, <1>3 DEF Kept, Counted
<1>5. n \in Nat
  <2>1. IsFiniteSet(Team(a))
    <3>1. IsFiniteSet(Ever(a)) /\ Team(a) \subseteq Ever(a)
      BY <1>2 DEF Kept, Fits, Ever
    <3> QED
      BY <3>1, FS_Subset
  <2> QED
    BY <1>4, <2>1, FS_CardinalityType
<1>6. r.load = n /\ r.status \in {"idle", "busy"}
  <2>1. agent[a] \in AgentRec
    BY <1>2 DEF TypeOK
  <2> QED
    BY <1>5, <2>1 DEF Loaded, AgentRec
<1>7. todo'[c] = <<SetAgent(a, r)>> \o Tail(todo[c])
  BY <1>2, <1>4 DEF ReadLoad, NoAgent, TypeOK
<1> HIDE DEF r, n, a, m
<1>8. /\ All(todo'[c], OnRecords) = {SetAgent(a, r)} /\ All(todo'[c], OnLists) = All(todo[c], OnLists)
      /\ Once(todo'[c])
  <2> DEFINE s == Tail(todo[c])
  <2>1. s \in Seq(Command) /\ Once(s)
    BY <1>2, AllTail
  <2>2. SetAgent(a, r).do = "setAgent"
    BY DEF SetAgent
  <2> DEFINE u == SetAgent(a, r)
  <2> HIDE DEF s, u
  <2>3. /\ DOMAIN (<<u>> \o s) = 1..(Len(s) + 1) /\ DOMAIN s = 1..Len(s) /\ Len(s) \in Nat
        /\ (<<u>> \o s)[1] = u /\ \A i \in 2..(Len(s) + 1) : (<<u>> \o s)[i] = s[i - 1]
    BY <2>1
  <2>4. \A i \in DOMAIN s : s[i].do \notin OnRecords
    BY <1>3 DEF All, s
  <2>5. \A i \in 2..(Len(s) + 1) : i - 1 \in DOMAIN s /\ (<<u>> \o s)[i] = s[i - 1]
    BY <2>3
  <2>6. u.do \in OnRecords /\ u.do \notin OnLists
    BY <2>2 DEF u, OnRecords, OnLists
  <2>7. All(<<u>> \o s, OnRecords) = {u}
    <3>1. \A i \in DOMAIN (<<u>> \o s) : (<<u>> \o s)[i].do \in OnRecords => i = 1
      BY <2>3, <2>4, <2>5
    <3>2. 1 \in DOMAIN (<<u>> \o s)
      BY <2>3
    <3> QED
      BY <2>3, <2>6, <3>1, <3>2 DEF All
  <2>8. All(<<u>> \o s, OnLists) = All(s, OnLists)
    <3>1. ASSUME NEW x \in All(<<u>> \o s, OnLists)
          PROVE  x \in All(s, OnLists)
      <4>1. PICK i \in DOMAIN (<<u>> \o s) : x = (<<u>> \o s)[i] /\ (<<u>> \o s)[i].do \in OnLists
        BY DEF All
      <4>2. i \in 2..(Len(s) + 1)
        BY <2>3, <2>6, <4>1
      <4> QED
        BY <2>5, <4>1, <4>2 DEF All
    <3>2. ASSUME NEW x \in All(s, OnLists)
          PROVE  x \in All(<<u>> \o s, OnLists)
      <4>1. PICK i \in DOMAIN s : x = s[i] /\ s[i].do \in OnLists
        BY DEF All
      <4>2. i + 1 \in DOMAIN (<<u>> \o s) /\ (<<u>> \o s)[i + 1] = s[i]
        BY <2>3
      <4> QED
        BY <4>1, <4>2 DEF All
    <3> QED
      BY <3>1, <3>2
  <2>9. Once(<<u>> \o s)
    <3> SUFFICES ASSUME NEW i \in DOMAIN (<<u>> \o s), NEW j \in DOMAIN (<<u>> \o s),
                        \/ {(<<u>> \o s)[i].do, (<<u>> \o s)[j].do} \subseteq OnLists
                        \/ {(<<u>> \o s)[i].do, (<<u>> \o s)[j].do} \subseteq OnRecords
                 PROVE  i = j
      BY DEF Once
    <3>1. CASE i = 1
      BY <2>3, <2>4, <2>5, <2>6, <3>1
    <3>2. CASE j = 1
      BY <2>3, <2>4, <2>5, <2>6, <3>2
    <3>3. CASE i # 1 /\ j # 1
      <4>1. i \in 2..(Len(s) + 1) /\ j \in 2..(Len(s) + 1)
        BY <2>3, <3>3
      <4>2. i - 1 = j - 1
        BY <2>1, <2>5, <4>1 DEF Once
      <4> QED
        BY <4>1, <4>2
    <3> QED
      BY <3>1, <3>2, <3>3
  <2> QED
    BY <1>3, <1>7, <2>7, <2>8, <2>9 DEF s, u
<1>9. Sent(OnRecords)' = {SetAgent(a, r)} /\ Sent(OnLists)' = Sent(OnLists)
  BY <1>1, <1>8, CommandSends
<1>10. ASSUME NEW b \in Agents
       PROVE  Counted(b)'
  <2>1. Team(b)' = Team(b) /\ (Leaving(b)' <=> Leaving(b))
    BY <1>2, TeamStays DEF Leaving
  <2>2. CASE b = a
    <3>1. SetAgent(a, r).do = "setAgent" /\ SetAgent(a, r).agent = a /\ SetAgent(a, r).rec = r
      BY DEF SetAgent
    <3>2. \A u \in {SetAgent(a, r)} : u.agent = a /\ u.do = "setAgent" /\ u.rec = r
      BY <3>1
    <3>3. Team(b)' = Team(b) /\ Cardinality(Team(b)) = r.load
      BY <1>4, <1>6, <2>1, <2>2
    <3> HIDE DEF a
    <3>4. (\A u \in Sent(OnRecords) : u.agent = b /\ u.do = "setAgent" /\ u.rec.load = Cardinality(Team(b))
                                    /\ u.rec.status \in {"idle", "busy"})'
      BY <1>6, <1>9, <2>2, <3>2, <3>3
    <3>5. (\E u \in Sent(OnRecords) : u.agent = b)'
      BY <1>9, <2>2, <3>2
    <3> QED
      BY <3>4, <3>5 DEF Counted, Right
  <2>3. CASE b # a
    <3>1. ~Leaving(b) => Right(b, agent[b])
      BY <1>3, <2>3 DEF Kept, Counted, a
    <3>2. SetAgent(a, r).agent = a
      BY DEF SetAgent
    <3> QED
      BY <1>2, <1>9, <2>1, <2>3, <3>1, <3>2 DEF Counted, Right
  <2> QED
    BY <2>2, <2>3
<1> QED
  BY <1>8, <1>9, <1>10

\* A record is written, or deleted.
LEMMA CommandWrites ==
  ASSUME TypeOK, Serial, NEW c \in Callers, WriteAgent(c), InOrder, Kept,
         \A t \in Tasks : Rec(t)' = Rec(t) /\ Died(t)' = Died(t), NEW b \in Agents
  PROVE  Counted(b)'
<1> DEFINE m == Head(todo[c])
<1>1. Command1(c)
  BY DEF Command1
<1>2. /\ todo[c] # <<>> /\ m.do \in {"setAgent", "del"} /\ m.agent \in Agents /\ call' = call
      /\ agent' = [agent EXCEPT ![m.agent] = IF m.do = "del" THEN NoAgent ELSE m.rec]
      /\ todo' = [todo EXCEPT ![c] = Tail(todo[c])]
  <2>1. m.do \in {"setAgent", "del"} /\ m \in Command
    BY <1>1, CommandSends DEF WriteAgent, Doing
  <2> QED
    BY <1>1, <2>1, CommandSends, Fields DEF WriteAgent, NextCommand
<1>3. Sent(OnRecords) = {m} /\ Sent(OnRecords)' = {}
  <2>1. todo'[c] = Tail(todo[c]) /\ m.do \in OnRecords
    BY <1>2 DEF TypeOK, OnRecords
  <2>2. All(todo[c], OnRecords) = {m} /\ All(todo'[c], OnRecords) = {}
    BY <1>1, <1>2, <2>1, CommandSends, AllTail
  <2> QED
    BY <1>1, <2>2, CommandSends
<1>4. Team(b)' = Team(b) /\ (Leaving(b)' <=> Leaving(b)) /\ Counted(b)
  BY <1>2, TeamStays DEF Leaving, Kept
<1> HIDE DEF m
<1>5. ~Leaving(b) => Right(b, agent'[b])
  <2>1. CASE m.agent = b
    <3>1. /\ m.do = "setAgent" => Right(b, m.rec) /\ agent'[b] = m.rec
          /\ m.do = "del" => Team(b) = {} /\ agent'[b] = NoAgent
      BY <1>2, <1>3, <1>4, <2>1 DEF Counted, TypeOK
    <3>2. Team(b) = {} => Right(b, NoAgent)
      BY DEF Right, NoAgent
    <3> QED
      BY <1>2, <3>1, <3>2
  <2>2. CASE m.agent # b
    <3>1. agent'[b] = agent[b]
      BY <1>2, <2>2 DEF TypeOK
    <3> QED
      BY <1>3, <1>4, <2>2, <3>1 DEF Counted
  <2> QED
    BY <2>1, <2>2
<1> QED
  BY <1>3, <1>4, <1>5 DEF Counted, Right

\* The rest of the list, and the call behind it.
LEMMA CommandReady ==
  ASSUME TypeOK, Serial, NEW c \in Callers, Command1(c), InOrder, Kept,
         \A t \in Tasks : Rec(t)' = Rec(t) /\ Died(t)' = Died(t), NEW d \in Callers
  PROVE  Ready(d)'
<1>1. Ready(d) /\ call' = call /\ \A a : Team(a)' = Team(a)
  BY CommandSends, TeamStays DEF Kept
<1>2. CASE d # c
  <2>1. call'[d].at = "none"
    <3>1. call[d] = NoCall /\ call'[d] = call[d]
      BY <1>1, <1>2, CommandSends
    <3> QED
      BY <3>1 DEF NoCall
  <2> QED
    BY <2>1 DEF Ready
<1>3. CASE d = c /\ All(todo[c], OnRecords) = {}
  <2>1. /\ todo[c] # <<>> /\ todo[c] \in Seq(Command) /\ Once(todo[c])
        /\ Head(todo[c]).do \notin OnRecords
    <3>1. /\ todo[c] # <<>> /\ todo[c] \in Seq(Command) /\ Once(todo[c])
      BY CommandSends
    <3>2. Head(todo[c]).do \in OnRecords => All(todo[c], OnRecords) = {Head(todo[c])}
      BY <3>1, AllTail
    <3> QED
      BY <1>3, <3>1, <3>2
  <2>2. todo' = [todo EXCEPT ![c] = Tail(todo[c])] /\ agent' = agent
    BY <2>1 DEF Command1, Doing, OnRecords, NextCommand, WriteTask, ZAddTask, ZRemTask, WriteList, PutDeadLetter,
       DropDeadLetter, ReadLoad, WriteAgent, WriteMembers, roster
  <2>3. todo'[c] = Tail(todo[c])
    BY <2>2 DEF TypeOK
  <2>4. All(todo'[c], OnRecords) = {}
    BY <1>3, <2>1, <2>3, AllTail
  <2> QED
    BY <1>1, <1>3, <2>2, <2>4 DEF Ready
<1>4. CASE d = c /\ All(todo[c], OnRecords) # {}
  BY <1>1, <1>4 DEF Ready
<1> QED
  BY <1>2, <1>3, <1>4

LEMMA CommandKept ==
  ASSUME TypeOK, Serial, NEW c \in Callers, Command1(c), InOrder, Kept
  PROVE  Kept'
<1>1. \A t \in Tasks : /\ Rec(t)' = Rec(t) /\ In(t)' = In(t) /\ Died(t)' = Died(t)
                       /\ Pending(t)' \subseteq Pending(t)
  BY CommandEnds DEF InOrder, OfTask, OfCaller
<1>2. \A d \in Callers : Ready(d)'
  BY <1>1, CommandReady
<1>3. \A t \in Tasks : Lives(t)'
  BY <1>1 DEF Kept, Lives, Writes
<1>4. ASSUME NEW a \in Agents
      PROVE  Fits(a)'
  <2>1. Ever(a)' \subseteq Ever(a)
    BY EverShrinks
  <2>2. IsFiniteSet(Ever(a)) /\ Cardinality(Ever(a)) <= Capacity[a] /\ Capacity[a] \in Nat
    BY TaskQueueAssumption DEF Kept, Fits, TaskQueueAssumption
  <2>3. IsFiniteSet(Ever(a)') /\ Cardinality(Ever(a)') <= Cardinality(Ever(a))
        /\ Cardinality(Ever(a)') \in Nat /\ Cardinality(Ever(a)) \in Nat
    BY <2>1, <2>2, FS_Subset, FS_CardinalityType
  <2> QED
    BY <2>2, <2>3 DEF Fits
<1>5. /\ todo[c] # <<>> /\ todo[c] \in Seq(Command) /\ Once(todo[c]) /\ call' = call
      /\ \A d \in Callers : d # c => todo'[d] = <<>>
      /\ \A names : Sent(names) = All(todo[c], names) /\ Sent(names)' = All(todo'[c], names)
  BY CommandSends
<1>6. \A d \in Callers : d # c => Once(todo'[d])
  BY <1>5 DEF Once
<1> SUFFICES /\ Once(todo'[c])
             /\ \A t \in Tasks : Numbered(t)'
             /\ \A a \in Agents : Counted(a)'
  BY <1>2, <1>3, <1>4, <1>6 DEF Kept
<1>7. CASE ReadLoad(c)
  <2>1. Once(todo'[c]) /\ Sent(OnLists)' = Sent(OnLists) /\ \A a \in Agents : Counted(a)'
    BY <1>1, <1>7, CommandReads
  <2>2. list' = list
    BY <1>7 DEF ReadLoad, store
  <2> QED
    BY <1>1, <2>1, <2>2, ListStays DEF Kept
<1>8. ASSUME ~ReadLoad(c)
      PROVE  /\ todo'[c] = Tail(todo[c]) /\ Once(todo'[c])
             /\ Head(todo[c]).do \notin OnLists => Sent(OnLists)' = Sent(OnLists) /\ list' = list
             /\ Head(todo[c]).do \notin OnRecords => Sent(OnRecords)' = Sent(OnRecords) /\ agent' = agent
  <2>1. todo'[c] = Tail(todo[c])
    BY <1>8 DEF Command1, NextCommand, WriteTask, ZAddTask, ZRemTask, WriteList, PutDeadLetter,
       DropDeadLetter, WriteAgent, WriteMembers, TypeOK
  <2>2. Head(todo[c]).do \notin OnLists => list' = list
    BY <1>8 DEF Command1, Doing, OnLists, WriteTask, ZAddTask, ZRemTask, WriteList, PutDeadLetter,
       DropDeadLetter, WriteAgent, WriteMembers, store
  <2>3. Head(todo[c]).do \notin OnRecords => agent' = agent
    BY <1>8 DEF Command1, Doing, OnRecords, WriteTask, ZAddTask, ZRemTask, WriteList, PutDeadLetter,
       DropDeadLetter, WriteAgent, WriteMembers, roster
  <2> QED
    BY <1>5, <2>1, <2>2, <2>3, AllTail
<1>9. CASE WriteList(c)
  <2>1. Head(todo[c]).do \notin OnRecords /\ ~ReadLoad(c)
    BY <1>9 DEF WriteList, ReadLoad, Doing, OnRecords
  <2> QED
    BY <1>1, <1>5, <1>8, <1>9, <2>1, CommandOnList, RecordStays DEF Kept
<1>10. CASE WriteAgent(c)
  <2>1. Head(todo[c]).do \notin OnLists /\ ~ReadLoad(c)
    BY <1>10 DEF WriteAgent, ReadLoad, Doing, OnLists
  <2> QED
    BY <1>1, <1>8, <1>10, <2>1, CommandWrites, ListStays DEF Kept
<1>11. CASE ~ReadLoad(c) /\ ~WriteList(c) /\ ~WriteAgent(c)
  <2>1. Head(todo[c]).do \notin OnLists /\ Head(todo[c]).do \notin OnRecords
    BY <1>11 DEF Command1, Doing, OnLists, OnRecords, WriteTask, ZAddTask, ZRemTask, PutDeadLetter, DropDeadLetter,
       WriteMembers
  <2> QED
    BY <1>1, <1>5, <1>8, <1>11, <2>1, ListStays, RecordStays DEF Kept
<1> QED
  BY <1>7, <1>9, <1>10, <1>11
-----------------------------------------------------------------------------
(* The commands on the books in the lists that operations issue.           *)

Books(s, L, R) == Once(s) /\ All(s, OnLists) = L /\ All(s, OnRecords) = R

LEMMA BooksNone == Books(<<>>, {}, {})
  BY DEF Books, Once, All

LEMMA BooksOne ==
  ASSUME NEW m
  PROVE  /\ m.do \notin OnLists \cup OnRecords => Books(<<m>>, {}, {})
         /\ m.do \in OnLists => Books(<<m>>, {m}, {})
         /\ m.do \in OnRecords => Books(<<m>>, {}, {m})
<1> DEFINE s == <<m>>
<1>1. DOMAIN s = 1..1 /\ s[1] = m
  OBVIOUS
<1> HIDE DEF s
<1>2. Once(s)
  BY <1>1 DEF Once
<1>3. \A names : All(s, names) = IF m.do \in names THEN {m} ELSE {}
  BY <1>1 DEF All
<1> QED
  BY <1>2, <1>3 DEF Books, OnLists, OnRecords, s

LEMMA BooksBehind ==
  ASSUME NEW s \in Seq(Command), NEW L, NEW R, Books(s, L, R), NEW m \in Command, m.do \notin OnRecords
  PROVE  /\ <<m>> \o s \in Seq(Command)
         /\ m.do \notin OnLists => Books(<<m>> \o s, L, R)
         /\ m.do \in OnLists /\ L = {} => Books(<<m>> \o s, {m}, R)
<1> DEFINE u == <<m>> \o s
<1>1. /\ DOMAIN u = 1..(Len(s) + 1) /\ DOMAIN s = 1..Len(s) /\ Len(s) \in Nat
      /\ u[1] = m /\ \A i \in 2..(Len(s) + 1) : u[i] = s[i - 1] /\ i - 1 \in DOMAIN s
      /\ u \in Seq(Command)
  OBVIOUS
<1> HIDE DEF u
<1>2. \A i \in DOMAIN u : i = 1 \/ i \in 2..(Len(s) + 1)
  BY <1>1
<1>3. ASSUME m.do \in OnLists => L = {}
      PROVE  Once(u)
  <2> SUFFICES ASSUME NEW i \in DOMAIN u, NEW j \in DOMAIN u,
                      {u[i].do, u[j].do} \subseteq OnLists \/ {u[i].do, u[j].do} \subseteq OnRecords
               PROVE  i = j
    BY DEF Once
  <2>1. \A k \in DOMAIN s : m.do \in OnLists => s[k].do \notin OnLists
    BY <1>3 DEF Books, All
  <2>2. CASE i = 1 \/ j = 1
    BY <1>1, <1>2, <2>1, <2>2
  <2>3. CASE i # 1 /\ j # 1
    <3>1. i \in 2..(Len(s) + 1) /\ j \in 2..(Len(s) + 1)
      BY <1>1, <1>2, <2>3
    <3>2. /\ u[i] = s[i - 1] /\ i - 1 \in DOMAIN s
          /\ u[j] = s[j - 1] /\ j - 1 \in DOMAIN s
      BY <1>1, <3>1
    <3>3. i - 1 = j - 1
      BY <3>2 DEF Books, Once
    <3> QED
      BY <3>1, <3>3
  <2> QED
    BY <2>2, <2>3
<1>4. ASSUME NEW names
      PROVE  All(u, names) = All(s, names) \cup (IF m.do \in names THEN {m} ELSE {})
  <2>1. ASSUME NEW x \in All(u, names)
        PROVE  x \in All(s, names) \/ (x = m /\ m.do \in names)
    <3>1. PICK i \in DOMAIN u : x = u[i] /\ u[i].do \in names
      BY DEF All
    <3>2. CASE i = 1
      BY <1>1, <3>1, <3>2
    <3>3. CASE i \in 2..(Len(s) + 1)
      BY <1>1, <3>1, <3>3 DEF All
    <3> QED
      BY <1>2, <3>2, <3>3
  <2>2. ASSUME NEW x \in All(s, names)
        PROVE  x \in All(u, names)
    <3>1. PICK i \in DOMAIN s : x = s[i] /\ s[i].do \in names
      BY DEF All
    <3>2. i + 1 \in 2..(Len(s) + 1) /\ i + 1 \in DOMAIN u /\ (i + 1) - 1 = i
      BY <1>1
    <3>3. u[i + 1] = s[i]
      BY <1>1, <3>2
    <3> QED
      BY <3>1, <3>2, <3>3 DEF All
  <2>3. m.do \in names => m \in All(u, names)
    BY <1>1 DEF All
  <2> QED
    BY <2>1, <2>2, <2>3
<1>5. /\ All(u, OnLists) = All(s, OnLists) \cup (IF m.do \in OnLists THEN {m} ELSE {})
      /\ All(u, OnRecords) = All(s, OnRecords)
  BY <1>4
<1> QED
  BY <1>1, <1>3, <1>5 DEF Books, u

LEMMA BooksPush ==
  ASSUME NEW t \in Tasks
  PROVE  /\ EnqueuePending(t) \in Seq(Command)
         /\ Books(EnqueuePending(t), {OnList("lpush", t)}, {})
<1> DEFINE m == ZAdd("priority", t)
           n == OnList("lpush", t)
<1>1. m \in Command /\ n \in Command /\ m.do = "zadd" /\ n.do = "lpush"
  BY DEF ZAdd, OnList, Command, Keys
<1>2. EnqueuePending(t) = <<m>> \o <<n>> /\ <<n>> \in Seq(Command)
  BY <1>1 DEF EnqueuePending
<1> HIDE DEF m, n
<1>3. Books(<<n>>, {n}, {})
  BY <1>1, BooksOne DEF OnLists
<1>4. <<m>> \o <<n>> \in Seq(Command) /\ Books(<<m>> \o <<n>>, {n}, {})
  BY <1>1, <1>2, <1>3, BooksBehind DEF OnLists, OnRecords
<1> QED
  BY <1>2, <1>4 DEF n

\* What the load of an agent is told when a task is taken from it.
Unloads(a) == IF a = None THEN {} ELSE {AddLoad(a, -1)}

LEMMA BooksUnload ==
  ASSUME NEW a \in Agents \cup {None}
  PROVE  Unload(a) \in Seq(Command) /\ Books(Unload(a), {}, Unloads(a))
<1>1. a # None => AddLoad(a, -1) \in Command /\ AddLoad(a, -1).do = "addLoad"
  BY DEF AddLoad, Command
<1>2. a # None => Books(<<AddLoad(a, -1)>>, {}, {AddLoad(a, -1)})
  BY <1>1, BooksOne DEF OnRecords
<1> QED
  BY <1>1, <1>2, BooksNone DEF Unload, Unloads

LEMMA TwoBefore ==
  ASSUME NEW s \in Seq(Command), NEW m \in Command, NEW n \in Command
  PROVE  <<m, n>> \o s = <<m>> \o (<<n>> \o s)
<1>1. <<m>> \in Seq(Command) /\ <<n>> \in Seq(Command)
  OBVIOUS
<1>2. <<m>> \o <<n>> = <<m, n>>
  <2> DEFINE u == <<m>> \o <<n>>
             v == <<m, n>>
  <2>1. /\ u \in Seq(Command) /\ Len(u) = 2 /\ u[1] = m /\ u[2] = n
        /\ v \in Seq(Command) /\ Len(v) = 2 /\ v[1] = m /\ v[2] = n
    OBVIOUS
  <2> HIDE DEF u, v
  <2>2. \A i \in 1..Len(u) : u[i] = v[i]
    BY <2>1
  <2>3. u = v
    BY <2>1, <2>2, SeqEqual
  <2> QED
    BY <2>3 DEF u, v
<1>3. (<<m>> \o <<n>>) \o s = <<m>> \o (<<n>> \o s)
  BY <1>1, ConcatAssociative
<1> QED
  BY <1>2, <1>3

LEMMA BooksTwo ==
  ASSUME NEW s \in Seq(Command), NEW L, NEW R, Books(s, L, R), NEW m \in Command, NEW n \in Command,
         {m.do, n.do} \cap (OnLists \cup OnRecords) = {}
  PROVE  Books(<<m, n>> \o s, L, R)
<1>1. <<n>> \o s \in Seq(Command) /\ Books(<<n>> \o s, L, R)
  BY BooksBehind
<1>2. Books(<<m>> \o (<<n>> \o s), L, R)
  BY <1>1, BooksBehind
<1> QED
  BY <1>2, TwoBefore

\* complete: the record, and the load of the agent.
LEMMA BooksEnd ==
  ASSUME NEW t \in Tasks, NEW r \in TaskRec, NEW a \in Agents \cup {None}
  PROVE  Books(<<SetTask(t, r), ZRem("processing", t)>> \o Unload(a), {}, Unloads(a))
<1>1. /\ SetTask(t, r) \in Command /\ SetTask(t, r).do = "setTask"
      /\ ZRem("processing", t) \in Command /\ ZRem("processing", t).do = "zrem"
  BY DEF ZRem, SetTask, Command, Keys
<1>2. Unload(a) \in Seq(Command) /\ Books(Unload(a), {}, Unloads(a))
  BY BooksUnload
<1> QED
  BY <1>1, <1>2, BooksTwo DEF OnLists, OnRecords

LEMMA BooksReplay ==
  ASSUME NEW t \in Tasks, NEW r \in TaskRec, NEW nth \in Nat
  PROVE  Books(<<[do |-> "dropDead", task |-> t, nth |-> nth], SetTask(t, r)>> \o EnqueuePending(t),
               {OnList("lpush", t)}, {})
<1> DEFINE m == [do |-> "dropDead", task |-> t, nth |-> nth]
<1>1. /\ SetTask(t, r) \in Command /\ SetTask(t, r).do = "setTask"
      /\ m \in Command /\ m.do = "dropDead"
  BY DEF SetTask, Command
<1> HIDE DEF m
<1>2. Books(<<m, SetTask(t, r)>> \o EnqueuePending(t), {OnList("lpush", t)}, {})
  BY <1>1, BooksPush, BooksTwo DEF OnLists, OnRecords
<1> QED
  BY <1>2 DEF m

LEMMA BooksWake ==
  ASSUME NEW t \in Tasks, NEW r \in TaskRec
  PROVE  Books(<<ZRem("scheduled", t), SetTask(t, r)>> \o EnqueuePending(t), {OnList("lpush", t)}, {})
<1>1. /\ SetTask(t, r) \in Command /\ SetTask(t, r).do = "setTask"
      /\ ZRem("scheduled", t) \in Command /\ ZRem("scheduled", t).do = "zrem"
  BY DEF ZRem, SetTask, Command, Keys
<1> QED
  BY <1>1, BooksPush, BooksTwo DEF OnLists, OnRecords

LEMMA BooksRequeue ==
  ASSUME NEW t \in Tasks, NEW r \in TaskRec
  PROVE  Books(<<SetTask(t, r)>> \o EnqueuePending(t), {OnList("lpush", t)}, {})
<1>1. SetTask(t, r) \in Command /\ SetTask(t, r).do = "setTask"
  BY DEF SetTask, Command
<1> QED
  BY <1>1, BooksPush, BooksBehind DEF OnLists, OnRecords

LEMMA BooksAssign ==
  ASSUME NEW t, NEW r, NEW a
  PROVE  Books(<<SetTask(t, r), ZAdd("processing", t), AddLoad(a, 1)>>, {}, {AddLoad(a, 1)})
<1> DEFINE s == <<SetTask(t, r), ZAdd("processing", t), AddLoad(a, 1)>>
<1>1. /\ DOMAIN s = 1..3 /\ s[1] = SetTask(t, r) /\ s[2] = ZAdd("processing", t) /\ s[3] = AddLoad(a, 1)
  OBVIOUS
<1> HIDE DEF s
<1>2. Once(s)
  BY <1>1 DEF Once, OnLists, OnRecords, SetTask, ZAdd, AddLoad
<1>3. All(s, OnLists) = {} /\ All(s, OnRecords) = {AddLoad(a, 1)}
  BY <1>1 DEF All, OnLists, OnRecords, SetTask, ZAdd, AddLoad
<1> QED
  BY <1>2, <1>3 DEF Books, s

LEMMA BooksCancel ==
  ASSUME NEW t, NEW r
  PROVE  Books(<<SetTask(t, r), ZRem("scheduled", t), ZRem("processing", t),
                 OnList("lrem", t), ZRem("priority", t)>> \o Unload(None), {OnList("lrem", t)}, {})
<1> DEFINE s == <<SetTask(t, r), ZRem("scheduled", t), ZRem("processing", t),
                  OnList("lrem", t), ZRem("priority", t)>> \o Unload(None)
<1>1. /\ DOMAIN s = 1..5 /\ s[1] = SetTask(t, r) /\ s[2] = ZRem("scheduled", t) /\ s[3] = ZRem("processing", t)
      /\ s[4] = OnList("lrem", t) /\ s[5] = ZRem("priority", t)
  BY DEF Unload
<1> HIDE DEF s
<1>2. Once(s)
  BY <1>1 DEF Once, OnLists, OnRecords, SetTask, ZRem, OnList
<1>3. All(s, OnLists) = {OnList("lrem", t)} /\ All(s, OnRecords) = {}
  BY <1>1 DEF All, OnLists, OnRecords, SetTask, ZRem, OnList
<1> QED
  BY <1>2, <1>3 DEF Books, s

\* fail: to be retried, or buried.
LEMMA BooksFail ==
  ASSUME NEW t \in Tasks, task[t].assignee \in Agents
  PROVE  \E L \in {{}, {OnList("lrem", t)}} : Books(FailCommands(t), L, {AddLoad(task[t].assignee, -1)})
<1> DEFINE a == task[t].assignee
           p == [do |-> "putDead", task |-> t, assignee |-> a]
           m == SetTask(t, [status |-> "scheduled", assignee |-> None, retry |-> task[t].retry + 1])
           s1 == <<m, ZAdd("scheduled", t), ZRem("processing", t)>> \o Unload(a)
           s2 == <<p, ZRem("processing", t), OnList("lrem", t), ZRem("priority", t)>> \o Unload(a)
<1>1. p.do = "putDead" /\ m.do = "setTask" /\ (FailCommands(t) = s1 \/ FailCommands(t) = s2) /\ a \in Agents
  BY DEF FailCommands, SetTask
<1> HIDE DEF a, p, m
<1>2. Unload(a) = <<AddLoad(a, -1)>>
  BY <1>1, TaskQueueAssumption DEF Unload, TaskQueueAssumption
<1>3. Books(s1, {}, {AddLoad(a, -1)})
  <2>1. /\ DOMAIN s1 = 1..4 /\ s1[1] = m /\ s1[2] = ZAdd("scheduled", t) /\ s1[3] = ZRem("processing", t)
        /\ s1[4] = AddLoad(a, -1)
    BY <1>2
  <2> HIDE DEF s1
  <2>2. Once(s1)
    BY <1>1, <2>1 DEF Once, OnLists, OnRecords, ZAdd, ZRem, AddLoad
  <2>3. All(s1, OnLists) = {} /\ All(s1, OnRecords) = {AddLoad(a, -1)}
    BY <1>1, <2>1 DEF All, OnLists, OnRecords, ZAdd, ZRem, AddLoad
  <2> QED
    BY <2>2, <2>3 DEF Books
<1>4. Books(s2, {OnList("lrem", t)}, {AddLoad(a, -1)})
  <2>1. /\ DOMAIN s2 = 1..5 /\ s2[1] = p /\ s2[2] = ZRem("processing", t) /\ s2[3] = OnList("lrem", t)
        /\ s2[4] = ZRem("priority", t) /\ s2[5] = AddLoad(a, -1)
    BY <1>2
  <2> HIDE DEF s2
  <2>2. Once(s2)
    BY <1>1, <2>1 DEF Once, OnLists, OnRecords, ZRem, OnList, AddLoad
  <2>3. All(s2, OnLists) = {OnList("lrem", t)} /\ All(s2, OnRecords) = {AddLoad(a, -1)}
    BY <1>1, <2>1 DEF All, OnLists, OnRecords, ZRem, OnList, AddLoad
  <2> QED
    BY <2>2, <2>3 DEF Books
<1> QED
  BY <1>1, <1>3, <1>4 DEF a

\* unregister: the record of the agent goes.
LEMMA BooksRemove ==
  ASSUME NEW a
  PROVE  Books(<<OnAgent("del", a), OnAgent("srem", a)>>, {}, {OnAgent("del", a)})
<1> DEFINE s == <<OnAgent("del", a), OnAgent("srem", a)>>
<1>1. DOMAIN s = 1..2 /\ s[1] = OnAgent("del", a) /\ s[2] = OnAgent("srem", a)
  OBVIOUS
<1> HIDE DEF s
<1>2. Once(s)
  BY <1>1 DEF Once, OnLists, OnRecords, OnAgent
<1>3. All(s, OnLists) = {} /\ All(s, OnRecords) = {OnAgent("del", a)}
  BY <1>1 DEF All, OnLists, OnRecords, OnAgent
<1> QED
  BY <1>2, <1>3 DEF Books, s
-----------------------------------------------------------------------------
(* An operation, or the next round of its loop: no command is left.        *)

Starts(c) ==
  /\ TypeOK /\ Serial /\ InOrder /\ Kept
  /\ c \in Callers /\ todo[c] = <<>> /\ (MayCall(c) \/ ~Idle(c))

\* It goes on with the local variables f when its commands s have run.
Enacts(c, f, s) ==
  /\ todo' = [todo EXCEPT ![c] = s] /\ call' = [call EXCEPT ![c] = f]
  /\ UNCHANGED <<list, environment>>

Settled(t) ==
  /\ Pending(t) = {} /\ Rec(t) = task[t] /\ Died(t) = Len(dead[t])
  /\ \A k \in Keys : k \in In(t) <=> t \in zset[k]
  /\ list[t] = IF "priority" \in In(t) THEN 1 ELSE 0

Tallied(a) ==
  /\ Assigned(a) = Team(a) /\ IsFiniteSet(Team(a))
  /\ Cardinality(Team(a)) \in Nat /\ Cardinality(Team(a)) <= Capacity[a]
  /\ ~Leaving(a) => Right(a, agent[a])

LEMMA Ledger ==
  ASSUME NEW c, Starts(c)
  PROVE  /\ \A t \in Tasks : Settled(t)
         /\ \A a \in Agents : Tallied(a)
         /\ \A a : Leaving(a) <=> call[c].at = "requeue" /\ call[c].agent = a
         /\ \A d \in Callers : d # c => todo[d] = <<>> /\ call[d] = NoCall
<1>0. TypeOK /\ Alone /\ Serial /\ c \in Callers /\ todo[c] = <<>> /\ (MayCall(c) \/ ~Idle(c))
  BY DEF Starts, InOrder
<1>1. /\ \A t \in Tasks : Pending(t) = {} /\ Owners(t) = {}
      /\ \A d \in Callers : d # c => todo[d] = <<>> /\ call[d] = NoCall
  BY <1>0, Reads
<1>2. Sent(OnLists) = {} /\ Sent(OnRecords) = {}
  <2>1. \A d \in Callers : todo[d] = <<>>
    BY <1>0, <1>1
  <2> QED
    BY <2>1, AllNone DEF Sent
<1>3. ASSUME NEW t \in Tasks
      PROVE  Settled(t)
  <2>1. Numbered(t)
    BY DEF Starts, Kept
  <2> QED
    BY <1>0, <1>1, <1>2, <2>1, Unissued DEF Settled, Numbered
<1>4. ASSUME NEW a \in Agents
      PROVE  Tallied(a)
  <2>1. Counted(a) /\ Fits(a)
    BY DEF Starts, Kept
  <2>2. Assigned(a) = Team(a)
    <3>1. ASSUME NEW t \in Tasks
          PROVE  t \in Assigned(a) <=> With(t, a)
      <4>1. Settled(t) /\ Sound(t)
        BY <1>3 DEF Starts, InOrder, OfTask
      <4> QED
        BY <4>1 DEF Settled, Sound, Assigned, With, Busy, Keys
    <3>2. Assigned(a) \subseteq Tasks
      BY <1>0 DEF Assigned, TypeOK, Keys
    <3> QED
      BY <3>1, <3>2 DEF Team
  <2>3. IsFiniteSet(Team(a)) /\ Cardinality(Team(a)) <= Capacity[a]
    BY <2>1, <2>2 DEF Fits, Ever
  <2>4. Cardinality(Team(a)) \in Nat
    BY <2>3, FS_CardinalityType
  <2>5. ~Leaving(a) => Right(a, agent[a])
    BY <1>2, <2>1 DEF Counted
  <2> QED
    BY <2>2, <2>3, <2>4, <2>5 DEF Tallied
<1>5. \A a : Leaving(a) <=> call[c].at = "requeue" /\ call[c].agent = a
  BY <1>0, <1>1 DEF Leaving, NoCall
<1> QED
  BY <1>1, <1>3, <1>4, <1>5

LEMMA After ==
  ASSUME NEW c, Starts(c), NEW f, NEW s, Enacts(c, f, s)
  PROVE  /\ Sent(OnLists)' = All(s, OnLists) /\ Sent(OnRecords)' = All(s, OnRecords)
         /\ \A a : Leaving(a)' <=> f.at = "requeue" /\ f.agent = a
         /\ \A d \in Callers : d # c => todo'[d] = <<>> /\ call'[d] = NoCall
         /\ todo'[c] = s /\ call'[c] = f /\ Serial' = Serial
<1>1. c \in Callers /\ \A d \in Callers : d # c => todo[d] = <<>> /\ call[d] = NoCall
  BY Ledger DEF Starts
<1>2. /\ \A d \in Callers : d # c => todo'[d] = <<>> /\ call'[d] = NoCall
      /\ todo'[c] = s /\ call'[c] = f
  BY <1>1 DEF Starts, Enacts, TypeOK
<1>3. \A names : Sent(names)' = All(s, names)
  BY <1>1, <1>2, Sends
<1>4. Sent(OnLists)' = All(s, OnLists) /\ Sent(OnRecords)' = All(s, OnRecords)
  BY <1>3
<1>5. \A a : Leaving(a)' <=> f.at = "requeue" /\ f.agent = a
  BY <1>1, <1>2 DEF Leaving, NoCall
<1> QED
  BY <1>2, <1>4, <1>5 DEF Enacts, Serial

LEMMA Assembled ==
  ASSUME NEW c, Starts(c), NEW f, NEW s, Enacts(c, f, s), Once(s), Ready(c)',
         \A t \in Tasks : Numbered(t)' /\ Lives(t)',
         \A a \in Agents : Counted(a)' /\ Fits(a)'
  PROVE  Kept'
<1>1. ASSUME NEW d \in Callers, d # c
      PROVE  Once(todo'[d]) /\ Ready(d)'
  <2>1. todo'[d] = <<>> /\ call'[d].at = "none"
    BY <1>1, After DEF NoCall
  <2> QED
    BY <2>1 DEF Once, Ready
<1>2. todo'[c] = s
  BY After
<1> QED
  BY <1>1, <1>2 DEF Kept

\* The books of the tasks, when one task changes.
Alike(u) == Rec(u)' = Rec(u) /\ In(u)' = In(u) /\ Died(u)' = Died(u) /\ Pending(u)' = {}

Listed(t, L) ==
  \/ L = {} /\ ("priority" \in In(t)' <=> "priority" \in In(t))
  \/ L = {OnList("lpush", t)} /\ "priority" \notin In(t) /\ "priority" \in In(t)'
  \/ L = {OnList("lrem", t)} /\ "priority" \notin In(t)'

LEMMA TaskBooks ==
  ASSUME NEW c, Starts(c), NEW f, NEW s, Enacts(c, f, s), NEW L, NEW R, Books(s, L, R), NEW t,
         \A u \in Tasks : u # t => Alike(u),
         t \in Tasks => Listed(t, L) /\ Lives(t)',
         t \notin Tasks => L = {}
  PROVE  \A u \in Tasks : Numbered(u)' /\ Lives(u)'
<1>1. Sent(OnLists)' = L /\ list' = list
  BY After DEF Books, Enacts
<1>2. OnList("lpush", t).do = "lpush" /\ OnList("lrem", t).do = "lrem"
      /\ OnList("lpush", t).task = t /\ OnList("lrem", t).task = t
  BY DEF OnList
<1>3. L \in {{}, {OnList("lpush", t)}, {OnList("lrem", t)}}
  BY DEF Listed
<1>4. ASSUME NEW u \in Tasks, u # t
      PROVE  Numbered(u)' /\ Lives(u)'
  <2>1. Alike(u) /\ Settled(u)
    BY <1>4, Ledger
  <2>2. \A m \in Sent(OnLists)' : m.task # u
    BY <1>1, <1>2, <1>3, <1>4
  <2>3. Numbered(u)'
    BY <1>1, <2>1, <2>2 DEF Alike, Settled, Numbered
  <2>4. Lives(u)'
    BY <2>1 DEF Alike, Lives, Writes
  <2> QED
    BY <2>3, <2>4
<1>5. ASSUME t \in Tasks
      PROVE  Numbered(t)' /\ Lives(t)'
  <2>1. Listed(t, L) /\ Settled(t) /\ Lives(t)'
    BY <1>5, Ledger
  <2>2. CASE L = {} /\ ("priority" \in In(t)' <=> "priority" \in In(t))
    BY <1>1, <2>1, <2>2 DEF Settled, Numbered
  <2>3. CASE L = {OnList("lpush", t)} /\ "priority" \notin In(t) /\ "priority" \in In(t)'
    BY <1>1, <1>2, <2>1, <2>3 DEF Settled, Numbered
  <2>4. CASE L = {OnList("lrem", t)} /\ "priority" \notin In(t)'
    BY <1>1, <1>2, <2>1, <2>4 DEF Settled, Numbered
  <2> QED
    BY <2>1, <2>2, <2>3, <2>4 DEF Listed
<1> QED
  BY <1>4, <1>5

\* The books of an agent.
LEMMA SameBooks ==
  ASSUME NEW c, Starts(c), NEW f, NEW s, Enacts(c, f, s), NEW L, NEW R, Books(s, L, R), NEW b \in Agents,
         Team(b)' = Team(b), agent'[b] = agent[b], \A m \in R : m.agent # b, Leaving(b) => Leaving(b)'
  PROVE  Counted(b)'
<1>1. Sent(OnRecords)' = R /\ Tallied(b)
  BY After, Ledger DEF Books
<1> QED
  BY <1>1 DEF Tallied, Counted, Right

LEMMA LessBooks ==
  ASSUME NEW c, Starts(c), NEW f, NEW s, Enacts(c, f, s), NEW L, NEW b \in Agents,
         Books(s, L, {AddLoad(b, -1)}), NEW t \in Team(b),
         Team(b)' = Team(b) \ {t}, agent'[b] = agent[b], ~Leaving(b)
  PROVE  Counted(b)'
<1>1. Sent(OnRecords)' = {AddLoad(b, -1)} /\ Tallied(b)
  BY After, Ledger DEF Books
<1>2. agent[b].status \in {"idle", "busy"} /\ agent[b].load = Cardinality(Team(b))
  <2>1. agent[b] \in AgentRec
    BY DEF Starts, TypeOK
  <2> QED
    BY <1>1, <2>1 DEF Tallied, Right, AgentRec
<1>3. Cardinality(Team(b) \ {t}) = Cardinality(Team(b)) - 1
  BY <1>1, FS_RemoveElement DEF Tallied
<1>4. agent[b].load + (-1) = Cardinality(Team(b) \ {t})
  BY <1>1, <1>2, <1>3 DEF Tallied
<1>5. /\ AddLoad(b, -1).do = "addLoad" /\ AddLoad(b, -1).agent = b /\ AddLoad(b, -1).delta = -1
  BY DEF AddLoad
<1> QED
  BY <1>1, <1>2, <1>4, <1>5 DEF Counted

LEMMA MoreBooks ==
  ASSUME NEW c, Starts(c), NEW f, NEW s, Enacts(c, f, s), NEW L, NEW b \in Agents,
         Books(s, L, {AddLoad(b, 1)}), NEW t, t \notin Team(b),
         Team(b)' = Team(b) \cup {t}, agent'[b] = agent[b], ~Leaving(b),
         agent[b].status \in {"idle", "busy"}
  PROVE  Counted(b)'
<1>1. Sent(OnRecords)' = {AddLoad(b, 1)} /\ Tallied(b)
  BY After, Ledger DEF Books
<1>2. agent[b].load = Cardinality(Team(b))
  BY <1>1 DEF Tallied, Right
<1>3. Cardinality(Team(b) \cup {t}) = Cardinality(Team(b)) + 1
  BY <1>1, FS_AddElement DEF Tallied
<1>4. agent[b].load + 1 = Cardinality(Team(b) \cup {t})
  BY <1>2, <1>3
<1>5. /\ AddLoad(b, 1).do = "addLoad" /\ AddLoad(b, 1).agent = b /\ AddLoad(b, 1).delta = 1
  BY DEF AddLoad
<1> QED
  BY <1>1, <1>4, <1>5 DEF Counted

\* An agent gets no more.
LEMMA FitsStays ==
  ASSUME NEW c, Starts(c), NEW b \in Agents, Assigned(b)' \subseteq Team(b), Team(b)' \subseteq Team(b)
  PROVE  Fits(b)'
<1>1. Tallied(b) /\ Ever(b)' \subseteq Team(b)
  BY Ledger DEF Ever
<1>2. /\ IsFiniteSet(Ever(b)') /\ Cardinality(Ever(b)') <= Cardinality(Team(b))
      /\ Cardinality(Ever(b)') \in Nat
  BY <1>1, FS_Subset, FS_CardinalityType DEF Tallied
<1>3. Capacity[b] \in Nat
  BY TaskQueueAssumption DEF TaskQueueAssumption
<1> QED
  BY <1>1, <1>2, <1>3 DEF Fits, Tallied
-----------------------------------------------------------------------------
(* Operations that leave the tasks as they are.                            *)

\* What Ready says of the local variables f.
Fit(f) ==
  /\ f.at \in {"peek", "take", "fetch"} =>
       \A a \in f.among : agent[a].status \in {"idle", "busy"} /\ Cardinality(Team(a)) < Capacity[a]
  /\ f.at \in {"sweep", "fail"} => \A a \in Agents : f.late[a] # NoAgent => ~f.late[a].fresh
  /\ f.at = "fail" => Team(f.agent) \subseteq f.tasks
  /\ f.at = "requeue" => \A t \in Team(f.agent) : f.recs[t] # NoTask

LEMMA Fitting ==
  ASSUME NEW c, Starts(c)
  PROVE  Fit(call[c])
  BY DEF Starts, Kept, Ready, Fit

LEMMA Unmoved ==
  ASSUME NEW c, Starts(c), NEW f, NEW s \in Seq(Command), Enacts(c, f, s), Elsewhere(s), NEW R, Books(s, {}, R),
         UNCHANGED <<task, zset, dead>>
  PROVE  /\ \A a : Team(a)' = Team(a)
         /\ \A t \in Tasks : Numbered(t)' /\ Lives(t)'
         /\ \A a \in Agents : Fits(a)'
<1>1. ASSUME NEW u \in Tasks
      PROVE  Alike(u)
  <2>1. Settled(u)
    BY Ledger
  <2>2. Pending(u)' = {}
    BY <2>1, IssuingElsewhere DEF Starts, Enacts, Settled
  <2>3. Rec(u)' = Rec(u) /\ Died(u)' = Died(u) /\ \A k \in Keys : k \in In(u)' <=> k \in In(u)
    BY <2>1, <2>2, UnissuedNext DEF Settled
  <2>4. In(u) \subseteq Keys /\ In(u)' \subseteq Keys
    BY DEF In, InAfter
  <2>5. In(u)' = In(u)
    BY <2>3, <2>4
  <2> QED
    BY <2>2, <2>3, <2>5 DEF Alike
<1>2. \A a : Team(a)' = Team(a)
  BY <1>1, TeamStays DEF Alike
<1>3. ASSUME NEW t \in Tasks
      PROVE  Numbered(t)' /\ Lives(t)'
  <2>1. Listed(t, {})
    BY <1>1 DEF Listed, Alike
  <2>2. Lives(t)'
    BY <1>1 DEF Lives, Alike, Writes
  <2> QED
    BY <1>1, <2>1, <2>2, TaskBooks
<1>4. ASSUME NEW a \in Agents
      PROVE  Fits(a)'
  <2>1. Assigned(a)' = Assigned(a) /\ Tallied(a)
    BY Ledger DEF Assigned
  <2> QED
    BY <1>2, <2>1, FitsStays DEF Tallied
<1> QED
  BY <1>2, <1>3, <1>4

LEMMA Waits ==
  ASSUME NEW c, Starts(c), NEW f, call' = [call EXCEPT ![c] = f],
         UNCHANGED <<task, zset, list, dead, agent, todo, environment>>, call[c].at # "requeue", Fit(f)
  PROVE  Kept'
<1>1. Enacts(c, f, <<>>)
  BY DEF Enacts, Starts, TypeOK
<1>2. <<>> \in Seq(Command) /\ Elsewhere(<<>>) /\ Books(<<>>, {}, {})
  BY BooksNone DEF Elsewhere
<1>3. /\ \A a : Team(a)' = Team(a)
      /\ \A t \in Tasks : Numbered(t)' /\ Lives(t)'
      /\ \A a \in Agents : Fits(a)'
  BY <1>1, <1>2, Unmoved
<1>4. ASSUME NEW a \in Agents
      PROVE  Counted(a)'
  <2>1. ~Leaving(a)
    BY Ledger
  <2> QED
    BY <1>1, <1>2, <1>3, <2>1, SameBooks
<1>5. Ready(c)'
  <2>1. call'[c] = f /\ todo'[c] = <<>>
    BY <1>1, After
  <2> QED
    BY <1>3, <2>1, AllNone DEF Fit, Ready
<1> QED
  BY <1>1, <1>2, <1>3, <1>4, <1>5, Assembled DEF Books

LEMMA PollKept ==
  ASSUME NEW c \in Callers, Starts(c), ClaimTask(c) \/ (c \in Agents /\ Dequeue(c))
  PROVE  Kept'
<1>1. PICK A \in SUBSET Agents :
        /\ call' = [call EXCEPT ![c] = [at |-> "peek", pos |-> 1, among |-> A]]
        /\ \A a \in A : agent[a].status \in {"idle", "busy"} /\ agent[a].load < Capacity[a]
  <2>1. ASSUME c \in Agents, Dequeue(c)
        PROVE  \E A \in SUBSET Agents :
                 /\ call' = [call EXCEPT ![c] = [at |-> "peek", pos |-> 1, among |-> A]]
                 /\ \A a \in A : agent[a].status \in {"idle", "busy"} /\ agent[a].load < Capacity[a]
    <3>1. agent[c] \in AgentRec
      BY <2>1 DEF Starts, TypeOK
    <3>2. {c} \in SUBSET Agents /\ \A a \in {c} : agent[a].status \in {"idle", "busy"} /\ agent[a].load < Capacity[a]
      BY <2>1, <3>1 DEF Dequeue, AgentRec
    <3> QED
      BY <2>1, <3>2 DEF Dequeue, Goto
  <2>2. ASSUME ClaimTask(c)
        PROVE  \E A \in SUBSET Agents :
                 /\ call' = [call EXCEPT ![c] = [at |-> "peek", pos |-> 1, among |-> A]]
                 /\ \A a \in A : agent[a].status \in {"idle", "busy"} /\ agent[a].load < Capacity[a]
    <3>1. ASSUME NEW a \in Available
          PROVE  a \in Agents /\ agent[a].status \in {"idle", "busy"} /\ agent[a].load < Capacity[a]
      <4>1. a \in Agents /\ agent[a] \in AgentRec /\ agent[a].fresh /\ agent[a].status # "none" /\ agent[a].load < Capacity[a]
        BY DEF Starts, TypeOK, Available
      <4>2. ~Leaving(a)
        BY <2>2, Ledger DEF ClaimTask, MayCall, Idle, NoCall
      <4>3. Right(a, agent[a])
        BY <4>1, <4>2, Ledger DEF Tallied
      <4> QED
        BY <4>1, <4>3 DEF Right, AgentRec
    <3> QED
      BY <2>2, <3>1 DEF ClaimTask, Goto
  <2> QED
    BY <2>1, <2>2
<1>2. /\ UNCHANGED <<task, zset, list, dead, agent, todo, environment>> /\ call[c] = NoCall
  BY DEF ClaimTask, Dequeue, MayCall, Idle, store, roster, bounds
<1> DEFINE f == [at |-> "peek", pos |-> 1, among |-> A]
<1>3. \A a \in A : Cardinality(Team(a)) < Capacity[a]
  <2> SUFFICES ASSUME NEW a \in A
               PROVE  Cardinality(Team(a)) < Capacity[a]
    OBVIOUS
  <2>1. ~Leaving(a)
    BY <1>2, Ledger DEF NoCall
  <2> QED
    BY <1>1, <2>1, Ledger DEF Tallied, Right
<1>4. f.at = "peek" /\ f.among = A
  OBVIOUS
<1> HIDE DEF f
<1>5. Fit(f)
  BY <1>1, <1>3, <1>4 DEF Fit
<1>6. call' = [call EXCEPT ![c] = f]
  BY <1>1 DEF f
<1>7. call[c].at # "requeue"
  BY <1>2 DEF NoCall
<1> QED
  BY <1>2, <1>5, <1>6, <1>7, Waits

LEMMA PassesKept ==
  ASSUME NEW c \in Callers, Starts(c), call[c].at \in {"peek", "take"},
         \/ NextPriority(c)
         \/ \E t \in Tasks : Goto(c, [at |-> "take", pos |-> call[c].pos, among |-> call[c].among, task |-> t]),
         UNCHANGED <<task, zset, list, dead, agent, todo, environment>>
  PROVE  Kept'
<1>1. PICK f : /\ call' = [call EXCEPT ![c] = f]
               /\ f = NoCall \/ (f.at \in {"peek", "take"} /\ f.among = call[c].among)
  BY DEF NextPriority, Goto, Return
<1>2. Fit(call[c])
  BY Fitting
<1>3. Fit(f)
  BY <1>1, <1>2 DEF Fit, NoCall
<1> QED
  BY <1>1, <1>3, Waits

LEMMA PeekKept ==
  ASSUME NEW c \in Callers, Starts(c), Peek(c)
  PROVE  Kept'
<1>1. call[c].at = "peek" /\ UNCHANGED <<task, zset, list, dead, agent, todo, environment>>
  BY DEF Peek, At, store, roster, bounds
<1>2. zset["priority"] \subseteq Tasks
  BY DEF Starts, TypeOK, Keys
<1>3. \/ NextPriority(c)
      \/ \E t \in Tasks : Goto(c, [at |-> "take", pos |-> call[c].pos, among |-> call[c].among, task |-> t])
  BY <1>2 DEF Peek
<1> QED
  BY <1>1, <1>3, PassesKept

LEMMA ReturnKept ==
  ASSUME NEW c \in Callers, Starts(c), Return(c), call[c].at # "requeue",
         UNCHANGED <<task, zset, list, dead, agent, todo, environment>>
  PROVE  Kept'
<1>1. Fit(NoCall) /\ call' = [call EXCEPT ![c] = NoCall]
  BY DEF Fit, NoCall, Return, Goto
<1> QED
  BY <1>1, Waits

LEMMA GiveKept ==
  ASSUME NEW c \in Callers, Starts(c), Give(c)
  PROVE  Kept'
<1>1. call[c].at = "give" /\ Return(c) /\ UNCHANGED <<task, zset, list, dead, agent, todo, environment>>
  BY DEF Give, At, store, roster
<1> QED
  BY <1>1, ReturnKept

LEMMA ScheduleKept ==
  ASSUME NEW c \in Callers, Starts(c), ProcessScheduledTasks(c)
  PROVE  Kept'
<1>1. PICK due : call' = [call EXCEPT ![c] = [at |-> "wake", due |-> due]]
  BY DEF ProcessScheduledTasks, Goto
<1>2. UNCHANGED <<task, zset, list, dead, agent, todo, environment>> /\ call[c] = NoCall
  BY DEF ProcessScheduledTasks, MayCall, Idle, store, roster, bounds
<1>3. call[c].at # "requeue"
  BY <1>2 DEF NoCall
<1> DEFINE f == [at |-> "wake", due |-> due]
<1>4. Fit(f)
  BY DEF Fit
<1>5. call' = [call EXCEPT ![c] = f]
  BY <1>1
<1> HIDE DEF f
<1> QED
  BY <1>2, <1>3, <1>4, <1>5, Waits

LEMMA LateKept ==
  ASSUME NEW c \in Callers, Starts(c), CheckAgentHeartbeats(c)
  PROVE  Kept'
<1> DEFINE late == [a \in Agents |-> IF a \in Late THEN agent[a] ELSE NoAgent]
           f == [at |-> "sweep", late |-> late]
<1>1. call' = [call EXCEPT ![c] = f]
  BY DEF CheckAgentHeartbeats, Goto
<1>2. UNCHANGED <<task, zset, list, dead, agent, todo, environment>> /\ call[c] = NoCall
  BY DEF CheckAgentHeartbeats, MayCall, Idle, store, roster, bounds
<1>3. \A a \in Agents : late[a] # NoAgent => ~late[a].fresh
  BY DEF Late
<1>4. Fit(f)
  BY <1>3 DEF Fit
<1> QED
  BY <1>1, <1>2, <1>4, Waits DEF NoCall

LEMMA SweepKept ==
  ASSUME NEW c \in Callers, Starts(c), Sweep(c)
  PROVE  Kept'
<1>1. PICK a \in Agents :
        call' = [call EXCEPT ![c] = [at |-> "fail", late |-> call[c].late, agent |-> a, tasks |-> AgentTasks(a)]]
  BY DEF Sweep, Goto
<1> DEFINE f == [at |-> "fail", late |-> call[c].late, agent |-> a, tasks |-> AgentTasks(a)]
<1>2. UNCHANGED <<task, zset, list, dead, agent, todo, environment>> /\ call[c].at = "sweep"
  BY DEF Sweep, At, store, roster, bounds
<1>3. Team(a) \subseteq AgentTasks(a)
  BY Ledger DEF Tallied, Assigned, AgentTasks
<1>4. Fit(call[c])
  BY Fitting
<1>5. Fit(f)
  BY <1>2, <1>3, <1>4 DEF Fit
<1> QED
  BY <1>1, <1>2, <1>5, Waits

LEMMA UnregisterKept ==
  ASSUME NEW c \in Callers, Starts(c), NEW a \in Agents, UnregisterAgent(c, a)
  PROVE  Kept'
<1> DEFINE recs == [t \in Tasks |-> IF t \in AgentTasks(a) THEN task[t] ELSE NoTask]
           f == [at |-> "requeue", agent |-> a, recs |-> recs]
<1>1. call' = [call EXCEPT ![c] = f]
  BY DEF UnregisterAgent, Goto
<1>2. UNCHANGED <<task, zset, list, dead, agent, todo, environment>> /\ call[c] = NoCall
  BY DEF UnregisterAgent, MayCall, Idle, store, roster, bounds
<1>3. Team(a) = AgentTasks(a)
  BY Ledger DEF Tallied, Assigned, AgentTasks
<1>4. \A t \in Team(a) : t \in Tasks /\ recs[t] # NoTask
  <2>1. Team(a) \subseteq Tasks
    BY DEF Team
  <2> QED
    BY <1>3, <2>1 DEF AgentTasks, NoTask
<1>5. Fit(f)
  BY <1>4 DEF Fit
<1> QED
  BY <1>1, <1>2, <1>5, Waits DEF NoCall
-----------------------------------------------------------------------------
(* Operations on the records of agents.                                    *)

LEMMA RecordKept ==
  ASSUME NEW c \in Callers, Starts(c), NEW f, call' = [call EXCEPT ![c] = f],
         NEW a \in Agents, NEW r \in AgentRec, todo' = [todo EXCEPT ![c] = <<SetAgent(a, r)>>],
         UNCHANGED <<task, zset, list, dead, agent, environment>>,
         call[c].at # "requeue", Fit(f), f.at \notin {"peek", "take", "fetch"}, Right(a, r)
  PROVE  Kept'
<1> DEFINE m == SetAgent(a, r)
           s == <<m>>
<1>1. m.do = "setAgent" /\ m.agent = a /\ m.rec = r /\ m \in Command
  BY DEF SetAgent, Command
<1> HIDE DEF m
<1>2. s \in Seq(Command) /\ Elsewhere(s)
  BY <1>1 DEF Elsewhere, OnKeys
<1>3. Books(s, {}, {m})
  BY <1>1, BooksOne DEF OnRecords
<1>4. Enacts(c, f, s)
  BY DEF Enacts, m
<1> HIDE DEF s
<1>5. /\ \A b : Team(b)' = Team(b)
      /\ \A t \in Tasks : Numbered(t)' /\ Lives(t)'
      /\ \A b \in Agents : Fits(b)'
  BY <1>2, <1>3, <1>4, Unmoved
<1>6. ASSUME NEW b \in Agents
      PROVE  Counted(b)'
  <2>1. CASE b # a
    <3>1. ~Leaving(b)
      BY Ledger
    <3> QED
      BY <1>1, <1>3, <1>4, <1>5, <2>1, <3>1, SameBooks
  <2>2. CASE b = a
    <3>1. Sent(OnRecords)' = {m}
      BY <1>3, <1>4, After DEF Books
    <3> QED
      BY <1>1, <1>5, <2>2, <3>1 DEF Counted, Right
  <2> QED
    BY <2>1, <2>2
<1>7. Ready(c)'
  <2>1. call'[c] = f
    BY <1>4, After
  <2> QED
    BY <1>5, <2>1 DEF Fit, Ready
<1> QED
  BY <1>3, <1>4, <1>5, <1>6, <1>7, Assembled DEF Books

LEMMA HeartbeatKept ==
  ASSUME NEW a \in Agents, a \in Callers, Starts(a), AgentHeartbeat(a)
  PROVE  Kept'
<1> DEFINE r == [Loaded(a, agent[a], agent[a].load) EXCEPT !.fresh = TRUE]
<1>1. /\ a \in alive /\ agent[a] # NoAgent /\ call[a] = NoCall /\ call' = call
      /\ todo' = [todo EXCEPT ![a] = <<SetAgent(a, r)>>]
      /\ UNCHANGED <<task, zset, list, dead, agent, environment>>
  BY DEF AgentHeartbeat, MayCall, Idle, Issue, store, roster, bounds
<1>2. call' = [call EXCEPT ![a] = NoCall] /\ call[a].at # "requeue" /\ NoCall.at = "none"
  BY <1>1 DEF NoCall, Starts, TypeOK
<1>3. agent[a] \in AgentRec /\ OfAgent(a)
  BY DEF Starts, TypeOK, InOrder
<1>4. Right(a, agent[a])
  <2>1. ~Leaving(a)
    BY <1>2, Ledger
  <2> QED
    BY <2>1, Ledger DEF Tallied
<1>5. agent[a].status \in {"idle", "busy"}
  BY <1>1, <1>3, <1>4 DEF OfAgent, Registered, Right, AgentRec
<1>6. r \in AgentRec /\ r.load = agent[a].load /\ r.status \in {"idle", "busy"}
  BY <1>3 DEF Loaded, AgentRec
<1> HIDE DEF r
<1>7. Right(a, r)
  BY <1>4, <1>5, <1>6 DEF Right
<1>8. Fit(NoCall)
  BY DEF Fit, NoCall
<1> QED
  BY <1>1, <1>2, <1>6, <1>7, <1>8, RecordKept

LEMMA SweepEndKept ==
  ASSUME NEW c \in Callers, Starts(c), At(c, "fail"), call[c].tasks = {},
         UNCHANGED <<store, roster, world, bounds>>, NEW a, a = call[c].agent,
         todo' = [todo EXCEPT ![c] = <<SetAgent(a, [call[c].late[a] EXCEPT !.status = "offline"])>>],
         NEW f, call' = [call EXCEPT ![c] = f],
         f = NoCall \/ f = [at |-> "sweep", late |-> [call[c].late EXCEPT ![a] = NoAgent]]
  PROVE  Kept'
<1> DEFINE r == [call[c].late[a] EXCEPT !.status = "offline"]
<1>1. call[c].at = "fail" /\ UNCHANGED <<task, zset, list, dead, agent, environment>>
  BY DEF At, store, roster, bounds
<1>2. /\ a \in Agents /\ call[c].late \in [Agents -> AgentRec]
  BY <1>1 DEF Starts, TypeOK, Call
<1>3. Fit(call[c]) /\ Known(c)
  BY Fitting DEF Starts, InOrder, OfCaller
<1>4. /\ Team(a) = {} /\ call[c].late[a] # NoAgent /\ ~call[c].late[a].fresh
      /\ \A b \in Agents : call[c].late[b] # NoAgent => ~call[c].late[b].fresh
  BY <1>1, <1>2, <1>3 DEF Fit, Known
<1>5. r \in AgentRec /\ r.status = "offline" /\ ~r.fresh
  BY <1>2, <1>4 DEF AgentRec
<1> HIDE DEF r
<1>6. Right(a, r)
  BY <1>4, <1>5 DEF Right
<1>7. Fit(f) /\ f.at \notin {"peek", "take", "fetch"}
  <2>1. CASE f = NoCall
    BY <2>1 DEF Fit, NoCall
  <2>2. CASE f = [at |-> "sweep", late |-> [call[c].late EXCEPT ![a] = NoAgent]]
    <3>1. \A b \in Agents : f.late[b] # NoAgent => ~f.late[b].fresh
      BY <1>2, <1>4, <2>2
    <3>2. f.at = "sweep"
      BY <2>2
    <3> QED
      BY <3>1, <3>2 DEF Fit
  <2> QED
    BY <2>1, <2>2
<1>8. todo' = [todo EXCEPT ![c] = <<SetAgent(a, r)>>]
  BY DEF r
<1> QED
  BY <1>1, <1>2, <1>5, <1>6, <1>7, <1>8, RecordKept

LEMMA RemovesKept ==
  ASSUME NEW c \in Callers, Starts(c), At(c, "requeue"), \A t \in Tasks : call[c].recs[t] = NoTask,
         UNCHANGED <<store, roster, world, bounds>>, NEW a, a = call[c].agent,
         todo' = [todo EXCEPT ![c] = <<OnAgent("del", a), OnAgent("srem", a)>>],
         call' = [call EXCEPT ![c] = NoCall]
  PROVE  Kept'
<1> DEFINE m == OnAgent("del", a)
           s == <<m, OnAgent("srem", a)>>
<1>1. call[c].at = "requeue" /\ UNCHANGED <<task, zset, list, dead, agent, environment>>
  BY DEF At, store, roster, bounds
<1>2. a \in Agents
  BY <1>1 DEF Starts, TypeOK, Call
<1>3. /\ m.do = "del" /\ m.agent = a /\ m \in Command
      /\ OnAgent("srem", a) \in Command /\ OnAgent("srem", a).do = "srem"
  BY <1>2 DEF OnAgent, Command
<1>4. Books(s, {}, {m})
  BY BooksRemove
<1>5. s \in Seq(Command) /\ Elsewhere(s)
  <2>1. DOMAIN s = 1..2 /\ s[1] = m /\ s[2] = OnAgent("srem", a)
    OBVIOUS
  <2> HIDE DEF m
  <2> QED
    BY <1>3, <2>1 DEF Elsewhere, OnKeys
<1>6. Enacts(c, NoCall, s)
  BY <1>1 DEF Enacts
<1> HIDE DEF m, s
<1>7. /\ \A b : Team(b)' = Team(b)
      /\ \A t \in Tasks : Numbered(t)' /\ Lives(t)'
      /\ \A b \in Agents : Fits(b)'
  BY <1>1, <1>4, <1>5, <1>6, Unmoved
<1>8. Team(a) = {}
  <2>1. Fit(call[c]) /\ Team(a) \subseteq Tasks
    BY Fitting DEF Team
  <2> QED
    BY <1>1, <2>1 DEF Fit
<1>9. ASSUME NEW b \in Agents
      PROVE  Counted(b)'
  <2>1. CASE b # a
    <3>1. ~Leaving(b)
      BY <1>1, <2>1, Ledger
    <3> QED
      BY <1>1, <1>3, <1>4, <1>6, <1>7, <2>1, <3>1, SameBooks
  <2>2. CASE b = a
    <3>1. Sent(OnRecords)' = {m}
      BY <1>4, <1>6, After DEF Books
    <3> QED
      BY <1>3, <1>7, <1>8, <2>2, <3>1 DEF Counted
  <2> QED
    BY <2>1, <2>2
<1>10. Ready(c)'
  <2>1. call'[c] = NoCall
    BY <1>6, After
  <2> QED
    BY <2>1 DEF NoCall, Ready
<1> QED
  BY <1>4, <1>6, <1>7, <1>9, <1>10, Assembled DEF Books

LEMMA RegisterKept ==
  ASSUME NEW a \in Agents, a \in Callers, Careful(environment), Starts(a), RegisterAgent(a)
  PROVE  Kept'
<1> DEFINE r == [status |-> "idle", load |-> 0, fresh |-> TRUE]
           m == OnAgent("sadd", a)
<1>1. /\ agent[a] = NoAgent /\ call[a] = NoCall /\ call' = call
      /\ agent' = [agent EXCEPT ![a] = r] /\ todo' = [todo EXCEPT ![a] = <<m>>]
      /\ UNCHANGED <<task, zset, list, dead, environment>>
  BY DEF RegisterAgent, Careful, Allowed, MayCall, Idle, Issue, store, bounds
<1>2. call' = [call EXCEPT ![a] = NoCall] /\ call[a].at # "requeue"
  BY <1>1 DEF NoCall, Starts, TypeOK
<1>3. m \in Command /\ m.do = "sadd"
  BY DEF OnAgent, Command
<1> HIDE DEF m
<1> DEFINE s == <<m>>
<1>4. s \in Seq(Command) /\ Elsewhere(s) /\ Enacts(a, NoCall, s)
  <2>1. s \in Seq(Command) /\ Elsewhere(s)
    BY <1>3 DEF Elsewhere, OnKeys
  <2>2. todo' = [todo EXCEPT ![a] = s]
    BY <1>1 DEF m
  <2> QED
    BY <1>1, <1>2, <2>1, <2>2 DEF Enacts
<1>5. Books(s, {}, {})
  BY <1>3, BooksOne DEF OnLists, OnRecords
<1> HIDE DEF s
<1>6. /\ \A b : Team(b)' = Team(b)
      /\ \A t \in Tasks : Numbered(t)' /\ Lives(t)'
      /\ \A b \in Agents : Fits(b)'
  BY <1>1, <1>4, <1>5, Unmoved
<1>7. ASSUME NEW b \in Agents
      PROVE  Counted(b)'
  <2>1. ~Leaving(b)
    BY <1>2, Ledger
  <2>2. CASE b # a
    <3>1. agent'[b] = agent[b]
      BY <1>1, <2>2 DEF Starts, TypeOK
    <3> QED
      BY <1>4, <1>5, <1>6, <2>1, <3>1, SameBooks
  <2>3. CASE b = a
    <3>1. Right(a, NoAgent)
      BY <1>1, <2>1, <2>3, Ledger DEF Tallied
    <3>2. Team(a) = {}
      BY <3>1 DEF Right, NoAgent
    <3>3. agent'[a] = r
      BY <1>1 DEF Starts, TypeOK
    <3>4. Cardinality(Team(a)) = 0
      BY <3>2, FS_EmptySet
    <3>5. Sent(OnRecords)' = {}
      BY <1>4, <1>5, After DEF Books
    <3> QED
      BY <1>6, <2>3, <3>3, <3>4, <3>5 DEF Counted, Right
  <2> QED
    BY <2>2, <2>3
<1>8. Ready(a)'
  <2>1. call'[a] = NoCall
    BY <1>4, After
  <2> QED
    BY <2>1 DEF NoCall, Ready
<1> QED
  BY <1>4, <1>5, <1>6, <1>7, <1>8, Assembled DEF Books

\* Only the heartbeat of an agent is missed, or nothing that the books are about.
LEMMA MissesKept ==
  ASSUME TypeOK, Kept, UNCHANGED <<task, zset, list, dead, todo, call>>,
         \A b \in Agents : \/ agent'[b] = agent[b]
                           \/ agent'[b] = [agent[b] EXCEPT !.fresh = FALSE]
  PROVE  Kept'
<1>1. \A b \in Agents : /\ agent'[b].status = agent[b].status /\ agent'[b].load = agent[b].load
                        /\ agent'[b].fresh => agent[b].fresh
  <2> SUFFICES ASSUME NEW b \in Agents
               PROVE  /\ agent'[b].status = agent[b].status /\ agent'[b].load = agent[b].load
                      /\ agent'[b].fresh => agent[b].fresh
    OBVIOUS
  <2>1. agent[b] \in AgentRec
    BY DEF TypeOK
  <2> QED
    BY <2>1 DEF AgentRec
<1>2. \A t : Rec(t)' = Rec(t) /\ In(t)' = In(t) /\ Died(t)' = Died(t) /\ Pending(t)' = Pending(t)
  BY DEF Rec, In, Died, Pending, Where
<1>3. /\ \A names : Sent(names)' = Sent(names)
      /\ \A a : Team(a)' = Team(a) /\ (Leaving(a)' <=> Leaving(a)) /\ Assigned(a)' = Assigned(a)
  BY <1>2, TeamStays DEF Sent, Leaving, Assigned
<1>4. ASSUME NEW b \in Agents
      PROVE  Counted(b)' /\ Fits(b)'
  <2>1. Counted(b) /\ Fits(b)
    BY DEF Kept
  <2>2. Sent(OnRecords)' = Sent(OnRecords)
    BY <1>3
  <2>3. Right(b, agent[b]) => Right(b, agent'[b])
    BY <1>1 DEF Right
  <2>4. Counted(b)'
    BY <1>1, <1>3, <2>1, <2>2, <2>3 DEF Counted, Right
  <2>5. Fits(b)'
    BY <1>3, <2>1 DEF Fits, Ever
  <2> QED
    BY <2>4, <2>5
<1>5. ASSUME NEW t \in Tasks
      PROVE  Numbered(t)' /\ Lives(t)'
  <2>1. Sent(OnLists)' = Sent(OnLists) /\ Numbered(t) /\ Lives(t)
    BY <1>3 DEF Kept
  <2> QED
    BY <1>2, <2>1 DEF Numbered, Lives
<1>6. ASSUME NEW d \in Callers
      PROVE  Once(todo'[d]) /\ Ready(d)'
  <2>1. Once(todo[d]) /\ Ready(d)
    BY DEF Kept
  <2>2. call[d].at \in {"peek", "take", "fetch"} => call[d].among \subseteq Agents
    BY DEF TypeOK, Call
  <2> QED
    BY <1>1, <1>3, <2>1, <2>2 DEF Ready
<1> QED
  BY <1>4, <1>5, <1>6 DEF Kept
-----------------------------------------------------------------------------
(* Operations on a task.                                                   *)

LEMMA Beside ==
  ASSUME NEW c, Starts(c), TypeOK', NEW f, NEW s, Enacts(c, f, s), NEW t \in Tasks,
         NEW W, NEW add, NEW rem, NEW d, Does(s, t, W, add, rem, d),
         \A u \in Tasks : u # t => task'[u] = task[u], UNCHANGED <<zset, dead>>
  PROVE  /\ \A u \in Tasks : u # t => Alike(u)
         /\ Issued(c, t, W, add, rem, d)
         /\ \A a : Team(a)' = IF With(t, a)' THEN Team(a) \cup {t} ELSE Team(a) \ {t}
<1>1. /\ TypeOK /\ c \in Callers /\ todo[c] = <<>> /\ todo' = [todo EXCEPT ![c] = s] /\ Pending(t) = {}
  BY Ledger DEF Starts, Enacts, Settled
<1>2. Issued(c, t, W, add, rem, d) /\ \A u : u # t => Pending(u)' = Pending(u)
  BY <1>1, Issuing
<1>3. ASSUME NEW u \in Tasks, u # t
      PROVE  Alike(u)
  <2>1. Settled(u)
    BY Ledger
  <2>2. Pending(u)' = {}
    BY <1>2, <1>3, <2>1 DEF Settled
  <2>3. Rec(u)' = Rec(u) /\ Died(u)' = Died(u) /\ \A k \in Keys : k \in In(u)' <=> k \in In(u)
    BY <1>3, <2>1, <2>2, UnissuedNext DEF Settled
  <2>4. In(u) \subseteq Keys /\ In(u)' \subseteq Keys
    BY DEF In, InAfter
  <2>5. In(u)' = In(u)
    BY <2>3, <2>4
  <2> QED
    BY <2>2, <2>3, <2>5 DEF Alike
<1>4. ASSUME NEW a
      PROVE  Team(a)' = IF With(t, a)' THEN Team(a) \cup {t} ELSE Team(a) \ {t}
  <2>1. \A u \in Tasks : u # t => (With(u, a)' <=> With(u, a))
    BY <1>3 DEF Alike, With
  <2>2. \A u : u \in Team(a) <=> u \in Tasks /\ With(u, a)
    BY DEF Team
  <2>3. \A u : u \in Team(a)' <=> u \in Tasks /\ With(u, a)'
    BY DEF Team
  <2> QED
    BY <2>1, <2>2, <2>3
<1> QED
  BY <1>2, <1>3, <1>4

\* The task is no agent's, before and after.
LEMMA AwayKept ==
  ASSUME NEW c, Starts(c), TypeOK', NEW f, NEW s, Enacts(c, f, s), NEW t \in Tasks,
         NEW W, NEW add, NEW rem, NEW d, Does(s, t, W, add, rem, d), NEW L, Books(s, L, {}),
         \A u \in Tasks : u # t => task'[u] = task[u], UNCHANGED <<zset, dead, agent>>,
         \A a \in Agents : Assigned(a)' \subseteq Assigned(a),
         Listed(t, L), Rec(t).status \notin Busy \/ Died(t) # 0, Rec(t)'.status \notin Busy,
         call[c].at # "requeue", Fit(f)
  PROVE  Kept'
<1>1. /\ \A u \in Tasks : u # t => Alike(u)
      /\ \A a : Team(a)' = IF With(t, a)' THEN Team(a) \cup {t} ELSE Team(a) \ {t}
  BY Beside
<1>2. \A a : Team(a)' = Team(a)
  <2>1. \A a : ~With(t, a) /\ ~With(t, a)' /\ t \notin Team(a)
    BY DEF With, Team
  <2> QED
    BY <1>1, <2>1
<1>3. \A u \in Tasks : Numbered(u)' /\ Lives(u)'
  <2>1. Lives(t)'
    BY DEF Lives
  <2> QED
    BY <1>1, <2>1, TaskBooks
<1>4. ASSUME NEW a \in Agents
      PROVE  Counted(a)' /\ Fits(a)'
  <2>1. ~Leaving(a) /\ Tallied(a)
    BY Ledger
  <2>2. Fits(a)'
    BY <1>2, <2>1, FitsStays DEF Tallied
  <2>3. Counted(a)'
    BY <1>2, <2>1, SameBooks
  <2> QED
    BY <2>2, <2>3
<1>5. Ready(c)'
  <2>1. call'[c] = f /\ todo'[c] = s
    BY After
  <2>2. All(s, OnRecords) = {}
    BY DEF Books
  <2> QED
    BY <1>2, <2>1, <2>2 DEF Fit, Ready
<1> QED
  BY <1>3, <1>4, <1>5, Assembled DEF Books

LEMMA EnqueueKept ==
  ASSUME NEW c \in Callers, Starts(c), TypeOK', NEW t \in Tasks, Enqueue(c, t)
  PROVE  Kept'
<1>1. /\ task[t] = NoTask /\ call[c] = NoCall /\ call' = call
      /\ UNCHANGED <<zset, list, dead, agent, environment>>
  BY DEF Enqueue, MayCall, Idle, roster, bounds
<1>2. call' = [call EXCEPT ![c] = NoCall] /\ call[c].at # "requeue" /\ Fit(NoCall)
  BY <1>1 DEF NoCall, Starts, TypeOK, Fit
<1>3. Rec(t).status = "none" /\ "priority" \notin In(t) /\ t \notin zset["priority"]
  <2>1. Settled(t) /\ Sound(t)
    BY Ledger DEF Starts, InOrder, OfTask
  <2>2. Rec(t).status = "none"
    BY <1>1, <2>1 DEF NoTask, Settled
  <2> QED
    BY <2>1, <2>2 DEF Settled, Sound, Keys
<1>4. \E st \in {"pending", "scheduled"} :
        /\ task' = [task EXCEPT ![t].status = st]
        /\ st = "pending" => todo' = [todo EXCEPT ![c] = EnqueuePending(t)]
        /\ st = "scheduled" => todo' = [todo EXCEPT ![c] = <<ZAdd("scheduled", t)>>]
  BY DEF Enqueue, Issue
<1> SUFFICES ASSUME NEW st \in {"pending", "scheduled"}, task' = [task EXCEPT ![t].status = st],
                    st = "pending" => todo' = [todo EXCEPT ![c] = EnqueuePending(t)],
                    st = "scheduled" => todo' = [todo EXCEPT ![c] = <<ZAdd("scheduled", t)>>]
             PROVE  Kept'
  BY <1>4
<1>5. task'[t].status = st /\ \A u \in Tasks : u # t => task'[u] = task[u]
  BY DEF Starts, TypeOK, TaskRec
<1>6. \A a \in Agents : Assigned(a)' \subseteq Assigned(a)
  <2>1. zset["processing"] \subseteq Tasks
    BY DEF Starts, TypeOK, Keys
  <2> QED
    BY <1>1, <1>5, <2>1 DEF Assigned
<1>7. ASSUME NEW s, NEW add, Does(s, t, {}, add, {}, 0), Enacts(c, NoCall, s), NEW L, Books(s, L, {}),
             (L = {} /\ "priority" \notin add) \/ (L = {OnList("lpush", t)} /\ "priority" \in add)
      PROVE  Kept'
  <2>1. Issued(c, t, {}, add, {}, 0)
    BY <1>1, <1>5, <1>7, Beside
  <2>2. Rec(t)'.status \notin Busy
    BY <1>5, <2>1 DEF Issued, Busy
  <2>3. "priority" \in In(t)' <=> "priority" \in add
    BY <1>1, <1>3, <2>1 DEF Issued, Keys
  <2>4. Listed(t, L)
    BY <1>3, <1>7, <2>3 DEF Listed
  <2> QED
    BY <1>1, <1>2, <1>3, <1>5, <1>6, <1>7, <2>2, <2>4, AwayKept DEF Busy
<1>8. CASE st = "pending"
  <2>1. Enacts(c, NoCall, EnqueuePending(t))
    BY <1>1, <1>2, <1>8 DEF Enacts
  <2> QED
    BY <1>7, <2>1, DoesPush, BooksPush
<1>9. CASE st = "scheduled"
  <2> DEFINE s == <<ZAdd("scheduled", t)>>
  <2>1. Enacts(c, NoCall, s)
    BY <1>1, <1>2, <1>9 DEF Enacts
  <2>2. Books(s, {}, {})
    <3>1. ZAdd("scheduled", t).do \notin OnLists \cup OnRecords
      BY DEF ZAdd, OnLists, OnRecords
    <3> QED
      BY <3>1, BooksOne
  <2>3. Does(s, t, {}, {"scheduled"}, {}, 0)
    BY DoesSchedule
  <2>4. "priority" \notin {"scheduled"}
    OBVIOUS
  <2> HIDE DEF s
  <2> QED
    BY <1>7, <2>1, <2>2, <2>3, <2>4
<1> QED
  BY <1>8, <1>9

LEMMA CancelKept ==
  ASSUME NEW c \in Callers, Starts(c), TypeOK', Careful(environment), NEW t \in Tasks, CancelTask(c, t)
  PROVE  Kept'
<1> DEFINE r == [task[t] EXCEPT !.status = "cancelled"]
           s == <<SetTask(t, r), ZRem("scheduled", t), ZRem("processing", t),
                  OnList("lrem", t), ZRem("priority", t)>> \o Unload(None)
<1>1. /\ task[t].status \in {"pending", "scheduled"} /\ call[c] = NoCall /\ call' = call
      /\ UNCHANGED <<task, zset, list, dead, agent, environment>>
      /\ todo' = [todo EXCEPT ![c] = s]
  BY DEF CancelTask, Careful, Allowed, MayCall, Idle, Issue, store, roster, bounds
<1>2. call' = [call EXCEPT ![c] = NoCall] /\ call[c].at # "requeue" /\ Fit(NoCall)
  BY <1>1 DEF NoCall, Starts, TypeOK, Fit
<1>0. task[t] \in TaskRec
  BY DEF Starts, TypeOK
<1>3. Rec(t) = task[t] /\ r.status = "cancelled" /\ r \in TaskRec
  <2>1. r.status = "cancelled" /\ r \in TaskRec
    BY <1>0 DEF TaskRec, Stored
  <2> QED
    BY <2>1, Ledger DEF Settled
<1>4. Books(s, {OnList("lrem", t)}, {})
  BY BooksCancel
<1>5. Does(s, t, {SetTask(t, r)}, {}, Keys, 0)
  <2> DEFINE s1 == <<SetTask(t, r), ZRem("scheduled", t), ZRem("processing", t),
                     OnList("lrem", t), ZRem("priority", t)>>
  <2>2. s1 \in Seq(Command)
    BY <1>3 DEF SetTask, ZRem, OnList, Command, Keys
  <2>3. Unload(None) \in Seq(Command) /\ Elsewhere(Unload(None)) /\ Plain(Unload(None))
    BY UnloadElsewhere
  <2>4. Does(s1, t, {SetTask(t, r)}, {}, Keys, 0)
    BY DoesCancel
  <2> HIDE DEF s1, r
  <2> QED
    BY <2>2, <2>3, <2>4, DoesWith DEF s1
<1>6. Enacts(c, NoCall, s)
  BY <1>1, <1>2 DEF Enacts
<1> HIDE DEF s, r
<1>7. Issued(c, t, {SetTask(t, r)}, {}, Keys, 0)
  BY <1>1, <1>5, <1>6, Beside
<1>8. Rec(t)'.status \notin Busy /\ Listed(t, {OnList("lrem", t)})
  BY <1>3, <1>7 DEF Issued, Busy, Listed, Keys
<1>9. \A a \in Agents : Assigned(a)' \subseteq Assigned(a)
  BY <1>1 DEF Assigned
<1> QED
  BY <1>1, <1>2, <1>3, <1>4, <1>5, <1>6, <1>8, <1>9, AwayKept DEF Busy

LEMMA ReplayKept ==
  ASSUME NEW c \in Callers, Starts(c), TypeOK', NEW t \in Tasks, ReplayDeadLetter(c, t)
  PROVE  Kept'
<1> DEFINE nth == Len(dead[t])
           r == [status |-> "pending", assignee |-> dead[t][nth], retry |-> 0]
           s == <<[do |-> "dropDead", task |-> t, nth |-> nth], SetTask(t, r)>> \o EnqueuePending(t)
<1>1. /\ dead[t] # <<>> /\ call[c] = NoCall /\ call' = call
      /\ UNCHANGED <<task, zset, list, dead, agent, environment>>
      /\ todo' = [todo EXCEPT ![c] = s]
  BY DEF ReplayDeadLetter, MayCall, Idle, Issue, store, roster
<1>2. call' = [call EXCEPT ![c] = NoCall] /\ call[c].at # "requeue" /\ Fit(NoCall)
  BY <1>1 DEF NoCall, Starts, TypeOK, Fit
<1>3. dead[t] \in Seq(Agents \cup {None}) /\ nth \in Nat \ {0} /\ dead[t][nth] \in Agents \cup {None}
  <2>1. dead[t] \in Seq(Agents \cup {None})
    BY DEF Starts, TypeOK
  <2> QED
    BY <1>1, <2>1
<1>4. r \in TaskRec /\ r.status = "pending"
  BY <1>3 DEF TaskRec, Stored
<1>5. Died(t) # 0 /\ "priority" \notin In(t)
  <2>1. Settled(t) /\ Sound(t)
    BY Ledger DEF Starts, InOrder, OfTask
  <2>2. Died(t) # 0
    BY <1>3, <2>1 DEF Settled
  <2> QED
    BY <2>1, <2>2 DEF Sound, Busy
<1>6. Books(s, {OnList("lpush", t)}, {})
  BY <1>3, <1>4, BooksReplay
<1>7. Does(s, t, {SetTask(t, r)}, {"priority"}, {}, -1)
  BY DoesReplay
<1>8. Enacts(c, NoCall, s)
  BY <1>1, <1>2 DEF Enacts
<1> HIDE DEF s, r
<1>9. Issued(c, t, {SetTask(t, r)}, {"priority"}, {}, -1)
  BY <1>1, <1>7, <1>8, Beside
<1>10. Rec(t)'.status \notin Busy /\ Listed(t, {OnList("lpush", t)})
  BY <1>4, <1>5, <1>9 DEF Issued, Busy, Listed, Keys
<1>11. \A a \in Agents : Assigned(a)' \subseteq Assigned(a)
  BY <1>1 DEF Assigned
<1> QED
  BY <1>1, <1>2, <1>5, <1>6, <1>7, <1>8, <1>10, <1>11, AwayKept

LEMMA WakesKept ==
  ASSUME NEW c \in Callers, Starts(c), TypeOK', Wake(c)
  PROVE  Kept'
<1>1. PICK t \in call[c].due :
        /\ Issue(c, <<ZRem("scheduled", t), SetTask(t, [task[t] EXCEPT !.status = "pending"])>>
                    \o EnqueuePending(t))
        /\ Return(c) \/ Goto(c, [at |-> "wake", due |-> call[c].due \ {t}])
  BY DEF Wake
<1>2. PICK f : call' = [call EXCEPT ![c] = f] /\ (f = NoCall \/ f = [at |-> "wake", due |-> call[c].due \ {t}])
  BY <1>1 DEF Return, Goto
<1>3. /\ call[c].at = "wake" /\ t \in Tasks /\ UNCHANGED <<task, zset, list, dead, agent, environment>>
  BY DEF Wake, At, Starts, TypeOK, Call, store, roster, bounds
<1>4. Fit(f)
  BY <1>2 DEF Fit, NoCall
<1> DEFINE r == [task[t] EXCEPT !.status = "pending"]
           s == <<ZRem("scheduled", t), SetTask(t, r)>> \o EnqueuePending(t)
<1>5. r \in TaskRec /\ r.status = "pending"
  <2>1. task[t] \in TaskRec
    BY <1>3 DEF Starts, TypeOK
  <2> QED
    BY <2>1 DEF TaskRec, Stored
<1>6. Rec(t).status \notin Busy /\ "priority" \notin In(t)
  <2>1. OfTask(t) /\ c \in Wakers(t)
    BY <1>1, <1>3 DEF Starts, InOrder, Wakers
  <2> QED
    BY <2>1 DEF OfTask, InHand, Sound, Busy
<1>7. Books(s, {OnList("lpush", t)}, {})
  BY <1>3, <1>5, BooksWake
<1>8. Does(s, t, {SetTask(t, r)}, {"priority"}, {"scheduled"}, 0)
  BY DoesWake
<1>9. Enacts(c, f, s)
  BY <1>1, <1>2, <1>3 DEF Enacts, Issue
<1> HIDE DEF s, r
<1>10. Issued(c, t, {SetTask(t, r)}, {"priority"}, {"scheduled"}, 0)
  BY <1>3, <1>8, <1>9, Beside
<1>11. Rec(t)'.status \notin Busy /\ Listed(t, {OnList("lpush", t)})
  BY <1>5, <1>6, <1>10 DEF Issued, Busy, Listed, Keys
<1>12. \A a \in Agents : Assigned(a)' \subseteq Assigned(a)
  BY <1>3 DEF Assigned
<1>13. call[c].at # "requeue" /\ \A u \in Tasks : u # t => task'[u] = task[u]
  BY <1>3
<1> QED
  BY <1>3, <1>4, <1>6, <1>7, <1>8, <1>9, <1>11, <1>12, <1>13, AwayKept

\* The record of a held task is written back, still its agent's.
LEMMA WorksKept ==
  ASSUME NEW a \in Agents, a \in Callers, Starts(a), TypeOK', NEW t \in Tasks,
         StartTask(a, t) \/ UpdateProgress(a, t)
  PROVE  Kept'
<1>1. PICK r : /\ todo' = [todo EXCEPT ![a] = <<SetTask(t, r)>>]
               /\ r = task[t] \/ r = [task[t] EXCEPT !.status = "processing"]
  BY DEF StartTask, UpdateProgress, Issue
<1>2. /\ t \in held[a] /\ call[a] = NoCall /\ call' = call
      /\ UNCHANGED <<task, zset, list, dead, agent, environment>>
  BY DEF StartTask, UpdateProgress, MayCall, Idle, store, roster, bounds
<1>3. call' = [call EXCEPT ![a] = NoCall] /\ call[a].at # "requeue" /\ NoCall.at = "none"
  BY <1>2 DEF NoCall, Starts, TypeOK
<1>4. /\ task[t].status \in Busy /\ task[t].assignee = a /\ Len(dead[t]) = 0 /\ t \notin zset["priority"]
  BY <1>2, HeldTask DEF Starts
<1>5. Rec(t) = task[t] /\ Died(t) = 0 /\ "priority" \notin In(t)
  BY <1>4, Ledger DEF Settled, Keys
<1>6. r.status \in Busy /\ r.assignee = a
  <2>1. task[t] \in TaskRec
    BY DEF Starts, TypeOK
  <2> QED
    BY <1>1, <1>4, <2>1 DEF TaskRec, Busy
<1> DEFINE s == <<SetTask(t, r)>>
<1>7. Books(s, {}, {})
  <2>1. SetTask(t, r).do \notin OnLists \cup OnRecords
    BY DEF SetTask, OnLists, OnRecords
  <2> QED
    BY <2>1, BooksOne
<1>8. Does(s, t, {SetTask(t, r)}, {}, {}, 0)
  BY DoesWrite
<1>9. Enacts(a, NoCall, s)
  BY <1>1, <1>2, <1>3 DEF Enacts
<1> HIDE DEF s
<1>10. /\ \A u \in Tasks : u # t => Alike(u)
       /\ Issued(a, t, {SetTask(t, r)}, {}, {}, 0)
       /\ \A b : Team(b)' = IF With(t, b)' THEN Team(b) \cup {t} ELSE Team(b) \ {t}
  BY <1>2, <1>8, <1>9, Beside
<1>11. Rec(t)' = r /\ Died(t)' = 0 /\ "priority" \notin In(t)'
  BY <1>2, <1>4, <1>10 DEF Issued, Keys
<1>12. \A b : Team(b)' = Team(b)
  <2>1. \A b : With(t, b)' <=> b = a
    BY <1>6, <1>11 DEF With
  <2>2. \A b : t \in Team(b) <=> b = a
    BY <1>4, <1>5 DEF With, Team
  <2> QED
    BY <1>10, <2>1, <2>2
<1>13. \A u \in Tasks : Numbered(u)' /\ Lives(u)'
  <2>1. Lives(t)' /\ Listed(t, {})
    BY <1>5, <1>11 DEF Lives, Listed
  <2> QED
    BY <1>7, <1>9, <1>10, <2>1, TaskBooks
<1>14. ASSUME NEW b \in Agents
       PROVE  Counted(b)' /\ Fits(b)'
  <2>1. ~Leaving(b) /\ Tallied(b) /\ Assigned(b)' = Assigned(b)
    BY <1>2, <1>3, Ledger DEF Assigned
  <2>2. Fits(b)'
    BY <1>12, <2>1, FitsStays DEF Tallied
  <2>3. Counted(b)'
    BY <1>2, <1>7, <1>9, <1>12, <2>1, SameBooks
  <2> QED
    BY <2>2, <2>3
<1>15. Ready(a)'
  <2>1. call'[a] = NoCall
    BY <1>9, After
  <2> QED
    BY <1>3, <2>1 DEF Ready
<1> QED
  BY <1>7, <1>9, <1>13, <1>14, <1>15, Assembled DEF Books

\* A task is taken from the agent that it is with.
LEMMA TakenBooks ==
  ASSUME NEW c, Starts(c), TypeOK', NEW f, NEW s, Enacts(c, f, s), NEW t \in Tasks,
         UNCHANGED <<task, zset, dead>>, TakesOff(s, t), NEW a, With(t, a)
  PROVE  /\ \A u \in Tasks : u # t => Alike(u)
         /\ \A b : Team(b)' = Team(b) \ {t}
         /\ \A b \in Agents : Fits(b)'
         /\ Lives(t)' /\ "priority" \notin In(t)
         /\ Ends(s, t) => "priority" \notin In(t)'
         /\ ~Ends(s, t) => "priority" \in In(t)'
<1>1. Settled(t) /\ Rec(t).status \in Busy /\ Died(t) = 0 /\ "priority" \notin In(t) /\ t \notin zset["priority"]
  <2>1. Settled(t) /\ Sound(t)
    BY Ledger DEF Starts, InOrder, OfTask
  <2>2. Rec(t).status \in Busy /\ Died(t) = 0
    BY DEF With
  <2>3. "priority" \notin In(t)
    BY <2>1, <2>2 DEF Sound, Busy
  <2> QED
    BY <2>1, <2>2, <2>3 DEF Settled, Keys
<1> DEFINE Ending(W, add, d) ==
             \/ (\E r : r.status \in {"completed", "scheduled"} /\ W = {SetTask(t, r)}) /\ "priority" \notin add
             \/ W = {} /\ "priority" \notin add /\ d = 1
           Again(W, add) == (\E r : r.status = "pending" /\ W = {SetTask(t, r)}) /\ add = {"priority"}
<1>2. \E W, add, rem, d : Does(s, t, W, add, rem, d) /\ (IF Ends(s, t) THEN Ending(W, add, d)
                                                         ELSE Again(W, add) /\ rem = {})
  <2>1. ASSUME NEW r, r.status = "completed", Does(s, t, {SetTask(t, r)}, {}, {"processing"}, 0)
        PROVE  \E W, add, rem, d : Does(s, t, W, add, rem, d) /\ Ending(W, add, d)
    BY <2>1
  <2>2. ASSUME NEW r, r.status = "scheduled", Does(s, t, {SetTask(t, r)}, {"scheduled"}, {"processing"}, 0)
        PROVE  \E W, add, rem, d : Does(s, t, W, add, rem, d) /\ Ending(W, add, d)
    BY <2>2
  <2>3. ASSUME Does(s, t, {}, {}, {"processing", "priority"}, 1)
        PROVE  \E W, add, rem, d : Does(s, t, W, add, rem, d) /\ Ending(W, add, d)
    BY <2>3
  <2>4. ASSUME NEW r, r.status = "pending", Does(s, t, {SetTask(t, r)}, {"priority"}, {}, 0)
        PROVE  \E W, add, rem, d : Does(s, t, W, add, rem, d) /\ Again(W, add) /\ rem = {}
    BY <2>4
  <2> HIDE DEF Ending, Again
  <2> QED
    BY <2>1, <2>2, <2>3, <2>4 DEF TakesOff, Ends
<1> PICK W, add, rem, d : Does(s, t, W, add, rem, d) /\ (IF Ends(s, t) THEN Ending(W, add, d)
                                                         ELSE Again(W, add) /\ rem = {})
  BY <1>2
<1>3. /\ \A u \in Tasks : u # t => Alike(u)
      /\ Issued(c, t, W, add, rem, d)
      /\ \A b : Team(b)' = IF With(t, b)' THEN Team(b) \cup {t} ELSE Team(b) \ {t}
  BY Beside
<1>4. /\ Rec(t)'.status \notin Busy \/ (Died(t)' = 1 /\ Writes(Pending(t)') = {})
      /\ Ends(s, t) => "priority" \notin In(t)'
      /\ ~Ends(s, t) => "priority" \in In(t)'
  <2>1. ASSUME NEW r, r.status \in {"completed", "scheduled"}, W = {SetTask(t, r)}
        PROVE  Rec(t)'.status \notin Busy
    BY <1>3, <2>1 DEF Issued, Busy
  <2>2. ASSUME NEW r, r.status = "pending", W = {SetTask(t, r)}
        PROVE  Rec(t)'.status \notin Busy
    BY <1>3, <2>2 DEF Issued, Busy
  <2>3. ASSUME W = {}, d = 1
        PROVE  Died(t)' = 1 /\ Writes(Pending(t)') = {}
    <3>1. Len(dead[t]) = 0 /\ dead' = dead
      BY <1>1 DEF Settled
    <3>2. Died(t)' = Len(dead'[t]) + d /\ Writes(Pending(t)') = W
      BY <1>3 DEF Issued
    <3> QED
      BY <2>3, <3>1, <3>2
  <2>4. "priority" \in In(t)' <=> "priority" \in add
    BY <1>1, <1>3 DEF Issued, Keys
  <2> QED
    BY <2>1, <2>2, <2>3, <2>4
<1>5. \A b : Team(b)' = Team(b) \ {t}
  <2>1. \A b : ~With(t, b)'
    BY <1>4 DEF With
  <2> QED
    BY <1>3, <2>1
<1>6. \A b \in Agents : Fits(b)'
  <2> SUFFICES ASSUME NEW b \in Agents
               PROVE  Fits(b)'
    OBVIOUS
  <2>1. Tallied(b) /\ Assigned(b)' = Assigned(b)
    BY Ledger DEF Assigned
  <2> QED
    BY <1>5, <2>1, FitsStays DEF Tallied
<1>7. Lives(t)'
  BY <1>4 DEF Lives
<1> QED
  BY <1>1, <1>3, <1>4, <1>5, <1>6, <1>7

\* It ends there: the load of the agent is told.
LEMMA OffKept ==
  ASSUME NEW c, Starts(c), TypeOK', NEW f, NEW s, Enacts(c, f, s), NEW t \in Tasks,
         UNCHANGED <<task, zset, dead, agent>>, Ends(s, t), NEW a \in Agents, With(t, a),
         NEW L, L = {} \/ L = {OnList("lrem", t)}, Books(s, L, {AddLoad(a, -1)}),
         call[c].at # "requeue",
         f = NoCall \/ (f = [call[c] EXCEPT !.tasks = @ \ {t}] /\ call[c].at = "fail")
  PROVE  Kept'
<1>1. /\ \A u \in Tasks : u # t => Alike(u)
      /\ \A b : Team(b)' = Team(b) \ {t}
      /\ \A b \in Agents : Fits(b)'
      /\ Lives(t)' /\ "priority" \notin In(t) /\ "priority" \notin In(t)'
  BY TakenBooks DEF TakesOff
<1>2. \A u \in Tasks : Numbered(u)' /\ Lives(u)'
  <2>1. Listed(t, L)
    BY <1>1 DEF Listed
  <2> QED
    BY <1>1, <2>1, TaskBooks
<1>3. ASSUME NEW b \in Agents
      PROVE  Counted(b)'
  <2>1. ~Leaving(b)
    BY Ledger
  <2>2. CASE b = a
    <3>1. t \in Team(b)
      BY <2>2 DEF Team
    <3> QED
      BY <1>1, <2>1, <2>2, <3>1, LessBooks
  <2>3. CASE b # a
    <3>1. t \notin Team(b)
      BY <2>3 DEF Team, With
    <3>2. Team(b)' = Team(b) /\ \A m \in {AddLoad(a, -1)} : m.agent # b
      BY <1>1, <2>3, <3>1 DEF AddLoad
    <3> QED
      BY <2>1, <3>2, SameBooks
  <2> QED
    BY <2>2, <2>3
<1>4. Ready(c)'
  <2>1. call'[c] = f
    BY After
  <2>2. CASE f = NoCall
    BY <2>1, <2>2 DEF Ready, NoCall
  <2>3. CASE f = [call[c] EXCEPT !.tasks = @ \ {t}] /\ call[c].at = "fail"
    <3>1. Fit(call[c])
      BY Fitting
    <3>2. call[c] \in Call
      BY DEF Starts, TypeOK
    <3>3. f.at = "fail" /\ f.agent = call[c].agent /\ f.late = call[c].late /\ f.tasks = call[c].tasks \ {t}
      BY <2>3, <3>2 DEF Call
    <3>4. Team(f.agent)' \subseteq f.tasks
      BY <1>1, <2>3, <3>1, <3>3 DEF Fit
    <3> QED
      BY <2>1, <2>3, <3>1, <3>3, <3>4 DEF Fit, Ready
  <2> QED
    BY <2>2, <2>3
<1> QED
  BY <1>2, <1>1, <1>3, <1>4, Assembled DEF Books

LEMMA EndsKept ==
  ASSUME NEW a \in Agents, a \in Callers, Starts(a), TypeOK', NEW t \in Tasks,
         CompleteTask(a, t) \/ FailTask(a, t)
  PROVE  Kept'
<1>1. /\ t \in held[a] /\ call[a] = NoCall /\ call' = call
      /\ UNCHANGED <<task, zset, list, dead, agent, environment>>
  BY DEF CompleteTask, FailTask, MayCall, Idle, store, roster, bounds
<1>2. call' = [call EXCEPT ![a] = NoCall] /\ call[a].at # "requeue"
  BY <1>1 DEF NoCall, Starts, TypeOK
<1>3. task[t].status \in Busy /\ task[t].assignee = a /\ Len(dead[t]) = 0
  BY <1>1, HeldTask DEF Starts
<1>4. With(t, a)
  BY <1>3, Ledger DEF Settled, With
<1>5. CASE CompleteTask(a, t)
  <2> DEFINE r == [task[t] EXCEPT !.status = "completed"]
             s1 == <<SetTask(t, r), ZRem("processing", t)>>
             s == s1 \o Unload(a)
  <2>1. r \in TaskRec /\ r.status = "completed"
    <3>1. task[t] \in TaskRec
      BY DEF Starts, TypeOK
    <3> QED
      BY <3>1 DEF TaskRec, Stored
  <2>2. Books(s, {}, {AddLoad(a, -1)})
    <3>1. Unloads(a) = {AddLoad(a, -1)}
      BY TaskQueueAssumption DEF Unloads, TaskQueueAssumption
    <3>2. Books(s, {}, Unloads(a))
      BY <2>1, BooksEnd
    <3> QED
      BY <3>1, <3>2
  <2>3. Does(s, t, {SetTask(t, r)}, {}, {"processing"}, 0)
    <3>1. s1 \in Seq(Command)
      BY <2>1 DEF SetTask, ZRem, Command, Keys
    <3>2. Unload(a) \in Seq(Command) /\ Elsewhere(Unload(a)) /\ Plain(Unload(a))
      BY UnloadElsewhere
    <3>3. Does(s1, t, {SetTask(t, r)}, {}, {"processing"}, 0)
      BY DoesComplete
    <3> HIDE DEF s1, r
    <3> QED
      BY <3>1, <3>2, <3>3, DoesWith
  <2>4. Enacts(a, NoCall, s)
    BY <1>1, <1>2, <1>3, <1>5 DEF Enacts, CompleteTask, Issue
  <2> HIDE DEF s, r
  <2>5. Ends(s, t)
    BY <2>1, <2>3 DEF Ends
  <2> QED
    BY <1>1, <1>2, <1>4, <2>2, <2>4, <2>5, OffKept
<1>6. CASE FailTask(a, t)
  <2> DEFINE s == FailCommands(t)
  <2>1. PICK L : (L = {} \/ L = {OnList("lrem", t)}) /\ Books(s, L, {AddLoad(a, -1)})
    BY <1>3, BooksFail
  <2>2. Ends(s, t)
    BY FailEnds DEF Starts
  <2>3. Enacts(a, NoCall, s)
    BY <1>1, <1>2, <1>6 DEF Enacts, FailTask, Issue
  <2> HIDE DEF s
  <2> QED
    BY <1>1, <1>2, <1>4, <2>1, <2>2, <2>3, OffKept
<1> QED
  BY <1>5, <1>6

LEMMA FailNextKept ==
  ASSUME NEW c \in Callers, Starts(c), TypeOK', FailNext(c)
  PROVE  Kept'
<1>1. call[c].at = "fail" /\ call[c] \in Call
  BY DEF FailNext, At, Starts, TypeOK
<1>2. ASSUME NEW t \in call[c].tasks, Issue(c, FailCommands(t)), Goto(c, [call[c] EXCEPT !.tasks = @ \ {t}]),
             UNCHANGED <<store, roster, world, bounds>>
      PROVE  Kept'
  <2> DEFINE s == FailCommands(t)
             a == call[c].agent
             f == [call[c] EXCEPT !.tasks = @ \ {t}]
  <2>1. UNCHANGED <<task, zset, list, dead, agent, environment>> /\ t \in Tasks /\ a \in Agents
    BY <1>1, <1>2 DEF store, roster, bounds, Call
  <2>2. With(t, a)
    <3>1. OfTask(t) /\ c \in Failers(t)
      BY <1>1, <1>2, <2>1 DEF Starts, InOrder, Failers
    <3> QED
      BY <3>1 DEF OfTask, InHand
  <2>3. task[t].assignee = a
    BY <2>1, <2>2, Ledger DEF Settled, With
  <2>4. PICK L : (L = {} \/ L = {OnList("lrem", t)}) /\ Books(s, L, {AddLoad(a, -1)})
    BY <2>1, <2>3, BooksFail
  <2>5. Ends(s, t)
    BY <2>1, FailEnds DEF Starts
  <2>6. Enacts(c, f, s)
    BY <1>2, <2>1 DEF Enacts, Issue, Goto
  <2>7. call[c].at # "requeue" /\ (f = NoCall \/ (f = [call[c] EXCEPT !.tasks = @ \ {t}] /\ call[c].at = "fail"))
    BY <1>1
  <2> HIDE DEF s, a, f
  <2> QED
    BY <2>1, <2>2, <2>4, <2>5, <2>6, <2>7, OffKept
<1>3. ASSUME NEW a, a = call[c].agent, call[c].tasks = {},
             Issue(c, <<SetAgent(a, [call[c].late[a] EXCEPT !.status = "offline"])>>),
             Return(c) \/ Goto(c, [at |-> "sweep", late |-> [call[c].late EXCEPT ![a] = NoAgent]]),
             UNCHANGED <<store, roster, world, bounds>>
      PROVE  Kept'
  <2>1. PICK f : call' = [call EXCEPT ![c] = f]
                 /\ (f = NoCall \/ f = [at |-> "sweep", late |-> [call[c].late EXCEPT ![a] = NoAgent]])
    BY <1>3 DEF Return, Goto
  <2>2. At(c, "fail") /\ todo' = [todo EXCEPT ![c] = <<SetAgent(a, [call[c].late[a] EXCEPT !.status = "offline"])>>]
    BY <1>3 DEF FailNext, Issue
  <2> QED
    BY <1>3, <2>1, <2>2, SweepEndKept
<1> QED
  BY <1>2, <1>3 DEF FailNext

\* It goes back to pending: the agent is leaving.
GivesBack(c, t, a, r, s, f) ==
  /\ At(c, "requeue") /\ call[c].recs[t] # NoTask /\ a = call[c].agent
  /\ r \in TaskRec /\ r.status = "pending" /\ s = <<SetTask(t, r)>> \o EnqueuePending(t)
  /\ f.at = "requeue" /\ f.agent = a /\ \A u \in Tasks : u # t => f.recs[u] = call[c].recs[u]
  /\ todo' = [todo EXCEPT ![c] = s] /\ call' = [call EXCEPT ![c] = f]

LEMMA GivesBackKept ==
  ASSUME NEW c \in Callers, Starts(c), TypeOK', NEW t \in Tasks,
         NEW a, NEW r, NEW s, NEW f, GivesBack(c, t, a, r, s, f), UNCHANGED <<store, roster, world, bounds>>
  PROVE  Kept'
<1>1. call[c].at = "requeue" /\ a = call[c].agent /\ UNCHANGED <<task, zset, list, dead, agent, environment>>
  BY DEF GivesBack, At, store, roster, bounds
<1>0. r \in TaskRec /\ r.status = "pending" /\ s = <<SetTask(t, r)>> \o EnqueuePending(t)
  BY DEF GivesBack
<1>2. With(t, a)
  <2>1. OfTask(t) /\ c \in Requeuers(t)
    BY <1>1 DEF Starts, InOrder, Requeuers, GivesBack
  <2> QED
    BY <1>1, <2>1 DEF OfTask, InHand
<1>3. Books(s, {OnList("lpush", t)}, {})
  BY <1>0, BooksRequeue
<1>4. Does(s, t, {SetTask(t, r)}, {"priority"}, {}, 0)
  BY <1>0, DoesRequeue
<1>5. TakesOff(s, t)
  BY <1>0, <1>4 DEF TakesOff, Starts
<1>6. Enacts(c, f, s)
  BY <1>1 DEF Enacts, GivesBack
<1>7. /\ \A u \in Tasks : u # t => Alike(u)
      /\ \A b : Team(b)' = Team(b) \ {t}
      /\ \A b \in Agents : Fits(b)'
      /\ Lives(t)' /\ "priority" \notin In(t)
  BY <1>1, <1>2, <1>5, <1>6, TakenBooks
<1>8. "priority" \in In(t)'
  <2>1. Issued(c, t, {SetTask(t, r)}, {"priority"}, {}, 0)
    BY <1>1, <1>4, <1>6, Beside
  <2> QED
    BY <2>1 DEF Issued, Keys
<1>9. \A u \in Tasks : Numbered(u)' /\ Lives(u)'
  <2>1. Listed(t, {OnList("lpush", t)})
    BY <1>7, <1>8 DEF Listed
  <2> QED
    BY <1>3, <1>6, <1>7, <2>1, TaskBooks
<1>10. ASSUME NEW b \in Agents
       PROVE  Counted(b)'
  <2>1. CASE b = a
    <3>1. Leaving(b)' /\ Sent(OnRecords)' = {}
      BY <1>3, <1>6, <2>1, After DEF Books, GivesBack
    <3> QED
      BY <3>1 DEF Counted
  <2>2. CASE b # a
    <3>1. ~Leaving(b)
      BY <1>1, <2>2, Ledger
    <3>2. t \notin Team(b)
      BY <1>2, <2>2 DEF Team, With
    <3>3. Team(b)' = Team(b)
      BY <1>7, <3>2
    <3>4. agent'[b] = agent[b]
      BY <1>1
    <3> QED
      BY <1>3, <1>6, <3>1, <3>3, <3>4, SameBooks
  <2> QED
    BY <2>1, <2>2
<1>11. Ready(c)'
  <2>1. call'[c] = f
    BY <1>6, After
  <2>2. Fit(call[c])
    BY Fitting
  <2>3. \A u \in Team(a)' : u \in Team(a) /\ u # t /\ u \in Tasks
    BY <1>7 DEF Team
  <2>4. \A u \in Team(a) : call[c].recs[u] # NoTask
    BY <1>1, <2>2 DEF Fit
  <2>5. \A u \in Team(f.agent)' : f.recs[u] # NoTask
    BY <2>3, <2>4 DEF GivesBack
  <2> QED
    BY <2>1, <2>5 DEF Ready, GivesBack
<1> QED
  BY <1>3, <1>6, <1>7, <1>9, <1>10, <1>11, Assembled DEF Books

LEMMA RequeueKept ==
  ASSUME NEW c \in Callers, Starts(c), TypeOK', Requeue(c)
  PROVE  Kept'
<1> DEFINE recs == call[c].recs
<1>1. At(c, "requeue") /\ UNCHANGED <<store, roster, world, bounds>> /\ call[c] \in Call
  BY DEF Requeue, Starts, TypeOK
<1>2. call[c] = [at |-> "requeue", agent |-> call[c].agent, recs |-> recs] /\ recs \in [Tasks -> TaskRec]
  BY <1>1 DEF Call, At
<1>3. \A R : [call[c] EXCEPT !.recs = R] = [at |-> "requeue", agent |-> call[c].agent, recs |-> R]
  BY <1>2
<1>4. ASSUME NEW t \in Tasks, recs[t] # NoTask,
             Issue(c, <<SetTask(t, [recs[t] EXCEPT !.status = "pending", !.assignee = None])>> \o EnqueuePending(t)),
             Goto(c, [call[c] EXCEPT !.recs = [recs EXCEPT ![t] = NoTask]])
      PROVE  Kept'
  <2>1. PICK f : f = [call[c] EXCEPT !.recs = [recs EXCEPT ![t] = NoTask]]
    OBVIOUS
  <2>2. PICK r : r = [recs[t] EXCEPT !.status = "pending", !.assignee = None]
    OBVIOUS
  <2>3. PICK a : a = call[c].agent
    OBVIOUS
  <2>4. f = [at |-> "requeue", agent |-> a, recs |-> [recs EXCEPT ![t] = NoTask]]
    BY <1>3, <2>1, <2>3
  <2>5. f.at = "requeue" /\ f.agent = a /\ \A u \in Tasks : u # t => f.recs[u] = recs[u]
    BY <1>2, <2>4
  <2>6. r \in TaskRec /\ r.status = "pending"
    <3>1. recs[t] \in TaskRec
      BY <1>2
    <3> QED
      BY <2>2, <3>1 DEF TaskRec, Stored
  <2>7. PICK s : s = <<SetTask(t, r)>> \o EnqueuePending(t)
    OBVIOUS
  <2>8. call' = [call EXCEPT ![c] = f] /\ todo' = [todo EXCEPT ![c] = s]
    BY <1>4, <2>1, <2>2, <2>7 DEF Issue, Goto
  <2>9. GivesBack(c, t, a, r, s, f)
    BY <1>1, <1>4, <2>3, <2>5, <2>6, <2>7, <2>8 DEF GivesBack
  <2>10. UNCHANGED <<store, roster, world, bounds>>
    BY <1>1
  <2> QED
    BY <2>9, <2>10, GivesBackKept
<1>5. ASSUME \A t \in Tasks : recs[t] = NoTask,
             Issue(c, <<OnAgent("del", call[c].agent), OnAgent("srem", call[c].agent)>>), Return(c)
      PROVE  Kept'
  BY <1>1, <1>5, RemovesKept DEF Issue, Return, Goto
<1> QED
  BY <1>4, <1>5 DEF Requeue

\* A pop: the task leaves its priority set, then the pending list.
LEMMA PopsKept ==
  ASSUME NEW c \in Callers, Starts(c), TypeOK', Take(c), NEW t, t = call[c].task
  PROVE  Kept'
<1> DEFINE f == [at |-> "fetch", among |-> call[c].among, task |-> t]
           s == <<OnList("lrem", t)>>
<1>1. call[c].at = "take" /\ t \in Tasks /\ UNCHANGED <<task, list, dead, agent, environment>>
  <2>1. At(c, "take") /\ call[c] \in Call
    BY DEF Take, Starts, TypeOK
  <2> QED
    BY <2>1, Frames DEF At, Take, roster, bounds
<1>2. CASE t \notin zset["priority"]
  <2>1. NextPriority(c) /\ UNCHANGED <<zset, todo>>
    BY <1>2 DEF Take
  <2> QED
    BY <1>1, <2>1, PassesKept
<1>3. CASE t \in zset["priority"] /\ zset' = [zset EXCEPT !["priority"] = @ \ {t}]
           /\ Issue(c, s) /\ Goto(c, f)
  <2>1. Enacts(c, f, s)
    BY <1>1, <1>3 DEF Enacts, Issue, Goto
  <2>2. Books(s, {OnList("lrem", t)}, {}) /\ s \in Seq(Command) /\ Elsewhere(s)
    <3>1. OnList("lrem", t).do = "lrem" /\ OnList("lrem", t) \in Command
      BY <1>1 DEF OnList, Command
    <3>2. Books(s, {OnList("lrem", t)}, {})
      BY <3>1, BooksOne DEF OnLists
    <3> QED
      BY <3>1, <3>2 DEF Elsewhere, OnKeys
  <2>3. f.at = "fetch" /\ f.among = call[c].among
    OBVIOUS
  <2>4. \A k \in Keys : \A u : u \in zset'[k] <=> (u \in zset[k] /\ ~(k = "priority" /\ u = t))
    BY <1>3 DEF Starts, TypeOK
  <2>5. "priority" \in Keys /\ "processing" \in Keys
    BY DEF Keys
  <2> HIDE DEF f, s
  <2>6. ASSUME NEW u \in Tasks
        PROVE  /\ Rec(u)' = Rec(u) /\ Died(u)' = Died(u) /\ Pending(u)' = {}
               /\ In(u)' = In(u) \ (IF u = t THEN {"priority"} ELSE {})
    <3>1. Settled(u)
      BY Ledger
    <3>2. Pending(u)' = {}
      BY <2>1, <2>2, <3>1, IssuingElsewhere DEF Starts, Enacts, Settled
    <3>3. Rec(u)' = Rec(u) /\ Died(u)' = Died(u) /\ \A k \in Keys : k \in In(u)' <=> u \in zset'[k]
      BY <1>1, <3>1, <3>2, UnissuedNext DEF Settled
    <3>4. In(u) \subseteq Keys /\ In(u)' \subseteq Keys
      BY DEF In, InAfter
    <3>5. \A k : k \in In(u)' <=> k \in In(u) /\ ~(k = "priority" /\ u = t)
      BY <2>4, <3>1, <3>3, <3>4 DEF Settled
    <3> QED
      BY <3>2, <3>3, <3>5
  <2>7. \A u \in Tasks : u # t => Alike(u)
    BY <2>6 DEF Alike
  <2>8. \A b : Team(b)' = Team(b)
    BY <2>6, TeamStays
  <2>9. \A u \in Tasks : Numbered(u)' /\ Lives(u)'
    <3>1. Listed(t, {OnList("lrem", t)}) /\ Lives(t)'
      BY <1>1, <2>6 DEF Listed, Lives, Writes
    <3> QED
      BY <1>1, <2>1, <2>2, <2>7, <3>1, TaskBooks
  <2>10. ASSUME NEW b \in Agents
         PROVE  Counted(b)' /\ Fits(b)'
    <3>1. zset'["processing"] = zset["processing"]
      BY <2>4, <2>5
    <3>2. ~Leaving(b) /\ Tallied(b) /\ Assigned(b)' = Assigned(b)
      BY <1>1, <3>1, Ledger DEF Assigned
    <3>3. Fits(b)'
      BY <2>8, <3>2, FitsStays DEF Tallied
    <3>4. Counted(b)'
      BY <1>1, <2>1, <2>2, <2>8, <3>2, SameBooks
    <3> QED
      BY <3>3, <3>4
  <2>11. Ready(c)'
    <3>1. call'[c] = f /\ todo'[c] = s
      BY <2>1, After
    <3>2. Fit(call[c]) /\ All(s, OnRecords) = {}
      BY <2>2, Fitting DEF Books
    <3> QED
      BY <1>1, <2>3, <2>8, <3>1, <3>2 DEF Fit, Ready
  <2> QED
    BY <2>1, <2>2, <2>9, <2>10, <2>11, Assembled DEF Books
<1> QED
  BY <1>2, <1>3 DEF Take

LEMMA TakeKept ==
  ASSUME NEW c \in Callers, Starts(c), TypeOK', Take(c)
  PROVE  Kept'
<1>1. PICK t : t = call[c].task
  OBVIOUS
<1> QED
  BY <1>1, PopsKept

\* A popped task is assigned: the agent has one more.
AssignsTo(c, t, a, r, s, f) ==
  /\ At(c, "fetch") /\ t = call[c].task /\ a \in call[c].among
  /\ r.status = "assigned" /\ r.assignee = a
  /\ s = <<SetTask(t, r), ZAdd("processing", t), AddLoad(a, 1)>> /\ f.at = "give"
  /\ todo' = [todo EXCEPT ![c] = s] /\ call' = [call EXCEPT ![c] = f]

LEMMA AssignKept ==
  ASSUME NEW c \in Callers, Starts(c), TypeOK', NEW t, NEW a, NEW r, NEW s, NEW f,
         AssignsTo(c, t, a, r, s, f), UNCHANGED <<store, roster, world, bounds>>
  PROVE  Kept'
<1>1. /\ call[c].at = "fetch" /\ t = call[c].task /\ a \in call[c].among /\ f.at = "give"
      /\ r.status = "assigned" /\ r.assignee = a
      /\ s = <<SetTask(t, r), ZAdd("processing", t), AddLoad(a, 1)>>
      /\ UNCHANGED <<task, zset, list, dead, agent, environment>>
  BY DEF AssignsTo, At, store, roster, bounds
<1>2. t \in Tasks /\ a \in Agents
  <2>1. call[c] \in Call
    BY DEF Starts, TypeOK
  <2> QED
    BY <1>1, <2>1, Frames
<1>3. Enacts(c, f, s)
  BY <1>1 DEF Enacts, AssignsTo
<1>4. Books(s, {}, {AddLoad(a, 1)})
  BY <1>1, BooksAssign
<1>5. Does(s, t, {SetTask(t, r)}, {"processing"}, {}, 0)
  BY <1>1, DoesAssign
<1>6. Settled(t) /\ Rec(t).status = "pending" /\ "priority" \notin In(t) /\ Died(t) = 0
  <2>1. Sound(t) /\ c \in Takers(t)
    BY <1>1, <1>2 DEF Starts, InOrder, OfTask, Takers
  <2> QED
    BY <1>2, <2>1, Ledger DEF Sound, Busy
<1>7. agent[a].status \in {"idle", "busy"} /\ Cardinality(Team(a)) < Capacity[a]
  <2>1. Fit(call[c])
    BY Fitting
  <2> QED
    BY <1>1, <2>1 DEF Fit
<1>8. /\ \A u \in Tasks : u # t => Alike(u)
      /\ Issued(c, t, {SetTask(t, r)}, {"processing"}, {}, 0)
      /\ \A b : Team(b)' = IF With(t, b)' THEN Team(b) \cup {t} ELSE Team(b) \ {t}
  BY <1>1, <1>2, <1>3, <1>5, Beside
<1>9. Rec(t)' = r /\ Died(t)' = 0 /\ "priority" \notin In(t)'
  <2>1. Len(dead'[t]) = 0
    BY <1>1, <1>6 DEF Settled
  <2>2. SetTask(t, r).rec = r
    BY DEF SetTask
  <2> QED
    BY <1>1, <1>6, <1>8, <2>1, <2>2 DEF Issued, Settled, Keys
<1>10. \A b : t \notin Team(b) /\ Team(b)' = IF b = a THEN Team(b) \cup {t} ELSE Team(b)
  <2>1. \A b : With(t, b)' <=> b = a
    BY <1>1, <1>9 DEF With, Busy
  <2>2. \A b : t \notin Team(b)
    BY <1>6 DEF Team, With, Busy
  <2> QED
    BY <1>8, <2>1, <2>2
<1>11. \A u \in Tasks : Numbered(u)' /\ Lives(u)'
  <2>1. Lives(t)' /\ Listed(t, {})
    BY <1>6, <1>9 DEF Lives, Listed
  <2> QED
    BY <1>2, <1>3, <1>4, <1>8, <2>1, TaskBooks
<1>12. ASSUME NEW b \in Agents
       PROVE  Counted(b)' /\ Fits(b)'
  <2>1. ~Leaving(b) /\ Tallied(b) /\ Assigned(b)' = Assigned(b) /\ agent'[b] = agent[b]
    BY <1>1, Ledger DEF Assigned
  <2>2. CASE b = a
    <3>1. Counted(b)'
      BY <1>3, <1>4, <1>7, <1>10, <2>1, <2>2, MoreBooks
    <3>2. Cardinality(Team(b) \cup {t}) = Cardinality(Team(b)) + 1 /\ IsFiniteSet(Team(b) \cup {t})
      BY <1>10, <2>1, FS_AddElement DEF Tallied
    <3>3. Ever(b)' = Team(b) \cup {t}
      BY <1>10, <2>1, <2>2 DEF Ever, Tallied
    <3>4. Capacity[b] \in Nat
      BY TaskQueueAssumption DEF TaskQueueAssumption
    <3> QED
      BY <1>7, <2>1, <2>2, <3>1, <3>2, <3>3, <3>4 DEF Fits, Tallied
  <2>3. CASE b # a
    <3>1. Team(b)' = Team(b)
      BY <1>10, <2>3
    <3>2. \A m \in {AddLoad(a, 1)} : m.agent # b
      BY <2>3 DEF AddLoad
    <3>3. Counted(b)'
      BY <1>3, <1>4, <2>1, <3>1, <3>2, SameBooks
    <3>4. Fits(b)'
      BY <2>1, <3>1, FitsStays DEF Tallied
    <3> QED
      BY <3>3, <3>4
  <2> QED
    BY <2>2, <2>3
<1>13. Ready(c)'
  <2>1. call'[c] = f
    BY <1>3, After
  <2> QED
    BY <1>1, <2>1 DEF Ready
<1> QED
  BY <1>3, <1>4, <1>11, <1>12, <1>13, Assembled DEF Books

LEMMA FetchKept ==
  ASSUME NEW c \in Callers, Starts(c), TypeOK', Fetch(c)
  PROVE  Kept'
<1>1. PICK t : t = call[c].task
  OBVIOUS
<1>2. /\ At(c, "fetch") /\ call[c].at = "fetch" /\ UNCHANGED <<store, roster, world, bounds>>
      /\ UNCHANGED <<task, zset, list, dead, agent, environment>>
  BY DEF Fetch, At, store, roster, bounds
<1>3. t \in Tasks /\ task[t] \in TaskRec
  <2>1. call[c] \in Call /\ task \in [Tasks -> TaskRec]
    BY DEF Starts, TypeOK
  <2> QED
    BY <1>1, <1>2, <2>1, Frames
<1>4. ASSUME NEW a \in call[c].among,
             Issue(c, <<SetTask(t, [task[t] EXCEPT !.status = "assigned", !.assignee = a]),
                        ZAdd("processing", t), AddLoad(a, 1)>>),
             Goto(c, [at |-> "give", agent |-> a, task |-> t])
      PROVE  Kept'
  <2>1. PICK r : r = [task[t] EXCEPT !.status = "assigned", !.assignee = a]
    OBVIOUS
  <2>2. PICK s : s = <<SetTask(t, r), ZAdd("processing", t), AddLoad(a, 1)>>
    OBVIOUS
  <2>3. PICK f : f = [at |-> "give", agent |-> a, task |-> t]
    OBVIOUS
  <2>4. r.status = "assigned" /\ r.assignee = a /\ f.at = "give"
    BY <1>3, <2>1, <2>3 DEF TaskRec
  <2>5. todo' = [todo EXCEPT ![c] = s] /\ call' = [call EXCEPT ![c] = f]
    BY <1>4, <2>1, <2>2, <2>3 DEF Issue, Goto
  <2>6. AssignsTo(c, t, a, r, s, f)
    BY <1>1, <1>2, <2>2, <2>4, <2>5 DEF AssignsTo
  <2> QED
    BY <1>2, <2>6, AssignKept
<1>5. ASSUME Return(c), UNCHANGED todo
      PROVE  Kept'
  BY <1>2, <1>5, ReturnKept
<1> QED
  BY <1>1, <1>4, <1>5 DEF Fetch
-----------------------------------------------------------------------------
(* Every step keeps the books.                                             *)

LEMMA Begins ==
  ASSUME TypeOK, Serial, InOrder, Kept, NEW c \in Callers
  PROVE  /\ MayCall(c) => Starts(c)
         /\ \A label : label # "none" /\ At(c, label) => Starts(c)
<1>1. MayCall(c) => todo[c] = <<>>
  BY DEF MayCall, Idle
<1>2. \A label : label # "none" /\ At(c, label) => todo[c] = <<>> /\ ~Idle(c)
  BY DEF At, Idle, NoCall
<1> QED
  BY <1>1, <1>2 DEF Starts

LEMMA RunKept ==
  ASSUME TypeOK, TypeOK', Serial, InOrder, Kept, NEW c \in Callers, Running(c)
  PROVE  Kept'
<1>1. CASE Command1(c)
  BY <1>1, CommandKept
<1>2. ASSUME Peek(c) \/ Take(c) \/ Fetch(c) \/ Give(c) \/ Wake(c) \/ Sweep(c) \/ FailNext(c) \/ Requeue(c)
      PROVE  Starts(c)
  <2>1. PICK label \in {"peek", "take", "fetch", "give", "wake", "sweep", "fail", "requeue"} : At(c, label)
    BY <1>2 DEF Peek, Take, Fetch, Give, Wake, Sweep, FailNext, Requeue
  <2> QED
    BY <2>1, Begins
<1>3. CASE Peek(c) \/ Take(c) \/ Fetch(c) \/ Give(c)
  BY <1>2, <1>3, PeekKept, TakeKept, FetchKept, GiveKept
<1>4. CASE Wake(c) \/ Sweep(c) \/ FailNext(c) \/ Requeue(c)
  BY <1>2, <1>4, WakesKept, SweepKept, FailNextKept, RequeueKept
<1> QED
  BY <1>1, <1>3, <1>4 DEF Running

\* A step of calls that do not overlap, and no fault.
LEMMA StepKept ==
  ASSUME TypeOK, TypeOK', Serial, InOrder, Kept, Careful(environment), faults' = 0, [Next]_vars
  PROVE  Kept'
<1>0. Agents \subseteq Callers /\ Clients \subseteq Callers /\ Ticks \subseteq Callers
  BY DEF Callers
<1>1. CASE UNCHANGED vars
  <2>1. UNCHANGED <<task, zset, list, dead, agent, todo, call>>
    BY <1>1 DEF vars, store, roster
  <2> QED
    BY <2>1, MissesKept
<1>2. ASSUME NEW c \in Callers, Running(c)
      PROVE  Kept'
  BY <1>2, RunKept
<1>3. ASSUME NEW c \in Callers, CutShort(c)
      PROVE  FALSE
  BY <1>3 DEF CutShort, TypeOK
<1>4. ASSUME NEW c \in Clients, NEW t \in Tasks, Enqueue(c, t) \/ CancelTask(c, t) \/ ReplayDeadLetter(c, t)
      PROVE  Kept'
  <2>1. Starts(c) /\ c \in Callers
    BY <1>0, <1>4, Begins DEF Enqueue, CancelTask, ReplayDeadLetter
  <2> QED
    BY <1>4, <2>1, EnqueueKept, CancelKept, ReplayKept
<1>5. ASSUME NEW c \in Clients, ClaimTask(c)
      PROVE  Kept'
  <2>1. Starts(c) /\ c \in Callers
    BY <1>0, <1>5, Begins DEF ClaimTask
  <2> QED
    BY <1>5, <2>1, PollKept
<1>6. ASSUME NEW a \in Agents, NEW t \in Tasks,
             StartTask(a, t) \/ UpdateProgress(a, t) \/ CompleteTask(a, t) \/ FailTask(a, t)
      PROVE  Kept'
  <2>1. Starts(a) /\ a \in Callers
    BY <1>0, <1>6, Begins DEF StartTask, UpdateProgress, CompleteTask, FailTask
  <2> QED
    BY <1>6, <2>1, WorksKept, EndsKept
<1>7. ASSUME NEW a \in Agents, Dequeue(a) \/ RegisterAgent(a) \/ AgentHeartbeat(a)
      PROVE  Kept'
  <2>1. Starts(a) /\ a \in Callers
    BY <1>0, <1>7, Begins DEF Dequeue, RegisterAgent, AgentHeartbeat
  <2> QED
    BY <1>7, <2>1, PollKept, RegisterKept, HeartbeatKept
<1>8. ASSUME NEW c \in Callers, NEW a \in Agents, UnregisterAgent(c, a)
      PROVE  Kept'
  <2>1. Starts(c)
    BY <1>8, Begins DEF UnregisterAgent
  <2> QED
    BY <1>8, <2>1, UnregisterKept
<1>9. ASSUME NEW c \in Ticks, ProcessScheduledTasks(c) \/ CheckAgentHeartbeats(c)
      PROVE  Kept'
  <2>1. Starts(c) /\ c \in Callers
    BY <1>0, <1>9, Begins DEF ProcessScheduledTasks, CheckAgentHeartbeats
  <2> QED
    BY <1>9, <2>1, ScheduleKept, LateKept
<1>10. ASSUME NEW a \in Agents, Die(a) \/ MissHeartbeats(a)
       PROVE  Kept'
  <2>1. UNCHANGED <<task, zset, list, dead, todo, call>>
    BY <1>10 DEF Die, MissHeartbeats, store
  <2>2. \A b \in Agents : agent'[b] = agent[b] \/ agent'[b] = [agent[b] EXCEPT !.fresh = FALSE]
    <3>1. CASE Die(a)
      BY <3>1 DEF Die, roster
    <3>2. CASE MissHeartbeats(a)
      BY <3>2 DEF MissHeartbeats, TypeOK
    <3> QED
      BY <1>10, <3>1, <3>2
  <2> QED
    BY <2>1, <2>2, MissesKept
<1>11. ASSUME NEW a \in Agents, Expire(a)
       PROVE  FALSE
  BY <1>11 DEF Expire, TypeOK
<1> QED
  BY <1>1, <1>2, <1>3, <1>4, <1>5, <1>6, <1>7, <1>8, <1>9, <1>10, <1>11 DEF Next

LEMMA InitKept ==
  ASSUME TypeOK, Init
  PROVE  Kept
<1>1. \A c \in Callers : todo[c] = <<>> /\ call[c].at = "none"
  BY DEF Init, NoCall
<1>2. \A names : Sent(names) = {}
  BY <1>1, AllNone DEF Sent
<1>3. ASSUME NEW t \in Tasks
      PROVE  /\ Rec(t).status = "none" /\ list[t] = 0 /\ \A k \in Keys : k \notin In(t)
  <2>1. Pending(t) = {}
    BY <1>1, AheadNone DEF Pending
  <2>2. task[t].status = "none" /\ list[t] = 0 /\ \A k \in Keys : t \notin zset[k]
    BY DEF Init, NoTask
  <2> QED
    BY <2>1, <2>2, Unissued
<1>4. ASSUME NEW t \in Tasks
      PROVE  Numbered(t) /\ Lives(t)
  BY <1>2, <1>3 DEF Numbered, Lives, Keys, Busy
<1>5. \A a : Team(a) = {}
  BY <1>3 DEF Team, With, Busy
<1>6. ASSUME NEW a \in Agents
      PROVE  Counted(a) /\ Fits(a)
  <2>1. agent[a].status = "none"
    BY DEF Init, NoAgent
  <2>2. Ever(a) = {}
    BY <1>5 DEF Ever, Assigned, Init, Keys
  <2>3. Cardinality(Ever(a)) = 0 /\ IsFiniteSet(Ever(a)) /\ Capacity[a] \in Nat
    BY <2>2, FS_EmptySet, TaskQueueAssumption DEF TaskQueueAssumption
  <2> QED
    BY <1>2, <1>5, <2>1, <2>3 DEF Counted, Right, Fits
<1>7. \A c \in Callers : Once(todo[c]) /\ Ready(c)
  BY <1>1 DEF Once, Ready
<1> QED
  BY <1>4, <1>6, <1>7 DEF Kept

BooksKept == Undisturbed /\ Serial => Kept

\* Between any two commands of calls that do not overlap, each of the books is
\* right or the one command still to come will make it so.
THEOREM QueueKeepsBooks == Spec => [](TypeOK /\ BooksKept)
<1>1. TypeOK /\ Init => BooksKept
  BY InitKept DEF BooksKept
<1>2. /\ TypeOK /\ TypeOK' /\ (Undisturbed => InOrder) /\ BooksKept /\ [Next]_vars
      => BooksKept'
  <2> SUFFICES ASSUME TypeOK, TypeOK', Undisturbed => InOrder, BooksKept, [Next]_vars,
                      Undisturbed', Serial'
               PROVE  Kept'
    BY DEF BooksKept
  <2>1. environment' = environment /\ faults' = 0 /\ faults = 0
    BY FaultsStay DEF Undisturbed
  <2>2. Serial /\ Careful(environment)
    BY <2>1 DEF Serial, Undisturbed
  <2> QED
    BY <2>1, <2>2, StepKept DEF BooksKept, Undisturbed
<1> QED
  BY <1>1, <1>2, QueueInOrder, TypeCorrect, PTL DEF Spec

LEMMA KeptAgrees ==
  ASSUME TypeOK, Undisturbed => InOrder, BooksKept, Undisturbed
  PROVE  BooksAgree
<1> SUFFICES ASSUME Serial
             PROVE  BooksAgree
  BY DEF BooksAgree, LoadAgrees, CapacityKept, PendingListed
<1>1. Kept /\ InOrder
  BY DEF BooksKept
<1>2. CapacityKept
  <2> SUFFICES ASSUME NEW a \in Agents
               PROVE  Cardinality(Assigned(a)) <= Capacity[a]
    BY DEF CapacityKept
  <2>1. Fits(a) /\ Assigned(a) \subseteq Ever(a)
    BY <1>1 DEF Kept, Ever
  <2>2. /\ Cardinality(Assigned(a)) <= Cardinality(Ever(a)) /\ IsFiniteSet(Assigned(a))
        /\ IsFiniteSet(Ever(a)) /\ Cardinality(Ever(a)) <= Capacity[a]
    BY <2>1, FS_Subset DEF Fits
  <2>3. Cardinality(Assigned(a)) \in Nat /\ Cardinality(Ever(a)) \in Nat /\ Capacity[a] \in Nat
    BY <2>2, FS_CardinalityType, TaskQueueAssumption DEF TaskQueueAssumption
  <2> QED
    BY <2>2, <2>3
<1>3. ASSUME Quiet
      PROVE  /\ \A names : Sent(names) = {}
             /\ \A a : ~Leaving(a)
             /\ \A t \in Tasks : /\ Pending(t) = {} /\ Rec(t) = task[t] /\ Died(t) = Len(dead[t])
                                 /\ \A k \in Keys : k \in In(t) <=> t \in zset[k]
  <2>1. \A c \in Callers : todo[c] = <<>> /\ call[c].at = "none"
    BY <1>3 DEF Quiet, Idle, NoCall
  <2>2. \A names : Sent(names) = {}
    BY <2>1, AllNone DEF Sent
  <2>3. \A t \in Tasks : Pending(t) = {}
    BY <2>1, AheadNone DEF Pending
  <2> QED
    BY <2>1, <2>2, <2>3, Unissued DEF Leaving
<1>4. PendingListed
  <2> SUFFICES ASSUME Quiet, NEW t \in Tasks
               PROVE  list[t] = IF t \in zset["priority"] THEN 1 ELSE 0
    BY DEF PendingListed
  <2>1. Numbered(t)
    BY <1>1 DEF Kept
  <2> QED
    BY <1>3, <2>1 DEF Numbered, Keys
<1>5. LoadAgrees
  <2> SUFFICES ASSUME Quiet, NEW a \in members, agent[a].status \in {"idle", "busy"}
               PROVE  agent[a].load = Cardinality(Assigned(a))
    BY DEF LoadAgrees
  <2>1. a \in Agents /\ Counted(a)
    BY <1>1 DEF TypeOK, Kept
  <2>2. agent[a].load = Cardinality(Team(a))
    BY <1>3, <2>1 DEF Counted, Right
  <2>3. Assigned(a) = Team(a)
    <3>1. ASSUME NEW t \in Tasks
          PROVE  t \in Assigned(a) <=> With(t, a)
      <4>1. Sound(t)
        BY <1>1 DEF InOrder, OfTask
      <4> QED
        BY <1>3, <4>1 DEF Sound, Assigned, With, Busy, Keys
    <3>2. Assigned(a) \subseteq Tasks
      BY DEF Assigned, TypeOK, Keys
    <3> QED
      BY <3>1, <3>2 DEF Team
  <2> QED
    BY <2>2, <2>3
<1> QED
  BY <1>2, <1>4, <1>5 DEF BooksAgree

\* Calls that do not overlap, and of which none fails, leave the books as they
\* should be: between them an agent's load is the number of its tasks and the
\* pending list is the priority sets; and no agent ever has more tasks than its
\* capacity, whoever dies, leaves, cancels or replays.
THEOREM BooksStayAgreed == Spec => [](Undisturbed => BooksAgree)
<1>1. TypeOK /\ (Undisturbed => InOrder) /\ BooksKept => (Undisturbed => BooksAgree)
  BY KeptAgrees
<1> QED
  BY <1>1, QueueInOrder, QueueKeepsBooks, PTL
=============================================================================
