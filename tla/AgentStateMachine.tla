------------------------- MODULE AgentStateMachine -------------------------
(***************************************************************************)
(* The state machine of one agent and the registry around it, of           *)
(* src/src/loop/state-machine.ts: PersistentStateMachine.transition, whose *)
(* guards, actions and persistence are awaited, the operations of          *)
(* StatefulAgentRegistry that call it, and the in-memory storage.          *)
(*                                                                         *)
(* JavaScript runs the continuations that are ready in the order in which  *)
(* they became so, and a timer only when none is.  `ready` is that queue:  *)
(* a step of the model runs its head up to the next await, which puts it   *)
(* at the end.  All timers here last 100 ms, so they too fire in the order *)
(* in which they were set (`timers`).                                      *)
(***************************************************************************)
EXTENDS Integers, Sequences, SequencesExt

CONSTANTS
  Callers,         \* users of the registry
  Null,            \* no task, nothing saved
  TaskKinds,
  Checkpointable, CanSaveProgress,   \* the tasks with these flags
  Environments     \* how the registry is used, see Environment

Environment == [
  serial : BOOLEAN,   \* a call starts only when no other is running
  settled : BOOLEAN,  \* an agent is registered only when nothing is ready to run
  machines : Nat,     \* bound on registrations
  errors : Nat]       \* bound on the errors of one machine

ASSUME EnvironmentsAssumption == Environments \subseteq Environment

VARIABLES
  registered,   \* the machine in the map stateMachines, 0 if none
  entry,        \* the agent's record in AgentRegistry
  created,      \* how many machines there have been
  machine,      \* currentState and context of each
  saved,        \* the agent's entry in the storage
  frame,        \* where each caller's operation stands
  ready,        \* continuations that are ready, in order
  timers,       \* pending timers, in order
  turn,         \* callers whose call began since `ready` was last empty
  environment   \* one of Environments, chosen at the start

books == <<registered, entry, created>>
queues == <<ready, timers, turn>>
vars == <<books, machine, saved, frame, queues, environment>>

-----------------------------------------------------------------------------
States == {"created", "initializing", "idle", "busy", "paused", "error", "stopping", "stopped"}
Terminal == {"stopped"}
Transitions ==
  {<<"created", "initializing">>, <<"initializing", "idle">>, <<"initializing", "error">>,
   <<"idle", "busy">>, <<"busy", "idle">>, <<"busy", "error">>,
   <<"idle", "paused">>, <<"busy", "paused">>, <<"paused", "idle">>, <<"paused", "busy">>,
   <<"idle", "stopping">>, <<"paused", "stopping">>, <<"busy", "stopping">>,
   <<"stopping", "stopped">>, <<"error", "stopping">>, <<"error", "initializing">>}

Machines == 1..created
NoEntry == [status |-> "offline", load |-> 0]
Machine == [state : States, task : TaskKinds \cup {Null}, errors : Nat]
Saved == [state : States, errors : Nat]

\* setupStateListeners: the registry's status for a state.
StatusOf(state) ==
  CASE state \in {"idle", "initializing"} -> "idle"
    [] state = "busy" -> "busy"
    [] state = "error" -> "unhealthy"
    [] OTHER -> "offline"

\* What a call has to do after its transition: "end" sets the load to 0, "move"
\* does nothing, "slowStop" waits between the two transitions of a stop.
Operations ==
  {"register", "assign", "end", "move", "stop", "slowStop"}

\* at: "guard", "action" inside a transition to `to`, "persist" in the override of
\* transition, "back" in the operation, then "sleep" and "delete" in stopAgent.
\* ok: whether the guard allowed the transition.
NoFrame == [at |-> "none"]
Frame ==
       [at : {"none"}]
  \cup [at : {"guard", "action", "persist", "back", "sleep", "delete", "deleted"},
        op : Operations, m : Nat, to : States, ok : BOOLEAN]

\* Who can be ready: a caller, or loadState of a machine with what it read.
Loader == [load : Nat, read : Saved \cup {Null}]
Timer == [wakes : {FALSE}, who : Nat] \cup [wakes : {TRUE}, who : Callers]
Pending(m) == [wakes |-> FALSE, who |-> m]
Sleeper(c) == [wakes |-> TRUE, who |-> c]

\* Callers and what is saved are told from these.
ASSUME NamesAssumption == Null \notin Saved /\ \A c \in Callers : c \notin Loader

TypeOK ==
  /\ registered \in 0..created
  /\ entry \in [status : {"idle", "busy", "unhealthy", "offline"}, load : 0..1]
  /\ machine \in [Machines -> Machine]
  /\ saved \in Saved \cup {Null}
  /\ frame \in [Callers -> Frame]
  /\ ready \in Seq(Callers \cup Loader) /\ timers \in Seq(Timer)
  /\ turn \subseteq Callers
  /\ environment \in Environments

-----------------------------------------------------------------------------
(* Transitions.                                                            *)

\* canTransition, and the checks at the head of transition().
AnyFromLiveState(m, to) ==                   \* mutant: no look at the table
  machine[m].state \notin Terminal
CanTransition(m, to) ==
  /\ machine[m].state \notin Terminal
  /\ <<machine[m].state, to>> \in Transitions

Guarded == {<<"idle", "busy">>, <<"busy", "paused">>, <<"paused", "busy">>,
            <<"busy", "stopping">>, <<"error", "initializing">>}
\* canAcceptWork (context.load stays 0), canPause, canGracefullyStop, canRecover;
\* nobody sets the pending tasks that hasPendingWork asks for.
Guard(m, to) ==
  LET from == machine[m].state IN
  \/ from = "idle" /\ machine[m].errors = 0
  \/ from = "busy" /\ to = "paused" /\ machine[m].task \in Checkpointable
  \/ from = "busy" /\ to = "stopping" /\ machine[m].task \in CanSaveProgress
  \/ from = "error" /\ machine[m].errors < 3

\* The state changes and its listener tells the registry, by the agent's id.
Enter(m, to, machines) ==
  /\ machine' = [machines EXCEPT ![m].state = to]
  /\ entry' = IF registered = 0 THEN entry ELSE [entry EXCEPT !.status = StatusOf(to)]

Call(op, m, at, to, ok) == [op |-> op, m |-> m, at |-> at, to |-> to, ok |-> ok]
Goto(c, f) == frame' = [frame EXCEPT ![c] = f]

\* One await: c is ready again, behind the others.
Tick(c, f, others) == Goto(c, f) /\ ready' = Append(others, c)
End(c, others) == Goto(c, NoFrame) /\ ready' = others

\* transition(to) up to its first await, on contexts that may just have changed.
\* Without a guard or an action the state changes at once.
Begin(c, op, m, to, machines, others) ==
  LET step == <<machine[m].state, to>> IN
  \/ /\ CanTransition(m, to) /\ step \in Guarded
     /\ Tick(c, Call(op, m, "guard", to, Guard(m, to)), others)
     /\ machine' = machines /\ UNCHANGED entry
  \/ /\ CanTransition(m, to) /\ step = <<"busy", "idle">>
     /\ Tick(c, Call(op, m, "action", to, TRUE), others)
     /\ machine' = machines /\ UNCHANGED entry
  \/ /\ CanTransition(m, to) /\ step \notin Guarded \cup {<<"busy", "idle">>}
     /\ Tick(c, Call(op, m, "persist", to, TRUE), others)
     /\ Enter(m, to, machines)
  \/ /\ ~CanTransition(m, to)                \* throws InvalidTransitionError
     /\ End(c, others)
     /\ machine' = machines /\ UNCHANGED entry

-----------------------------------------------------------------------------
(* Operations of the registry, up to their first await.                    *)

Init ==
  /\ registered = 0 /\ created = 0
  /\ entry = NoEntry
  /\ machine = <<>> /\ saved = Null
  /\ frame = [c \in Callers |-> NoFrame]
  /\ ready = <<>> /\ timers = <<>> /\ turn = {}
  /\ environment \in Environments

\* A caller calls once in the turn of others, or when nothing is ready.
MayCall(c) ==
  /\ frame[c] = NoFrame /\ c \notin turn
  /\ environment.serial => ready = <<>> /\ \A d \in Callers : frame[d] = NoFrame
Turn(callers) == turn' = IF ready' = <<>> THEN {} ELSE turn \cup callers

\* The new machine starts to load what is saved and, `created` until that is
\* there, is initialised at once.
Register(c) ==
  /\ MayCall(c) /\ registered = 0 /\ created < environment.machines
  /\ environment.settled => ready = <<>>
  /\ created' = created + 1 /\ registered' = created + 1
  /\ machine' = Append(machine, [state |-> "initializing", task |-> Null, errors |-> 0])
  /\ entry' = [status |-> "idle", load |-> 0]
  /\ Tick(c, Call("register", created + 1, "persist", "initializing", TRUE),
          Append(ready, [load |-> created + 1, read |-> saved]))
  /\ Turn({c})
  /\ UNCHANGED <<saved, timers, environment>>

\* An operation on the registered machine whose context becomes ctx.
Operate(c, op, to, ctx) ==
  /\ MayCall(c)
  /\ Begin(c, op, registered, to, [machine EXCEPT ![registered] = ctx], ready)
  /\ Turn({c})
  /\ UNCHANGED <<registered, created, saved, timers, environment>>

Agent == machine[registered]

AssignWork(c, task) ==
  /\ registered # 0 /\ Agent.state # "busy"
  /\ Operate(c, "assign", "busy", [Agent EXCEPT !.task = task])

CompleteWork(c) ==
  /\ registered # 0 /\ Agent.task # Null
  /\ Operate(c, "end", "idle", [Agent EXCEPT !.task = Null])

FailWork(c) ==
  /\ registered # 0 /\ Agent.task # Null /\ Agent.errors < environment.errors
  /\ Operate(c, "end", "error", [Agent EXCEPT !.errors = @ + 1])

PauseAgent(c) == registered # 0 /\ Operate(c, "move", "paused", Agent)
ResumeAgent(c) == registered # 0 /\ Agent.state = "paused" /\ Operate(c, "move", "idle", Agent)
RecoverAgent(c) == registered # 0 /\ Agent.state = "error" /\ Operate(c, "move", "initializing", Agent)

\* getStateMachine(id).transition('idle'): the registry itself never takes a
\* recovered agent from initializing to idle.
MakeReady(c) == registered # 0 /\ Agent.state = "initializing" /\ Operate(c, "move", "idle", Agent)

\* stopAgent deletes the saved state in the end, whatever became of the transitions.
CleanUp(c, m, others) ==
  /\ saved' = Null
  /\ Tick(c, Call("stop", m, "delete", "stopped", TRUE), others)

\* slowStop: the graceful stop of a busy agent.
StopAgent(c) ==
  /\ registered # 0
  /\ \E force \in BOOLEAN :
       LET op == IF ~force /\ Agent.state = "busy" THEN "slowStop" ELSE "stop"
       IN
       \/ \E to \in {"stopping", "stopped"} :
            /\ CanTransition(registered, to)
            /\ Operate(c, op, to, Agent)
       \/ /\ ~CanTransition(registered, "stopping") /\ ~CanTransition(registered, "stopped")
          /\ MayCall(c)
          /\ CleanUp(c, registered, ready) /\ Turn({c})
          /\ UNCHANGED <<books, machine, timers, environment>>

\* The deletion is not awaited, and a pending save is not cancelled.
Unregister(c) ==
  /\ MayCall(c) /\ registered # 0
  /\ registered' = 0 /\ entry' = NoEntry /\ saved' = Null
  /\ UNCHANGED <<created, machine, frame, ready, timers, environment>>
  /\ Turn({c})

-----------------------------------------------------------------------------
(* Continuations: the head of `ready` runs to its next await.              *)

rest == Tail(ready)
Runs(c, label) == ready # <<>> /\ Head(ready) = c /\ frame[c].at = label

\* loadState: what was read replaces the state, unless it is terminal.
Restore ==
  /\ ready # <<>> /\ Head(ready) \in Loader
  /\ LET m == Head(ready).load
         r == Head(ready).read
     IN machine' = IF r = Null \/ (r # Null /\ r.state \in Terminal) THEN machine
                   ELSE [machine EXCEPT ![m].state = r.state, ![m].errors = r.errors]
  /\ ready' = rest /\ Turn({})
  /\ UNCHANGED <<books, saved, frame, timers, environment>>

\* The rest of transition() in the base class.
DeniedForgotten(c) ==                        \* mutant: a denied transition is never answered
  /\ Runs(c, "guard") \/ Runs(c, "action")
  /\ LET f == frame[c] IN
     IF f.ok THEN Tick(c, [f EXCEPT !.at = "persist"], rest) /\ Enter(f.m, f.to, machine)
     ELSE ready' = rest /\ UNCHANGED <<frame, machine, entry>>
  /\ Turn({})
  /\ UNCHANGED <<registered, created, saved, timers, environment>>
Conclude(c) ==
  /\ Runs(c, "guard") \/ Runs(c, "action")
  /\ LET f == frame[c] IN
     /\ Tick(c, [f EXCEPT !.at = "persist"], rest)
     /\ IF f.ok THEN Enter(f.m, f.to, machine) ELSE UNCHANGED <<machine, entry>>
  /\ Turn({})
  /\ UNCHANGED <<registered, created, saved, timers, environment>>

\* clearTimeout; a machine has one pending save at most.
Cleared(t) ==
  IF \E i \in DOMAIN timers : timers[i] = t
  THEN RemoveAt(timers, CHOOSE i \in DOMAIN timers : timers[i] = t)
  ELSE timers

\* persistState: the machine's pending save starts over.
PersistState(c) ==
  /\ Runs(c, "persist")
  /\ LET f == frame[c] IN
     /\ timers' = IF f.ok THEN Append(Cleared(Pending(f.m)), Pending(f.m)) ELSE timers
     /\ Tick(c, [f EXCEPT !.at = "back"], rest) /\ Turn({})
  /\ UNCHANGED <<books, machine, saved, environment>>

\* What the operations do after their transition.
NextTransition(c) ==
  /\ Runs(c, "back") /\ frame[c].op = "register" /\ frame[c].to = "initializing"
  /\ Begin(c, "register", frame[c].m, "idle", machine, rest) /\ Turn({})
  /\ UNCHANGED <<registered, created, saved, timers, environment>>

Report(c) ==
  /\ Runs(c, "back") /\ frame[c].op \notin {"stop", "slowStop"}
  /\ frame[c].op = "register" => frame[c].to = "idle"
  /\ LET f == frame[c] IN
     entry' = CASE registered = 0 -> entry
                [] f.op = "assign" /\ f.ok -> [entry EXCEPT !.load = 1]
                [] f.op = "end" -> [entry EXCEPT !.load = 0]
                [] OTHER -> entry
  /\ End(c, rest) /\ Turn({})
  /\ UNCHANGED <<registered, created, machine, saved, timers, environment>>

\* stopAgent between its transitions, and its wait of 100 ms.
StopFurther(c) ==
  /\ \/ Runs(c, "back") /\ frame[c].op = "stop" /\ frame[c].to = "stopping"
     \/ Runs(c, "sleep")
  /\ frame[c].at = "back" => CanTransition(frame[c].m, "stopped")
  /\ Begin(c, frame[c].op, frame[c].m, "stopped", machine, rest) /\ Turn({})
  /\ UNCHANGED <<registered, created, saved, timers, environment>>

Sleep(c) ==
  /\ Runs(c, "back") /\ frame[c].op = "slowStop" /\ frame[c].to = "stopping"
  /\ frame[c].ok /\ CanTransition(frame[c].m, "stopped")
  /\ Goto(c, [frame[c] EXCEPT !.at = "sleep"])
  /\ timers' = Append(timers, Sleeper(c)) /\ ready' = rest /\ Turn({})
  /\ UNCHANGED <<books, machine, saved, environment>>

StopAnyway(c) ==
  /\ Runs(c, "back") /\ frame[c].op \in {"stop", "slowStop"}
  /\ \/ frame[c].to = "stopped"
     \/ ~CanTransition(frame[c].m, "stopped")
     \/ frame[c].op = "slowStop" /\ ~frame[c].ok
  /\ CleanUp(c, frame[c].m, rest) /\ Turn({})
  /\ UNCHANGED <<books, machine, timers, environment>>

\* deletePersistedState returns, then the maps forget the id.
Deleted(c) ==
  /\ Runs(c, "delete")
  /\ Tick(c, [frame[c] EXCEPT !.at = "deleted"], rest) /\ Turn({})
  /\ UNCHANGED <<books, machine, saved, timers, environment>>
ForgetNothing(c) ==                          \* mutant: the maps keep the machine
  /\ Runs(c, "deleted")
  /\ End(c, rest) /\ Turn({})
  /\ UNCHANGED <<books, machine, saved, timers, environment>>
Forget(c) ==
  /\ Runs(c, "deleted")
  /\ registered' = 0 /\ entry' = NoEntry
  /\ End(c, rest) /\ Turn({})
  /\ UNCHANGED <<created, machine, saved, timers, environment>>

\* The next timer, when nothing is ready: a save or the end of a sleep.
Fire ==
  /\ ready = <<>> /\ timers # <<>>
  /\ timers' = Tail(timers)
  /\ LET t == Head(timers) IN
     \/ /\ ~t.wakes
        /\ saved' = [state |-> machine[t.who].state, errors |-> machine[t.who].errors]
        /\ UNCHANGED ready
     \/ /\ t.wakes
        /\ ready' = <<t.who>> /\ UNCHANGED saved
  /\ Turn({})
  /\ UNCHANGED <<books, machine, frame, environment>>

-----------------------------------------------------------------------------
Microtask ==
  \/ Restore
  \/ \E c \in Callers :
       \/ Conclude(c) \/ PersistState(c) \/ NextTransition(c) \/ Report(c)
       \/ StopFurther(c) \/ Sleep(c) \/ StopAnyway(c) \/ Deleted(c) \/ Forget(c)

Next ==
  \/ Microtask \/ Fire
  \/ \E c \in Callers :
       \/ Register(c) \/ (\E t \in TaskKinds : AssignWork(c, t)) \/ CompleteWork(c) \/ FailWork(c)
       \/ PauseAgent(c) \/ ResumeAgent(c) \/ RecoverAgent(c) \/ MakeReady(c)
       \/ StopAgent(c) \/ Unregister(c)

Spec == Init /\ [][Next]_vars

\* The event loop runs what is ready, and serves its timers between turns.
FairSpec == Spec /\ WF_vars(Microtask) /\ SF_vars(Fire)

-----------------------------------------------------------------------------
(* Properties.                                                             *)

\* What a comment of the code says of stopped ("Terminal states that cannot
\* transition to other states"): a stopped machine stays stopped.  It does not,
\* since a transition that waited for its guard does not look at the state again.
StoppedIsFinal ==
  [][\A m \in Machines : machine[m].state = "stopped" => machine'[m].state = "stopped"]_vars

\* Calls that do not overlap change the state only along the table of allowed
\* transitions, or to what was saved.
LegalSerially ==
  [][\A m \in Machines :
       LET from == machine[m].state
           to == machine'[m].state
       IN environment.serial /\ from # to
          => <<from, to>> \in Transitions \/ (ready # <<>> /\ Head(ready) \in Loader)]_vars

\* No stopped machine stays registered: a call of stopAgent is about to forget it.
StoppedIsForgotten ==
  registered # 0 /\ Agent.state = "stopped"
    => \E c \in Callers : frame[c] # NoFrame /\ frame[c].op \in {"stop", "slowStop"}

\* Once nothing is pending, the storage has the state of the registered machine,
\* although machines replaced earlier save to and delete the same entry, where no
\* call but the wait of a stop was running when they were replaced.
PersistedAgrees ==
  environment.settled /\ registered # 0 /\ ready = <<>> /\ timers = <<>>
    => saved # Null /\ saved.state = machine[registered].state

\* The registry, its stored entry and its machines agree.
RegistryAgrees == TypeOK /\ StoppedIsForgotten /\ PersistedAgrees

\* Every call of the registry ends.
CallsEnd == \A c \in Callers : frame[c] # NoFrame ~> frame[c] = NoFrame
=============================================================================
