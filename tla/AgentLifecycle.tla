--------------------------- MODULE AgentLifecycle ---------------------------
(***************************************************************************)
(* AgentLifecycle of src/src/core/lifecycle.ts, for one agent: its states, *)
(* the runtime and the record that go with them, and the mutex that every  *)
(* operation takes.  The mutexes are in a map; the operation that ends the *)
(* agent deletes the entry, those that wait keep the mutex they have, and  *)
(* the next operation gets a new one.  A mutex cannot be taken twice, and  *)
(* its queue is first in first out.                                        *)
(***************************************************************************)
EXTENDS Integers, Sequences, SequencesExt

CONSTANTS
  MaxRetries,   \* maxRetries of the agent
  MaxCalls      \* bound: operations that are called

RetriesAssumption == MaxRetries \in Nat
CallsAssumption == MaxCalls \in Nat

VARIABLES
  active,       \* whether the lifecycle manager is started
  state,        \* lifecycleState
  stored,       \* the status in the agent storage
  runtime,      \* the agent's runtime
  runtimeId,    \* whether the state knows the runtime
  session,      \* whether OpenClaw has a session of the agent
  retryCount,
  mutex,        \* the agent's entry of the map: the number of a mutex, or 0
  queue,        \* each mutex made so far: who has it, and who waits for it
  op,           \* the operations, in the order they were called
  retried       \* (history) whether retryInternal or its variant ever ran

agentVars == <<state, stored, runtime, runtimeId, session, retryCount>>
vars == <<active, agentVars, mutex, queue, op, retried>>

Kinds == {"spawn", "start", "pause", "resume", "kill", "complete", "fail", "retry", "markFailed"}
Dead == {"killed", "completed", "failed"}
Calls == 1..Len(op)

Init ==
  /\ active = TRUE
  /\ state = "none" /\ stored = "none"
  /\ runtime = "none" /\ runtimeId = FALSE /\ session = FALSE
  /\ retryCount = 0
  /\ mutex = 0 /\ queue = <<>>
  /\ op = <<>>
  /\ retried = FALSE

-----------------------------------------------------------------------------
AnotherMutex(q, token) == queue' = Append(q, <<token>>) /\ mutex' = Len(q) + 1   \* mutant: each call makes its own mutex

\* getMutex and the wait for it, as the outer or the inner mutex of a call.
Enqueued(q, token) ==
  IF mutex = 0
  THEN queue' = Append(q, <<token>>) /\ mutex' = Len(q) + 1
  ELSE queue' = [q EXCEPT ![mutex] = Append(@, token)] /\ UNCHANGED mutex

At(c, place) == c \in Calls /\ op[c].at = place
Holds(c, depth) == \E g \in DOMAIN queue : queue[g] # <<>> /\ Head(queue[g]) = <<c, depth>>
Released(c) ==
  [g \in DOMAIN queue |->
     IF queue[g] # <<>> /\ Head(queue[g])[1] = c THEN Tail(queue[g]) ELSE queue[g]]

ReturnsHolding(c) == op' = [op EXCEPT ![c].at = "returned"] /\ UNCHANGED queue   \* mutant: the mutex is not released

\* The call returns, or throws, and leaves its mutex.
Returns(c) ==
  /\ op' = [op EXCEPT ![c].at = "returned"]
  /\ queue' = Released(c)

CleanupMutex == mutex' = 0

\* An operation on the agent is called.
Call(kind) ==
  /\ Len(op) < MaxCalls
  /\ kind # "spawn" /\ state # "none"
  /\ op' = Append(op, [kind |-> kind, at |-> "waiting"])
  /\ Enqueued(queue, <<Len(op) + 1, "outer">>)
  /\ UNCHANGED <<active, agentVars, retried>>

-----------------------------------------------------------------------------
\* spawn(): the state, the record and the mutex are made before the runtime.
Spawn ==
  /\ Len(op) < MaxCalls
  /\ active /\ state = "none"
  /\ state' = "spawning" /\ stored' = "pending"
  /\ mutex' = 1 /\ queue' = << <<>> >>
  /\ op' = Append(op, [kind |-> "spawn", at |-> "runtime"])
  /\ UNCHANGED <<active, runtime, runtimeId, session, retryCount, retried>>

\* provider.spawn answers; a failure falls back to no runtime.
RuntimeSpawned(c) ==
  /\ At(c, "runtime")
  /\ \E ok \in BOOLEAN :
       /\ runtime' = IF ok THEN "up" ELSE "none"
       /\ runtimeId' = ok
  /\ op' = [op EXCEPT ![c].at = "session"]
  /\ UNCHANGED <<active, state, stored, session, retryCount, mutex, queue, retried>>

\* openclaw.spawnSession answers, and startAgent is called, unless autoStart
\* is false.
SessionSpawned(c) ==
  /\ At(c, "session")
  /\ session' \in BOOLEAN
  /\ \/ op' = [op EXCEPT ![c].at = "waiting"] /\ Enqueued(queue, <<c, "outer">>)
     \/ op' = [op EXCEPT ![c].at = "returned"] /\ UNCHANGED <<mutex, queue>>
  /\ UNCHANGED <<active, state, stored, runtime, runtimeId, retryCount, retried>>

-----------------------------------------------------------------------------
\* The turn in which a call has the mutex.
Entered(c, kinds) == At(c, "waiting") /\ op[c].kind \in kinds /\ Holds(c, "outer")

StartableAgain == {"spawning", "idle", "retrying", "failed"}   \* mutant: a failed agent starts again
Startable == {"spawning", "idle", "retrying"}
Pausable == {"running", "retrying"}

\* startAgent; it throws in any other state.
Start(c) ==
  /\ Entered(c, {"spawn", "start"})
  /\ IF state \in Startable THEN state' = "running" /\ stored' = "running" ELSE UNCHANGED <<state, stored>>
  /\ Returns(c)
  /\ UNCHANGED <<active, runtime, runtimeId, session, retryCount, mutex, retried>>

\* pause: the session is killed while the mutex is held.
Pause(c) ==
  /\ Entered(c, {"pause"})
  /\ IF state \in Pausable
     THEN /\ state' = "paused" /\ stored' = "paused"
          /\ IF session THEN op' = [op EXCEPT ![c].at = "killSession"] /\ UNCHANGED queue ELSE Returns(c)
     ELSE UNCHANGED <<state, stored>> /\ Returns(c)
  /\ UNCHANGED <<active, runtime, runtimeId, session, retryCount, mutex, retried>>

Resume(c) ==
  /\ Entered(c, {"resume"})
  /\ IF state = "paused" THEN state' = "running" /\ stored' = "running" ELSE UNCHANGED <<state, stored>>
  /\ Returns(c)
  /\ UNCHANGED <<active, runtime, runtimeId, session, retryCount, mutex, retried>>

\* What ends the agent leaves the map without its mutex.
Ends(c, status) ==
  /\ state' = status /\ stored' = status
  /\ Returns(c) /\ CleanupMutex

AlreadyEnded(c) == Returns(c) /\ UNCHANGED <<state, stored, mutex>>

\* Where kill and complete do nothing.
Terminated == {"killed", "completed"}

\* kill, up to its first await.
Kill(c) ==
  /\ Entered(c, {"kill"})
  /\ IF state \in Terminated THEN AlreadyEnded(c)
     ELSE IF runtimeId \/ session
     THEN /\ state' = "killed" /\ stored' = "killed"
          /\ op' = [op EXCEPT ![c].at = IF runtimeId THEN "terminate" ELSE "killSession"]
          /\ UNCHANGED <<queue, mutex>>
     ELSE Ends(c, "killed")
  /\ UNCHANGED <<active, runtime, runtimeId, session, retryCount, retried>>

\* terminate() answers, or its failure is logged.
RuntimeTerminated(c) ==
  /\ At(c, "terminate")
  /\ runtime' \in {"down", runtime}
  /\ IF session
     THEN op' = [op EXCEPT ![c].at = "killSession"] /\ UNCHANGED <<mutex, queue>>
     ELSE Returns(c) /\ CleanupMutex
  /\ UNCHANGED <<active, state, stored, runtimeId, session, retryCount, retried>>

\* killSession() answers, or its failure is logged.
SessionKilled(c) ==
  /\ At(c, "killSession")
  /\ session' \in {FALSE, session}
  /\ Returns(c)
  /\ IF op[c].kind = "kill" THEN CleanupMutex ELSE UNCHANGED mutex
  /\ UNCHANGED <<active, state, stored, runtime, runtimeId, retryCount, retried>>

Complete(c) ==
  /\ Entered(c, {"complete"})
  /\ IF state \in Terminated THEN AlreadyEnded(c) ELSE Ends(c, "completed")
  /\ UNCHANGED <<active, runtime, runtimeId, session, retryCount, retried>>

MarkFailed(c) ==
  /\ Entered(c, {"markFailed"})
  /\ Ends(c, "failed")
  /\ UNCHANGED <<active, runtime, runtimeId, session, retryCount, retried>>

\* fail() with retries left, and retry(): retryInternal waits out its delay
\* with the mutex held.
Retry(c) ==
  /\ Entered(c, {"fail", "retry"})
  /\ op[c].kind = "fail" => retryCount < MaxRetries
  /\ state' = "retrying"
  /\ retryCount' = IF op[c].kind = "fail" THEN retryCount + 1 ELSE retryCount
  /\ op' = [op EXCEPT ![c].at = "delay"]
  /\ retried' = TRUE
  /\ UNCHANGED <<active, stored, runtime, runtimeId, session, mutex, queue>>

\* startAgent is called by the call that has the mutex.
StartsInside(c) ==
  /\ op' = [op EXCEPT ![c].at = "inside"]
  /\ Enqueued(queue, <<c, "inner">>)

\* fail() with no retry left: the agent fails, or escalates to another model.
Fail(c) ==
  /\ Entered(c, {"fail"})
  /\ retryCount >= MaxRetries
  /\ \/ Ends(c, "failed") /\ retryCount' = retryCount + 1 /\ UNCHANGED retried
     \/ StartsInside(c) /\ retryCount' = 0 /\ retried' = TRUE /\ UNCHANGED <<state, stored>>
  /\ UNCHANGED <<active, runtime, runtimeId, session>>

\* The delay is over.
DelayOver(c) ==
  /\ At(c, "delay")
  /\ IF active THEN StartsInside(c) ELSE Returns(c) /\ UNCHANGED mutex
  /\ UNCHANGED <<active, agentVars, retried>>

\* The inner startAgent has a mutex: not the one that its caller holds.
StartInside(c) ==
  /\ At(c, "inside") /\ Holds(c, "inner")
  /\ IF state \in Startable THEN state' = "running" /\ stored' = "running" ELSE UNCHANGED <<state, stored>>
  /\ Returns(c)
  /\ UNCHANGED <<active, runtime, runtimeId, session, retryCount, mutex, retried>>

\* stop() and start() of the manager.
Toggle ==
  /\ Len(op) < MaxCalls
  /\ op' = Append(op, [kind |-> "toggle", at |-> "returned"])
  /\ active' = ~active
  /\ UNCHANGED <<agentVars, mutex, queue, retried>>

-----------------------------------------------------------------------------
Turn(c) ==
  \/ RuntimeSpawned(c) \/ SessionSpawned(c)
  \/ Start(c) \/ Pause(c) \/ Resume(c) \/ Complete(c) \/ MarkFailed(c)
  \/ Kill(c) \/ RuntimeTerminated(c) \/ SessionKilled(c)
  \/ Retry(c) \/ Fail(c) \/ DelayOver(c) \/ StartInside(c)

Next ==
  \/ Spawn \/ Toggle
  \/ \E kind \in Kinds : Call(kind)
  \/ \E c \in 1..MaxCalls : Turn(c)

Spec == Init /\ [][Next]_vars

\* Runtimes and sessions answer, delays end and ready turns are taken.
Fairness == \A c \in 1..MaxCalls : WF_vars(Turn(c))
FairSpec == Spec /\ Fairness

-----------------------------------------------------------------------------
\* The state keeps its type, and a call is in a queue when it needs a mutex.
TypeOK ==
  /\ active \in BOOLEAN /\ retried \in BOOLEAN /\ session \in BOOLEAN /\ runtimeId \in BOOLEAN
  /\ state \in {"none", "spawning", "running", "paused", "retrying"} \cup Dead
  /\ stored \in {"none", "pending", "running", "paused"} \cup Dead
  /\ runtime \in {"none", "up", "down"}
  /\ retryCount \in Nat
  /\ mutex \in 0..Len(queue)
  /\ \A c \in Calls : op[c].at \in {"waiting", "killSession", "terminate", "delay", "inside"}
       => \E g \in DOMAIN queue : Contains(queue[g], <<c, "outer">>)

\* What the storage says of the agent is what the lifecycle says, but for an
\* agent that is being retried, which is never stored.
StoredAgrees ==
  \/ stored = state
  \/ state = "spawning" /\ stored = "pending"
  \/ state = "retrying"

\* An agent that ended does not come back, as long as nobody retries it: no
\* operation that was waiting, and none that is called later, moves it.
EndedStaysEnded == [][(state \in Dead /\ ~retried') => state' \in Dead]_vars

\* While the agent has not ended, one operation at a time changes it.
OneAtATime ==
  state \notin Dead /\ ~retried =>
    \A c, d \in Calls : Holds(c, "outer") /\ Holds(d, "outer") => c = d

\* Every operation returns, as long as nobody retries the agent.
OperationsReturn ==
  \A c \in 1..MaxCalls : c \in Calls ~> At(c, "returned") \/ retried

\* A retry comes to an end while the manager runs: the agent leaves
\* "retrying", as the comment in retryInternal on the lock that is released
\* would have it.
RetryEnds == state = "retrying" ~> state # "retrying" \/ ~active
=============================================================================
