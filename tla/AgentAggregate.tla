--------------------------- MODULE AgentAggregate ---------------------------
(***************************************************************************)
(* The event-sourced agent of src/src/loop/aggregate.ts: a command checks  *)
(* the state and emits an event, the event's handler changes the state,    *)
(* and a later process rebuilds the agent from the stored events, or from  *)
(* a snapshot and the events after it.  The repository that stores events  *)
(* is external (the source has only its interface): it saves and then      *)
(* marks committed, and takes snapshots of committed agents.               *)
(*                                                                         *)
(* createSnapshot copies the fields but not the metadata object, which     *)
(* holds the state to resume to.  A store that keeps the snapshot as it is *)
(* (InMemorySnapshotStore) therefore shares that object with the living    *)
(* agent; one that serializes it does not.                                 *)
(***************************************************************************)
EXTENDS Integers, Sequences

CONSTANTS
  Tasks,
  MaxEvents,  \* bound: events after those that make the agent ready
  Stores,     \* the kinds of snapshot store: TRUE where objects are shared
  None

BoundAssumption == MaxEvents \in Nat
StoresAssumption == Stores \subseteq BOOLEAN
NoneAssumption == None \notin Tasks

VARIABLES
  agent,     \* the aggregate
  stored,    \* the events of the store
  fresh,     \* uncommittedEvents
  snapshot,  \* the last snapshot, or None
  shared     \* the store in use shares objects; it never changes

vars == <<agent, stored, fresh, snapshot, shared>>

States == {"created", "initializing", "idle", "busy", "paused", "error", "stopping", "stopped"}
Types == {"initialized", "ready", "task_assigned", "task_started", "task_completed", "task_failed",
          "paused", "resumed", "stopping", "stopped", "error_recorded", "capabilities_updated"}

Agent == [state : States, task : Tasks \cup {None}, taskCount : Nat, failedCount : Nat,
          consecutiveErrors : Nat, pausedFrom : States \cup {None}, version : Nat]
Event == [type : Types, task : Tasks \cup {None}, previousState : States,
          consecutiveErrors : Nat, version : Nat]

New == [state |-> "created", task |-> None, taskCount |-> 0, failedCount |-> 0,
        consecutiveErrors |-> 0, pausedFrom |-> None, version |-> 0]

-----------------------------------------------------------------------------
(* Handlers and replay *)

ResumeState(a) == IF a.pausedFrom = None THEN "idle" ELSE a.pausedFrom

Handled(a, e) ==
  CASE e.type = "initialized" -> [a EXCEPT !.state = "initializing"]
    [] e.type = "ready" -> [a EXCEPT !.state = "idle", !.consecutiveErrors = 0]
    [] e.type = "task_assigned" -> [a EXCEPT !.state = "busy", !.task = e.task]
    [] e.type = "task_completed" ->
         [a EXCEPT !.state = "idle", !.task = None, !.taskCount = @ + 1, !.consecutiveErrors = 0]
    [] e.type = "task_failed" ->
         [a EXCEPT !.state = "error", !.task = None, !.taskCount = @ + 1,
                   !.failedCount = @ + 1, !.consecutiveErrors = @ + 1]
    [] e.type = "paused" -> [a EXCEPT !.state = "paused", !.pausedFrom = e.previousState]
    [] e.type = "resumed" ->
         [a EXCEPT !.state = ResumeState(a), !.pausedFrom = None]
    [] e.type = "stopping" -> [a EXCEPT !.state = "stopping"]
    [] e.type = "stopped" -> [a EXCEPT !.state = "stopped", !.task = None]
    [] e.type = "error_recorded" ->
         [a EXCEPT !.consecutiveErrors = e.consecutiveErrors,
                   !.state = IF e.consecutiveErrors >= 3 THEN "error" ELSE @]
    [] OTHER -> a

ApplyEvent(a, e) == [Handled(a, e) EXCEPT !.version = e.version]

\* loadFromHistory.
LoadFrom(start, log) ==
  LET After[n \in 0..Len(log)] == IF n = 0 THEN start ELSE ApplyEvent(After[n - 1], log[n])
  IN After[Len(log)]

\* The stored events of later versions (written out: the prover does not
\* expand SelectSeq).
GetEventsSince(version) ==
  LET Later[n \in 0..Len(stored)] ==
        IF n = 0 THEN <<>>
        ELSE IF stored[n].version > version THEN Append(Later[n - 1], stored[n]) ELSE Later[n - 1]
  IN Later[Len(stored)]

\* A shared metadata object changes in the snapshot when the agent changes it.
Mirrored(s, a) == IF shared /\ s # None /\ s.attached THEN [s EXCEPT !.agent.pausedFrom = a.pausedFrom] ELSE s

-----------------------------------------------------------------------------
(* Commands *)

Allowed(type) ==
  CASE type = "initialized" -> agent.state = "created"
    [] type = "ready" -> agent.state = "initializing"
    [] type = "task_assigned" -> agent.state = "idle"
    [] type \in {"task_started", "task_completed"} -> agent.state = "busy"
    [] type = "paused" -> agent.state \notin {"stopped", "stopping"}
    [] type = "resumed" -> agent.state = "paused"
    [] type = "stopping" -> agent.state # "stopped"
    [] type = "stopped" -> FALSE
    [] OTHER -> TRUE

NextVersion == agent.version + 1

\* emit: the event is recorded and its handler runs.
Emit(type, task) ==
  LET e == [type |-> type, task |-> task, previousState |-> agent.state,
            consecutiveErrors |-> agent.consecutiveErrors + 1, version |-> NextVersion]
  IN /\ agent' = ApplyEvent(agent, e)
     /\ fresh' = Append(fresh, e)
     /\ snapshot' = Mirrored(snapshot, agent')

Command(type) ==
  /\ Len(SelectSeq(stored \o fresh, LAMBDA e : e.type \notin {"initialized", "ready"})) < MaxEvents
  /\ Allowed(type)
  /\ \E task \in IF type = "task_assigned" THEN Tasks ELSE {None} : Emit(type, task)
  /\ UNCHANGED <<stored, shared>>

-----------------------------------------------------------------------------
(* The repository (external) *)

Init ==
  /\ agent = New
  /\ stored = <<>>
  /\ fresh = <<>>
  /\ snapshot = None
  /\ shared \in Stores

\* save, then markCommitted.
Save ==
  /\ fresh # <<>>
  /\ stored' = stored \o fresh
  /\ fresh' = <<>>
  /\ UNCHANGED <<agent, snapshot, shared>>

\* createSnapshot and saveSnapshot.
CreateSnapshot ==
  /\ fresh = <<>>
  /\ snapshot' = [agent |-> agent, attached |-> TRUE]
  /\ UNCHANGED <<agent, stored, fresh, shared>>

\* load without a snapshot: a new agent with metadata of its own.
Load ==
  /\ agent' = LoadFrom(New, stored)
  /\ fresh' = <<>>
  /\ snapshot' = IF snapshot = None THEN None ELSE [snapshot EXCEPT !.attached = FALSE]
  /\ UNCHANGED <<stored, shared>>

\* restoreFromSnapshot, and the events since.
RestoredWithoutMetadata(s) == [s.agent EXCEPT !.pausedFrom = None]   \* mutant: the metadata is left out
Restored(s) == s.agent

RestoreFromSnapshot ==
  /\ snapshot # None
  /\ agent' = LoadFrom(Restored(snapshot), GetEventsSince(snapshot.agent.version))
  /\ fresh' = <<>>
  /\ snapshot' = Mirrored([snapshot EXCEPT !.attached = TRUE], agent')
  /\ UNCHANGED <<stored, shared>>

Next ==
  \/ \E type \in Types : Command(type)
  \/ Save \/ CreateSnapshot \/ Load \/ RestoreFromSnapshot

Spec == Init /\ [][Next]_vars

-----------------------------------------------------------------------------
Snapshot == [agent : Agent, attached : BOOLEAN]

TypeOK ==
  /\ agent \in Agent
  /\ stored \in Seq(Event)
  /\ fresh \in Seq(Event)
  /\ snapshot \in Snapshot \cup {None}
  /\ shared \in BOOLEAN

Log == stored \o fresh

\* Versions number the events without a gap, across saves, loads, restores
\* and events that were dropped unsaved.
Versioned ==
  /\ agent.version = Len(Log)
  /\ \A i \in DOMAIN Log : Log[i].version = i

\* However the agent was rebuilt, it is the one its events describe; a
\* shared snapshot can change no more than the state and what to resume to.
Rebuilt ==
  LET a == LoadFrom(New, Log)
  IN agent = IF shared THEN [a EXCEPT !.state = agent.state, !.pausedFrom = agent.pausedFrom] ELSE a

\* A busy agent has a task, also after pauses, errors and rebuilding.
BusyHasTask == ~shared /\ agent.state = "busy" => agent.task # None
=============================================================================
