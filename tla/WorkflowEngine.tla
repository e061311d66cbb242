--------------------------- MODULE WorkflowEngine ---------------------------
(***************************************************************************)
(* One execution of a workflow: src/src/workflow/engine.ts over the state  *)
(* machine of state-machine.ts and the layers of dag.ts.                   *)
(*                                                                         *)
(* execute() awaits one layer of steps after another; within a layer every *)
(* step is a promise racing its executor, a timeout and the abort signal.  *)
(* JavaScript runs one continuation at a time, so a step of this module is *)
(* what runs between two awaits: the loop of execute(), the continuation   *)
(* of one step once its race is settled, or a call of pause, resume or     *)
(* cancel from outside.  exec is where execute() stands and frame[s] where *)
(* executeStep() of s does.                                                *)
(***************************************************************************)
EXTENDS Integers, FiniteSets

CONSTANTS
  Steps,
  Graphs,            \* dependency graphs to execute: [Steps -> SUBSET Steps]
  Policies,          \* values of workflow.onFailure to execute with
  MaxAttempts        \* retry.maxAttempts of every step

ASSUME WorkflowEngineAssumption ==
  /\ IsFiniteSet(Steps) /\ Steps # {}
  /\ Graphs \subseteq [Steps -> SUBSET Steps]
  /\ Policies \subseteq {"stop", "continue", "retry_all"}
  /\ MaxAttempts \in Nat \ {0}

VARIABLES
  dependsOn, onFailure,    \* the workflow
  status,                  \* of the workflow
  step, attempts,          \* status and attempts of each step
  exec,                    \* "idle", "looping", "waiting" (for a layer) or "ended"
  layer,                   \* number of the next layer, or of the one awaited
  frame,                   \* of each step: "none", "racing", "won" or "lost" the
                           \* race, "delay" before a retry, "done" or "threw"
  aborted,                 \* abortController.signal.aborted
  working,                 \* steps whose executor is at work
  outcome                  \* how the promise of execute() was settled

workflow == <<dependsOn, onFailure>>
vars == <<workflow, status, step, attempts, exec, layer, frame, aborted, working, outcome>>

-----------------------------------------------------------------------------
(* dag.ts                                                                  *)

NumSteps == Cardinality(Steps)

\* topologicalSort: the steps of the first n layers.
Sorted[n \in Nat] ==
  IF n = 0 THEN {} ELSE {s \in Steps : dependsOn[s] \subseteq Sorted[n - 1]}
Layer(n) == Sorted[n] \ Sorted[n - 1]
HasCycle == Sorted[NumSteps] # Steps
LastLayer == CHOOSE n \in 0..NumSteps : Sorted[n] = Steps /\ \A m \in 0..n-1 : Sorted[m] # Steps

\* getAllDependencies: what lies in every set that holds the direct dependencies
\* and those of its members.
AllDependencies(s) ==
  {d \in Steps : \A C \in SUBSET Steps :
     (dependsOn[s] \subseteq C /\ \A c \in C : dependsOn[c] \subseteq C) => d \in C}

-----------------------------------------------------------------------------
(* state-machine.ts                                                        *)

WorkflowTransitions ==
  {<<"pending", "running">>, <<"pending", "cancelled">>,
   <<"running", "completed">>, <<"running", "failed">>, <<"running", "paused">>,
   <<"running", "cancelled">>, <<"paused", "running">>, <<"paused", "cancelled">>,
   <<"failed", "running">>, <<"cancelled", "pending">>}
StepTransitions ==
  {<<"pending", "running">>, <<"pending", "skipped">>,
   <<"running", "completed">>, <<"running", "failed">>, <<"running", "retrying">>,
   <<"running", "cancelled">>, <<"failed", "retrying">>,
   <<"retrying", "running">>, <<"retrying", "failed">>, <<"retrying", "skipped">>}

AnyTransition(to) == TRUE                    \* mutant: the table is not consulted
CanTransitionWorkflow(to) == <<status, to>> \in WorkflowTransitions
CanTransitionStep(s, to) == <<step[s], to>> \in StepTransitions

Failed == {s \in Steps : step[s] = "failed"}
Succeeded(s) == step[s] \in {"completed", "skipped"}

CanRetryStep(s) == attempts[s] < MaxAttempts /\ step[s] \in {"failed", "retrying"}

-----------------------------------------------------------------------------
(* execute()                                                               *)

Init ==
  /\ dependsOn \in Graphs /\ onFailure \in Policies
  /\ status = "pending"
  /\ step = [s \in Steps |-> "pending"] /\ attempts = [s \in Steps |-> 0]
  /\ exec = "idle" /\ layer = 1
  /\ frame = [s \in Steps |-> "none"]
  /\ aborted = FALSE /\ working = {} /\ outcome = "none"

Execute ==
  /\ exec = "idle"
  /\ IF HasCycle
     THEN exec' = "ended" /\ outcome' = "cycle" /\ UNCHANGED status
     ELSE exec' = "looping" /\ status' = "running" /\ UNCHANGED outcome
  /\ UNCHANGED <<workflow, step, attempts, layer, frame, aborted, working>>

\* mutant: an impossible transition is ignored.
SettleAnyway(to) ==
  /\ exec' = "ended" /\ outcome' = "returned"
  /\ IF CanTransitionWorkflow(to) THEN status' = to ELSE UNCHANGED status
\* The end of execute(): the workflow takes the status, or the transition throws
\* (after complete(), fail() is tried too: it is possible from no other status).
Settle(to) ==
  /\ exec' = "ended"
  /\ IF CanTransitionWorkflow(to)
     THEN status' = to /\ outcome' = "returned"
     ELSE UNCHANGED status /\ outcome' = "invalid transition"

LayerAnyhow == layer <= LastLayer            \* mutant: the abort signal is not looked at
LayerAhead == layer <= LastLayer /\ ~aborted

DependenciesInLayerOnly(s) == TRUE           \* mutant: the layers are relied on
DependenciesComplete(s) == \A d \in AllDependencies(s) : Succeeded(d)

\* executeLayer: steps whose dependencies are complete are skipped or started,
\* depending on their conditions; the others stay pending.  (Every step of a
\* layer still is: no step is in two layers.)
StartLayer ==
  /\ exec = "looping" /\ LayerAhead
  /\ LET ready == {s \in Layer(layer) : step[s] = "pending" /\ DependenciesComplete(s)} IN
     \E skipped \in SUBSET ready :
       LET started == ready \ skipped IN
       /\ step' = [s \in Steps |-> IF s \in skipped THEN "skipped"
                                   ELSE IF s \in started THEN "running" ELSE step[s]]
       /\ attempts' = [s \in Steps |-> attempts[s] + IF s \in started THEN 1 ELSE 0]
       /\ frame' = [s \in Steps |-> IF s \in started THEN "racing" ELSE frame[s]]
       /\ working' = working \cup started
  /\ exec' = "waiting"
  /\ UNCHANGED <<workflow, status, layer, aborted, outcome>>

\* Promise.all: every promise is fulfilled, or one is rejected.
LayerDone ==
  /\ exec = "waiting"
  /\ \A s \in Layer(layer) : frame[s] \in {"none", "done"}
  /\ exec' = "looping" /\ layer' = layer + 1
  /\ UNCHANGED <<workflow, status, step, attempts, frame, aborted, working, outcome>>

\* The catch clause: a step threw, or "Workflow cancelled" was thrown between layers.
Catch ==
  /\ \/ exec = "waiting" /\ \E s \in Layer(layer) : frame[s] = "threw"
     \/ exec = "looping" /\ layer <= LastLayer /\ aborted
  /\ Settle("failed")
  /\ UNCHANGED <<workflow, step, attempts, layer, frame, aborted, working>>

\* After the last layer.
Finish ==
  /\ exec = "looping" /\ layer > LastLayer
  /\ Settle(IF Failed # {} /\ onFailure # "continue" THEN "failed" ELSE "completed")
  /\ UNCHANGED <<workflow, step, attempts, layer, frame, aborted, working>>

-----------------------------------------------------------------------------
(* executeStep()                                                           *)

Race(s, result) == IF frame[s] = "racing" THEN [frame EXCEPT ![s] = result] ELSE frame

\* The executor's promise is settled, with output or with an error.
Work(s) ==
  /\ s \in working
  /\ working' = working \ {s}
  /\ \E result \in {"won", "lost"} : frame' = Race(s, result)
  /\ UNCHANGED <<workflow, status, step, attempts, exec, layer, aborted, outcome>>

TimeoutOfFinished(s) ==                      \* mutant: the timer waits for the executor
  /\ frame[s] = "racing" /\ s \notin working
  /\ frame' = Race(s, "lost")
  /\ UNCHANGED <<workflow, status, step, attempts, exec, layer, aborted, working, outcome>>
\* The executor goes on when the timer wins.
Timeout(s) ==
  /\ frame[s] = "racing"
  /\ frame' = Race(s, "lost")
  /\ UNCHANGED <<workflow, status, step, attempts, exec, layer, aborted, working, outcome>>

\* failStep, then the failure policy; an impossible transition throws as well.
Fail(s) ==
  IF CanTransitionStep(s, "failed")
  THEN /\ step' = [step EXCEPT ![s] = "failed"]
       /\ frame' = [frame EXCEPT ![s] = IF onFailure = "stop" THEN "threw" ELSE "done"]
  ELSE UNCHANGED step /\ frame' = [frame EXCEPT ![s] = "threw"]

\* The continuation of executeStep() after the race, or after the retry delay.
Continue(s) ==
  /\ frame[s] \in {"won", "lost", "delay"}
  /\ CASE frame[s] = "won" /\ CanTransitionStep(s, "completed") ->
            /\ step' = [step EXCEPT ![s] = "completed"]
            /\ frame' = [frame EXCEPT ![s] = "done"]
            /\ UNCHANGED <<attempts, working>>
       [] frame[s] = "delay" /\ ~aborted ->
            /\ step' = [step EXCEPT ![s] = "running"]
            /\ attempts' = [attempts EXCEPT ![s] = @ + 1]
            /\ frame' = [frame EXCEPT ![s] = "racing"]
            /\ working' = working \cup {s}
       [] frame[s] # "delay" /\ CanRetryStep(s) ->
            /\ step' = [step EXCEPT ![s] = "retrying"]
            /\ frame' = [frame EXCEPT ![s] = "delay"]
            /\ UNCHANGED <<attempts, working>>
       [] OTHER -> Fail(s) /\ UNCHANGED <<attempts, working>>
  /\ UNCHANGED <<workflow, status, exec, layer, aborted, outcome>>

-----------------------------------------------------------------------------
(* pause(), resume() and cancel(): false, or an exception, when impossible. *)

Active == exec \in {"looping", "waiting"}

Pause ==
  /\ Active /\ CanTransitionWorkflow("paused")
  /\ status' = "paused"
  /\ UNCHANGED <<workflow, step, attempts, exec, layer, frame, aborted, working, outcome>>

Resume ==
  /\ Active /\ CanTransitionWorkflow("running")
  /\ status' = "running"
  /\ UNCHANGED <<workflow, step, attempts, exec, layer, frame, aborted, working, outcome>>

\* The abort rejects every race that is not settled yet.
Cancel ==
  /\ Active /\ CanTransitionWorkflow("cancelled")
  /\ aborted' = TRUE
  /\ frame' = [s \in Steps |-> IF frame[s] = "racing" THEN "lost" ELSE frame[s]]
  /\ step' = [s \in Steps |-> IF step[s] = "running" THEN "cancelled" ELSE step[s]]
  /\ status' = "cancelled"
  /\ UNCHANGED <<workflow, attempts, exec, layer, working, outcome>>

Engine ==
  \/ StartLayer \/ LayerDone \/ Catch \/ Finish
  \/ \E s \in Steps : Continue(s)

Next ==
  \/ Execute \/ Engine
  \/ \E s \in Steps : Work(s) \/ Timeout(s)
  \/ Pause \/ Resume \/ Cancel

Spec == Init /\ [][Next]_vars

\* Continuations run and timers fire; nothing is assumed of the executors.
FairSpec == Spec /\ WF_vars(Engine) /\ \A s \in Steps : WF_vars(Continue(s)) /\ WF_vars(Timeout(s))

-----------------------------------------------------------------------------
(* Properties.                                                             *)

StepStatus == {"pending", "running", "completed", "failed", "skipped", "retrying", "cancelled"}
FinalStatus == {"completed", "failed", "cancelled"}

TypeOK ==
  /\ dependsOn \in Graphs /\ onFailure \in Policies
  /\ status \in {"pending", "running", "paused"} \cup FinalStatus
  /\ step \in [Steps -> StepStatus] /\ attempts \in [Steps -> 0..MaxAttempts]
  /\ exec \in {"idle", "looping", "waiting", "ended"} /\ layer \in 1..NumSteps + 1
  /\ frame \in [Steps -> {"none", "racing", "won", "lost", "delay", "done", "threw"}]
  /\ aborted \in BOOLEAN /\ working \subseteq Steps
  /\ outcome \in {"none", "returned", "cycle", "invalid transition"}

\* A step starts only after everything it depends on, however indirectly, has
\* completed or was skipped.
DependenciesFirst ==
  [][\A s \in Steps : step[s] # "running" /\ step'[s] = "running"
       => \A d \in AllDependencies(s) : Succeeded(d)]_vars

\* Whatever settles late, a workflow that has ended keeps its status, and so does
\* a step that completed, was skipped or was cancelled.
FinalStays ==
  [][/\ status \in FinalStatus => status' = status
     /\ \A s \in Steps : step[s] \in {"completed", "skipped", "cancelled"} => step'[s] = step[s]]_vars

\* A workflow completes only when none of its steps is at work, and none failed or
\* was left out unless the policy is to continue.
CompletedMeansDone ==
  status = "completed" =>
    \A s \in Steps : /\ step[s] # "running"
                     /\ onFailure # "continue" => Succeeded(s)

\* No step starts after cancel().
NothingStartsAfterCancel ==
  [][\A s \in Steps : aborted /\ step'[s] = "running" => step[s] = "running"]_vars

\* An execution that begins ends, even if executors never answer.
ExecutionEnds == (exec = "looping") ~> (exec = "ended")

\* An execution that returns ended its workflow; it throws exactly when the
\* workflow was paused or cancelled under way, or its graph has a cycle.
OutcomeAgrees ==
  exec = "ended" =>
    \/ outcome = "returned" /\ status \in {"completed", "failed"}
    \/ outcome = "invalid transition" /\ status \in {"paused", "cancelled"}
    \/ outcome = "cycle" /\ status = "pending"

\* How an execution ends tells what became of the workflow and of its steps.
EndsTruthfully == OutcomeAgrees /\ CompletedMeansDone
=============================================================================
