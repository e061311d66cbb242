------------------------ MODULE WorkflowEngineProofs ------------------------
(***************************************************************************)
(* For every graph, policy and number of steps: what has ended stays as it *)
(* is, nothing starts before its dependencies or after cancel(), and what  *)
(* execute() answers agrees with the status of its workflow.               *)
(***************************************************************************)
EXTENDS WorkflowEngine, InductionLemmas, TLAPS

USE WorkflowEngineAssumption

\* Types, where the properties need them.
Typed ==
  /\ step \in [Steps -> StepStatus] /\ attempts \in [Steps -> Nat]
  /\ frame \in [Steps -> {"none", "racing", "won", "lost", "delay", "done", "threw"}]
  /\ exec \in {"idle", "looping", "waiting", "ended"}
  /\ aborted \in BOOLEAN

\* While execute() runs, its workflow runs, is paused or was cancelled, so that
\* neither resume() nor the final transition can leave a final status.
Live ==
  /\ exec = "idle" => status = "pending"
  /\ Active => status \in {"running", "paused", "cancelled"}

\* A step waits for its retry only while it is to be retried.
Delayed == \A s \in Steps : frame[s] = "delay" => step[s] = "retrying"

\* A step that has been started had its dependencies done, and they stay so.
Supported ==
  \A s \in Steps : frame[s] # "none" => \A d \in AllDependencies(s) : Succeeded(d)

Inv == Typed /\ Live /\ Delayed /\ Supported

\* What a step of the execution may do to a step of the workflow.
StepsStay ==
  \A s \in Steps : step[s] \in {"completed", "skipped", "cancelled"} => step'[s] = step[s]

LEMMA Initially == Init => Inv
<1> SUFFICES ASSUME Init PROVE Inv
  OBVIOUS
<1>1. Typed
  BY DEF Init, Typed, StepStatus
<1>2. Live
  BY DEF Init, Live, Active
<1>3. \A s \in Steps : frame[s] = "none"
  BY DEF Init
<1>4. Delayed /\ Supported
  BY <1>3 DEF Delayed, Supported
<1> QED
  BY <1>1, <1>2, <1>4 DEF Inv

\* The dependencies of a step depend on the graph alone, and are steps.
LEMMA SameDependencies ==
  ASSUME UNCHANGED workflow, NEW s \in Steps
  PROVE  /\ AllDependencies(s)' = AllDependencies(s)
         /\ AllDependencies(s) \subseteq Steps
<1>1. dependsOn' = dependsOn
  BY DEF workflow
<1>2. AllDependencies(s)' = AllDependencies(s)
  BY <1>1, Zenon DEF AllDependencies
<1>3. AllDependencies(s) \subseteq Steps
  BY DEF AllDependencies
<1> QED
  BY <1>2, <1>3

\* Support survives every step that leaves the finished steps alone and starts
\* only supported ones.
LEMMA SupportStays ==
  ASSUME Inv, UNCHANGED workflow, StepsStay,
         \A s \in Steps : frame'[s] # "none" =>
           frame[s] # "none" \/ \A d \in AllDependencies(s) : Succeeded(d)
  PROVE  Supported'
<1> SUFFICES ASSUME NEW s \in Steps, frame'[s] # "none", NEW d \in AllDependencies(s)'
             PROVE  Succeeded(d)'
  BY DEF Supported
<1>1. d \in AllDependencies(s) /\ d \in Steps
  BY SameDependencies
<1>2. Succeeded(d)
  BY <1>1 DEF Inv, Supported
<1> QED
  BY <1>1, <1>2 DEF Succeeded, StepsStay

LEMMA StartLayerKeeps ==
  ASSUME Inv, StartLayer
  PROVE  Inv' /\ StepsStay
<1> DEFINE ready == {s \in Layer(layer) : step[s] = "pending" /\ DependenciesComplete(s)}
<1>1. PICK skipped \in SUBSET ready :
        /\ step' = [s \in Steps |-> IF s \in skipped THEN "skipped"
                                    ELSE IF s \in ready \ skipped THEN "running" ELSE step[s]]
        /\ attempts' = [s \in Steps |-> attempts[s] + IF s \in ready \ skipped THEN 1 ELSE 0]
        /\ frame' = [s \in Steps |-> IF s \in ready \ skipped THEN "racing" ELSE frame[s]]
  BY DEF StartLayer
<1>2. exec' = "waiting" /\ exec = "looping" /\ UNCHANGED <<dependsOn, onFailure, status, aborted>>
  BY DEF StartLayer, workflow
<1>3. \A s \in ready : step[s] = "pending" /\ DependenciesComplete(s)
  OBVIOUS
<1> HIDE DEF ready
<1>4. StepsStay
  BY <1>1, <1>3 DEF StepsStay
<1>5. Typed'
  BY <1>1, <1>2 DEF Inv, Typed, StepStatus
<1>6. Live'
  BY <1>2 DEF Inv, Live, Active
<1>7. Delayed'
  <2> SUFFICES ASSUME NEW s \in Steps, frame'[s] = "delay"
               PROVE  step'[s] = "retrying"
    BY DEF Delayed
  <2>1. s \notin ready \ skipped /\ frame[s] = "delay"
    BY <1>1
  <2>2. step[s] = "retrying"
    BY <2>1 DEF Inv, Delayed
  <2>3. s \notin skipped
    BY <2>2, <1>1, <1>3
  <2> QED
    BY <1>1, <2>1, <2>2, <2>3
<1>8. Supported'
  <2>1. \A s \in Steps : frame'[s] # "none" =>
          frame[s] # "none" \/ \A d \in AllDependencies(s) : Succeeded(d)
    BY <1>1, <1>3 DEF DependenciesComplete
  <2> QED
    BY <1>2, <1>4, <2>1, SupportStays DEF workflow
<1> QED
  BY <1>4, <1>5, <1>6, <1>7, <1>8 DEF Inv

\* The loop of execute() and the calls from outside leave the frames alone.
LEMMA LoopKeeps ==
  ASSUME Inv, Execute \/ LayerDone \/ Catch \/ Finish \/ Pause \/ Resume
  PROVE  Inv' /\ StepsStay
<1>1. UNCHANGED <<dependsOn, onFailure, step, attempts, frame, aborted>>
  BY DEF Execute, LayerDone, Catch, Finish, Pause, Resume, workflow
<1>2. StepsStay /\ Delayed'
  BY <1>1 DEF StepsStay, Inv, Delayed
<1>3. Supported'
  BY <1>1, <1>2, SupportStays DEF workflow
<1>4. Live' /\ exec' \in {"idle", "looping", "waiting", "ended"}
  BY DEF Execute, LayerDone, Catch, Finish, Pause, Resume, Settle, Inv, Live, Active, Typed,
     CanTransitionWorkflow, WorkflowTransitions
<1> QED
  BY <1>1, <1>2, <1>3, <1>4 DEF Inv, Typed

LEMMA WorkKeeps ==
  ASSUME Inv, NEW s \in Steps, Work(s) \/ Timeout(s)
  PROVE  Inv' /\ StepsStay
<1>1. /\ UNCHANGED <<dependsOn, onFailure, status, step, attempts, exec, aborted>>
      /\ \E r \in {"won", "lost"} : frame' = Race(s, r)
  BY DEF Work, Timeout, workflow
<1>2. /\ frame' \in [Steps -> {"none", "racing", "won", "lost", "delay", "done", "threw"}]
      /\ \A x \in Steps : (frame'[x] = "none") = (frame[x] = "none")
                          /\ (frame'[x] = "delay") = (frame[x] = "delay")
  BY <1>1 DEF Race, Inv, Typed
<1>3. StepsStay
  BY <1>1 DEF StepsStay
<1>4. Supported'
  BY <1>1, <1>2, <1>3, SupportStays DEF workflow
<1> QED
  BY <1>1, <1>2, <1>3, <1>4 DEF Inv, Typed, Live, Active, Delayed

\* What the continuation of executeStep() may do to its step and its frame.
LEMMA ContinueDoes ==
  ASSUME Inv, NEW s \in Steps, Continue(s)
  PROVE  \E st \in StepStatus, f \in {"racing", "delay", "done", "threw"} :
           /\ step' = [step EXCEPT ![s] = st] /\ frame' = [frame EXCEPT ![s] = f]
           /\ step[s] \in {"completed", "skipped", "cancelled"} => st = step[s]
           /\ st = "running" => f = "racing"
           /\ st = "failed" => f = "done" \/ f = "threw"
           /\ f = "done" => st = "completed" \/ st = "failed"
           /\ f = "delay" => st = "retrying"
           /\ attempts' \in [Steps -> Nat]
<1>1. CASE frame[s] = "won" /\ CanTransitionStep(s, "completed")
  <2>1. step[s] = "running" /\ ~CanRetryStep(s)
    BY <1>1 DEF CanTransitionStep, StepTransitions, CanRetryStep
  <2>2. step' = [step EXCEPT ![s] = "completed"] /\ frame' = [frame EXCEPT ![s] = "done"]
        /\ attempts' = attempts
    BY <1>1, <2>1 DEF Continue
  <2>3. attempts' \in [Steps -> Nat] /\ "completed" \in StepStatus
    BY <2>2 DEF Inv, Typed, StepStatus
  <2> QED
    BY <2>1, <2>2, <2>3
<1>2. CASE frame[s] = "delay" /\ ~aborted
  <2>1. step[s] = "retrying"
    BY <1>2 DEF Inv, Delayed
  <2>2. step' = [step EXCEPT ![s] = "running"] /\ frame' = [frame EXCEPT ![s] = "racing"]
        /\ attempts' = [attempts EXCEPT ![s] = @ + 1]
    BY <1>2 DEF Continue
  <2>3. attempts' \in [Steps -> Nat]
    BY <2>2 DEF Inv, Typed
  <2> QED
    BY <2>1, <2>2, <2>3 DEF StepStatus
<1>3. CASE frame[s] # "delay" /\ CanRetryStep(s) /\ ~(frame[s] = "won" /\ CanTransitionStep(s, "completed"))
  <2>1. step[s] \in {"failed", "retrying"}
    BY <1>3 DEF CanRetryStep
  <2>2. step' = [step EXCEPT ![s] = "retrying"] /\ frame' = [frame EXCEPT ![s] = "delay"]
        /\ attempts' = attempts
    BY <1>3 DEF Continue
  <2> QED
    BY <2>1, <2>2 DEF Inv, Typed, StepStatus
<1>4. CASE /\ ~(frame[s] = "won" /\ CanTransitionStep(s, "completed"))
           /\ ~(frame[s] = "delay" /\ ~aborted)
           /\ ~(frame[s] # "delay" /\ CanRetryStep(s))
  <2>1. Fail(s) /\ attempts' = attempts
    BY <1>4 DEF Continue
  <2>2. CASE CanTransitionStep(s, "failed")
    <3>1. step[s] \in {"running", "retrying"}
      BY <2>2 DEF CanTransitionStep, StepTransitions
    <3> DEFINE g == IF onFailure = "stop" THEN "threw" ELSE "done"
    <3>2. step' = [step EXCEPT ![s] = "failed"] /\ frame' = [frame EXCEPT ![s] = g]
      BY <2>1, <2>2 DEF Fail
    <3>3. g \in {"done", "threw"}
      OBVIOUS
    <3> QED
      BY <2>1, <3>1, <3>2, <3>3 DEF Inv, Typed, StepStatus
  <2>3. CASE ~CanTransitionStep(s, "failed")
    <3>1. step' = [step EXCEPT ![s] = step[s]] /\ frame' = [frame EXCEPT ![s] = "threw"]
      BY <2>1, <2>3 DEF Fail, Inv, Typed
    <3>2. step[s] # "running"
      BY <2>3 DEF CanTransitionStep, StepTransitions
    <3> QED
      BY <2>1, <3>1, <3>2 DEF Inv, Typed
  <2> QED
    BY <2>2, <2>3
<1> QED
  BY <1>1, <1>2, <1>3, <1>4

LEMMA ContinueKeeps ==
  ASSUME Inv, NEW s \in Steps, Continue(s)
  PROVE  Inv' /\ StepsStay
<1>1. UNCHANGED <<dependsOn, onFailure, status, exec, layer, aborted>> /\ frame[s] \in {"won", "lost", "delay"}
  BY DEF Continue, workflow
<1>2. PICK st \in StepStatus, f \in {"racing", "delay", "done", "threw"} :
        /\ step' = [step EXCEPT ![s] = st] /\ frame' = [frame EXCEPT ![s] = f]
        /\ f = "delay" => st = "retrying"
        /\ step[s] \in {"completed", "skipped", "cancelled"} => st = step[s]
        /\ attempts' \in [Steps -> Nat]
  BY ContinueDoes
<1>3. StepsStay
  BY <1>2 DEF StepsStay, Inv, Typed
<1>4. Delayed' /\ Typed'
  BY <1>1, <1>2 DEF Inv, Typed, Delayed
<1>5. Supported'
  <2>1. \A x \in Steps : frame'[x] # "none" => frame[x] # "none"
    BY <1>1, <1>2 DEF Inv, Typed
  <2> QED
    BY <1>1, <1>3, <2>1, SupportStays DEF workflow
<1> QED
  BY <1>1, <1>3, <1>4, <1>5 DEF Inv, Live, Active

LEMMA CancelKeeps ==
  ASSUME Inv, Cancel
  PROVE  Inv' /\ StepsStay
<1>1. /\ UNCHANGED <<dependsOn, onFailure, attempts, exec>> /\ aborted' = TRUE
      /\ frame' = [s \in Steps |-> IF frame[s] = "racing" THEN "lost" ELSE frame[s]]
      /\ step' = [s \in Steps |-> IF step[s] = "running" THEN "cancelled" ELSE step[s]]
      /\ status' = "cancelled" /\ Active
  BY DEF Cancel, workflow
<1>2. StepsStay
  BY <1>1 DEF StepsStay
<1>3. Typed'
  BY <1>1 DEF Inv, Typed, StepStatus
<1>4. Live' /\ Delayed'
  BY <1>1 DEF Inv, Live, Active, Delayed
<1>5. Supported'
  BY <1>1, <1>2, SupportStays DEF workflow
<1> QED
  BY <1>2, <1>3, <1>4, <1>5 DEF Inv

LEMMA NextKeeps ==
  ASSUME Inv, [Next]_vars
  PROVE  Inv' /\ StepsStay
<1>1. CASE UNCHANGED vars
  <2>1. StepsStay
    BY <1>1 DEF vars, StepsStay
  <2> QED
    BY <1>1, <2>1, SupportStays DEF vars, workflow, Inv, Typed, Live, Active, Delayed
<1>2. CASE Next
  BY <1>2, StartLayerKeeps, LoopKeeps, WorkKeeps, ContinueKeeps, CancelKeeps DEF Next, Engine
<1> QED
  BY <1>1, <1>2

\* Whatever settles late - a race, a timer, a cancellation - the status of a
\* workflow that has ended does not change, nor does that of a finished step.
THEOREM FinalStatusStays == Spec => FinalStays
<1>1. Inv /\ [Next]_vars => Inv' /\ StepsStay
  BY NextKeeps
<1>2. Inv /\ [Next]_vars => (status \in FinalStatus => status' = status)
  <2> SUFFICES ASSUME Inv, [Next]_vars, status \in FinalStatus
               PROVE  status' = status
    OBVIOUS
  <2>1. status \in {"completed", "failed", "cancelled"} /\ exec # "idle"
        /\ (Active => status = "cancelled")
    BY DEF Inv, Live, FinalStatus
  <2>2. \A to \in {"completed", "failed", "running", "paused", "cancelled"} :
          status = "cancelled" => ~CanTransitionWorkflow(to)
    BY DEF CanTransitionWorkflow, WorkflowTransitions
  <2>3. CASE UNCHANGED vars
    BY <2>3 DEF vars
  <2>4. CASE Catch \/ Finish
    <3>1. Active
      BY <2>4 DEF Catch, Finish, Active
    <3> QED
      BY <2>1, <2>2, <2>4, <3>1 DEF Catch, Finish, Settle
  <2>5. CASE Pause \/ Resume \/ Cancel
    BY <2>1, <2>2, <2>5 DEF Pause, Resume, Cancel
  <2>6. CASE \E s \in Steps : Work(s) \/ Timeout(s) \/ Continue(s)
    BY <2>6 DEF Work, Timeout, Continue
  <2>7. CASE Execute \/ StartLayer \/ LayerDone
    BY <2>1, <2>7 DEF Execute, StartLayer, LayerDone
  <2> QED
    BY <2>3, <2>4, <2>5, <2>6, <2>7 DEF Next, Engine
<1>3. Inv /\ [Next]_vars => [/\ status \in FinalStatus => status' = status
                             /\ \A s \in Steps : step[s] \in {"completed", "skipped", "cancelled"}
                                                 => step'[s] = step[s]]_vars
  BY <1>1, <1>2 DEF StepsStay
<1> QED
  BY Initially, <1>1, <1>3, PTL DEF Spec, FinalStays

\* Every step that starts, for the first time or again, has all its direct and
\* indirect dependencies completed or skipped, on every graph.
THEOREM DependenciesComeFirst == Spec => DependenciesFirst
<1>1. Inv /\ [Next]_vars => Inv'
  BY NextKeeps
<1>2. Inv /\ [Next]_vars => [\A s \in Steps : step[s] # "running" /\ step'[s] = "running"
                               => \A d \in AllDependencies(s) : Succeeded(d)]_vars
  <2> SUFFICES ASSUME Inv, Next, NEW s \in Steps, step[s] # "running", step'[s] = "running"
               PROVE  \A d \in AllDependencies(s) : Succeeded(d)
    BY DEF vars
  <2>1. CASE StartLayer
    <3>1. s \in {x \in Layer(layer) : step[x] = "pending" /\ DependenciesComplete(x)}
      BY <2>1 DEF StartLayer
    <3> QED
      BY <3>1 DEF DependenciesComplete
  <2>2. CASE \E x \in Steps : Continue(x)
    <3>1. PICK x \in Steps : Continue(x)
      BY <2>2
    <3>2. x = s
      BY <3>1 DEF Continue, Fail, Inv, Typed
    <3>3. frame[s] # "none"
      BY <3>1, <3>2 DEF Continue
    <3> QED
      BY <3>3 DEF Inv, Supported
  <2>3. CASE ~StartLayer /\ ~(\E x \in Steps : Continue(x))
    <3>1. step'[s] = step[s] \/ step'[s] = "cancelled"
      BY <2>3 DEF Next, Engine, Execute, LayerDone, Catch, Finish, Work, Timeout, Pause, Resume,
         Cancel, Inv, Typed
    <3> QED
      BY <3>1
  <2> QED
    BY <2>1, <2>2, <2>3
<1> QED
  BY Initially, <1>1, <1>2, PTL DEF Spec, DependenciesFirst

\* Once cancel() has set the abort signal no step starts: not with its layer, and
\* not when the delay before its retry is over.
THEOREM CancelStopsStarts == Spec => NothingStartsAfterCancel
<1>1. Inv /\ [Next]_vars => Inv'
  BY NextKeeps
<1>2. Inv /\ [Next]_vars => [\A s \in Steps : aborted /\ step'[s] = "running"
                               => step[s] = "running"]_vars
  <2> SUFFICES ASSUME Inv, Next, NEW s \in Steps, aborted, step'[s] = "running"
               PROVE  step[s] = "running"
    BY DEF vars
  <2>1. CASE \E x \in Steps : Continue(x)
    <3>1. PICK x \in Steps : Continue(x)
      BY <2>1
    <3> QED
      BY <3>1 DEF Continue, Fail, Inv, Typed
  <2>2. CASE ~(\E x \in Steps : Continue(x))
    <3>1. ~StartLayer
      BY DEF StartLayer, LayerAhead
    <3> QED
      BY <2>2, <3>1 DEF Next, Engine, Execute, LayerDone, Catch, Finish, Work, Timeout, Pause,
         Resume, Cancel, Inv, Typed
  <2> QED
    BY <2>1, <2>2
<1> QED
  BY Initially, <1>1, <1>2, PTL DEF Spec, NothingStartsAfterCancel

\* However pause, resume, cancel and the steps fall, an execution that returns has
\* completed or failed its workflow, and one that throws for an impossible
\* transition left it paused or cancelled.
THEOREM OutcomeTellsStatus == Spec => []OutcomeAgrees
<1>1. Init => Inv /\ OutcomeAgrees
  BY Initially DEF Init, OutcomeAgrees
<1>2. Inv /\ OutcomeAgrees /\ [Next]_vars => Inv' /\ OutcomeAgrees'
  <2> SUFFICES ASSUME Inv, OutcomeAgrees, [Next]_vars
               PROVE  OutcomeAgrees'
    BY NextKeeps
  <2>1. CASE UNCHANGED vars
    BY <2>1 DEF vars, OutcomeAgrees
  <2>2. CASE Execute
    BY <2>2 DEF Execute, OutcomeAgrees, Inv, Live
  <2>3. CASE Catch \/ Finish
    <3>1. Active /\ status \in {"running", "paused", "cancelled"}
      BY <2>3 DEF Catch, Finish, Active, Inv, Live
    <3>2. PICK to \in {"completed", "failed"} : Settle(to)
      BY <2>3 DEF Catch, Finish
    <3>3. CanTransitionWorkflow(to) = (status = "running")
      BY <3>1, <3>2 DEF CanTransitionWorkflow, WorkflowTransitions
    <3> QED
      BY <3>1, <3>2, <3>3 DEF Settle, OutcomeAgrees
  <2>4. CASE StartLayer \/ LayerDone \/ Pause \/ Resume \/ Cancel
    <3>1. exec' # "ended"
      BY <2>4 DEF StartLayer, LayerDone, Pause, Resume, Cancel, Active
    <3> QED
      BY <3>1 DEF OutcomeAgrees
  <2>5. CASE \E s \in Steps : Work(s) \/ Timeout(s) \/ Continue(s)
    BY <2>5 DEF Work, Timeout, Continue, OutcomeAgrees
  <2> QED
    BY <2>1, <2>2, <2>3, <2>4, <2>5 DEF Next, Engine
<1> QED
  BY <1>1, <1>2, PTL DEF Spec

-----------------------------------------------------------------------------
(* The layers of the graph.                                                *)

WellFormed == dependsOn \in [Steps -> SUBSET Steps]

\* The layers are what topologicalSort takes them to be: the steps whose
\* dependencies are in the layers before.
LEMMA Layered ==
  ASSUME WellFormed
  PROVE  /\ Sorted[0] = {}
         /\ \A n \in Nat : Sorted[n + 1] = {s \in Steps : dependsOn[s] \subseteq Sorted[n]}
<1> DEFINE next == [T \in SUBSET Steps |-> {s \in Steps : dependsOn[s] \subseteq T}]
           Def(f) == f = [n \in Nat |-> IF n = 0 THEN {}
                                        ELSE {s \in Steps : dependsOn[s] \subseteq f[n - 1]}]
<1> DEFINE S == SUBSET Steps
           none == {}
<1>1. none \in S /\ next \in [S -> S]
  OBVIOUS
<1>2. PICK f : Iterates(f, S, none, next)
  <2> HIDE DEF S, next, none
  <2> QED
    BY <1>1, Recursion
<1>3. \A n \in Nat : f[n + 1] = {s \in Steps : dependsOn[s] \subseteq f[n]}
  BY <1>2 DEF Iterates
<1>4. Def(f)
  <2>1. ASSUME NEW n \in Nat
        PROVE  f[n] = IF n = 0 THEN {} ELSE {s \in Steps : dependsOn[s] \subseteq f[n - 1]}
    <3>1. CASE n = 0
      BY <1>2, <3>1 DEF Iterates
    <3>2. CASE n # 0
      <4>1. n - 1 \in Nat /\ (n - 1) + 1 = n
        BY <3>2
      <4> QED
        BY <1>3, <3>2, <4>1
    <3> QED
      BY <3>1, <3>2
  <2>2. f \in [Nat -> S]
    BY <1>2 DEF Iterates
  <2> QED
    BY <2>1, <2>2
<1>5. Sorted = CHOOSE h : Def(h)
  BY DEF Sorted
<1> HIDE DEF Def
<1>6. Def(Sorted)
  BY <1>4, <1>5, Zenon
<1> USE DEF Def
<1>7. Sorted[0] = {}
  BY <1>6
<1>8. ASSUME NEW n \in Nat
      PROVE  Sorted[n + 1] = {s \in Steps : dependsOn[s] \subseteq Sorted[n]}
  <2>1. n + 1 \in Nat /\ n + 1 # 0 /\ (n + 1) - 1 = n
    OBVIOUS
  <2> QED
    BY <1>6, <2>1
<1> QED
  BY <1>7, <1>8

LEMMA LayersGrow ==
  ASSUME WellFormed
  PROVE  /\ \A n \in Nat : Sorted[n] \subseteq Steps
         /\ \A m, n \in Nat : m <= n => Sorted[m] \subseteq Sorted[n]
<1>1. \A n \in Nat : Sorted[n] \subseteq Sorted[n + 1] /\ Sorted[n] \subseteq Steps
  <2> DEFINE T == {n \in Nat : Sorted[n] \subseteq Sorted[n + 1] /\ Sorted[n] \subseteq Steps}
  <2>1. 0 \in T
    BY Layered
  <2>2. ASSUME NEW n \in Nat, n \in T PROVE n + 1 \in T
    <3>1. /\ Sorted[n + 1] = {s \in Steps : dependsOn[s] \subseteq Sorted[n]}
          /\ Sorted[(n + 1) + 1] = {s \in Steps : dependsOn[s] \subseteq Sorted[n + 1]}
      BY Layered
    <3> QED
      BY <2>2, <3>1
  <2> HIDE DEF T
  <2>3. Nat \subseteq T
    BY <2>1, <2>2, Induction
  <2> QED
    BY <2>3 DEF T
<1>2. ASSUME NEW m \in Nat
      PROVE  \A n \in Nat : m <= n => Sorted[m] \subseteq Sorted[n]
  <2> DEFINE T == {n \in Nat : m <= n => Sorted[m] \subseteq Sorted[n]}
  <2>1. 0 \in T
    BY <1>1
  <2>2. ASSUME NEW n \in Nat, n \in T PROVE n + 1 \in T
    BY <1>1, <2>2
  <2> HIDE DEF T
  <2>3. Nat \subseteq T
    BY <2>1, <2>2, Induction
  <2> QED
    BY <2>3 DEF T
<1> QED
  BY <1>1, <1>2

\* What a step depends on, however indirectly, is in the layers before its own.
LEMMA DependenciesBefore ==
  ASSUME WellFormed, NEW n \in Nat \ {0}, NEW s \in Sorted[n]
  PROVE  AllDependencies(s) \subseteq Sorted[n - 1]
<1>1. n - 1 \in Nat /\ (n - 1) + 1 = n
  OBVIOUS
<1>2. dependsOn[s] \subseteq Sorted[n - 1] /\ s \in Steps
  BY <1>1, Layered
<1>3. ASSUME NEW c \in Sorted[n - 1] PROVE dependsOn[c] \subseteq Sorted[n - 1]
  <2>1. c \in Sorted[(n - 1) + 1]
    BY <1>1, LayersGrow
  <2>2. Sorted[(n - 1) + 1] = {x \in Steps : dependsOn[x] \subseteq Sorted[n - 1]}
    BY <1>1, Layered
  <2> QED
    BY <2>1, <2>2
<1>4. Sorted[n - 1] \in SUBSET Steps
  BY <1>1, LayersGrow
<1> QED
  BY <1>2, <1>3, <1>4 DEF AllDependencies

\* An acyclic graph has a last layer, with which every step is sorted.
LEMMA LastLayerSorts ==
  ASSUME WellFormed, ~HasCycle
  PROVE  LastLayer \in Nat /\ \A n \in Nat : n >= LastLayer => Sorted[n] = Steps
<1> DEFINE S == {n \in 0..NumSteps : Sorted[n] = Steps}
<1>1. NumSteps \in Nat
  BY WorkflowEngineAssumption, FS_CardinalityType DEF NumSteps
<1>2. S \subseteq Nat /\ NumSteps \in S
  BY <1>1 DEF HasCycle
<1>3. PICK m \in S : \A k \in S : m <= k
  BY <1>2, LeastNumber
<1>4. m \in 0..NumSteps /\ Sorted[m] = Steps /\ \A k \in 0..m-1 : Sorted[k] # Steps
  BY <1>1, <1>3
<1>5. LastLayer \in 0..NumSteps /\ Sorted[LastLayer] = Steps
  BY <1>4 DEF LastLayer
<1>6. LastLayer \in Nat
  BY <1>1, <1>5
<1>7. ASSUME NEW n \in Nat, n >= LastLayer PROVE Sorted[n] = Steps
  <2>1. Sorted[LastLayer] \subseteq Sorted[n] /\ Sorted[n] \subseteq Steps
    BY <1>6, <1>7, LayersGrow
  <2> QED
    BY <1>5, <2>1
<1> QED
  BY <1>6, <1>7

-----------------------------------------------------------------------------
(* What a workflow that completed left behind.                             *)

\* The layers that have been started.
Reached == IF exec = "waiting" THEN Sorted[layer] ELSE Sorted[layer - 1]

\* The numbers and the graph execute() works with.
Placed ==
  /\ layer \in Nat \ {0} /\ dependsOn \in [Steps -> SUBSET Steps]
  /\ Active => ~HasCycle
  /\ exec = "idle" => layer = 1
  /\ aborted => status = "cancelled"

\* Steps of layers that are not reached are untouched; elsewhere the status of a
\* step agrees with where its executeStep() stands.
Framed ==
  /\ exec # "ended" => \A s \in Steps \ Reached : step[s] = "pending" /\ frame[s] = "none"
  /\ \A s \in Steps : /\ step[s] = "running" => frame[s] \in {"racing", "won", "lost"}
                      /\ step[s] = "failed" => frame[s] \in {"done", "threw"}
                      /\ frame[s] = "done" => step[s] \in {"completed", "failed"}

\* The layers before this one are over, and unless a step failed everything in
\* them is completed or skipped; so is what is over in the layer awaited.
LayersOver ==
  Active =>
    /\ \A s \in Sorted[layer - 1] : frame[s] \in {"none", "done"}
    /\ ~aborted /\ Failed = {} =>
         /\ \A s \in Sorted[layer - 1] : Succeeded(s)
         /\ \A s \in Reached : Succeeded(s) \/ frame[s] \notin {"none", "done"}

\* A workflow has completed: nothing of it is left that could go on.
NothingLeft ==
  status = "completed" =>
    \A s \in Steps : /\ frame[s] \in {"none", "done"}
                     /\ onFailure # "continue" => Succeeded(s)

LayerInv == Placed /\ Framed /\ LayersOver /\ NothingLeft

LEMMA SameGraph ==
  ASSUME UNCHANGED dependsOn
  PROVE  Sorted' = Sorted /\ HasCycle' = HasCycle /\ LastLayer' = LastLayer
<1>1. Sorted' = Sorted
  BY Zenon DEF Sorted
<1> QED
  BY <1>1, Zenon DEF HasCycle, LastLayer, NumSteps

LEMMA LayersInitially == Init => LayerInv
<1> SUFFICES ASSUME Init PROVE LayerInv
  OBVIOUS
<1>1. Placed
  BY DEF Init, Placed, Active
<1>2. Framed
  BY DEF Init, Framed
<1>3. LayersOver /\ NothingLeft
  BY DEF Init, LayersOver, NothingLeft, Active
<1> QED
  BY <1>1, <1>2, <1>3 DEF LayerInv

\* Every step of the layer that starts is skipped or raced for, if none failed.
LEMMA StartLayerGoesOn ==
  ASSUME Inv, LayerInv, StartLayer
  PROVE  LayerInv'
<1> DEFINE ready == {s \in Layer(layer) : step[s] = "pending" /\ DependenciesComplete(s)}
<1>1. PICK skipped \in SUBSET ready :
        /\ step' = [s \in Steps |-> IF s \in skipped THEN "skipped"
                                    ELSE IF s \in ready \ skipped THEN "running" ELSE step[s]]
        /\ frame' = [s \in Steps |-> IF s \in ready \ skipped THEN "racing" ELSE frame[s]]
  BY DEF StartLayer
<1>2. exec' = "waiting" /\ exec = "looping" /\ UNCHANGED <<dependsOn, onFailure, status, aborted, layer>>
  BY DEF StartLayer, workflow
<1>3. Sorted' = Sorted /\ HasCycle' = HasCycle
  BY <1>2, SameGraph
<1>4. layer \in Nat /\ layer - 1 \in Nat /\ layer - 1 <= layer /\ WellFormed
  BY DEF LayerInv, Placed, WellFormed
<1>5. Sorted[layer - 1] \subseteq Sorted[layer] /\ Sorted[layer] \subseteq Steps
  BY <1>4, LayersGrow
<1>6. Reached = Sorted[layer - 1] /\ Reached' = Sorted[layer]
  BY <1>2, <1>3 DEF Reached
<1>7. \A s \in ready : /\ s \in Sorted[layer] \ Sorted[layer - 1]
                       /\ step[s] = "pending" /\ frame[s] = "none"
  BY <1>2, <1>5, <1>6 DEF LayerInv, Framed, Layer
<1>8. \A s \in Sorted[layer] \ Sorted[layer - 1] : AllDependencies(s) \subseteq Sorted[layer - 1]
  BY <1>4, DependenciesBefore DEF LayerInv, Placed
<1>9. \A s \in Sorted[layer] \ Sorted[layer - 1] : step[s] = "pending"
  BY <1>2, <1>5, <1>6 DEF LayerInv, Framed
<1>10. \A s \in Sorted[layer] \ Sorted[layer - 1] : DependenciesComplete(s) => s \in ready
  BY <1>9 DEF Layer
<1>11. Active /\ Active' /\ status' # "completed"
  BY <1>2 DEF Active, Inv, Live
<1> HIDE DEF ready
<1>12. Placed'
  BY <1>2, <1>3, <1>11 DEF LayerInv, Placed
<1>13. Framed'
  <2>1. ASSUME NEW s \in Steps \ Sorted[layer]
        PROVE  step'[s] = "pending" /\ frame'[s] = "none"
    <3>1. s \notin ready /\ s \in Steps \ Sorted[layer - 1]
      BY <1>5, <1>7
    <3> QED
      BY <1>1, <1>2, <1>6, <3>1 DEF LayerInv, Framed
  <2>2. ASSUME NEW s \in Steps
        PROVE  /\ step'[s] = "running" => frame'[s] \in {"racing", "won", "lost"}
               /\ step'[s] = "failed" => frame'[s] \in {"done", "threw"}
               /\ frame'[s] = "done" => step'[s] \in {"completed", "failed"}
    BY <1>1, <1>7 DEF LayerInv, Framed
  <2> QED
    BY <1>6, <2>1, <2>2 DEF Framed
<1>14. LayersOver'
  <2>1. ASSUME NEW s \in Sorted[layer - 1]
        PROVE  step'[s] = step[s] /\ frame'[s] = frame[s] /\ frame[s] \in {"none", "done"}
    BY <1>1, <1>5, <1>7, <1>11 DEF LayerInv, LayersOver
  <2>2. ASSUME ~aborted, Failed' = {}, NEW s \in Sorted[layer]
        PROVE  /\ s \in Sorted[layer - 1] => Succeeded(s)'
               /\ Succeeded(s)' \/ frame'[s] \notin {"none", "done"}
    <3>1. Failed = {}
      BY <2>2, <1>1, <1>7 DEF Failed
    <3>2. \A x \in Sorted[layer - 1] : Succeeded(x)
      BY <2>2, <3>1, <1>11 DEF LayerInv, LayersOver
    <3>3. CASE s \in Sorted[layer - 1]
      BY <2>1, <3>2, <3>3 DEF Succeeded
    <3>4. CASE s \notin Sorted[layer - 1]
      <4>1. s \in ready
        BY <1>8, <1>10, <3>2, <3>4 DEF DependenciesComplete
      <4>2. s \in Steps
        BY <1>5
      <4> QED
        BY <1>1, <3>4, <4>1, <4>2 DEF Succeeded
    <3> QED
      BY <3>3, <3>4
  <2> QED
    BY <1>2, <1>3, <1>5, <1>6, <2>1, <2>2 DEF LayersOver
<1>15. NothingLeft'
  BY <1>11 DEF NothingLeft
<1> QED
  BY <1>12, <1>13, <1>14, <1>15 DEF LayerInv

\* What the loop of execute() and the calls from outside need to show.
LEMMA LoopGoesOn ==
  ASSUME Inv, LayerInv, Execute \/ LayerDone \/ Catch \/ Finish \/ Pause \/ Resume
  PROVE  LayerInv'
<1>1. UNCHANGED <<dependsOn, onFailure, step, frame, aborted>>
  BY DEF Execute, LayerDone, Catch, Finish, Pause, Resume, workflow
<1>2. Sorted' = Sorted /\ HasCycle' = HasCycle
  BY <1>1, SameGraph
<1>3. layer \in Nat \ {0} /\ layer - 1 \in Nat /\ layer - 1 <= layer /\ WellFormed /\ (layer + 1) - 1 = layer
  BY DEF LayerInv, Placed, WellFormed
<1>4. Failed' = Failed /\ \A s : Succeeded(s)' = Succeeded(s)
  BY <1>1 DEF Failed, Succeeded
<1>5. CASE Execute
  <2>1. exec = "idle" /\ layer = 1 /\ layer' = layer /\ ~aborted /\ status' # "completed"
    BY <1>5 DEF Execute, LayerInv, Placed, Inv, Live
  <2>2. Sorted[layer - 1] = {} /\ Sorted[layer'- 1] = {}
    BY <1>3, <2>1, Layered
  <2>3. exec' = "ended" \/ (exec' = "looping" /\ ~HasCycle)
    BY <1>5 DEF Execute
  <2>4. Reached = {} /\ Reached' = {}
    BY <1>2, <2>1, <2>2, <2>3 DEF Reached
  <2>5. Placed'
    BY <1>1, <1>2, <2>1, <2>3 DEF LayerInv, Placed, Active
  <2>6. Framed'
    BY <1>1, <2>1, <2>4 DEF LayerInv, Framed
  <2>7. LayersOver' /\ NothingLeft'
    BY <1>2, <2>1, <2>2, <2>4 DEF LayersOver, NothingLeft
  <2> QED
    BY <2>5, <2>6, <2>7 DEF LayerInv
<1>6. CASE LayerDone
  <2>1. /\ exec = "waiting" /\ exec' = "looping" /\ layer' = layer + 1 /\ status' = status
        /\ \A s \in Layer(layer) : frame[s] \in {"none", "done"}
    BY <1>6 DEF LayerDone
  <2>2. Active /\ Active' /\ status # "completed"
    BY <2>1 DEF Active, Inv, Live
  <2>3. Reached = Sorted[layer] /\ Reached' = Sorted[layer] /\ layer' - 1 = layer /\ layer' \in Nat \ {0}
    BY <1>2, <1>3, <2>1 DEF Reached
  <2>4. Placed'
    BY <1>1, <1>2, <2>1, <2>2, <2>3 DEF LayerInv, Placed
  <2>5. Framed'
    BY <1>1, <2>1, <2>3 DEF LayerInv, Framed
  <2>6. \A s \in Sorted[layer] : frame[s] \in {"none", "done"}
    BY <2>1, <2>2 DEF LayerInv, LayersOver, Layer
  <2>7. LayersOver'
    BY <1>1, <1>2, <1>4, <2>2, <2>3, <2>6 DEF LayerInv, LayersOver
  <2>8. NothingLeft'
    BY <2>1, <2>2 DEF NothingLeft
  <2> QED
    BY <2>4, <2>5, <2>7, <2>8 DEF LayerInv
<1>7. CASE Catch \/ Finish
  <2>1. /\ Active /\ exec' = "ended" /\ ~Active' /\ layer' = layer /\ status # "completed"
        /\ aborted => status' = "cancelled"
    BY <1>7 DEF Catch, Finish, Settle, Active, Inv, Live, LayerInv, Placed, CanTransitionWorkflow,
       WorkflowTransitions
  <2>2. Placed'
    BY <1>1, <1>2, <2>1 DEF LayerInv, Placed
  <2>3. Framed'
    BY <1>1, <2>1 DEF LayerInv, Framed
  <2>4. LayersOver'
    BY <2>1 DEF LayersOver
  <2>5. NothingLeft'
    <3> SUFFICES ASSUME status' = "completed"
                 PROVE  \A s \in Steps : /\ frame[s] \in {"none", "done"}
                                         /\ onFailure # "continue" => Succeeded(s)
      BY <1>1, <1>4 DEF NothingLeft
    <3>1. Finish /\ status = "running" /\ (onFailure # "continue" => Failed = {})
      BY <1>7, <2>1 DEF Catch, Finish, Settle, CanTransitionWorkflow, WorkflowTransitions
    <3>2. ~HasCycle /\ ~aborted
      BY <2>1, <3>1 DEF LayerInv, Placed
    <3>3. LastLayer \in Nat /\ \A n \in Nat : n >= LastLayer => Sorted[n] = Steps
      BY <1>3, <3>2, LastLayerSorts
    <3>4. layer > LastLayer
      BY <3>1 DEF Finish
    <3>5. Sorted[layer - 1] = Steps
      BY <1>3, <3>3, <3>4
    <3> QED
      BY <2>1, <3>1, <3>2, <3>5 DEF LayerInv, LayersOver
  <2> QED
    BY <2>2, <2>3, <2>4, <2>5 DEF LayerInv
<1>8. CASE Pause \/ Resume
  <2>1. /\ Active /\ UNCHANGED <<exec, layer>> /\ status' # "completed" /\ ~aborted
    BY <1>8 DEF Pause, Resume, LayerInv, Placed, CanTransitionWorkflow, WorkflowTransitions
  <2>2. Active' = Active /\ Reached' = Reached
    BY <1>2, <2>1 DEF Active, Reached
  <2>3. Placed'
    BY <1>1, <1>2, <2>1, <2>2 DEF LayerInv, Placed
  <2>4. Framed'
    BY <1>1, <2>1, <2>2 DEF LayerInv, Framed
  <2>5. LayersOver'
    BY <1>1, <1>2, <1>4, <2>1, <2>2 DEF LayerInv, LayersOver
  <2>6. NothingLeft'
    BY <2>1 DEF NothingLeft
  <2> QED
    BY <2>3, <2>4, <2>5, <2>6 DEF LayerInv
<1> QED
  BY <1>5, <1>6, <1>7, <1>8

\* What settles in a step's race or continues after it leaves the others alone.
LEMMA StepGoesOn ==
  ASSUME Inv, LayerInv, NEW s \in Steps, Work(s) \/ Timeout(s) \/ Continue(s)
  PROVE  LayerInv'
<1>1. UNCHANGED <<dependsOn, onFailure, status, exec, layer, aborted>>
  BY DEF Work, Timeout, Continue, workflow
<1>2. \E st \in StepStatus, f \in {"racing", "won", "lost", "delay", "none", "done", "threw"} :
        /\ step' = [step EXCEPT ![s] = st] /\ frame' = [frame EXCEPT ![s] = f]
        /\ frame[s] \in {"none", "done"} => st = step[s] /\ f = frame[s]
        /\ st = "running" => f \in {"racing", "won", "lost"}
        /\ st = "failed" => f \in {"done", "threw"}
        /\ f = "done" => st \in {"completed", "failed"}
        /\ step[s] = "failed" => st = "failed"
        /\ f # "none" \/ frame[s] = "none"
  <2>1. CASE Work(s) \/ Timeout(s)
    <3>1. step' = step /\ \E r \in {"won", "lost"} : frame' = Race(s, r)
      BY <2>1 DEF Work, Timeout
    <3>2. PICK r \in {"won", "lost"} : frame' = Race(s, r)
      BY <3>1
    <3> DEFINE f == IF frame[s] = "racing" THEN r ELSE frame[s]
    <3>3. step' = [step EXCEPT ![s] = step[s]] /\ frame' = [frame EXCEPT ![s] = f]
      BY <3>1, <3>2 DEF Race, Inv, Typed
    <3>4. /\ step[s] = "running" => frame[s] \in {"racing", "won", "lost"}
          /\ step[s] = "failed" => frame[s] \in {"done", "threw"}
          /\ frame[s] = "done" => step[s] \in {"completed", "failed"}
      BY DEF LayerInv, Framed
    <3>5. step[s] \in StepStatus /\ f \in {"racing", "won", "lost", "delay", "none", "done", "threw"}
      BY DEF Inv, Typed
    <3>6. frame[s] = "racing" \/ f = frame[s]
      OBVIOUS
    <3>7. frame[s] = "racing" => f = r
      OBVIOUS
    <3> HIDE DEF f
    <3> QED
      BY <3>3, <3>4, <3>5, <3>6, <3>7
  <2>2. CASE Continue(s)
    <3>1. frame[s] \in {"won", "lost", "delay"}
      BY <2>2 DEF Continue
    <3>2. step[s] # "failed"
      BY <3>1 DEF LayerInv, Framed
    <3> QED
      BY <2>2, <3>1, <3>2, ContinueDoes
  <2> QED
    BY <2>1, <2>2
<1>3. PICK st \in StepStatus, f \in {"racing", "won", "lost", "delay", "none", "done", "threw"} :
        /\ step' = [step EXCEPT ![s] = st] /\ frame' = [frame EXCEPT ![s] = f]
        /\ frame[s] \in {"none", "done"} => st = step[s] /\ f = frame[s]
        /\ st = "running" => f \in {"racing", "won", "lost"}
        /\ st = "failed" => f \in {"done", "threw"}
        /\ f = "done" => st \in {"completed", "failed"}
        /\ step[s] = "failed" => st = "failed"
        /\ f # "none" \/ frame[s] = "none"
  BY <1>2
<1>4. step \in [Steps -> StepStatus] /\ DOMAIN frame = Steps
  BY DEF Inv, Typed
<1>5. \A x \in Steps : IF x = s THEN step'[x] = st /\ frame'[x] = f
                       ELSE step'[x] = step[x] /\ frame'[x] = frame[x]
  BY <1>3, <1>4
<1>6. Sorted' = Sorted /\ HasCycle' = HasCycle /\ Reached' = Reached /\ Active' = Active
  BY <1>1, SameGraph DEF Reached, Active
<1>7. \A x \in Steps : frame[x] \in {"none", "done"} => step'[x] = step[x] /\ frame'[x] = frame[x]
  BY <1>3, <1>5
<1>8. Placed'
  BY <1>1, <1>6 DEF LayerInv, Placed
<1>9. Framed'
  <2>1. \A x \in Steps : /\ step'[x] = "running" => frame'[x] \in {"racing", "won", "lost"}
                         /\ step'[x] = "failed" => frame'[x] \in {"done", "threw"}
                         /\ frame'[x] = "done" => step'[x] \in {"completed", "failed"}
    BY <1>3, <1>5 DEF LayerInv, Framed
  <2> QED
    BY <1>1, <1>6, <1>7, <2>1 DEF LayerInv, Framed
<1>10. LayersOver'
  <2>1. layer \in Nat /\ layer - 1 \in Nat /\ WellFormed
    BY DEF LayerInv, Placed, WellFormed
  <2>2. Sorted[layer - 1] \subseteq Steps /\ Reached \subseteq Steps
    BY <2>1, LayersGrow DEF Reached
  <2>3. Failed' = {} => Failed = {}
    BY <1>3, <1>5 DEF Failed
  <2> SUFFICES ASSUME Active
               PROVE  /\ \A x \in Sorted[layer - 1] : frame'[x] \in {"none", "done"}
                      /\ ~aborted /\ Failed' = {} =>
                           /\ \A x \in Sorted[layer - 1] : Succeeded(x)'
                           /\ \A x \in Reached : Succeeded(x)' \/ frame'[x] \notin {"none", "done"}
    BY <1>1, <1>6 DEF LayersOver
  <2>4. \A x \in Sorted[layer - 1] : frame[x] \in {"none", "done"}
    BY DEF LayerInv, LayersOver
  <2>5. \A x \in Sorted[layer - 1] : step'[x] = step[x] /\ frame'[x] = frame[x]
    BY <1>7, <2>2, <2>4
  <2>6. ASSUME ~aborted, Failed' = {}
        PROVE  /\ \A x \in Sorted[layer - 1] : Succeeded(x)'
               /\ \A x \in Reached : Succeeded(x)' \/ frame'[x] \notin {"none", "done"}
    <3>1. /\ \A x \in Sorted[layer - 1] : Succeeded(x)
          /\ \A x \in Reached : Succeeded(x) \/ frame[x] \notin {"none", "done"}
      BY <2>3, <2>6 DEF LayerInv, LayersOver
    <3>2. \A x \in Sorted[layer - 1] : Succeeded(x)'
      BY <2>5, <3>1 DEF Succeeded
    <3>3. ASSUME NEW x \in Reached PROVE Succeeded(x)' \/ frame'[x] \notin {"none", "done"}
      <4>1. x \in Steps
        BY <2>2
      <4>2. CASE x # s
        BY <1>5, <3>1, <4>1, <4>2 DEF Succeeded
      <4>3. CASE x = s
        <5>1. step'[s] # "failed"
          BY <2>6 DEF Failed
        <5>2. CASE frame[s] \in {"none", "done"}
          BY <1>7, <3>1, <4>3, <5>2 DEF Succeeded
        <5>3. CASE frame[s] \notin {"none", "done"}
          BY <1>3, <1>5, <4>3, <5>1, <5>3 DEF Succeeded
        <5> QED
          BY <5>2, <5>3
      <4> QED
        BY <4>2, <4>3
    <3> QED
      BY <3>2, <3>3
  <2> QED
    BY <2>4, <2>5, <2>6
<1>11. NothingLeft'
  <2> SUFFICES ASSUME status = "completed", NEW x \in Steps
               PROVE  frame'[x] \in {"none", "done"} /\ (onFailure # "continue" => Succeeded(x)')
    BY <1>1 DEF NothingLeft
  <2>1. frame[x] \in {"none", "done"} /\ (onFailure # "continue" => Succeeded(x))
    BY DEF LayerInv, NothingLeft
  <2> QED
    BY <1>7, <2>1 DEF Succeeded
<1> QED
  BY <1>8, <1>9, <1>10, <1>11 DEF LayerInv

LEMMA CancelGoesOn ==
  ASSUME Inv, LayerInv, Cancel
  PROVE  LayerInv'
<1>1. /\ UNCHANGED <<dependsOn, onFailure, exec, layer>> /\ aborted' = TRUE
      /\ frame' = [s \in Steps |-> IF frame[s] = "racing" THEN "lost" ELSE frame[s]]
      /\ step' = [s \in Steps |-> IF step[s] = "running" THEN "cancelled" ELSE step[s]]
      /\ status' = "cancelled" /\ Active
  BY DEF Cancel, workflow
<1>2. Sorted' = Sorted /\ HasCycle' = HasCycle /\ Reached' = Reached /\ Active' = Active
  BY <1>1, SameGraph DEF Reached, Active
<1>3. Placed'
  BY <1>1, <1>2 DEF LayerInv, Placed
<1>4. Framed'
  <2>1. \A x \in Steps : /\ step'[x] = "running" => frame'[x] \in {"racing", "won", "lost"}
                         /\ step'[x] = "failed" => frame'[x] \in {"done", "threw"}
                         /\ frame'[x] = "done" => step'[x] \in {"completed", "failed"}
    BY <1>1 DEF LayerInv, Framed
  <2>2. \A x \in Steps \ Reached : exec # "ended" => step'[x] = "pending" /\ frame'[x] = "none"
    BY <1>1 DEF LayerInv, Framed
  <2> QED
    BY <1>1, <1>2, <2>1, <2>2 DEF Framed
<1>5. LayersOver'
  <2>1. layer - 1 \in Nat /\ WellFormed
    BY DEF LayerInv, Placed, WellFormed
  <2>2. Sorted[layer - 1] \subseteq Steps
    BY <2>1, LayersGrow
  <2>3. \A x \in Sorted[layer - 1] : frame'[x] \in {"none", "done"}
    BY <1>1, <2>2 DEF LayerInv, LayersOver
  <2> QED
    BY <1>1, <1>2, <2>3 DEF LayersOver
<1>6. NothingLeft'
  BY <1>1 DEF NothingLeft
<1> QED
  BY <1>3, <1>4, <1>5, <1>6 DEF LayerInv

LEMMA LayersKept ==
  ASSUME Inv, LayerInv, [Next]_vars
  PROVE  LayerInv'
<1>1. CASE UNCHANGED vars
  <2>1. /\ UNCHANGED <<dependsOn, onFailure, status, step, exec, layer, frame, aborted>>
        /\ Sorted' = Sorted /\ HasCycle' = HasCycle
    BY <1>1, SameGraph DEF vars, workflow
  <2>2. Reached' = Reached /\ Active' = Active /\ Failed' = Failed /\ \A s : Succeeded(s)' = Succeeded(s)
    BY <2>1 DEF Reached, Active, Failed, Succeeded
  <2>3. Placed' /\ Framed'
    BY <2>1, <2>2 DEF LayerInv, Placed, Framed
  <2>4. LayersOver' /\ NothingLeft'
    BY <2>1, <2>2 DEF LayerInv, LayersOver, NothingLeft
  <2> QED
    BY <2>3, <2>4 DEF LayerInv
<1>2. CASE Next
  BY <1>2, StartLayerGoesOn, LoopGoesOn, StepGoesOn, CancelGoesOn DEF Next, Engine
<1> QED
  BY <1>1, <1>2

\* How an execution ends tells what became of its workflow and of its steps: one
\* that completes, on whatever graph and whatever was paused, timed out or was late
\* meanwhile, leaves no step at work, and under a policy other than "continue" none
\* that failed or never ran.
THEOREM EndsAsItSays == Spec => []EndsTruthfully
<1>1. Init => Inv /\ LayerInv
  BY Initially, LayersInitially
<1>2. Inv /\ LayerInv /\ [Next]_vars => Inv' /\ LayerInv'
  BY NextKeeps, LayersKept
<1>3. LayerInv => CompletedMeansDone
  BY DEF LayerInv, NothingLeft, Framed, CompletedMeansDone
<1>4. OutcomeAgrees /\ CompletedMeansDone => EndsTruthfully
  BY DEF EndsTruthfully
<1> QED
  BY <1>1, <1>2, <1>3, <1>4, OutcomeTellsStatus, PTL DEF Spec
=============================================================================
