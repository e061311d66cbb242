------------------------ MODULE AgentCircuitBreaker ------------------------
(***************************************************************************)
(* The circuit breakers of the agents of a federation                      *)
(* (src/src/federation/circuit-breaker.ts) behind the LoadBalancer of      *)
(* load-balancer.ts, which asks them whom to offer work and tells them     *)
(* what became of it.  Answers may come late and in any state, a timer may *)
(* fire late, and the clock is also read by every query, so that either    *)
(* may be the first to try an open circuit again.                          *)
(*                                                                         *)
(* Time enters as ages, each counted up to the first value from which      *)
(* nothing changes any more.                                               *)
(***************************************************************************)
EXTENDS Integers

CONSTANTS
  Agents,
  None,               \* no breaker, no timer
  FailureThreshold, SuccessThreshold,
  Timeout,            \* ticks an open circuit waits
  Window,             \* monitoringWindowMs, in ticks
  Environments        \* how breakers are used, see Environment

Environment == [
  manual : BOOLEAN,        \* operators open, close and reset circuits
  autoRecovery : BOOLEAN]

ThresholdsAssumption ==
  FailureThreshold \in Nat \ {0} /\ SuccessThreshold \in Nat \ {0}
TimesAssumption == Timeout \in Nat \ {0} /\ Window \in Nat
EnvironmentsAssumption == Environments \subseteq Environment

VARIABLES
  breaker,       \* the agents' breakers, None if there is none
  since,         \* history of each breaker, see Since
  environment    \* one of Environments, chosen at the start

vars == <<breaker, since, environment>>

-----------------------------------------------------------------------------
States == {"closed", "open", "half-open"}

\* The ages of the latest failures, newest first; Past when outside the window.
Past == Window + 1
Ranks == 1..FailureThreshold
Ages == [Ranks -> 0..Past]
NoFailures == [k \in Ranks |-> Past]

\* lastFailure: the age of lastFailureTime.  timer: ticks until it is due.
Breaker == [
  state : States,
  failures : Ages,
  successes : 0..SuccessThreshold,
  lastFailure : 0..(Timeout + 1) \cup {None},
  timer : 0..Timeout \cup {None}]
NoneAssumption == None \notin Nat /\ None \notin Breaker

NewBreaker == [state |-> "closed", failures |-> NoFailures, successes |-> 0,
               lastFailure |-> None, timer |-> None]

\* For how long it is open, the failures since it was closed, the successes since
\* it became half-open.
Since == [open : 0..Timeout, failures : Ages, trials : 0..SuccessThreshold]
NewSince == [open |-> 0, failures |-> NoFailures, trials |-> 0]

\* A closed breaker has no timer left that would open a later half state early.
TypeOK ==
  /\ breaker \in [Agents -> Breaker \cup {None}]
  /\ since \in [Agents -> Since]
  /\ environment \in Environments
  /\ \A a \in Agents : breaker[a] # None /\ breaker[a].state = "closed" => breaker[a].timer = None

UpTo(max, n) == IF n < max THEN n ELSE max
Push(ages) == [k \in Ranks |-> IF k = 1 THEN 0 ELSE ages[k - 1]]
Older(ages) == [k \in Ranks |-> UpTo(Past, ages[k] + 1)]

\* getRecentFailureCount() >= failureThreshold.
TooMany(ages) == ages[FailureThreshold] <= Window

-----------------------------------------------------------------------------
(* Transitions of a breaker.                                               *)

KeepPendingTimer(b) ==                       \* mutant: the old timer is kept
  [b EXCEPT !.timer = IF environment.autoRecovery /\ @ = None THEN Timeout ELSE @]
ScheduleReset(b) ==
  [b EXCEPT !.timer = IF environment.autoRecovery THEN Timeout ELSE @]

OpenWithoutReset(b) ==                       \* mutant: nothing is scheduled
  [b EXCEPT !.state = "open"]
OpenCircuit(b) == ScheduleReset([b EXCEPT !.state = "open"])

CloseCircuit(b) == [b EXCEPT !.state = "closed", !.successes = 0, !.timer = None]

CountOldSuccesses(b) ==                      \* mutant: successes are not counted anew
  IF b.state = "open" THEN [b EXCEPT !.state = "half-open"] ELSE b
TransitionToHalfOpen(b) ==
  IF b.state = "open" THEN [b EXCEPT !.state = "half-open", !.successes = 0] ELSE b

\* What every query of the state does first.
CheckAndTransitionHalfOpen(b) ==
  IF b.lastFailure # None /\ b.lastFailure > Timeout THEN TransitionToHalfOpen(b) ELSE b

\* Whether the failure that made b of old opens the circuit.
CountBefore(old, b) ==                       \* mutant: the failure itself is not counted
  b.state = "half-open" \/ (b.state = "closed" /\ TooMany(old.failures))
MustOpen(old, b) ==
  b.state = "half-open" \/ (b.state = "closed" /\ TooMany(b.failures))

\* What the history h notes of a change to the state `to`.
Noted(h, from, to) ==
  CASE from # "open" /\ to = "open" -> [h EXCEPT !.open = 0]
    [] from # "half-open" /\ to = "half-open" -> [h EXCEPT !.trials = 0]
    [] from # "closed" /\ to = "closed" -> [h EXCEPT !.failures = NoFailures]
    [] OTHER -> h

Become(a, b, h) ==
  /\ breaker' = [breaker EXCEPT ![a] = b]
  /\ since' = [since EXCEPT ![a] = h]
  /\ UNCHANGED environment

-----------------------------------------------------------------------------
Init ==
  /\ breaker = [a \in Agents |-> None]
  /\ since = [a \in Agents |-> NewSince]
  /\ environment \in Environments

\* LoadBalancer.recordSuccess: ignored without a breaker.
RecordSuccess(a) ==
  /\ breaker[a] # None
  /\ LET b == [breaker[a] EXCEPT !.successes = UpTo(SuccessThreshold, @ + 1)]
         h == [since[a] EXCEPT !.trials = UpTo(SuccessThreshold, @ + 1)]
         after == IF b.state = "half-open" /\ b.successes >= SuccessThreshold
                  THEN CloseCircuit(b) ELSE b
     IN Become(a, after, Noted(h, b.state, after.state))

\* LoadBalancer.recordFailure: getOrCreate, then the failure.
RecordFailure(a) ==
  LET old == IF breaker[a] = None THEN NewBreaker ELSE breaker[a]
      b == [old EXCEPT !.failures = Push(@), !.successes = 0, !.lastFailure = 0]
      h == [since[a] EXCEPT !.failures = Push(@), !.trials = 0]
      after == IF MustOpen(old, b) THEN OpenCircuit(b) ELSE b
  IN Become(a, after, Noted(h, b.state, after.state))

\* LoadBalancer.getHealthyAgents asks the breakers of the agents that the registry
\* of agents finds healthy.
GetHealthyAgents(healthy) ==
  LET asked == {a \in healthy : breaker[a] # None}
      after == [a \in asked |-> CheckAndTransitionHalfOpen(breaker[a])]
  IN
  /\ breaker' = [a \in Agents |-> IF a \in asked THEN after[a] ELSE breaker[a]]
  /\ since' = [a \in Agents |-> IF a \in asked
                                THEN Noted(since[a], breaker[a].state, after[a].state)
                                ELSE since[a]]
  /\ UNCHANGED environment

\* forceOpen, forceClose, reset, and remove of the registry.
ForceOpen(a) ==
  /\ environment.manual /\ breaker[a] # None /\ breaker[a].state # "open"
  /\ Become(a, OpenCircuit(breaker[a]), Noted(since[a], breaker[a].state, "open"))

ForceClose(a) ==
  /\ environment.manual /\ breaker[a] # None /\ breaker[a].state # "closed"
  /\ Become(a, CloseCircuit(breaker[a]), Noted(since[a], breaker[a].state, "closed"))

\* lastFailureTime stays as it was.
Reset(a) ==
  /\ environment.manual /\ breaker[a] # None
  /\ Become(a, [NewBreaker EXCEPT !.lastFailure = breaker[a].lastFailure], NewSince)

Remove(a) ==
  /\ environment.manual /\ breaker[a] # None
  /\ Become(a, None, NewSince)

\* The timer of scheduleReset, at once or late.
Fire(a) ==
  /\ breaker[a] # None /\ breaker[a].timer = 0
  /\ LET after == TransitionToHalfOpen([breaker[a] EXCEPT !.timer = None])
     IN Become(a, after, Noted(since[a], breaker[a].state, after.state))

Later(b) ==
  [b EXCEPT !.failures = Older(@),
            !.lastFailure = IF @ = None THEN None ELSE UpTo(Timeout + 1, @ + 1),
            !.timer = IF @ = None \/ @ = 0 THEN @ ELSE @ - 1]
Tick ==
  /\ breaker' = [a \in Agents |-> IF breaker[a] = None THEN None ELSE Later(breaker[a])]
  /\ since' = [a \in Agents |->
                 [since[a] EXCEPT !.open = UpTo(Timeout, @ + 1), !.failures = Older(@)]]
  /\ UNCHANGED environment

Next ==
  \/ \E a \in Agents :
       \/ RecordSuccess(a) \/ RecordFailure(a) \/ Fire(a)
       \/ ForceOpen(a) \/ ForceClose(a) \/ Reset(a) \/ Remove(a)
  \/ \E healthy \in SUBSET Agents : GetHealthyAgents(healthy)
  \/ Tick

Spec == Init /\ [][Next]_vars

\* Time passes, and the event loop comes to every timer that is due.
FairSpec == Spec /\ WF_vars(Tick) /\ \A a \in Agents : WF_vars(Fire(a))

-----------------------------------------------------------------------------
(* Properties.                                                             *)

InState(a, state) == breaker[a] # None /\ breaker[a].state = state

\* Failures are not overlooked: a breaker that is closed has seen fewer than
\* failureThreshold of them in the window since it was closed.
FailsFast == \A a \in Agents : InState(a, "closed") => ~TooMany(since[a].failures)

\* Without operators a circuit stays open for the timeout ("Timeout before attempting
\* reset in milliseconds"), although timers may be late, queries overtake them and
\* answers of old calls arrive while it is open.
OpenLasts ==
  [][~environment.manual
     => \A a \in Agents : InState(a, "open") /\ InState(a, "half-open")'
                          => since[a].open >= Timeout]_vars

\* Without operators a half-open circuit closes only on successThreshold successes
\* recorded since it became so; what old calls answered before does not count.
ProvenByTrials ==
  [][~environment.manual
     => \A a \in Agents : InState(a, "half-open") /\ InState(a, "closed")'
                          => since[a].trials + 1 >= SuccessThreshold]_vars

\* With autoRecovery no circuit stays open for ever, asked or not.
Retried ==
  environment.autoRecovery => \A a \in Agents : InState(a, "open") ~> ~InState(a, "open")
=============================================================================
