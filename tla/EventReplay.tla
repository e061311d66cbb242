---------------------------- MODULE EventReplay ----------------------------
(***************************************************************************)
(* EventReplayEngine of src/src/loop/event-replay.ts.  A replay handles    *)
(* the events of each correlation group in order, up to MaxWorkers groups  *)
(* at a time behind a semaphore; a sequential replay is one group.  A      *)
(* group that throws rejects Promise.all, and the replay is over while     *)
(* other groups still wait or handle events; a next replay can start       *)
(* beside them, and all of them look at the same abort controller.         *)
(***************************************************************************)
EXTENDS Integers, Sequences, FiniteSets

CONSTANTS
  EventsOf,    \* the number of events of each correlation group, in order
  MaxWorkers,
  MaxFailed,   \* failures that maxFailureRate allows
  MaxReplays   \* bound: replays that are started

GroupsAssumption == EventsOf \in Seq(Nat \ {0})
WorkersAssumption == MaxWorkers \in Nat \ {0}
BoundsAssumption == MaxFailed \in Nat /\ MaxReplays \in Nat

VARIABLES
  isRunning,
  aborted,     \* the signal of the current abort controller
  stopOnError, \* the option of the replays; it never changes
  replays      \* the replays started so far, the last one current

vars == <<isRunning, aborted, stopOnError, replays>>

GroupCount == Len(EventsOf)
Groups == 1..GroupCount

Init ==
  /\ isRunning = FALSE
  /\ aborted = FALSE
  /\ stopOnError \in BOOLEAN
  /\ replays = <<>>

Worker == [at : {"queued", "ready", "handling", "done", "thrown"}, handled : Nat]
Active == {"ready", "handling"}

-----------------------------------------------------------------------------
\* The groups that wait at the semaphore from the start, in order.
Waiting == [i \in 1..(GroupCount - MaxWorkers) |-> MaxWorkers + i]

\* replay(): fetching the events, and the groups' first acquire.
Replay ==
  /\ ~isRunning
  /\ Len(replays) < MaxReplays
  /\ isRunning' = (GroupCount > 0)
  /\ aborted' = FALSE
  /\ replays' = Append(replays,
       [worker |-> [g \in Groups |-> [at |-> IF g <= MaxWorkers THEN "ready" ELSE "queued", handled |-> 0]],
        queue |-> Waiting,
        failed |-> 0, outcome |-> IF GroupCount = 0 THEN "completed" ELSE "none"])
  /\ UNCHANGED stopOnError

\* A group ends, returning or throwing; finally releases the semaphore to
\* the first group that waits for it.
Released(r) ==
  IF r.queue = <<>> THEN r
  ELSE [r EXCEPT !.worker[Head(r.queue)].at = "ready", !.queue = Tail(@)]
NotAfterThrow(r) == IF \E g \in Groups : r.worker[g].at = "thrown" THEN r ELSE Released(r)   \* mutant: the place is not handed on
AfterGroup(r) == Released(r)

\* Promise.all: the first throw, or the last return, settles the replay.
Settles(r) ==
  IF r.outcome # "none" THEN r.outcome
  ELSE IF \E g \in Groups : r.worker[g].at = "thrown" THEN "rejected"
  ELSE IF \A g \in Groups : r.worker[g].at = "done" THEN "completed" ELSE "none"

Become(n, r) ==
  LET settled == [r EXCEPT !.outcome = Settles(r)]
  IN /\ replays' = [replays EXCEPT ![n] = settled]
     /\ isRunning' = (isRunning /\ replays[n].outcome = settled.outcome)
  /\ UNCHANGED <<aborted, stopOnError>>

EndGroup(r, g, at) == AfterGroup([r EXCEPT !.worker[g].at = at])

\* The loop of a group: the abort signal, then the next event's handlers.
Take(n, g) ==
  LET r == replays[n]
  IN /\ r.worker[g].at = "ready"
     /\ IF aborted THEN Become(n, EndGroup(r, g, "thrown"))
        ELSE Become(n, [r EXCEPT !.worker[g].at = "handling"])

AfterEvent(r, g) ==
  LET s == [r EXCEPT !.worker[g].handled = @ + 1]
  IN IF s.worker[g].handled = EventsOf[g] THEN EndGroup(s, g, "done") ELSE [s EXCEPT !.worker[g].at = "ready"]

Processed(n, g) ==
  /\ replays[n].worker[g].at = "handling"
  /\ Become(n, AfterEvent(replays[n], g))

TooManyFailures(failed) == failed > MaxFailed
Failed(n, g) ==
  LET s == [replays[n] EXCEPT !.failed = @ + 1]
  IN /\ replays[n].worker[g].at = "handling"
     /\ IF stopOnError \/ TooManyFailures(s.failed)
        THEN Become(n, EndGroup(s, g, "thrown"))
        ELSE Become(n, AfterEvent(s, g))

Abort ==
  /\ isRunning
  /\ aborted' = TRUE
  /\ UNCHANGED <<isRunning, stopOnError, replays>>

Work(n, g) == n \in DOMAIN replays /\ (Take(n, g) \/ Processed(n, g) \/ Failed(n, g))

Next ==
  \/ Replay \/ Abort
  \/ \E n \in 1..MaxReplays, g \in Groups : Work(n, g)

Spec == Init /\ [][Next]_vars

\* Handlers return or throw, and groups go on.
Fairness ==
  \A n \in 1..MaxReplays, g \in Groups : WF_vars(Work(n, g))
FairSpec == Spec /\ Fairness

-----------------------------------------------------------------------------
Replays == [worker : [Groups -> Worker], queue : Seq(Groups), failed : Nat,
            outcome : {"none", "completed", "rejected"}]

TypeOK ==
  /\ isRunning \in BOOLEAN
  /\ aborted \in BOOLEAN
  /\ stopOnError \in BOOLEAN
  /\ replays \in Seq(Replays)

\* At most MaxWorkers groups of a replay are at work, and a free place never
\* leaves a group queued, also where groups throw.
WorkersKept ==
  \A n \in DOMAIN replays :
    LET r == replays[n]
        active == {g \in Groups : r.worker[g].at \in Active}
        queued == {g \in Groups : r.worker[g].at = "queued"}
    IN /\ Cardinality(active) <= MaxWorkers
       /\ queued # {} => Cardinality(active) = MaxWorkers

\* A replay that completes has handled every event with no more failures
\* than it may have, and none where errors stop it.
CompletedIsWhole ==
  \A n \in DOMAIN replays :
    replays[n].outcome = "completed" =>
      /\ \A g \in Groups : replays[n].worker[g].handled = EventsOf[g]
      /\ replays[n].failed <= IF stopOnError THEN 0 ELSE MaxFailed

\* A replay ends, also when it is aborted or fails, with every group of it.
GroupsEnd ==
  \A n \in 1..MaxReplays : n \in DOMAIN replays ~> n \in DOMAIN replays /\
    \A g \in Groups : replays[n].worker[g].at \in {"done", "thrown"}
=============================================================================
