---------------------------- MODULE MCTaskQueue ----------------------------
(***************************************************************************)
(* Values for the constants of TaskQueue: agents that take one task at a   *)
(* time, tasks of different priority, and the environments of the runs.    *)
(***************************************************************************)
EXTENDS TaskQueue, TLC

CONSTANTS t1, t2

Levelled == [t \in Tasks |-> IF t = t1 THEN 2 ELSE 1]
IdOrder == [t \in Tasks |-> IF t = t1 THEN 1 ELSE 2]
OneSlot == [a \in Agents |-> 1]

\* Every command of the calls about one task interleaves.
Racing ==
  [tasks |-> {t1}, allowed |-> {"claim", "dequeue", "die", "replay", "delay"},
   serial |-> FALSE, timely |-> TRUE, maxFaults |-> 0, maxReplays |-> 1, maxCredit |-> 3]

\* A call may be cut short or a key expire.
Faulty ==
  [Racing EXCEPT !.allowed = {"claim", "dequeue", "die", "progress", "expire"},
                 !.maxFaults = 1, !.maxReplays = 0, !.maxCredit = 2]

\* Calls follow each other, on two tasks.
Serially ==
  [tasks |-> {t1, t2},
   allowed |-> {"claim", "dequeue", "delay", "cancel", "replay", "die", "unregister", "leave", "heartbeat"},
   serial |-> TRUE, timely |-> TRUE, maxFaults |-> 0, maxReplays |-> 1, maxCredit |-> 2]

\* Agents that die, with tasks that a client claims for them.
Dying == [Racing EXCEPT !.allowed = {"claim", "die", "delay", "cancel"}, !.maxReplays = 0]

\* An agent's heartbeat may be late while it runs: no run has this one, where
\* LoadAgrees does not hold (README.md).
LateHeartbeat ==
  [Serially EXCEPT !.tasks = {t1}, !.allowed = {"dequeue", "heartbeat"}, !.timely = FALSE]

\* A client may cancel a task while an agent works on it: no run has this one,
\* where FinishedIsFinal does not hold (README.md).
CancelsHeld == [Serially EXCEPT !.tasks = {t1}, !.allowed = {"dequeue", "cancelHeld"}]

RacingFaultySerially == {Racing, Faulty, Serially}
OnlyDying == {Dying}
OnlyLateHeartbeat == {LateHeartbeat}
OnlyCancelsHeld == {CancelsHeld}
=============================================================================
