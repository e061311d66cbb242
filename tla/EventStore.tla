----------------------------- MODULE EventStore -----------------------------
(***************************************************************************)
(* PostgresEventStore of src/src/loop/event-store.ts: events are buffered  *)
(* and written in batches.  A flush takes the buffer and sends BEGIN, one  *)
(* INSERT per event and COMMIT, awaiting each answer; on an error it sends *)
(* ROLLBACK and puts the batch back in front of the buffer.  Flushes are   *)
(* started by a full buffer, by the timer, by every read and by close, and *)
(* nothing keeps a second one from starting while the first one runs: both *)
(* then speak on the one session of the database (external), whose         *)
(* transaction they share.                                                 *)
(***************************************************************************)
EXTENDS Integers, Sequences, FiniteSets

CONSTANTS
  Events,       \* each appended once
  Flushers,     \* flushes that can be running together
  BatchSize,
  MaxFailures   \* bound: queries that fail

BatchAssumption == BatchSize \in Nat \ {0}
FailuresAssumption == MaxFailures \in Nat

VARIABLES
  appended,  \* the events handed to append
  buffer,    \* events that wait for a flush
  flush,     \* each flush that may be running
  table,     \* the committed rows
  session,   \* the transaction of the database session
  timer,     \* the flush timer is set
  failures,  \* failed queries so far
  overlap    \* some flush has started while another one ran

vars == <<appended, buffer, flush, table, session, timer, failures, overlap>>

Causes == {"append", "timer", "read", "close"}
Steps == {"idle", "begin", "insert", "commit", "rollback", "select"}

NotRunning == [at |-> "idle", why |-> "timer", batch |-> <<>>, next |-> 1]
NoTransaction == [status |-> "none", rows |-> {}]

Init ==
  /\ appended = {}
  /\ buffer = <<>>
  /\ flush = [f \in Flushers |-> NotRunning]
  /\ table = {}
  /\ session = NoTransaction
  /\ timer = TRUE
  /\ failures = 0
  /\ overlap = FALSE

Elements(s) == {s[i] : i \in DOMAIN s}
Running == {f \in Flushers : flush[f].at # "idle"}

-----------------------------------------------------------------------------
(* Flushing *)

\* flush(): an empty buffer is nothing to do, also while its events are in
\* the batch of another flush; a read then selects at once.
Start(f, why, events) ==
  /\ flush[f].at = "idle"
  /\ flush' = [flush EXCEPT ![f] =
       [at |-> IF events # <<>> THEN "begin" ELSE IF why = "read" THEN "select" ELSE "idle",
        why |-> why, batch |-> events, next |-> 1]]
  /\ buffer' = <<>>
  /\ overlap' = (overlap \/ (events # <<>> /\ Running # {}))

\* append(): a full buffer is flushed.
AppendEvent(e) ==
  /\ e \notin appended
  /\ appended' = appended \cup {e}
  /\ IF Len(buffer) + 1 >= BatchSize
     THEN \E f \in Flushers : Start(f, "append", Append(buffer, e))
     ELSE buffer' = Append(buffer, e) /\ UNCHANGED <<flush, overlap>>
  /\ UNCHANGED <<table, session, timer, failures>>

\* The interval timer.
TimerFlushFull ==                            \* mutant: only full batches
  /\ timer
  /\ Len(buffer) >= BatchSize
  /\ \E f \in Flushers : Start(f, "timer", buffer)
  /\ UNCHANGED <<appended, table, session, timer, failures>>

TimerFlush ==
  /\ timer
  /\ buffer # <<>>
  /\ \E f \in Flushers : Start(f, "timer", buffer)
  /\ UNCHANGED <<appended, table, session, timer, failures>>

\* getStream, getAll, getByType and getBySource.
Read(f) ==
  /\ Start(f, "read", buffer)
  /\ UNCHANGED <<appended, table, session, timer, failures>>

\* close(): the timer is cleared first.
Close(f) ==
  /\ timer
  /\ timer' = FALSE
  /\ Start(f, "close", buffer)
  /\ UNCHANGED <<appended, table, session, failures>>

-----------------------------------------------------------------------------
(* The session (external): each flush's next query, in any order *)

\* A failed statement aborts the transaction of the session.
Fail ==
  /\ failures < MaxFailures
  /\ failures' = failures + 1
  /\ session' = IF session.status = "none" THEN session ELSE [session EXCEPT !.status = "failed"]

Goes(f, at) == flush' = [flush EXCEPT ![f].at = at]

Begin(f) ==
  /\ flush[f].at = "begin"
  /\ \/ /\ session.status = "failed"
        /\ Goes(f, "rollback")
        /\ UNCHANGED <<session, failures>>
     \/ /\ session.status # "failed"
        /\ session' = [session EXCEPT !.status = "open"]
        /\ Goes(f, "insert")
        /\ UNCHANGED failures
     \/ Fail /\ Goes(f, "rollback")
  /\ UNCHANGED <<appended, buffer, table, timer, overlap>>

\* ON CONFLICT (id) DO NOTHING; without a transaction it commits by itself.
Insert(f) ==
  /\ flush[f].at = "insert"
  /\ LET e == flush[f].batch[flush[f].next]
         last == flush[f].next = Len(flush[f].batch)
     IN \/ /\ session.status = "failed"
           /\ Goes(f, "rollback")
           /\ UNCHANGED <<session, table, failures>>
        \/ /\ session.status # "failed"
           /\ IF session.status = "open"
              THEN session' = [session EXCEPT !.rows = @ \cup {e}] /\ UNCHANGED table
              ELSE table' = table \cup {e} /\ UNCHANGED session
           /\ flush' = [flush EXCEPT ![f].next = @ + 1, ![f].at = IF last THEN "commit" ELSE "insert"]
           /\ UNCHANGED failures
        \/ Fail /\ Goes(f, "rollback") /\ UNCHANGED table
  /\ UNCHANGED <<appended, buffer, timer, overlap>>

Ends(f) ==
  flush' = [flush EXCEPT ![f] =
    IF @.why = "read" THEN [@ EXCEPT !.at = "select", !.batch = <<>>] ELSE NotRunning]

\* COMMIT of an aborted transaction rolls back and is no error.
Commit(f) ==
  /\ flush[f].at = "commit"
  /\ \/ /\ table' = IF session.status = "open" THEN table \cup session.rows ELSE table
        /\ session' = NoTransaction
        /\ Ends(f)
        /\ UNCHANGED failures
     \/ Fail /\ Goes(f, "rollback") /\ UNCHANGED table
  /\ UNCHANGED <<appended, buffer, timer, overlap>>

\* The answer to ROLLBACK: the batch goes back and the error is thrown.
Forget(batch) == UNCHANGED buffer            \* mutant: the batch is not put back
PutBack(batch) == buffer' = batch \o buffer

Rollback(f) ==
  /\ flush[f].at = "rollback"
  /\ session' = NoTransaction
  /\ PutBack(flush[f].batch)
  /\ flush' = [flush EXCEPT ![f] = NotRunning]
  /\ UNCHANGED <<appended, table, timer, failures, overlap>>

\* The SELECT of a read returns.
Select(f) ==
  /\ flush[f].at = "select"
  /\ flush' = [flush EXCEPT ![f] = NotRunning]
  /\ UNCHANGED <<appended, buffer, table, session, timer, failures, overlap>>

Step(f) == Begin(f) \/ Insert(f) \/ Commit(f) \/ Rollback(f) \/ Select(f)

Next ==
  \/ \E e \in Events : AppendEvent(e)
  \/ TimerFlush
  \/ \E f \in Flushers : Read(f) \/ Close(f) \/ Step(f)

Spec == Init /\ [][Next]_vars

\* The session answers, and the interval timer goes on firing.
Fairness == WF_vars(TimerFlush) /\ \A f \in Flushers : WF_vars(Step(f))
FairSpec == Spec /\ Fairness

-----------------------------------------------------------------------------
TypeOK ==
  /\ appended \subseteq Events
  /\ buffer \in Seq(Events)
  /\ flush \in [Flushers -> [at : Steps, why : Causes, batch : Seq(Events), next : Nat]]
  /\ table \subseteq Events
  /\ session \in [status : {"none", "open", "failed"}, rows : SUBSET Events]
  /\ timer \in BOOLEAN
  /\ failures \in 0..MaxFailures
  /\ overlap \in BOOLEAN

Batches == UNION {Elements(flush[f].batch) : f \in Running}

\* No event is lost between append, buffer, batches and table, through
\* flushes that overlap and through failures; only both together lose some.
NoneLost == (failures = 0 \/ ~overlap) => appended = Elements(buffer) \cup Batches \cup table

\* Until the store is closed, buffered events get to the table, or back to
\* the buffer by a failure.
BufferFlushed == \A e \in Events : (e \in Elements(buffer) /\ timer) ~> (e \notin Elements(buffer) \/ ~timer)
=============================================================================
