---------------------------- MODULE Transactions ----------------------------
(***************************************************************************)
(* TransactionManager (src/src/storage/transaction.ts) over a pool of pg   *)
(* clients.  withTransaction takes a client, sends BEGIN, races the        *)
(* operation against a timer and sends COMMIT or ROLLBACK.  The operation  *)
(* is a thread of its own: when the timer wins, it is not stopped, and     *)
(* goes on sending its queries to a client that is rolled back, returned,  *)
(* and perhaps serving another call.                                       *)
(*                                                                         *)
(* A row is the log of the writes committed to it; its version column is   *)
(* the number of those made by updateWithOptimisticLock.  A client sends   *)
(* its queries one at a time, in order.  The server (external) is          *)
(* PostgreSQL at READ COMMITTED: a write locks its row until its           *)
(* transaction ends, an update that waited looks at the row again, an      *)
(* error aborts the transaction, and COMMIT of an aborted one rolls back   *)
(* without an error.                                                       *)
(***************************************************************************)
EXTENDS Integers, Sequences, FiniteSets

CONSTANTS
  Callers,      \* calls of withTransaction, each made once
  Clients,      \* the connections of the pool
  Rows,
  Work,         \* the statements of the operation of each call
  MaxAttempts,  \* option maxRetries
  None

Kinds == {"lock", "add", "swap"}
Statement == [kind : Kinds, row : Rows, guarded : BOOLEAN]

ASSUME WorkAssumption == Work \in [Callers -> Seq(Statement)]
ASSUME AttemptsAssumption == MaxAttempts \in Nat \ {0}
ASSUME NoneAssumption == None \notin Clients

VARIABLES
  rows,   \* the committed writes of each row
  conn,   \* the server's side of each connection
  queue,  \* the queries each client has not answered
  idle,   \* the clients that are in the pool
  call    \* each call: its main thread, its operation, its context

vars == <<rows, conn, queue, idle, call>>

Write == Callers \X Nat
Logs == [Rows -> Seq(Write)]
NoWrites == [r \in Rows |-> <<>>]
Idle == [status |-> "idle", pending |-> NoWrites, savepoints |-> <<>>]
Savepoint == [name : Write, pending : Logs]

Phases == {"save", "write", "release", "undo", "raise", "return"}
Mains == {"new", "begin", "operating", "commit", "rollback", "backoff", "ok", "failed"}
Errors == {"none", "conflict", "deadlock", "cancelled", "aborted", "timeout", "broken"}

Query == [call : Callers, from : {"main", "operation", "force"}, attempt : Nat,
          what : {"begin", "commit", "rollback"} \cup Phases]

Init ==
  /\ rows = NoWrites
  /\ conn = [c \in Clients |-> Idle]
  /\ queue = [c \in Clients |-> <<>>]
  /\ idle = Clients
  /\ call = [t \in Callers |->
       [main |-> "new", attempt |-> 0, client |-> None, active |-> FALSE,
        forced |-> FALSE, error |-> "none", seen |-> NoWrites,
        op |-> "idle", step |-> 1, phase |-> "write"]]

-----------------------------------------------------------------------------
(* Helpers *)

Now(t) == Work[t][call[t].step]
Holds(t, c) == call[t].client = c /\ call[t].main \in {"begin", "operating", "commit", "rollback", "backoff"}

Send(c, t, from, what) ==
  queue' = [queue EXCEPT ![c] =
    Append(@, [call |-> t, from |-> from, attempt |-> call[t].attempt, what |-> what])]

IsLock(w) == Work[w[1]][w[2]].kind = "lock"
Version(log) == Len(SelectSeq(log, IsLock))

\* isRetryableError: of the errors that reach it, a deadlock.
IsRetryable(error) == error = "deadlock"

Retries(k, error) == IsRetryable(error) /\ k.attempt < MaxAttempts

\* The operation k at statement i: guarded statements run in withSavepoint.
AtStep(k, t, i) ==
  [k EXCEPT !.op = "ready", !.step = i,
            !.phase = IF i > Len(Work[t]) THEN "return"
                      ELSE IF Work[t][i].guarded THEN "save" ELSE "write"]

\* withSavepoint catches every error to undo, and its caller goes on; an
\* error of any other statement leaves the operation.
Fails(k, t, error) ==
  IF k.phase = "undo" THEN AtStep(k, t, k.step + 1)
  ELSE IF Work[t][k.step].guarded THEN [k EXCEPT !.op = "ready", !.phase = "undo"]
  ELSE [k EXCEPT !.op = "ready", !.phase = "raise", !.error = IF k.error = "timeout" THEN k.error ELSE error]

Succeeds(k, t) ==
  CASE k.phase = "save" -> [k EXCEPT !.op = "ready", !.phase = "write"]
    [] k.phase = "write" /\ Work[t][k.step].guarded -> [k EXCEPT !.op = "ready", !.phase = "release"]
    [] OTHER -> AtStep(k, t, k.step + 1)

\* finally: the context ends and the client returns to the pool.
Release(t, outcome) ==
  /\ call' = [call EXCEPT ![t].main = outcome, ![t].active = FALSE]
  /\ idle' = idle \cup {call[t].client}

-----------------------------------------------------------------------------
(* withTransaction and its operation *)

\* pool.connect() and BEGIN with its settings.  The caller read the rows
\* before its first attempt: expectedVersion does not change with a retry.
Connect(t, c) ==
  /\ call[t].main = "new"
  /\ c \in idle
  /\ idle' = idle \ {c}
  /\ call' = [call EXCEPT ![t].main = "begin", ![t].client = c, ![t].active = TRUE,
                          ![t].attempt = @ + 1,
                          ![t].seen = IF call[t].attempt = 0 THEN rows ELSE @]
  /\ queue' = [queue EXCEPT ![c] =
       Append(@, [call |-> t, from |-> "main", attempt |-> call[t].attempt + 1, what |-> "begin"])]
  /\ UNCHANGED <<rows, conn>>

\* The next query of the operation.  withSavepoint refuses to start when the
\* context is no longer active.
Issue(t) ==
  /\ call[t].op = "ready" /\ call[t].phase \notin {"raise", "return"}
  /\ IF call[t].phase = "save" /\ ~call[t].active
     THEN call' = [call EXCEPT ![t] = AtStep(call[t], t, call[t].step + 1)] /\ UNCHANGED queue
     ELSE /\ call' = [call EXCEPT ![t].op = "sent"]
          /\ Send(call[t].client, t, "operation", call[t].phase)
  /\ UNCHANGED <<rows, conn, idle>>

\* The operation returns or throws: it settles the race if the timer has not.
SettleReturnOnly(t) ==                       \* mutant: only a value settles the race
  /\ call[t].op = "ready" /\ call[t].phase \in {"raise", "return"}
  /\ LET raced == call[t].main = "operating" /\ call[t].phase = "return"
     IN /\ call' = [call EXCEPT ![t].op = "over", ![t].main = IF raced THEN "commit" ELSE @]
        /\ IF raced THEN Send(call[t].client, t, "main", "commit") ELSE UNCHANGED queue
  /\ UNCHANGED <<rows, conn, idle>>

Settle(t) ==
  /\ call[t].op = "ready" /\ call[t].phase \in {"raise", "return"}
  /\ LET what == IF call[t].phase = "return" THEN "commit" ELSE "rollback"
         raced == call[t].main = "operating"
     IN /\ call' = [call EXCEPT ![t].op = "over", ![t].main = IF raced THEN what ELSE @]
        /\ IF raced THEN Send(call[t].client, t, "main", what) ELSE UNCHANGED queue
  /\ UNCHANGED <<rows, conn, idle>>

\* The timer wins the race.
TimeOutAndRelease(t) ==                      \* mutant: the timer releases the client too
  /\ call[t].main = "operating"
  /\ call' = [call EXCEPT ![t].main = "failed", ![t].active = FALSE, ![t].error = "timeout"]
  /\ idle' = idle \cup {call[t].client}
  /\ UNCHANGED <<rows, conn, queue>>

TimeOut(t) ==
  /\ call[t].main = "operating"
  /\ call' = [call EXCEPT ![t].main = "rollback", ![t].error = "timeout"]
  /\ Send(call[t].client, t, "main", "rollback")
  /\ UNCHANGED <<rows, conn, idle>>

\* The delay before a retry ends; the client was held all along.
BackOff(t) ==
  /\ call[t].main = "backoff"
  /\ Release(t, "new")
  /\ UNCHANGED <<rows, conn, queue>>

\* forceRollback of the transaction of a call.
ForceRollback(t) ==
  /\ call[t].active
  /\ ~\E c \in Clients : \E i \in DOMAIN queue[c] : queue[c][i].call = t /\ queue[c][i].from = "force"
  /\ Send(call[t].client, t, "force", "rollback")
  /\ UNCHANGED <<rows, conn, idle, call>>

-----------------------------------------------------------------------------
(* The server (external) and the answers *)

Asked(c, what) == queue[c] # <<>> /\ Head(queue[c]).what = what
Asker(c) == Head(queue[c]).call
Answer(c) == queue' = [queue EXCEPT ![c] = Tail(@)]

\* The row that the statement at the head writes is locked by others.
Blockers(c) ==
  IF Asked(c, "write") /\ conn[c].status # "failed"
  THEN {d \in Clients \ {c} : conn[d].pending[Now(Asker(c)).row] # <<>>}
  ELSE {}

\* An error aborts the transaction back to its last savepoint's locks.
Abort(k) ==
  IF k.status = "idle" THEN k
  ELSE [k EXCEPT !.status = "failed",
                 !.pending = IF k.savepoints = <<>> THEN NoWrites
                             ELSE k.savepoints[Len(k.savepoints)].pending]

Begin(c) ==
  /\ Asked(c, "begin")
  /\ conn' = [conn EXCEPT ![c].status = "open"]
  /\ call' = [call EXCEPT ![Asker(c)] = AtStep([call[Asker(c)] EXCEPT !.main = "operating"], Asker(c), 1)]
  /\ Answer(c)
  /\ UNCHANGED <<rows, idle>>

\* WHERE version = expectedVersion, WHERE column = expectedValue, or none.
MatchesAnyVersion(t, log) == Now(t).kind = "swap" => log = call[t].seen[Now(t).row]   \* mutant: the version is not compared
Matches(t, log) ==
  CASE Now(t).kind = "lock" -> Version(log) = Version(call[t].seen[Now(t).row])
    [] Now(t).kind = "swap" -> log = call[t].seen[Now(t).row]
    [] OTHER -> TRUE

\* compareAndSwap returns null where updateWithOptimisticLock throws.
NoRowIsFine(t) == Now(t).kind \in {"swap", "lock"}   \* mutant: a stale lock returns null, too
NullOnMiss(t) == Now(t).kind = "swap"

WriteRow(c) ==
  /\ Asked(c, "write") /\ Blockers(c) = {}
  /\ LET t == Asker(c)
         r == Now(t).row
         w == <<t, call[t].step>>
         hit == conn[c].status # "failed" /\ Matches(t, rows[r] \o conn[c].pending[r])
         ok == hit \/ (conn[c].status # "failed" /\ NullOnMiss(t))
     IN /\ call' = [call EXCEPT ![t] =
             IF ok THEN Succeeds(call[t], t)
             ELSE Fails(call[t], t, IF conn[c].status = "failed" THEN "aborted" ELSE "conflict")]
        /\ rows' = IF hit /\ conn[c].status = "idle" THEN [rows EXCEPT ![r] = Append(@, w)] ELSE rows
        /\ conn' = IF hit /\ conn[c].status = "open"
                   THEN [conn EXCEPT ![c].pending[r] = Append(@, w)] ELSE conn
  /\ Answer(c)
  /\ UNCHANGED idle

\* A waiting statement fails: it closes a cycle of waiting transactions, or
\* statement_timeout cancels it.
Waits(c, d) == d \in Blockers(c)
OnCycle(c) ==
  \E S \in SUBSET Clients :
    /\ c \in S
    /\ \A d \in S : (\E e \in S : Waits(d, e)) /\ (\E e \in S : Waits(e, d))

FailWrite(c, error) ==
  /\ Blockers(c) # {}
  /\ call' = [call EXCEPT ![Asker(c)] = Fails(call[Asker(c)], Asker(c), error)]
  /\ conn' = [conn EXCEPT ![c] = Abort(conn[c])]
  /\ Answer(c)
  /\ UNCHANGED <<rows, idle>>

Deadlock(c) == OnCycle(c) /\ FailWrite(c, "deadlock")
Cancel(c) == FailWrite(c, "cancelled")

\* SAVEPOINT, RELEASE SAVEPOINT and ROLLBACK TO SAVEPOINT.
Savepoints(c) ==
  /\ queue[c] # <<>> /\ Head(queue[c]).what \in {"save", "release", "undo"}
  /\ LET t == Asker(c)
         k == conn[c]
         name == <<t, call[t].step>>
         At == {i \in DOMAIN k.savepoints : k.savepoints[i].name = name}
         what == Head(queue[c]).what
         good == \/ what = "save" /\ k.status = "open"
                 \/ what = "release" /\ k.status = "open" /\ At # {}
                 \/ what = "undo" /\ k.status # "idle" /\ At # {}
     IN /\ call' = [call EXCEPT ![t] = IF good THEN Succeeds(call[t], t) ELSE Fails(call[t], t, "aborted")]
        /\ \/ /\ ~good
              /\ conn' = [conn EXCEPT ![c] = IF k.status = "failed" THEN k ELSE Abort(k)]
           \/ /\ good /\ what = "save"
              /\ conn' = [conn EXCEPT ![c].savepoints = Append(@, [name |-> name, pending |-> k.pending])]
           \/ /\ good /\ what # "save"
              /\ \E i \in At :
                   conn' = [conn EXCEPT ![c] =
                     IF what = "release" THEN [k EXCEPT !.savepoints = SubSeq(k.savepoints, 1, i - 1)]
                     ELSE [status |-> "open", pending |-> k.savepoints[i].pending,
                           savepoints |-> SubSeq(k.savepoints, 1, i)]]
  /\ Answer(c)
  /\ UNCHANGED <<rows, idle>>

Committed(c) == [r \in Rows |-> rows[r] \o conn[c].pending[r]]

\* Without a transaction, or in an aborted one, COMMIT succeeds as well.
Commit(c) ==
  /\ Asked(c, "commit")
  /\ rows' = IF conn[c].status = "open" THEN Committed(c) ELSE rows
  /\ conn' = [conn EXCEPT ![c] = Idle]
  /\ Release(Asker(c), "ok")
  /\ Answer(c)

\* The answer to ROLLBACK: a retry after a delay, or the error is thrown.
Rollback(c) ==
  /\ Asked(c, "rollback") /\ Head(queue[c]).from = "main"
  /\ conn' = [conn EXCEPT ![c] = Idle]
  /\ LET t == Asker(c)
     IN IF Retries(call[t], call[t].error)
        THEN call' = [call EXCEPT ![t].main = "backoff", ![t].error = "none"] /\ UNCHANGED idle
        ELSE Release(t, "failed")
  /\ Answer(c)
  /\ UNCHANGED rows

\* The answer to the ROLLBACK of forceRollback ends the context it named.
Forced(c) ==
  /\ Asked(c, "rollback") /\ Head(queue[c]).from = "force"
  /\ conn' = [conn EXCEPT ![c] = Idle]
  /\ LET t == Asker(c)
         same == Head(queue[c]).attempt = call[t].attempt
     IN call' = [call EXCEPT ![t].active = @ /\ ~same, ![t].forced = TRUE]
  /\ Answer(c)
  /\ UNCHANGED <<rows, idle>>

\* The connection is lost: the server rolls back, unless a COMMIT was
\* already done, every query is rejected, and the pool makes a new client.
\* A ROLLBACK that is rejected keeps the error it was sent for.
Break(c) ==
  /\ queue[c] # <<>>
  /\ LET live == {t \in Callers : call[t].client = c /\ (Holds(t, c) \/ call[t].op \in {"ready", "sent"})}
         caught == {t \in live : Holds(t, c) /\ call[t].main # "backoff"}
         Reason(t) == IF call[t].main = "rollback" THEN call[t].error ELSE "broken"
         failed == {t \in caught : ~Retries(call[t], Reason(t))}
     IN /\ call' = [t \in Callers |->
             IF t \notin live THEN call[t]
             ELSE [call[t] EXCEPT
                    !.op = "over",
                    !.main = IF t \in failed THEN "failed" ELSE IF t \in caught THEN "backoff" ELSE @,
                    !.active = @ /\ t \notin failed,
                    !.error = IF t \in failed THEN Reason(t) ELSE IF t \in caught THEN "none" ELSE @]]
        /\ idle' = IF failed = {} THEN idle ELSE idle \cup {c}
  /\ rows' \in IF Asked(c, "commit") /\ conn[c].status = "open" THEN {rows, Committed(c)} ELSE {rows}
  /\ conn' = [conn EXCEPT ![c] = Idle]
  /\ queue' = [queue EXCEPT ![c] = <<>>]

-----------------------------------------------------------------------------
Operation(t) == Issue(t) \/ Settle(t) \/ BackOff(t)
Serve(c) ==
  Begin(c) \/ WriteRow(c) \/ Savepoints(c) \/ Commit(c) \/ Rollback(c) \/ Forced(c)

Ended == \A t \in Callers : call[t].main \in {"ok", "failed"} /\ call[t].op \in {"idle", "over"}
Terminated == Ended /\ (\A c \in Clients : queue[c] = <<>>) /\ UNCHANGED vars

Next ==
  \/ \E t \in Callers : \/ \E c \in Clients : Connect(t, c)
                        \/ Operation(t) \/ TimeOut(t) \/ ForceRollback(t)
  \/ \E c \in Clients : Serve(c) \/ Deadlock(c) \/ Cancel(c) \/ Break(c)
  \/ Terminated

Spec == Init /\ [][Next]_vars

\* The server answers what it can and breaks cycles, the code of operations
\* goes on, and the pool hands out a free client.
Fairness ==
  /\ \A t \in Callers : WF_vars(Operation(t)) /\ SF_vars(\E c \in Clients : Connect(t, c))
  /\ \A c \in Clients : WF_vars(Serve(c)) /\ WF_vars(Deadlock(c))

FairSpec == Spec /\ Fairness

-----------------------------------------------------------------------------
TypeOK ==
  /\ rows \in Logs
  /\ conn \in [Clients -> [status : {"idle", "open", "failed"}, pending : Logs,
                           savepoints : Seq(Savepoint)]]
  /\ queue \in [Clients -> Seq(Query)]
  /\ idle \subseteq Clients
  /\ call \in [Callers ->
       [main : Mains, attempt : 0..MaxAttempts, client : Clients \cup {None},
        active : BOOLEAN, forced : BOOLEAN, error : Errors, seen : Logs,
        op : {"idle", "ready", "sent", "over"}, step : Nat, phase : Phases]]

\* A client is in the pool or held by exactly one call, and one in the pool
\* has no transaction, whoever's timer, rollback or operation came last.
PoolClean ==
  \A c \in Clients :
    /\ \A t, u \in Callers : Holds(t, c) /\ Holds(u, c) => t = u
    /\ c \in idle <=> ~\E t \in Callers : Holds(t, c)
    /\ c \in idle => conn[c] = Idle

\* Optimistic locking loses no update: the n-th versioned write of a row was
\* made by a call that had seen n - 1 of them, retried and stray ones included.
InTurn ==
  \A r \in Rows : \A i \in DOMAIN rows[r] :
    IsLock(rows[r][i]) =>
      Version(SubSeq(rows[r], 1, i - 1)) = Version(call[rows[r][i][1]].seen[r])

\* No statement of a call takes effect twice, whatever is retried, timed
\* out, forced back or lost.
AppliedOnce ==
  \A r, q \in Rows : \A i \in DOMAIN rows[r], j \in DOMAIN rows[q] :
    rows[r][i] = rows[q][j] => r = q /\ i = j

Applied(t, i) == \E n \in DOMAIN rows[Work[t][i].row] : rows[Work[t][i].row][n] = <<t, i>>
Required(t) == {i \in DOMAIN Work[t] : ~Work[t][i].guarded /\ Work[t][i].kind # "swap"}
Undisturbed == \A t \in Callers : call[t].error # "timeout" /\ ~call[t].forced

\* "All must succeed or none" (batchUpdateWithOptimisticLock).
BatchAtomic == \A t \in Callers : \A i, j \in Required(t) : Applied(t, i) <=> Applied(t, j)

\* The updates of a row are all counted: versions in turn, no statement twice.
UpdatesCount == TypeOK /\ InTurn /\ AppliedOnce

\* Unless a call timed out or was forced back, effects are all or nothing
\* and what the caller is told is what happened; only a connection lost
\* while COMMIT is on its way leaves it open.
Reported ==
  Undisturbed =>
    /\ BatchAtomic
    /\ \A t \in Callers : \A i \in Required(t) :
         /\ call[t].main = "ok" => Applied(t, i)
         /\ call[t].main = "failed" /\ call[t].error # "broken" => ~Applied(t, i)

\* Every call ends and its client comes back, through deadlocks, retries
\* and waiting for the pool.
CallsEnd == \A t \in Callers : <>[](call[t].main \in {"ok", "failed"})
=============================================================================
