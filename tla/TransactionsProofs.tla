------------------------- MODULE TransactionsProofs -------------------------
(***************************************************************************)
(* For any calls, clients, rows, operations and number of attempts: a      *)
(* client of the pool serves one call at a time and comes back without a   *)
(* transaction, no versioned update is lost, no statement takes effect     *)
(* twice, and, unless a call timed out or was forced back, a caller is     *)
(* told what happened.                                                     *)
(***************************************************************************)
EXTENDS Transactions, SequenceTheorems, TLAPS

\* What a call keeps about itself.
Context ==
  [main : Mains, attempt : 0..MaxAttempts, client : Clients \cup {None},
   active : BOOLEAN, forced : BOOLEAN, error : Errors, seen : Logs,
   op : {"idle", "ready", "sent", "over"}, step : Nat, phase : Phases]

Session == [status : {"idle", "open", "failed"}, pending : Logs, savepoints : Seq(Savepoint)]

Holding == {"begin", "operating", "commit", "rollback", "backoff"}
Transacting == {"operating", "commit", "rollback"}

\* A call that will connect again has an attempt left.
AttemptLeft ==
  \A t \in Callers : call[t].main \in {"new", "backoff"} => call[t].attempt < MaxAttempts

\* A call that holds a client holds one of the pool, no two hold the same, the
\* others are idle, and a transaction belongs to the call it was begun for.
Seated == \A t \in Callers : call[t].main \in Holding => call[t].client \in Clients
Alone == \A c \in Clients : \A t, u \in Callers : Holds(t, c) /\ Holds(u, c) => t = u
PoolAgrees == \A c \in Clients : c \in idle <=> ~\E t \in Callers : Holds(t, c)
OwnedBy(t, c) == call[t].client = c /\ call[t].main \in Transacting
Owned == \A c \in Clients : conn[c] # Idle => \E t \in Callers : OwnedBy(t, c)

Pool == Seated /\ Alone /\ PoolAgrees /\ Owned

\* A query of the main thread is the one that its call, in k, waits for, on the
\* client it holds; the operation and forceRollback ask for other things.
Honest(k, q, c) ==
  /\ q.from = "main" => /\ q.what \in {"begin", "commit", "rollback"}
                        /\ k[q.call].client = c
                        /\ k[q.call].main = q.what
  /\ q.from = "operation" => q.what \in {"save", "write", "release", "undo"}
  /\ q.from = "force" => q.what = "rollback"

HonestQueue(k, s, c) ==
  /\ \A i \in DOMAIN s : Honest(k, s[i], c)
  /\ \A i, j \in DOMAIN s :
       s[i].from = "main" /\ s[j].from = "main" /\ s[i].call = s[j].call => i = j

Asks == \A c \in Clients : HonestQueue(call, queue[c], c)

Inv == TypeOK /\ AttemptLeft /\ Pool /\ Asks

\* The seat of a call: what Pool and Asks look at.
Same(k, l, t) == l[t].main = k[t].main /\ l[t].client = k[t].client
SameSeat(t) == Same(call, call', t)

-----------------------------------------------------------------------------
(* Sequences and types *)

\* What is left when the head of a queue is answered.
LEMMA HeadTail ==
  ASSUME NEW Q, NEW s \in Seq(Q), s # <<>>
  PROVE  /\ Tail(s) \in Seq(Q) /\ Head(s) \in Q /\ 1 \in DOMAIN s /\ Head(s) = s[1]
         /\ \A i \in DOMAIN Tail(s) : i \in Nat \ {0} /\ i + 1 \in DOMAIN s /\ Tail(s)[i] = s[i + 1]
<1>1. Len(s) \in Nat /\ Len(s) > 0 /\ DOMAIN s = 1..Len(s)
  OBVIOUS
<1>2. Tail(s) \in Seq(Q) /\ Len(Tail(s)) = Len(s) - 1
  BY <1>1
<1>3. \A i \in 1..Len(Tail(s)) : Tail(s)[i] = s[i + 1]
  BY <1>1, <1>2
<1> QED
  BY <1>1, <1>2, <1>3

\* What a queue is when a query is sent.
LEMMA Appended ==
  ASSUME NEW Q, NEW s \in Seq(Q), NEW e \in Q
  PROVE  /\ Append(s, e) \in Seq(Q)
         /\ \A i \in DOMAIN Append(s, e) :
              \/ i \in DOMAIN s /\ Append(s, e)[i] = s[i]
              \/ i = Len(s) + 1 /\ Append(s, e)[i] = e
         /\ \A i \in DOMAIN s : i # Len(s) + 1
<1>1. Len(s) \in Nat /\ DOMAIN s = 1..Len(s) /\ DOMAIN Append(s, e) = 1..(Len(s) + 1)
  OBVIOUS
<1>2. \A i \in 1..Len(s) : Append(s, e)[i] = s[i]
  OBVIOUS
<1>3. Append(s, e)[Len(s) + 1] = e
  OBVIOUS
<1> QED
  BY <1>1, <1>2, <1>3

\* A step that changes one call, keeping what it is made of.
LEMMA OneCall ==
  ASSUME TypeOK, NEW t \in Callers, NEW k \in Context, call' = [call EXCEPT ![t] = k]
  PROVE  /\ call' \in [Callers -> Context]
         /\ call'[t] = k
         /\ \A u \in Callers : u # t => call'[u] = call[u]
BY DEF TypeOK, Context

\* The operation goes on: its call keeps its seat and its attempt.
LEMMA AtStepType ==
  ASSUME NEW k \in Context, NEW t \in Callers, NEW i \in Nat
  PROVE  /\ AtStep(k, t, i) \in Context
         /\ AtStep(k, t, i).main = k.main
         /\ AtStep(k, t, i).client = k.client
         /\ AtStep(k, t, i).attempt = k.attempt
BY DEF AtStep, Context, Phases

LEMMA AnsweredType ==
  ASSUME NEW k \in Context, NEW t \in Callers, NEW error \in Errors, NEW r,
         r = Fails(k, t, error) \/ r = Succeeds(k, t)
  PROVE  r \in Context /\ r.main = k.main /\ r.client = k.client /\ r.attempt = k.attempt
<1>1. k.step \in Nat /\ k.step + 1 \in Nat
  BY DEF Context
<1>2. AtStep(k, t, k.step + 1) \in Context /\ AtStep(k, t, k.step + 1).main = k.main
      /\ AtStep(k, t, k.step + 1).client = k.client /\ AtStep(k, t, k.step + 1).attempt = k.attempt
  BY <1>1, AtStepType
<1> DEFINE undo == [k EXCEPT !.op = "ready", !.phase = "undo"]
           raise == [k EXCEPT !.op = "ready", !.phase = "raise",
                              !.error = IF k.error = "timeout" THEN k.error ELSE error]
           write == [k EXCEPT !.op = "ready", !.phase = "write"]
           release == [k EXCEPT !.op = "ready", !.phase = "release"]
<1>3. undo \in Context /\ undo.main = k.main /\ undo.client = k.client /\ undo.attempt = k.attempt
  BY DEF Context, Phases
<1>4. raise \in Context /\ raise.main = k.main /\ raise.client = k.client /\ raise.attempt = k.attempt
  BY DEF Context, Phases
<1>5. write \in Context /\ write.main = k.main /\ write.client = k.client /\ write.attempt = k.attempt
  BY DEF Context, Phases
<1>6. release \in Context /\ release.main = k.main /\ release.client = k.client /\ release.attempt = k.attempt
  BY DEF Context, Phases
<1>7. r \in {AtStep(k, t, k.step + 1), undo, raise, write, release}
  BY DEF Fails, Succeeds
<1> HIDE DEF undo, raise, write, release
<1> QED
  BY <1>2, <1>3, <1>4, <1>5, <1>6, <1>7

\* An aborted session; outside a transaction nothing is aborted.
LEMMA AbortType ==
  ASSUME NEW k \in Session, NoWrites \in Logs
  PROVE  /\ Abort(k) \in Session
         /\ k = Idle => Abort(k) = Idle
<1> DEFINE p == IF k.savepoints = <<>> THEN NoWrites ELSE k.savepoints[Len(k.savepoints)].pending
           f == [k EXCEPT !.status = "failed", !.pending = p]
<1>1. Abort(k) = IF k.status = "idle" THEN k ELSE f
  BY DEF Abort
<1>2. k = Idle => k.status = "idle"
  BY DEF Idle
<1>3. p \in Logs
  <2>1. CASE k.savepoints # <<>>
    <3>1. k.savepoints \in Seq(Savepoint)
      BY DEF Session
    <3>2. k.savepoints[Len(k.savepoints)] \in Savepoint
      BY <2>1, <3>1
    <3> QED
      BY <2>1, <3>2 DEF Savepoint
  <2> QED
    BY <2>1
<1> HIDE DEF p
<1>4. f \in Session
  BY <1>3 DEF Session
<1> QED
  BY <1>1, <1>2, <1>4

LEMMA IdleType == NoWrites \in Logs /\ Idle \in Session
<1>1. NoWrites \in Logs
  BY DEF NoWrites, Logs
<1> QED
  BY <1>1 DEF Idle, Session

-----------------------------------------------------------------------------
(* The queues *)

\* The calls that wait in a queue keep their seats.
LEMMA QueueStays ==
  ASSUME NEW k, NEW l, NEW c, NEW s \in Seq(Query), HonestQueue(k, s, c),
         \A i \in DOMAIN s : s[i].from = "main" => Same(k, l, s[i].call)
  PROVE  HonestQueue(l, s, c)
BY DEF HonestQueue, Honest, Same

\* A query is sent, and those that the other calls wait for stay.
LEMMA SentHonest ==
  ASSUME NEW k, NEW l, NEW c, NEW s \in Seq(Query), NEW e \in Query,
         HonestQueue(k, s, c), Honest(l, e, c),
         \A i \in DOMAIN s : s[i].from = "main" =>
           Same(k, l, s[i].call) /\ (e.from = "main" => s[i].call # e.call)
  PROVE  Append(s, e) \in Seq(Query) /\ HonestQueue(l, Append(s, e), c)
<1> DEFINE a == Append(s, e)
<1>1. /\ a \in Seq(Query)
      /\ \A i \in DOMAIN a : \/ i \in DOMAIN s /\ a[i] = s[i]
                             \/ i = Len(s) + 1 /\ a[i] = e
      /\ \A i \in DOMAIN s : i # Len(s) + 1
  BY Appended
<1> HIDE DEF a
<1>2. HonestQueue(l, s, c)
  BY QueueStays
<1>3. \A i \in DOMAIN a : Honest(l, a[i], c)
  BY <1>1, <1>2 DEF HonestQueue
<1>4. ASSUME NEW i \in DOMAIN a, NEW j \in DOMAIN a,
             a[i].from = "main", a[j].from = "main", a[i].call = a[j].call
      PROVE  i = j
  <2>1. CASE i \in DOMAIN s /\ a[i] = s[i] /\ j \in DOMAIN s /\ a[j] = s[j]
    BY <1>2, <1>4, <2>1 DEF HonestQueue
  <2>2. CASE i \in DOMAIN s /\ a[i] = s[i] /\ a[j] = e
    BY <1>4, <2>2
  <2>3. CASE a[i] = e /\ j \in DOMAIN s /\ a[j] = s[j]
    BY <1>4, <2>3
  <2> QED
    BY <1>1, <2>1, <2>2, <2>3
<1>5. HonestQueue(l, a, c)
  BY <1>3, <1>4 DEF HonestQueue
<1> QED
  BY <1>1, <1>5 DEF a

\* The head is answered: the other queries of the main threads are of others.
LEMMA AnsweredHonest ==
  ASSUME NEW k, NEW l, NEW c, NEW s \in Seq(Query), s # <<>>, HonestQueue(k, s, c),
         \A i \in DOMAIN s : s[i].from = "main" =>
           Same(k, l, s[i].call) \/ (Head(s).from = "main" /\ s[i].call = Head(s).call)
  PROVE  Tail(s) \in Seq(Query) /\ HonestQueue(l, Tail(s), c)
<1> DEFINE a == Tail(s)
<1>1. /\ a \in Seq(Query) /\ 1 \in DOMAIN s /\ Head(s) = s[1]
      /\ \A i \in DOMAIN a : i \in Nat \ {0} /\ i + 1 \in DOMAIN s /\ a[i] = s[i + 1]
  BY HeadTail
<1> HIDE DEF a
<1>2. ASSUME NEW i \in DOMAIN a, a[i].from = "main" PROVE Same(k, l, a[i].call)
  <2>1. i + 1 # 1 /\ i + 1 \in DOMAIN s /\ a[i] = s[i + 1]
    BY <1>1
  <2>2. ~(s[1].from = "main" /\ s[i + 1].call = s[1].call)
    BY <1>1, <1>2, <2>1 DEF HonestQueue
  <2> QED
    BY <1>1, <1>2, <2>1, <2>2
<1>3. HonestQueue(k, a, c)
  <2>1. \A i \in DOMAIN a : Honest(k, a[i], c)
    BY <1>1 DEF HonestQueue
  <2>2. ASSUME NEW i \in DOMAIN a, NEW j \in DOMAIN a,
               a[i].from = "main", a[j].from = "main", a[i].call = a[j].call
        PROVE  i = j
    <3>1. i + 1 = j + 1
      BY <1>1, <2>2 DEF HonestQueue
    <3> QED
      BY <1>1, <3>1
  <2> QED
    BY <2>1, <2>2 DEF HonestQueue
<1>4. HonestQueue(l, a, c)
  BY <1>1, <1>2, <1>3, QueueStays
<1> QED
  BY <1>1, <1>4 DEF a

\* A query is sent for t: one of the main thread only when it waits for none.
LEMMA SendKeeps ==
  ASSUME TypeOK, Asks, NEW t \in Callers, NEW c, NEW e \in Query,
         queue' = [queue EXCEPT ![c] = Append(queue[c], e)],
         e.call = t, c \in Clients => Honest(call', e, c),
         \A u \in Callers : u # t => SameSeat(u),
         SameSeat(t) \/ call[t].main \notin {"begin", "commit", "rollback"},
         e.from = "main" => call[t].main \notin {"begin", "commit", "rollback"}
  PROVE  queue' \in [Clients -> Seq(Query)] /\ Asks'
<1>1. ASSUME NEW d \in Clients
      PROVE  queue'[d] \in Seq(Query) /\ HonestQueue(call', queue'[d], d)
  <2> DEFINE s == queue[d]
  <2>1. s \in Seq(Query) /\ HonestQueue(call, s, d)
    BY DEF TypeOK, Asks
  <2>2. queue'[d] = IF d = c THEN Append(s, e) ELSE s
    BY DEF TypeOK
  <2> HIDE DEF s
  <2>3. \A i \in DOMAIN s : s[i] \in Query
    BY <2>1
  <2>4. \A i \in DOMAIN s : s[i].call \in Callers
    BY <2>3 DEF Query
  <2>5. \A i \in DOMAIN s : s[i].from = "main" => call[s[i].call].main \in {"begin", "commit", "rollback"}
    BY <2>1 DEF HonestQueue, Honest
  <2>6. \A i \in DOMAIN s : s[i].from = "main" =>
          Same(call, call', s[i].call) /\ (e.from = "main" => s[i].call # e.call)
    BY <2>4, <2>5 DEF SameSeat
  <2>7. CASE d = c
    BY <2>1, <2>2, <2>6, <2>7, SentHonest
  <2>8. CASE d # c
    BY <2>1, <2>2, <2>6, <2>8, QueueStays
  <2> QED
    BY <2>7, <2>8
<1>2. queue' \in [Clients -> Seq(Query)]
  BY <1>1 DEF TypeOK
<1> QED
  BY <1>1, <1>2 DEF Asks

\* The head of a queue is answered: only the call whose main thread asked may
\* move.
LEMMA AnswerKeeps ==
  ASSUME TypeOK, Asks, NEW c \in Clients, queue[c] # <<>>, Answer(c),
         \A u \in Callers : SameSeat(u) \/ (u = Asker(c) /\ Head(queue[c]).from = "main")
  PROVE  queue' \in [Clients -> Seq(Query)] /\ Asks'
<1>1. ASSUME NEW d \in Clients
      PROVE  queue'[d] \in Seq(Query) /\ HonestQueue(call', queue'[d], d)
  <2> DEFINE s == queue[d]
  <2>1. s \in Seq(Query) /\ HonestQueue(call, s, d)
    BY DEF TypeOK, Asks
  <2>2. queue'[d] = IF d = c THEN Tail(s) ELSE s
    BY DEF TypeOK, Answer
  <2>3. d = c => s # <<>> /\ Asker(c) = Head(s).call /\ queue[c] = s
    BY DEF Asker
  <2>4. Head(queue[c]).from = "main" => call[Asker(c)].client = c
    <3>1. queue[c] \in Seq(Query) /\ HonestQueue(call, queue[c], c)
      BY DEF TypeOK, Asks
    <3>2. 1 \in DOMAIN queue[c] /\ Head(queue[c]) = queue[c][1]
      BY <3>1, HeadTail
    <3> QED
      BY <3>1, <3>2 DEF HonestQueue, Honest, Asker
  <2> HIDE DEF s
  <2>5. \A i \in DOMAIN s : s[i] \in Query
    BY <2>1
  <2>6. \A i \in DOMAIN s : s[i].call \in Callers
    BY <2>5 DEF Query
  <2>7. \A i \in DOMAIN s : s[i].from = "main" => call[s[i].call].client = d
    BY <2>1 DEF HonestQueue, Honest
  <2>8. CASE d = c
    <3>1. \A i \in DOMAIN s : s[i].from = "main" =>
            Same(call, call', s[i].call) \/ (Head(s).from = "main" /\ s[i].call = Head(s).call)
      BY <2>3, <2>6, <2>8 DEF SameSeat
    <3> QED
      BY <2>1, <2>2, <2>3, <2>8, <3>1, AnsweredHonest
  <2>9. CASE d # c
    <3>1. \A i \in DOMAIN s : s[i].from = "main" => Same(call, call', s[i].call)
      BY <2>4, <2>6, <2>7, <2>9 DEF SameSeat
    <3> QED
      BY <2>1, <2>2, <2>9, <3>1, QueueStays
  <2> QED
    BY <2>8, <2>9
<1>2. queue' \in [Clients -> Seq(Query)]
  BY <1>1 DEF TypeOK, Answer
<1> QED
  BY <1>1, <1>2 DEF Asks

\* A write is added to the log of a row.
LEMMA LogType ==
  ASSUME NEW log \in Logs, NEW w \in Write, NEW r
  PROVE  [log EXCEPT ![r] = Append(log[r], w)] \in Logs
<1>1. ASSUME NEW q \in Rows PROVE [log EXCEPT ![r] = Append(log[r], w)][q] \in Seq(Write)
  <2>1. log[q] \in Seq(Write)
    BY DEF Logs
  <2>2. Append(log[q], w) \in Seq(Write)
    BY <2>1
  <2> QED
    BY <2>1, <2>2 DEF Logs
<1> QED
  BY <1>1 DEF Logs

\* No query is sent or answered, and the calls that wait keep their seats.
LEMMA AsksStay ==
  ASSUME TypeOK, Asks, queue' = queue,
         \A u \in Callers : SameSeat(u) \/ call[u].main \notin {"begin", "commit", "rollback"}
  PROVE  Asks'
<1> SUFFICES ASSUME NEW d \in Clients PROVE HonestQueue(call', queue[d], d)
  BY DEF Asks
<1>1. queue[d] \in Seq(Query) /\ HonestQueue(call, queue[d], d)
  BY DEF TypeOK, Asks
<1>2. \A i \in DOMAIN queue[d] : queue[d][i] \in Query
  BY <1>1
<1>3. \A i \in DOMAIN queue[d] : queue[d][i].call \in Callers
  BY <1>2 DEF Query
<1>4. \A i \in DOMAIN queue[d] : queue[d][i].from = "main" => Same(call, call', queue[d][i].call)
  BY <1>1, <1>3 DEF HonestQueue, Honest, SameSeat
<1> QED
  BY <1>1, <1>4, QueueStays

-----------------------------------------------------------------------------
(* The pool *)

\* No call moves and nothing begins: nothing changes for the pool.
LEMMA PoolStays ==
  ASSUME Pool, \A u \in Callers : SameSeat(u), idle' = idle,
         \A c \in Clients : conn[c] = Idle => conn'[c] = Idle
  PROVE  Pool'
<1>1. \A u \in Callers, c \in Clients : Holds(u, c)' <=> Holds(u, c)
  BY DEF SameSeat, Same, Holds
<1>2. \A u \in Callers, c \in Clients : OwnedBy(u, c)' <=> OwnedBy(u, c)
  BY DEF SameSeat, Same, OwnedBy
<1>3. Seated'
  BY DEF Pool, Seated, SameSeat, Same
<1>4. Alone'
  BY <1>1 DEF Pool, Alone
<1>5. PoolAgrees'
  BY <1>1 DEF Pool, PoolAgrees
<1>6. Owned'
  BY <1>2 DEF Pool, Owned
<1> QED
  BY <1>3, <1>4, <1>5, <1>6 DEF Pool

\* The call that holds a client moves on and keeps it.
LEMMA PoolMoves ==
  ASSUME Pool, NEW t \in Callers, NEW c \in Clients, Holds(t, c),
         call'[t].client = c, call'[t].main \in Holding,
         \A u \in Callers : u # t => SameSeat(u), idle' = idle,
         \A d \in Clients \ {c} : conn'[d] = conn[d],
         conn'[c] = Idle \/ call'[t].main \in Transacting
  PROVE  Pool'
<1>1. call[t].client = c /\ Holds(t, c)' /\ (conn'[c] = Idle \/ OwnedBy(t, c)')
  BY DEF Holds, Holding, OwnedBy
<1>2. \A u \in Callers, d \in Clients : Holds(u, d)' <=> Holds(u, d)
  BY <1>1 DEF SameSeat, Same, Holds
<1>3. \A u \in Callers, d \in Clients : d # c => (OwnedBy(u, d)' <=> OwnedBy(u, d))
  BY <1>1 DEF SameSeat, Same, OwnedBy
<1>4. Seated'
  BY DEF Pool, Seated, SameSeat, Same
<1>5. Alone'
  BY <1>2 DEF Pool, Alone
<1>6. PoolAgrees'
  BY <1>2 DEF Pool, PoolAgrees
<1>7. Owned'
  BY <1>1, <1>3 DEF Pool, Owned
<1> QED
  BY <1>4, <1>5, <1>6, <1>7 DEF Pool

\* The call that holds a client gives it back without a transaction.
LEMMA PoolRelease ==
  ASSUME Pool, NEW t \in Callers, NEW c \in Clients, Holds(t, c), call'[t].main \notin Holding,
         \A u \in Callers : u # t => SameSeat(u), idle' = idle \cup {c},
         \A d \in Clients \ {c} : conn'[d] = conn[d], conn'[c] = Idle
  PROVE  Pool'
<1>1. call[t].client = c /\ \A d \in Clients : ~Holds(t, d)'
  BY DEF Holds, Holding
<1>2. \A u \in Callers, d \in Clients : u # t => (Holds(u, d)' <=> Holds(u, d))
  BY DEF SameSeat, Same, Holds
<1>3. \A u \in Callers : ~Holds(u, c)'
  BY <1>1, <1>2 DEF Pool, Alone
<1>4. \A u \in Callers, d \in Clients : d # c => (Holds(u, d)' <=> Holds(u, d))
  BY <1>1, <1>2 DEF Holds
<1>5. \A u \in Callers, d \in Clients : d # c => (OwnedBy(u, d) => OwnedBy(u, d)')
  BY <1>1 DEF SameSeat, Same, OwnedBy
<1>6. Seated'
  BY DEF Pool, Seated, SameSeat, Same
<1>7. Alone'
  BY <1>3, <1>4 DEF Pool, Alone
<1>8. PoolAgrees'
  BY <1>3, <1>4 DEF Pool, PoolAgrees
<1>9. Owned'
  BY <1>5 DEF Pool, Owned
<1> QED
  BY <1>6, <1>7, <1>8, <1>9 DEF Pool

\* What the head of a queue says of the call that asked.
LEMMA HeadIsHonest ==
  ASSUME TypeOK, Asks, NEW c \in Clients, queue[c] # <<>>
  PROVE  /\ Asker(c) \in Callers
         /\ Head(queue[c]) \in Query
         /\ Head(queue[c]).from = "main" =>
              call[Asker(c)].client = c /\ call[Asker(c)].main = Head(queue[c]).what
         /\ Head(queue[c]).what \in {"begin", "commit"} => Head(queue[c]).from = "main"
         /\ Head(queue[c]).what \in {"save", "write", "release", "undo"} => Head(queue[c]).from # "main"
<1>1. queue[c] \in Seq(Query) /\ HonestQueue(call, queue[c], c)
  BY DEF TypeOK, Asks
<1>2. 1 \in DOMAIN queue[c] /\ Head(queue[c]) = queue[c][1] /\ Head(queue[c]) \in Query
  BY <1>1, HeadTail
<1>3. Honest(call, Head(queue[c]), c)
  BY <1>1, <1>2 DEF HonestQueue
<1>4. Head(queue[c]).call \in Callers /\ Head(queue[c]).from \in {"main", "operation", "force"}
  BY <1>2 DEF Query
<1> QED
  BY <1>2, <1>3, <1>4 DEF Honest, Asker

-----------------------------------------------------------------------------
(* The steps *)

LEMMA Initially ==
  ASSUME AttemptsAssumption
  PROVE  Init => Inv
<1> SUFFICES ASSUME Init PROVE Inv
  OBVIOUS
<1>1. NoWrites \in Logs /\ Idle \in Session
  BY IdleType
<1>2. rows \in Logs /\ conn \in [Clients -> Session] /\ queue \in [Clients -> Seq(Query)] /\ idle \subseteq Clients
  BY <1>1 DEF Init
<1>3. call \in [Callers -> Context]
  BY <1>1, AttemptsAssumption DEF Init, Context, Mains, Errors, Phases
<1>4. \A t \in Callers : call[t].main = "new" /\ call[t].attempt = 0
  BY DEF Init
<1>5. TypeOK
  BY <1>2, <1>3 DEF TypeOK, Context, Session
<1>6. AttemptLeft
  BY <1>4, AttemptsAssumption DEF AttemptLeft
<1>7. Pool
  BY <1>4 DEF Init, Pool, Seated, Alone, PoolAgrees, Owned, Holds, Holding
<1>8. Asks
  BY DEF Init, Asks, HonestQueue
<1> QED
  BY <1>5, <1>6, <1>7, <1>8 DEF Inv

LEMMA ConnectKeeps ==
  ASSUME AttemptsAssumption, Inv, NEW t \in Callers, NEW c \in Clients, Connect(t, c)
  PROVE  Inv'
<1> USE DEF Inv
<1>1. call[t] \in Context /\ call[t].main = "new" /\ call[t].attempt \in 0..MaxAttempts /\ call[t].attempt < MaxAttempts
  BY DEF TypeOK, Context, Connect, AttemptLeft
<1> DEFINE seen == IF call[t].attempt = 0 THEN rows ELSE call[t].seen
           n == call[t].attempt + 1
           k == [call[t] EXCEPT !.main = "begin", !.client = c, !.active = TRUE, !.attempt = n, !.seen = seen]
           e == [call |-> t, from |-> "main", attempt |-> n, what |-> "begin"]
<1>2. seen \in Logs /\ n \in 0..MaxAttempts /\ n \in Nat
  BY <1>1, AttemptsAssumption DEF TypeOK, Context
<1>3. call' = [call EXCEPT ![t] = k] /\ queue' = [queue EXCEPT ![c] = Append(queue[c], e)]
  BY DEF Connect, TypeOK
<1> HIDE DEF seen, n
<1>4. k \in Context /\ k.main = "begin" /\ k.client = c
  BY <1>1, <1>2 DEF Context, Mains
<1>5. e \in Query /\ e.call = t /\ e.from = "main" /\ e.what = "begin"
  BY <1>2 DEF Query
<1> HIDE DEF k, e
<1>6. call' \in [Callers -> Context] /\ call'[t] = k /\ \A u \in Callers : u # t => call'[u] = call[u]
  BY <1>3, <1>4, OneCall
<1>7. \A u \in Callers : u # t => SameSeat(u)
  BY <1>6 DEF SameSeat, Same
<1>8. Honest(call', e, c)
  BY <1>4, <1>5, <1>6 DEF Honest
<1>9. queue' \in [Clients -> Seq(Query)] /\ Asks'
  BY <1>1, <1>3, <1>5, <1>7, <1>8, SendKeeps
<1>10. TypeOK'
  BY <1>6, <1>9 DEF TypeOK, Context, Connect
<1>11. AttemptLeft'
  BY <1>4, <1>6 DEF AttemptLeft
<1>12. Pool'
  <2>1. c \in idle /\ idle' = idle \ {c} /\ conn' = conn
    BY DEF Connect
  <2>2. \A u \in Callers : ~Holds(u, c)
    BY <2>1 DEF Pool, PoolAgrees
  <2>3. \A u \in Callers, d \in Clients : Holds(u, d)' <=> (Holds(u, d) \/ (u = t /\ d = c))
    BY <1>1, <1>4, <1>6 DEF Holds
  <2>4. \A u \in Callers, d \in Clients : OwnedBy(u, d) => OwnedBy(u, d)'
    BY <1>1, <1>6 DEF OwnedBy, Transacting
  <2>5. Seated'
    BY <1>4, <1>6 DEF Pool, Seated
  <2>6. Alone'
    BY <2>2, <2>3 DEF Pool, Alone
  <2>7. PoolAgrees'
    BY <2>1, <2>2, <2>3 DEF Pool, PoolAgrees
  <2>8. Owned'
    BY <2>1, <2>4 DEF Pool, Owned
  <2> QED
    BY <2>5, <2>6, <2>7, <2>8 DEF Pool
<1> QED
  BY <1>9, <1>10, <1>11, <1>12

\* The operation goes on: its seat and the server stay.
LEMMA IssueKeeps ==
  ASSUME Inv, NEW t \in Callers, Issue(t)
  PROVE  Inv'
<1> USE DEF Inv
<1>1. call[t] \in Context /\ call[t].step + 1 \in Nat /\ call[t].attempt \in Nat
  BY DEF TypeOK, Context
<1>2. UNCHANGED <<rows, conn, idle>>
  BY DEF Issue
<1>3. CASE call[t].phase = "save" /\ ~call[t].active
  <2> DEFINE k == AtStep(call[t], t, call[t].step + 1)
  <2>1. call' = [call EXCEPT ![t] = k] /\ queue' = queue
    BY <1>3 DEF Issue
  <2>2. k \in Context /\ k.main = call[t].main /\ k.client = call[t].client /\ k.attempt = call[t].attempt
    BY <1>1, AtStepType
  <2> HIDE DEF k
  <2>3. call' \in [Callers -> Context] /\ call'[t] = k /\ \A u \in Callers : u # t => call'[u] = call[u]
    BY <2>1, <2>2, OneCall
  <2>4. \A u \in Callers : SameSeat(u) /\ call'[u].attempt = call[u].attempt
    BY <2>2, <2>3 DEF SameSeat, Same
  <2>5. Pool'
    BY <1>2, <2>4, PoolStays
  <2>6. Asks'
    BY <2>1, <2>4, AsksStay
  <2>7. TypeOK'
    BY <1>2, <2>1, <2>3 DEF TypeOK, Context
  <2>8. AttemptLeft'
    BY <2>4 DEF AttemptLeft, SameSeat, Same
  <2> QED
    BY <2>5, <2>6, <2>7, <2>8
<1>4. CASE ~(call[t].phase = "save" /\ ~call[t].active)
  <2> DEFINE k == [call[t] EXCEPT !.op = "sent"]
             c == call[t].client
             e == [call |-> t, from |-> "operation", attempt |-> call[t].attempt, what |-> call[t].phase]
  <2>1. call' = [call EXCEPT ![t] = k] /\ queue' = [queue EXCEPT ![c] = Append(queue[c], e)]
    BY <1>4 DEF Issue, Send
  <2>2. k \in Context /\ k.main = call[t].main /\ k.client = call[t].client /\ k.attempt = call[t].attempt
    BY <1>1 DEF Context
  <2>3. call[t].phase \in Phases \ {"raise", "return"}
    BY <1>1 DEF Issue, Context
  <2>4. e \in Query /\ e.call = t /\ e.from = "operation" /\ e.what \in {"save", "write", "release", "undo"}
    BY <1>1, <2>3 DEF Query, Phases
  <2> HIDE DEF k, c, e
  <2>5. call' \in [Callers -> Context] /\ call'[t] = k /\ \A u \in Callers : u # t => call'[u] = call[u]
    BY <2>1, <2>2, OneCall
  <2>6. \A u \in Callers : SameSeat(u) /\ call'[u].attempt = call[u].attempt
    BY <2>2, <2>5 DEF SameSeat, Same
  <2>7. Honest(call', e, c)
    BY <2>4 DEF Honest
  <2>8. queue' \in [Clients -> Seq(Query)] /\ Asks'
    BY <2>1, <2>4, <2>6, <2>7, SendKeeps
  <2>9. Pool'
    BY <1>2, <2>6, PoolStays
  <2>10. TypeOK'
    BY <1>2, <2>5, <2>8 DEF TypeOK, Context
  <2>11. AttemptLeft'
    BY <2>6 DEF AttemptLeft, SameSeat, Same
  <2> QED
    BY <2>8, <2>9, <2>10, <2>11
<1> QED
  BY <1>3, <1>4

\* The main thread leaves the operation with COMMIT or ROLLBACK.
LEMMA LeaveKeeps ==
  ASSUME Inv, NEW t \in Callers, call[t].main = "operating",
         NEW what \in {"commit", "rollback"}, NEW k \in Context,
         k.main = what, k.client = call[t].client, k.attempt = call[t].attempt,
         call' = [call EXCEPT ![t] = k], Send(call[t].client, t, "main", what),
         UNCHANGED <<rows, conn, idle>>
  PROVE  Inv'
<1> USE DEF Inv
<1> DEFINE c == call[t].client
           e == [call |-> t, from |-> "main", attempt |-> call[t].attempt, what |-> what]
<1>1. call[t] \in Context /\ call[t].attempt \in Nat
  BY DEF TypeOK, Context
<1>2. queue' = [queue EXCEPT ![c] = Append(queue[c], e)]
  BY DEF Send
<1>3. e \in Query /\ e.call = t /\ e.from = "main" /\ e.what = what
  BY <1>1 DEF Query
<1>4. c \in Clients /\ k.client = c
  BY DEF Pool, Seated, Holding
<1> HIDE DEF c, e
<1>5. call' \in [Callers -> Context] /\ call'[t] = k /\ \A u \in Callers : u # t => call'[u] = call[u]
  BY OneCall
<1>6. \A u \in Callers : u # t => SameSeat(u)
  BY <1>5 DEF SameSeat, Same
<1>7. Honest(call', e, c)
  BY <1>3, <1>4, <1>5 DEF Honest
<1>8. queue' \in [Clients -> Seq(Query)] /\ Asks'
  BY <1>2, <1>3, <1>6, <1>7, SendKeeps
<1>9. TypeOK'
  BY <1>5, <1>8 DEF TypeOK, Context
<1>10. AttemptLeft'
  BY <1>5 DEF AttemptLeft
<1>11. Pool'
  <2>1. Holds(t, c) /\ call'[t].client = c /\ call'[t].main \in Holding \cap Transacting
    BY <1>4, <1>5 DEF Holds, Holding, Transacting, c
  <2>2. idle' = idle /\ \A d \in Clients \ {c} : conn'[d] = conn[d]
    OBVIOUS
  <2> QED
    BY <1>4, <1>6, <2>1, <2>2, PoolMoves
<1> QED
  BY <1>8, <1>9, <1>10, <1>11

LEMMA SettleKeeps ==
  ASSUME Inv, NEW t \in Callers, Settle(t)
  PROVE  Inv'
<1> DEFINE what == IF call[t].phase = "return" THEN "commit" ELSE "rollback"
           raced == call[t].main = "operating"
           k == [call[t] EXCEPT !.op = "over", !.main = IF raced THEN what ELSE call[t].main]
<1>1. call[t] \in Context
  BY DEF Inv, TypeOK, Context
<1>2. /\ call' = [call EXCEPT ![t] = k]
      /\ IF raced THEN Send(call[t].client, t, "main", what) ELSE UNCHANGED queue
      /\ UNCHANGED <<rows, conn, idle>>
  BY <1>1 DEF Settle, Inv, TypeOK, Context
<1>3. what \in {"commit", "rollback"}
  OBVIOUS
<1> HIDE DEF what
<1>4. /\ k \in Context /\ k.client = call[t].client /\ k.attempt = call[t].attempt
      /\ k.main = IF raced THEN what ELSE call[t].main
  BY <1>1, <1>3 DEF Context, Mains
<1> HIDE DEF k
<1>5. CASE raced
  BY <1>2, <1>3, <1>4, <1>5, LeaveKeeps
<1>6. CASE ~raced
  <2>1. call' \in [Callers -> Context] /\ call'[t] = k /\ \A u \in Callers : u # t => call'[u] = call[u]
    BY <1>2, <1>4, OneCall DEF Inv
  <2>2. \A u \in Callers : SameSeat(u) /\ call'[u].attempt = call[u].attempt
    BY <1>4, <1>6, <2>1 DEF SameSeat, Same
  <2>3. Pool'
    BY <1>2, <2>2, PoolStays DEF Inv
  <2>4. Asks'
    BY <1>2, <1>6, <2>2, AsksStay DEF Inv
  <2>5. TypeOK'
    BY <1>2, <1>6, <2>1 DEF Inv, TypeOK, Context
  <2>6. AttemptLeft'
    BY <2>2 DEF Inv, AttemptLeft, SameSeat, Same
  <2> QED
    BY <2>3, <2>4, <2>5, <2>6 DEF Inv
<1> QED
  BY <1>5, <1>6

LEMMA TimeOutKeeps ==
  ASSUME Inv, NEW t \in Callers, TimeOut(t)
  PROVE  Inv'
<1> DEFINE k == [call[t] EXCEPT !.main = "rollback", !.error = "timeout"]
<1>1. call[t] \in Context /\ call[t].main = "operating"
  BY DEF Inv, TypeOK, Context, TimeOut
<1>2. /\ call' = [call EXCEPT ![t] = k]
      /\ Send(call[t].client, t, "main", "rollback")
      /\ UNCHANGED <<rows, conn, idle>>
  BY DEF TimeOut
<1>3. k \in Context /\ k.main = "rollback" /\ k.client = call[t].client /\ k.attempt = call[t].attempt
  BY <1>1 DEF Context, Mains, Errors
<1> HIDE DEF k
<1> QED
  BY <1>1, <1>2, <1>3, LeaveKeeps

LEMMA BackOffKeeps ==
  ASSUME Inv, NEW t \in Callers, BackOff(t)
  PROVE  Inv'
<1> USE DEF Inv
<1> DEFINE c == call[t].client
           k == [call[t] EXCEPT !.main = "new", !.active = FALSE]
<1>1. call[t] \in Context /\ call[t].main = "backoff"
  BY DEF TypeOK, Context, BackOff
<1>2. call' = [call EXCEPT ![t] = k] /\ idle' = idle \cup {c} /\ UNCHANGED <<rows, conn, queue>>
  BY DEF BackOff, Release
<1>3. k \in Context /\ k.main = "new" /\ k.client = c /\ k.attempt = call[t].attempt
  BY <1>1 DEF Context, Mains
<1>4. c \in Clients /\ Holds(t, c)
  BY <1>1 DEF Pool, Seated, Holding, Holds
<1> HIDE DEF k
<1>5. call' \in [Callers -> Context] /\ call'[t] = k /\ \A u \in Callers : u # t => call'[u] = call[u]
  BY <1>2, <1>3, OneCall
<1>6. \A u \in Callers : u # t => SameSeat(u)
  BY <1>5 DEF SameSeat, Same
<1>7. conn[c] = Idle
  <2> SUFFICES ASSUME conn[c] # Idle PROVE FALSE
    OBVIOUS
  <2>1. PICK u \in Callers : OwnedBy(u, c)
    BY <1>4 DEF Pool, Owned
  <2>2. Holds(u, c) /\ u # t
    BY <1>1, <2>1 DEF OwnedBy, Transacting, Holds
  <2> QED
    BY <1>4, <2>2 DEF Pool, Alone
<1>8. Pool'
  BY <1>2, <1>3, <1>4, <1>5, <1>6, <1>7, PoolRelease DEF Holding
<1>9. Asks'
  BY <1>1, <1>2, <1>6, AsksStay
<1>10. TypeOK'
  BY <1>2, <1>4, <1>5 DEF TypeOK, Context
<1>11. AttemptLeft'
  BY <1>1, <1>3, <1>5 DEF AttemptLeft
<1> QED
  BY <1>8, <1>9, <1>10, <1>11

LEMMA ForceRollbackKeeps ==
  ASSUME Inv, NEW t \in Callers, ForceRollback(t)
  PROVE  Inv'
<1> USE DEF Inv
<1> DEFINE c == call[t].client
           e == [call |-> t, from |-> "force", attempt |-> call[t].attempt, what |-> "rollback"]
<1>1. call[t] \in Context /\ call[t].attempt \in Nat
  BY DEF TypeOK, Context
<1>2. queue' = [queue EXCEPT ![c] = Append(queue[c], e)] /\ UNCHANGED <<rows, conn, idle, call>>
  BY DEF ForceRollback, Send
<1>3. e \in Query /\ e.call = t /\ e.from = "force" /\ e.what = "rollback"
  BY <1>1 DEF Query
<1> HIDE DEF c, e
<1>4. \A u \in Callers : SameSeat(u)
  BY <1>2 DEF SameSeat, Same
<1>5. Honest(call', e, c)
  BY <1>3 DEF Honest
<1>6. queue' \in [Clients -> Seq(Query)] /\ Asks'
  BY <1>2, <1>3, <1>4, <1>5, SendKeeps
<1>7. Pool'
  BY <1>2, <1>4, PoolStays
<1>8. TypeOK'
  BY <1>2, <1>6 DEF TypeOK
<1>9. AttemptLeft'
  BY <1>2 DEF AttemptLeft
<1> QED
  BY <1>6, <1>7, <1>8, <1>9

\* The server answers the operation or forceRollback: no call moves.
LEMMA ServeKeeps ==
  ASSUME Inv, NEW c \in Clients, queue[c] # <<>>, Answer(c),
         NEW k \in Context, call' = [call EXCEPT ![Asker(c)] = k],
         k.main = call[Asker(c)].main, k.client = call[Asker(c)].client,
         k.attempt = call[Asker(c)].attempt,
         rows' \in Logs, NEW x \in Session, conn' = [conn EXCEPT ![c] = x],
         conn[c] = Idle => x = Idle, idle' = idle
  PROVE  Inv'
<1> USE DEF Inv
<1> DEFINE t == Asker(c)
<1>1. t \in Callers
  BY HeadIsHonest
<1> HIDE DEF t
<1>2. call' \in [Callers -> Context] /\ call'[t] = k /\ \A u \in Callers : u # t => call'[u] = call[u]
  BY <1>1, OneCall DEF t
<1>3. \A u \in Callers : SameSeat(u) /\ call'[u].attempt = call[u].attempt
  BY <1>2 DEF SameSeat, Same, t
<1>4. queue' \in [Clients -> Seq(Query)] /\ Asks'
  BY <1>3, AnswerKeeps
<1>5. conn' \in [Clients -> Session] /\ \A d \in Clients : conn[d] = Idle => conn'[d] = Idle
  BY DEF TypeOK, Session
<1>6. Pool'
  BY <1>3, <1>5, PoolStays
<1>7. TypeOK'
  BY <1>2, <1>4, <1>5 DEF TypeOK, Context, Session
<1>8. AttemptLeft'
  BY <1>3 DEF AttemptLeft, SameSeat, Same
<1> QED
  BY <1>4, <1>6, <1>7, <1>8

LEMMA WriteRowKeeps ==
  ASSUME Inv, NEW c \in Clients, WriteRow(c)
  PROVE  Inv'
<1> DEFINE t == Asker(c)
           r == Now(t).row
           w == <<t, call[t].step>>
           hit == conn[c].status # "failed" /\ Matches(t, rows[r] \o conn[c].pending[r])
           ok == hit \/ (conn[c].status # "failed" /\ NullOnMiss(t))
           error == IF conn[c].status = "failed" THEN "aborted" ELSE "conflict"
           k == IF ok THEN Succeeds(call[t], t) ELSE Fails(call[t], t, error)
           p == [conn[c].pending EXCEPT ![r] = Append(conn[c].pending[r], w)]
           x == IF hit /\ conn[c].status = "open" THEN [conn[c] EXCEPT !.pending = p] ELSE conn[c]
<1>1. queue[c] # <<>> /\ t \in Callers
  BY HeadIsHonest DEF Inv, WriteRow, Asked
<1>2. call[t] \in Context /\ call[t].step \in Nat /\ conn[c] \in Session /\ conn[c].pending \in Logs /\ rows \in Logs
  BY <1>1 DEF Inv, TypeOK, Context, Session
<1>3. w \in Write
  BY <1>1, <1>2 DEF Write
<1>4. error \in Errors
  BY DEF Errors
<1> HIDE DEF t, r, w, error
<1>5. k \in Context /\ k.main = call[t].main /\ k.client = call[t].client /\ k.attempt = call[t].attempt
  BY <1>1, <1>2, <1>4, AnsweredType DEF t
<1>6. rows' \in Logs
  <2>1. [rows EXCEPT ![r] = Append(rows[r], w)] \in Logs
    BY <1>2, <1>3, LogType
  <2>2. rows' \in {rows, [rows EXCEPT ![r] = Append(rows[r], w)]}
    BY DEF WriteRow, r, w, t
  <2> QED
    BY <1>2, <2>1, <2>2
<1>7. p \in Logs
  BY <1>2, <1>3, LogType
<1>8. conn' = [conn EXCEPT ![c] = x]
  BY <1>2 DEF WriteRow, Inv, TypeOK, r, w, t
<1> HIDE DEF p
<1>9. x \in Session
  BY <1>2, <1>7 DEF Session
<1>10. conn[c] = Idle => x = Idle
  BY DEF Idle
<1>11. call' = [call EXCEPT ![Asker(c)] = k] /\ Answer(c) /\ idle' = idle
  BY DEF WriteRow, t, r, error
<1> HIDE DEF k, x
<1> QED
  BY <1>1, <1>5, <1>6, <1>8, <1>9, <1>10, <1>11, ServeKeeps DEF t

LEMMA FailWriteKeeps ==
  ASSUME Inv, NEW c \in Clients, NEW error \in Errors, FailWrite(c, error)
  PROVE  Inv'
<1> DEFINE t == Asker(c)
           k == Fails(call[t], t, error)
           x == Abort(conn[c])
<1>1. queue[c] # <<>>
  BY DEF FailWrite, Blockers, Asked
<1>2. t \in Callers
  BY <1>1, HeadIsHonest DEF Inv
<1>3. call[t] \in Context /\ conn[c] \in Session /\ rows \in Logs
  BY <1>2 DEF Inv, TypeOK, Context, Session
<1>4. k \in Context /\ k.main = call[t].main /\ k.client = call[t].client /\ k.attempt = call[t].attempt
  BY <1>2, <1>3, AnsweredType
<1>5. x \in Session /\ (conn[c] = Idle => x = Idle)
  BY <1>3, AbortType, IdleType
<1>6. /\ call' = [call EXCEPT ![t] = k] /\ conn' = [conn EXCEPT ![c] = x] /\ Answer(c)
      /\ UNCHANGED <<rows, idle>>
  BY DEF FailWrite
<1> HIDE DEF k, x
<1> QED
  BY <1>1, <1>3, <1>4, <1>5, <1>6, ServeKeeps

LEMMA SavepointsKeeps ==
  ASSUME Inv, NEW c \in Clients, Savepoints(c)
  PROVE  Inv'
<1> DEFINE t == Asker(c)
           k == conn[c]
           name == <<t, call[t].step>>
           At == {i \in DOMAIN k.savepoints : k.savepoints[i].name = name}
           what == Head(queue[c]).what
           good == \/ what = "save" /\ k.status = "open"
                   \/ what = "release" /\ k.status = "open" /\ At # {}
                   \/ what = "undo" /\ k.status # "idle" /\ At # {}
           l == IF good THEN Succeeds(call[t], t) ELSE Fails(call[t], t, "aborted")
           bad == IF k.status = "failed" THEN k ELSE Abort(k)
           saved == [k EXCEPT !.savepoints = Append(k.savepoints, [name |-> name, pending |-> k.pending])]
           Released(i) == [k EXCEPT !.savepoints = SubSeq(k.savepoints, 1, i - 1)]
           Undone(i) == [status |-> "open", pending |-> k.savepoints[i].pending,
                         savepoints |-> SubSeq(k.savepoints, 1, i)]
<1>1. queue[c] # <<>> /\ t \in Callers
  BY HeadIsHonest DEF Inv, Savepoints
<1>2. /\ call[t] \in Context /\ call[t].step \in Nat /\ k \in Session /\ rows \in Logs
      /\ k.savepoints \in Seq(Savepoint) /\ k.pending \in Logs
  BY <1>1 DEF Inv, TypeOK, Context, Session
<1>3. l \in Context /\ l.main = call[t].main /\ l.client = call[t].client /\ l.attempt = call[t].attempt
  BY <1>1, <1>2, AnsweredType DEF Errors
<1>4. /\ call' = [call EXCEPT ![t] = l] /\ Answer(c) /\ UNCHANGED <<rows, idle>>
      /\ \/ ~good /\ conn' = [conn EXCEPT ![c] = bad]
         \/ good /\ what = "save" /\ conn' = [conn EXCEPT ![c] = saved]
         \/ good /\ \E i \in At : conn' = [conn EXCEPT ![c] = Released(i)]
         \/ good /\ \E i \in At : conn' = [conn EXCEPT ![c] = Undone(i)]
  BY DEF Savepoints, Inv, TypeOK
<1>5. good => k # Idle
  BY DEF Idle
<1>6. bad \in Session /\ (k = Idle => bad = Idle)
  BY <1>2, AbortType, IdleType
<1>7. saved \in Session
  <2>1. [name |-> name, pending |-> k.pending] \in Savepoint
    BY <1>1, <1>2 DEF Savepoint, Write
  <2>2. Append(k.savepoints, [name |-> name, pending |-> k.pending]) \in Seq(Savepoint)
    BY <1>2, <2>1
  <2> QED
    BY <1>2, <2>2 DEF Session
<1>8. ASSUME NEW i \in At PROVE Released(i) \in Session /\ Undone(i) \in Session
  <2>1. i \in 1..Len(k.savepoints) /\ Len(k.savepoints) \in Nat
    BY <1>2
  <2>2. SubSeq(k.savepoints, 1, i - 1) \in Seq(Savepoint) /\ SubSeq(k.savepoints, 1, i) \in Seq(Savepoint)
    BY <1>2, <2>1, SubSeqProperties
  <2>3. k.savepoints[i] \in Savepoint
    BY <1>2
  <2>4. k.savepoints[i].pending \in Logs
    BY <2>3 DEF Savepoint
  <2>5. Released(i) \in Session
    BY <1>2, <2>2 DEF Session
  <2>6. Undone(i) \in Session
    BY <2>2, <2>4 DEF Session
  <2> QED
    BY <2>5, <2>6
<1>9. PICK x \in Session : conn' = [conn EXCEPT ![c] = x] /\ (k = Idle => x = Idle)
  BY <1>4, <1>5, <1>6, <1>7, <1>8
<1> HIDE DEF l
<1>10. conn[c] = Idle => x = Idle
  BY <1>9
<1>11. rows' \in Logs /\ idle' = idle
  BY <1>2, <1>4
<1> QED
  BY <1>1, <1>3, <1>4, <1>9, <1>10, <1>11, ServeKeeps

\* The answer to ROLLBACK of forceRollback.
LEMMA ForcedKeeps ==
  ASSUME Inv, NEW c \in Clients, Forced(c)
  PROVE  Inv'
<1> DEFINE t == Asker(c)
           same == Head(queue[c]).attempt = call[t].attempt
           k == [call[t] EXCEPT !.active = call[t].active /\ ~same, !.forced = TRUE]
<1>1. queue[c] # <<>> /\ t \in Callers
  BY HeadIsHonest DEF Inv, Forced, Asked
<1>2. call[t] \in Context /\ rows \in Logs
  BY <1>1 DEF Inv, TypeOK, Context
<1>3. k \in Context /\ k.main = call[t].main /\ k.client = call[t].client /\ k.attempt = call[t].attempt
  <2>1. (call[t].active /\ ~same) \in BOOLEAN
    OBVIOUS
  <2> HIDE DEF same
  <2> QED
    BY <1>2, <2>1 DEF Context
<1>4. /\ call' = [call EXCEPT ![t] = k] /\ conn' = [conn EXCEPT ![c] = Idle] /\ Answer(c)
      /\ UNCHANGED <<rows, idle>>
  BY <1>1 DEF Forced, Inv, TypeOK
<1> HIDE DEF k
<1>5. Idle \in Session /\ rows' \in Logs /\ idle' = idle
  BY <1>2, <1>4, IdleType
<1> QED
  BY <1>1, <1>3, <1>4, <1>5, ServeKeeps

\* The server answers the main thread of a call: the call moves on.
LEMMA MainAnswered ==
  ASSUME Inv, NEW c \in Clients, queue[c] # <<>>, Answer(c), Head(queue[c]).from = "main",
         NEW k \in Context, call' = [call EXCEPT ![Asker(c)] = k],
         k.main \in {"new", "backoff"} => k.attempt < MaxAttempts,
         rows' \in Logs, NEW x \in Session, conn' = [conn EXCEPT ![c] = x],
         idle' = idle \/ idle' = idle \cup {c}, Pool'
  PROVE  Inv'
<1> USE DEF Inv
<1> DEFINE t == Asker(c)
<1>1. t \in Callers
  BY HeadIsHonest
<1>2. call' \in [Callers -> Context] /\ call'[t] = k /\ \A u \in Callers : u # t => call'[u] = call[u]
  BY <1>1, OneCall
<1> HIDE DEF t
<1>3. \A u \in Callers : SameSeat(u) \/ u = t
  BY <1>2 DEF SameSeat, Same
<1>4. queue' \in [Clients -> Seq(Query)] /\ Asks'
  BY <1>3, AnswerKeeps DEF t
<1>5. conn' \in [Clients -> Session]
  BY DEF TypeOK, Session
<1>6. TypeOK'
  BY <1>2, <1>4, <1>5 DEF TypeOK, Context, Session
<1>7. AttemptLeft'
  BY <1>2 DEF AttemptLeft
<1> QED
  BY <1>4, <1>6, <1>7

LEMMA BeginKeeps ==
  ASSUME Inv, NEW c \in Clients, Begin(c)
  PROVE  Inv'
<1> DEFINE t == Asker(c)
           o == [call[t] EXCEPT !.main = "operating"]
           k == AtStep(o, t, 1)
           x == [conn[c] EXCEPT !.status = "open"]
<1>1. /\ queue[c] # <<>> /\ t \in Callers /\ Head(queue[c]).from = "main"
      /\ call[t].client = c /\ call[t].main = "begin"
  BY HeadIsHonest DEF Inv, Begin, Asked
<1>2. call[t] \in Context /\ conn[c] \in Session /\ rows \in Logs
  BY <1>1 DEF Inv, TypeOK, Context, Session
<1>3. o \in Context /\ o.main = "operating" /\ o.client = c
  BY <1>1, <1>2 DEF Context, Mains
<1> HIDE DEF o
<1>4. k \in Context /\ k.main = "operating" /\ k.client = c
  BY <1>1, <1>3, AtStepType
<1>5. x \in Session
  BY <1>2 DEF Session
<1>6. /\ call' = [call EXCEPT ![t] = k] /\ conn' = [conn EXCEPT ![c] = x] /\ Answer(c)
      /\ UNCHANGED <<rows, idle>>
  BY <1>2 DEF Begin, Inv, TypeOK, o
<1> HIDE DEF k, x
<1>7. call'[t] = k /\ \A u \in Callers : u # t => call'[u] = call[u]
  BY <1>1, <1>4, <1>6, OneCall DEF Inv
<1>8. Pool'
  <2>1. Holds(t, c) /\ call'[t].client = c /\ call'[t].main \in Holding \cap Transacting
    BY <1>1, <1>4, <1>7 DEF Holds, Holding, Transacting
  <2>2. \A d \in Clients \ {c} : conn'[d] = conn[d]
    BY <1>6 DEF Inv, TypeOK
  <2>3. idle' = idle /\ \A u \in Callers : u # t => SameSeat(u)
    BY <1>6, <1>7 DEF SameSeat, Same
  <2> QED
    BY <1>1, <2>1, <2>2, <2>3, PoolMoves DEF Inv
<1>9. rows' \in Logs /\ idle' = idle
  BY <1>2, <1>6
<1> QED
  BY <1>1, <1>4, <1>5, <1>6, <1>8, <1>9, MainAnswered

\* The main thread of a call ends with its client idle: COMMIT, and ROLLBACK
\* without a retry.
LEMMA EndKeeps ==
  ASSUME Inv, NEW c \in Clients, queue[c] # <<>>, Answer(c), Head(queue[c]).from = "main",
         call[Asker(c)].main \in Holding,
         NEW outcome \in {"ok", "failed"}, Release(Asker(c), outcome),
         rows' \in Logs, conn' = [conn EXCEPT ![c] = Idle]
  PROVE  Inv'
<1> DEFINE t == Asker(c)
           k == [call[t] EXCEPT !.main = outcome, !.active = FALSE]
<1>1. t \in Callers /\ call[t].client = c /\ Idle \in Session
  BY HeadIsHonest, IdleType DEF Inv
<1>2. call[t] \in Context
  BY <1>1 DEF Inv, TypeOK, Context
<1>3. k \in Context /\ k.main = outcome
  BY <1>2 DEF Context, Mains
<1>4. call' = [call EXCEPT ![t] = k] /\ idle' = idle \cup {c}
  BY <1>1 DEF Release
<1> HIDE DEF k
<1>5. call'[t] = k /\ \A u \in Callers : u # t => call'[u] = call[u]
  BY <1>1, <1>3, <1>4, OneCall DEF Inv
<1>6. Pool'
  <2>1. Holds(t, c) /\ call'[t].main \notin Holding
    BY <1>1, <1>3, <1>5 DEF Holds, Holding
  <2>2. conn'[c] = Idle /\ \A d \in Clients \ {c} : conn'[d] = conn[d]
    BY DEF Inv, TypeOK
  <2>3. \A u \in Callers : u # t => SameSeat(u)
    BY <1>5 DEF SameSeat, Same
  <2> QED
    BY <1>1, <1>4, <2>1, <2>2, <2>3, PoolRelease DEF Inv
<1> QED
  BY <1>1, <1>3, <1>4, <1>6, MainAnswered

LEMMA CommittedType ==
  ASSUME TypeOK, NEW c \in Clients
  PROVE  Committed(c) \in Logs
<1>1. rows \in Logs /\ conn[c].pending \in Logs
  BY DEF TypeOK
<1>2. \A r \in Rows : rows[r] \in Seq(Write) /\ conn[c].pending[r] \in Seq(Write)
  BY <1>1 DEF Logs
<1>3. \A r \in Rows : rows[r] \o conn[c].pending[r] \in Seq(Write)
  BY <1>2
<1> QED
  BY <1>3 DEF Committed, Logs

LEMMA CommitKeeps ==
  ASSUME Inv, NEW c \in Clients, Commit(c)
  PROVE  Inv'
<1>1. queue[c] # <<>> /\ Head(queue[c]).what = "commit"
  BY DEF Commit, Asked
<1>2. Head(queue[c]).from = "main" /\ call[Asker(c)].main = "commit"
  BY <1>1, HeadIsHonest DEF Inv
<1>3. rows' \in Logs
  BY CommittedType DEF Inv, TypeOK, Commit
<1>4. Answer(c) /\ Release(Asker(c), "ok") /\ conn' = [conn EXCEPT ![c] = Idle]
  BY DEF Commit
<1> QED
  BY <1>1, <1>2, <1>3, <1>4, EndKeeps DEF Holding

LEMMA RollbackKeeps ==
  ASSUME Inv, NEW c \in Clients, Rollback(c)
  PROVE  Inv'
<1> DEFINE t == Asker(c)
<1>1. queue[c] # <<>> /\ Head(queue[c]).what = "rollback" /\ Head(queue[c]).from = "main"
  BY DEF Rollback, Asked
<1>2. t \in Callers /\ call[t].client = c /\ call[t].main = "rollback"
  BY <1>1, HeadIsHonest DEF Inv
<1>3. rows' \in Logs /\ rows' = rows /\ Answer(c) /\ conn' = [conn EXCEPT ![c] = Idle]
  BY DEF Rollback, Inv, TypeOK
<1>4. CASE Retries(call[t], call[t].error)
  <2> DEFINE k == [call[t] EXCEPT !.main = "backoff", !.error = "none"]
  <2>1. call[t] \in Context /\ Idle \in Session
    BY <1>2, IdleType DEF Inv, TypeOK, Context
  <2>2. k \in Context /\ k.main = "backoff" /\ k.client = c /\ k.attempt < MaxAttempts
    BY <1>2, <1>4, <2>1 DEF Context, Mains, Errors, Retries
  <2>3. call' = [call EXCEPT ![t] = k] /\ idle' = idle
    BY <1>4 DEF Rollback
  <2> HIDE DEF k
  <2>4. call'[t] = k /\ \A u \in Callers : u # t => call'[u] = call[u]
    BY <1>2, <2>2, <2>3, OneCall DEF Inv
  <2>5. Pool'
    <3>1. Holds(t, c) /\ call'[t].client = c /\ call'[t].main \in Holding
      BY <1>2, <2>2, <2>4 DEF Holds, Holding
    <3>2. conn'[c] = Idle /\ \A d \in Clients \ {c} : conn'[d] = conn[d]
      BY <1>3 DEF Inv, TypeOK
    <3>3. \A u \in Callers : u # t => SameSeat(u)
      BY <2>4 DEF SameSeat, Same
    <3> QED
      BY <1>2, <2>3, <3>1, <3>2, <3>3, PoolMoves DEF Inv
  <2> QED
    BY <1>1, <1>3, <2>1, <2>2, <2>3, <2>5, MainAnswered
<1>5. CASE ~Retries(call[t], call[t].error)
  <2>1. Release(t, "failed")
    BY <1>5 DEF Rollback
  <2> QED
    BY <1>1, <1>2, <1>3, <2>1, EndKeeps DEF Holding
<1> QED
  BY <1>4, <1>5

\* The connection is lost: the call that waits for it, if any, gives the client
\* back or backs off, and nothing is left in its queue.
LEMMA BreakKeeps ==
  ASSUME Inv, NEW c \in Clients, Break(c)
  PROVE  Inv'
<1> USE DEF Inv
<1> DEFINE live == {t \in Callers : call[t].client = c /\ (Holds(t, c) \/ call[t].op \in {"ready", "sent"})}
           caught == {t \in live : Holds(t, c) /\ call[t].main # "backoff"}
           Reason(t) == IF call[t].main = "rollback" THEN call[t].error ELSE "broken"
           failed == {t \in caught : ~Retries(call[t], Reason(t))}
           main(t) == IF t \in failed THEN "failed" ELSE IF t \in caught THEN "backoff" ELSE call[t].main
           error(t) == IF t \in failed THEN Reason(t) ELSE IF t \in caught THEN "none" ELSE call[t].error
           active(t) == call[t].active /\ t \notin failed
           k(t) == [call[t] EXCEPT !.op = "over", !.main = main(t), !.active = active(t), !.error = error(t)]
<1>1. /\ call' = [t \in Callers |-> IF t \notin live THEN call[t] ELSE k(t)]
      /\ idle' = IF failed = {} THEN idle ELSE idle \cup {c}
      /\ conn' = [conn EXCEPT ![c] = Idle]
      /\ queue' = [queue EXCEPT ![c] = <<>>]
  BY DEF Break
<1>2. rows' \in Logs
  BY CommittedType DEF Break, TypeOK
<1>3. \A t \in Callers : call[t] \in Context
  BY DEF TypeOK, Context
<1>4. \A t \in failed : t \in caught
  OBVIOUS
<1>5. \A t \in caught : t \in live /\ Holds(t, c) /\ call[t].main # "backoff"
  OBVIOUS
<1>6. \A t \in live : t \in Callers /\ call[t].client = c
  OBVIOUS
<1>7. \A t \in caught : t \notin failed => call[t].attempt < MaxAttempts
  BY DEF Retries
<1>8. \A t \in Callers : Reason(t) \in Errors
  BY <1>3 DEF Errors, Context
<1>9. \A t \in Callers : t \notin live => ~Holds(t, c)
  BY DEF Holds
<1>10. \A t \in Callers : Holds(t, c) /\ t \notin caught => call[t].main = "backoff"
  BY <1>9
<1> HIDE DEF failed, caught, live, Reason
<1>11. \A t \in Callers : main(t) \in Mains /\ error(t) \in Errors /\ active(t) \in BOOLEAN
  BY <1>3, <1>8 DEF Mains, Errors, Context
<1> HIDE DEF main, error, active
<1>12. \A t \in Callers : k(t) \in Context /\ k(t).main = main(t)
                          /\ k(t).client = call[t].client /\ k(t).attempt = call[t].attempt
  BY <1>3, <1>11 DEF Context
<1> HIDE DEF k
<1>13. call' \in [Callers -> Context]
  BY <1>1, <1>3, <1>12
<1>14. \A t \in Callers : /\ call'[t].client = call[t].client
                          /\ call'[t].attempt = call[t].attempt
                          /\ call'[t].main = IF t \in live THEN main(t) ELSE call[t].main
  BY <1>1, <1>12
<1>15. \A t \in Callers : call'[t].main = main(t)
  BY <1>4, <1>5, <1>14 DEF main
<1>16. \A t \in Callers : t \notin caught => SameSeat(t)
  BY <1>4, <1>14, <1>15 DEF main, SameSeat, Same
<1>17. AttemptLeft'
  BY <1>4, <1>7, <1>14, <1>15 DEF AttemptLeft, main
<1>18. conn' \in [Clients -> Session] /\ conn'[c] = Idle /\ \A d \in Clients \ {c} : conn'[d] = conn[d]
  BY <1>1, IdleType DEF TypeOK, Session
<1>19. queue' \in [Clients -> Seq(Query)]
  BY <1>1 DEF TypeOK
<1>20. TypeOK'
  BY <1>1, <1>2, <1>13, <1>18, <1>19 DEF TypeOK, Context, Session
<1>21. Asks'
  <2> SUFFICES ASSUME NEW d \in Clients PROVE HonestQueue(call', queue'[d], d)
    BY DEF Asks
  <2>1. CASE d = c
    BY <1>1, <2>1 DEF TypeOK, HonestQueue
  <2>2. CASE d # c
    <3>1. queue'[d] = queue[d] /\ queue[d] \in Seq(Query) /\ HonestQueue(call, queue[d], d)
      BY <1>1, <2>2 DEF TypeOK, Asks
    <3>2. \A i \in DOMAIN queue[d] : queue[d][i] \in Query
      BY <3>1
    <3>3. \A i \in DOMAIN queue[d] : queue[d][i].call \in Callers
      BY <3>2 DEF Query
    <3>4. \A i \in DOMAIN queue[d] : queue[d][i].from = "main" => queue[d][i].call \notin caught
      BY <1>5, <1>6, <2>2, <3>1 DEF HonestQueue, Honest
    <3> QED
      BY <1>16, <3>1, <3>3, <3>4, QueueStays DEF SameSeat
  <2> QED
    BY <2>1, <2>2
<1>22. Pool'
  <2>1. CASE failed = {}
    <3>1. \A t \in Callers : call'[t].main \in Holding <=> call[t].main \in Holding
      BY <1>5, <1>15, <2>1 DEF main, Holds, Holding
    <3>2. \A t \in Callers, d \in Clients : Holds(t, d)' <=> Holds(t, d)
      BY <1>14, <3>1 DEF Holds, Holding
    <3>3. \A t \in Callers, d \in Clients : d # c /\ OwnedBy(t, d) => OwnedBy(t, d)'
      BY <1>5, <1>6, <1>16 DEF OwnedBy, SameSeat, Same
    <3>4. Seated'
      BY <1>14, <3>1 DEF Pool, Seated
    <3>5. Alone'
      BY <3>2 DEF Pool, Alone
    <3>6. PoolAgrees'
      BY <1>1, <2>1, <3>2 DEF Pool, PoolAgrees
    <3>7. Owned'
      BY <1>18, <3>3 DEF Pool, Owned
    <3> QED
      BY <3>4, <3>5, <3>6, <3>7 DEF Pool
  <2>2. CASE failed # {}
    <3>1. PICK t \in failed : TRUE
      BY <2>2
    <3>2. t \in Callers /\ Holds(t, c)
      BY <1>4, <1>5, <1>6
    <3>3. \A u \in Callers : u # t => SameSeat(u)
      BY <1>5, <1>16, <3>2 DEF Pool, Alone
    <3>4. call'[t].main \notin Holding
      BY <1>15, <3>2 DEF main, Holding
    <3>5. idle' = idle \cup {c}
      BY <1>1, <2>2
    <3> QED
      BY <1>18, <3>2, <3>3, <3>4, <3>5, PoolRelease
  <2> QED
    BY <2>1, <2>2
<1> QED
  BY <1>17, <1>20, <1>21, <1>22

LEMMA EveryStep ==
  ASSUME AttemptsAssumption, Inv, [Next]_vars
  PROVE  Inv'
<1>1. ASSUME NEW t \in Callers, NEW c \in Clients, Connect(t, c) PROVE Inv'
  BY <1>1, ConnectKeeps
<1>2. ASSUME NEW t \in Callers, Operation(t) PROVE Inv'
  BY <1>2, IssueKeeps, SettleKeeps, BackOffKeeps DEF Operation
<1>3. ASSUME NEW t \in Callers, TimeOut(t) \/ ForceRollback(t) PROVE Inv'
  BY <1>3, TimeOutKeeps, ForceRollbackKeeps
<1>4. ASSUME NEW c \in Clients, Serve(c) PROVE Inv'
  BY <1>4, BeginKeeps, WriteRowKeeps, SavepointsKeeps, CommitKeeps, RollbackKeeps, ForcedKeeps DEF Serve
<1>5. ASSUME NEW c \in Clients, Deadlock(c) \/ Cancel(c) PROVE Inv'
  BY <1>5, FailWriteKeeps DEF Deadlock, Cancel, Errors
<1>6. ASSUME NEW c \in Clients, Break(c) PROVE Inv'
  BY <1>6, BreakKeeps
<1>7. CASE UNCHANGED vars
  BY <1>7 DEF vars, Inv, TypeOK, AttemptLeft, Pool, Seated, Alone, PoolAgrees, Owned, Holds, OwnedBy, Asks
<1> QED
  BY <1>1, <1>2, <1>3, <1>4, <1>5, <1>6, <1>7 DEF Next, Terminated

-----------------------------------------------------------------------------
(* Theorems *)

THEOREM Invariant ==
  ASSUME AttemptsAssumption
  PROVE  Spec => []Inv
<1>1. Init => Inv
  BY Initially
<1>2. Inv /\ [Next]_vars => Inv'
  BY EveryStep
<1> QED
  BY <1>1, <1>2, PTL DEF Spec

\* For any calls, clients, operations, attempts, timeouts, forced rollbacks and
\* lost connections, a client is in the pool or held by exactly one call, and
\* one in the pool has no transaction (TransactionManager.withTransaction).
THEOREM ClientsComeBackClean ==
  ASSUME AttemptsAssumption
  PROVE  Spec => []PoolClean
<1>1. Inv => PoolClean
  <2> SUFFICES ASSUME Inv, NEW c \in Clients
               PROVE  /\ \A t, u \in Callers : Holds(t, c) /\ Holds(u, c) => t = u
                      /\ c \in idle <=> ~\E t \in Callers : Holds(t, c)
                      /\ c \in idle => conn[c] = Idle
    BY DEF PoolClean
  <2>1. \A t \in Callers : OwnedBy(t, c) => Holds(t, c)
    BY DEF OwnedBy, Transacting, Holds
  <2> QED
    BY <2>1 DEF Inv, Pool, Alone, PoolAgrees, Owned
<1> QED
  BY <1>1, Invariant, PTL

\* The contexts, the server's sessions and the queues keep their types; in
\* particular no call makes more than MaxAttempts attempts.
THEOREM TypeCorrect ==
  ASSUME AttemptsAssumption
  PROVE  Spec => []TypeOK
<1>1. Inv => TypeOK
  BY DEF Inv
<1> QED
  BY <1>1, Invariant, PTL

-----------------------------------------------------------------------------
(* What is written.  The definitions take it as arguments: R, the committed *)
(* rows; P, the uncommitted writes of each client; k, the calls.           *)

Pending == [c \in Clients |-> conn[c].pending]

\* The rows as they are if what is pending in p is committed.
Join(R, p) == [r \in Rows |-> R[r] \o p[r]]

\* Some write of t is in the logs L; and the write w itself.
Of(L, t) == \E r \in Rows : \E i \in DOMAIN L[r] : L[r][i][1] = t
Has(L, w) == \E r \in Rows : \E i \in DOMAIN L[r] : L[r][i] = w

\* Each versioned write of a row found the version that its call had seen.
TurnsIn(k, log, r) ==
  \A i \in DOMAIN log :
    IsLock(log[i]) => Version(SubSeq(log, 1, i - 1)) = Version(k[log[i][1]].seen[r])

Once(L) ==
  \A r, q \in Rows : \A i \in DOMAIN L[r], j \in DOMAIN L[q] : L[r][i] = L[q][j] => r = q /\ i = j

\* The operation has passed the statement w of its call.
Passed(k, w) ==
  \/ w[2] < k[w[1]].step
  \/ w[2] = k[w[1]].step /\ k[w[1]].phase \notin {"save", "write"}

\* A row has uncommitted writes of one client only.
Locked(P) == \A c, d \in Clients : c # d => \A r \in Rows : P[c][r] = <<>> \/ P[d][r] = <<>>

InOrder(R, P, k) ==
  \A r \in Rows : TurnsIn(k, R[r], r) /\ \A c \in Clients : TurnsIn(k, R[r] \o P[c][r], r)

Unrepeated(R, P) == Once(R) /\ \A c \in Clients : Once(Join(R, P[c]))

\* Writes are of statements that their calls have passed, and the uncommitted
\* ones of a client are of calls that have, or had, this client.
Attributed(R, P, k) ==
  /\ \A w \in Write : Has(R, w) => Passed(k, w)
  /\ \A c \in Clients : \A w \in Write : Has(P[c], w) => Passed(k, w) /\ k[w[1]].client = c

Data(R, P, k) == Locked(P) /\ InOrder(R, P, k) /\ Unrepeated(R, P) /\ Attributed(R, P, k)

\* L has, of each row, the first writes of M.
Prefix(L, M) ==
  \A r \in Rows : Len(L[r]) <= Len(M[r]) /\ \A i \in 1..Len(L[r]) : L[r][i] = M[r][i]

\* A session outside a transaction is empty, and each savepoint has what was
\* written before it.
Nested(s) ==
  /\ s.status = "idle" => s = Idle
  /\ \A i \in DOMAIN s.savepoints : Prefix(s.savepoints[i].pending, s.pending)
  /\ \A i, j \in DOMAIN s.savepoints :
       i <= j => Prefix(s.savepoints[i].pending, s.savepoints[j].pending)

Sessions == \A c \in Clients : Nested(conn[c])

\* A call that begins, first or again, has written nothing; one that failed by a
\* deadlock has committed nothing; nor has one whose transaction is open.
Unwritten == {"new", "begin", "backoff"}
Untouched ==
  \A t \in Callers :
    /\ call[t].main \in Unwritten => ~Of(rows, t) /\ \A c \in Clients : ~Of(Pending[c], t)
    /\ call[t].main \in {"operating", "rollback"} /\ call[t].error = "deadlock" => ~Of(rows, t)
    /\ \A c \in Clients : OwnedBy(t, c) /\ conn[c].status # "idle" => ~Of(rows, t)

\* How far the operation of t may be, given its main thread; it is at a
\* statement of its work.
Thread(t, k) ==
  /\ k.main \in Unwritten => k.op \in {"idle", "over"} /\ k.error = "none"
  /\ k.main = "operating" /\ k.error = "deadlock" => k.op = "ready" /\ k.phase = "raise"
  /\ k.main = "commit" => k.op = "over"
  /\ k.main = "rollback" => k.op = "over" \/ k.error = "timeout"
  /\ k.op \in {"ready", "sent"} /\ k.phase \notin {"raise", "return"} => k.step \in DOMAIN Work[t]

Threads == \A t \in Callers : Thread(t, call[t])

\* The query of an operation is the one that it waits for, and is there once.
Awaited(k, q, c) ==
  q.from = "operation" => /\ k[q.call].client = c
                          /\ k[q.call].op = "sent"
                          /\ k[q.call].phase = q.what

AwaitedQueue(k, s, c) ==
  /\ \A i \in DOMAIN s : Awaited(k, s[i], c)
  /\ \A i, j \in DOMAIN s :
       s[i].from = "operation" /\ s[j].from = "operation" /\ s[i].call = s[j].call => i = j

Awaits == \A c \in Clients : AwaitedQueue(call, queue[c], c)

UInv == Inv /\ Data(rows, Pending, call) /\ Sessions /\ Untouched /\ Threads /\ Awaits

-----------------------------------------------------------------------------
(* Sequences *)

LEMMA ConcatProps ==
  ASSUME NEW Q, NEW s \in Seq(Q), NEW u \in Seq(Q)
  PROVE  /\ s \o u \in Seq(Q) /\ Len(s \o u) = Len(s) + Len(u) /\ Len(s) \in Nat /\ Len(u) \in Nat
         /\ \A i \in 1..Len(s) : (s \o u)[i] = s[i]
         /\ \A i \in 1..Len(u) : (s \o u)[Len(s) + i] = u[i]
<1>1. s \o u \in Seq(Q) /\ Len(s \o u) = Len(s) + Len(u) /\ Len(s) \in Nat /\ Len(u) \in Nat
  OBVIOUS
<1>2. \A i \in 1..(Len(s) + Len(u)) : (s \o u)[i] = IF i <= Len(s) THEN s[i] ELSE u[i - Len(s)]
  BY <1>1, ConcatProperties
<1>3. \A i \in 1..Len(s) : (s \o u)[i] = s[i]
  BY <1>1, <1>2
<1>4. ASSUME NEW i \in 1..Len(u) PROVE (s \o u)[Len(s) + i] = u[i]
  <2>1. Len(s) + i \in 1..(Len(s) + Len(u)) /\ ~(Len(s) + i <= Len(s)) /\ (Len(s) + i) - Len(s) = i
    BY <1>1
  <2> QED
    BY <1>2, <2>1
<1> QED
  BY <1>1, <1>3, <1>4

\* The log before the i-th write is that of any log with the same beginning.
LEMMA SameBefore ==
  ASSUME NEW Q, NEW s \in Seq(Q), NEW u \in Seq(Q), NEW n \in Nat,
         n <= Len(s), n <= Len(u), \A i \in 1..n : s[i] = u[i]
  PROVE  SubSeq(s, 1, n) = SubSeq(u, 1, n)
<1>1. /\ SubSeq(s, 1, n) \in Seq(Q) /\ Len(SubSeq(s, 1, n)) = n
      /\ \A i \in 1..n : SubSeq(s, 1, n)[i] = s[i]
  BY SubSeqProperties
<1>2. /\ SubSeq(u, 1, n) \in Seq(Q) /\ Len(SubSeq(u, 1, n)) = n
      /\ \A i \in 1..n : SubSeq(u, 1, n)[i] = u[i]
  BY SubSeqProperties
<1> QED
  BY <1>1, <1>2, SeqEqual

\* The turns in a log are those of any log that begins with it.
LEMMA TurnsInPrefix ==
  ASSUME NEW k, NEW r, NEW s \in Seq(Write), NEW u \in Seq(Write), TurnsIn(k, u, r),
         Len(s) <= Len(u), \A i \in 1..Len(s) : s[i] = u[i]
  PROVE  TurnsIn(k, s, r)
<1> SUFFICES ASSUME NEW i \in DOMAIN s, IsLock(s[i])
             PROVE  Version(SubSeq(s, 1, i - 1)) = Version(k[s[i][1]].seen[r])
  BY DEF TurnsIn
<1>1. Len(s) \in Nat /\ Len(u) \in Nat /\ i \in 1..Len(s) /\ i \in DOMAIN u /\ s[i] = u[i]
  OBVIOUS
<1>2. SubSeq(s, 1, i - 1) = SubSeq(u, 1, i - 1)
  <2>1. i - 1 \in Nat /\ i - 1 <= Len(s) /\ i - 1 <= Len(u) /\ \A j \in 1..(i - 1) : s[j] = u[j]
    BY <1>1
  <2> QED
    BY <2>1, SameBefore
<1>3. Version(SubSeq(u, 1, i - 1)) = Version(k[u[i][1]].seen[r])
  BY <1>1 DEF TurnsIn
<1> QED
  BY <1>1, <1>2, <1>3

\* A write is added that finds the version its call has seen.
LEMMA TurnsInAppend ==
  ASSUME NEW k, NEW r, NEW s \in Seq(Write), NEW w \in Write, TurnsIn(k, s, r),
         IsLock(w) => Version(s) = Version(k[w[1]].seen[r])
  PROVE  TurnsIn(k, Append(s, w), r)
<1> DEFINE a == Append(s, w)
<1> SUFFICES ASSUME NEW i \in DOMAIN a, IsLock(a[i])
             PROVE  Version(SubSeq(a, 1, i - 1)) = Version(k[a[i][1]].seen[r])
  BY DEF TurnsIn
<1>1. Len(s) \in Nat /\ a \in Seq(Write) /\ Len(a) = Len(s) + 1 /\ i \in 1..(Len(s) + 1)
  OBVIOUS
<1>2. (\A j \in 1..Len(s) : a[j] = s[j]) /\ a[Len(s) + 1] = w
  OBVIOUS
<1> HIDE DEF a
<1>3. SubSeq(a, 1, i - 1) = SubSeq(s, 1, i - 1)
  <2>1. i - 1 \in Nat /\ i - 1 <= Len(a) /\ i - 1 <= Len(s) /\ \A j \in 1..(i - 1) : a[j] = s[j]
    BY <1>1, <1>2
  <2> QED
    BY <1>1, <2>1, SameBefore
<1>4. CASE i \in 1..Len(s)
  <2>1. Version(SubSeq(s, 1, i - 1)) = Version(k[s[i][1]].seen[r])
    BY <1>2, <1>4 DEF TurnsIn
  <2> QED
    BY <1>2, <1>3, <1>4, <2>1
<1>5. CASE i = Len(s) + 1
  <2>1. SubSeq(s, 1, i - 1) = s
    <3>1. i - 1 = Len(s)
      BY <1>1, <1>5
    <3>2. SubSeq(s, 1, Len(s)) \in Seq(Write) /\ Len(SubSeq(s, 1, Len(s))) = Len(s)
          /\ \A j \in 1..Len(s) : SubSeq(s, 1, Len(s))[j] = s[j]
      BY <1>1, SubSeqProperties
    <3> QED
      BY <3>1, <3>2, SeqEqual
  <2> QED
    BY <1>2, <1>3, <1>5, <2>1
<1> QED
  BY <1>1, <1>4, <1>5

-----------------------------------------------------------------------------
(* Logs *)

Added(L, r, w) == [L EXCEPT ![r] = Append(L[r], w)]

LEMMA JoinType ==
  ASSUME NEW R \in Logs, NEW p \in Logs
  PROVE  /\ Join(R, p) \in Logs
         /\ \A r \in Rows : /\ Join(R, p)[r] = R[r] \o p[r]
                            /\ R[r] \in Seq(Write) /\ p[r] \in Seq(Write)
<1>1. \A r \in Rows : R[r] \in Seq(Write) /\ p[r] \in Seq(Write)
  BY DEF Logs
<1>2. \A r \in Rows : R[r] \o p[r] \in Seq(Write)
  BY <1>1
<1> QED
  BY <1>1, <1>2 DEF Join, Logs

\* A write of the joined rows is in the rows or pending.
LEMMA JoinElement ==
  ASSUME NEW s \in Seq(Write), NEW u \in Seq(Write), NEW i \in DOMAIN (s \o u)
  PROVE  \/ i \in DOMAIN s /\ (s \o u)[i] = s[i]
         \/ \E j \in DOMAIN u : i = Len(s) + j /\ (s \o u)[i] = u[j]
<1>1. /\ s \o u \in Seq(Write) /\ Len(s \o u) = Len(s) + Len(u) /\ Len(s) \in Nat /\ Len(u) \in Nat
      /\ \A j \in 1..Len(s) : (s \o u)[j] = s[j]
      /\ \A j \in 1..Len(u) : (s \o u)[Len(s) + j] = u[j]
  BY ConcatProps
<1>2. i \in 1..(Len(s) + Len(u))
  BY <1>1
<1>3. CASE i <= Len(s)
  BY <1>1, <1>2, <1>3
<1>4. CASE ~(i <= Len(s))
  <2> DEFINE j == i - Len(s)
  <2>1. j \in 1..Len(u) /\ i = Len(s) + j
    BY <1>1, <1>2, <1>4
  <2> HIDE DEF j
  <2> QED
    BY <1>1, <2>1
<1> QED
  BY <1>3, <1>4

LEMMA AddedType ==
  ASSUME NEW L \in Logs, NEW r \in Rows, NEW w \in Write
  PROVE  /\ Added(L, r, w) \in Logs
         /\ Added(L, r, w)[r] = Append(L[r], w)
         /\ \A q \in Rows : q # r => Added(L, r, w)[q] = L[q]
         /\ \A q \in Rows : L[q] \in Seq(Write)
<1>1. \A q \in Rows : L[q] \in Seq(Write)
  BY DEF Logs
<1>2. Added(L, r, w) \in Logs
  BY LogType DEF Added
<1> QED
  BY <1>1, <1>2 DEF Added, Logs

LEMMA AddedElement ==
  ASSUME NEW L \in Logs, NEW r \in Rows, NEW w \in Write,
         NEW q \in Rows, NEW i \in DOMAIN Added(L, r, w)[q]
  PROVE  \/ i \in DOMAIN L[q] /\ Added(L, r, w)[q][i] = L[q][i]
         \/ q = r /\ i = Len(L[r]) + 1 /\ Added(L, r, w)[q][i] = w
<1>1. CASE q = r
  <2>1. L[r] \in Seq(Write) /\ Added(L, r, w)[q] = Append(L[r], w)
    BY <1>1, AddedType
  <2> QED
    BY <1>1, <2>1, Appended
<1>2. CASE q # r
  BY <1>2, AddedType
<1> QED
  BY <1>1, <1>2

LEMMA OnceAdded ==
  ASSUME NEW L \in Logs, NEW r \in Rows, NEW w \in Write, Once(L), ~Has(L, w)
  PROVE  Once(Added(L, r, w))
<1> DEFINE A == Added(L, r, w)
<1> SUFFICES ASSUME NEW p \in Rows, NEW q \in Rows, NEW i \in DOMAIN A[p], NEW j \in DOMAIN A[q], A[p][i] = A[q][j]
             PROVE  p = q /\ i = j
  BY DEF Once
<1>1. \/ i \in DOMAIN L[p] /\ A[p][i] = L[p][i]
      \/ p = r /\ i = Len(L[r]) + 1 /\ A[p][i] = w
  BY AddedElement
<1>2. \/ j \in DOMAIN L[q] /\ A[q][j] = L[q][j]
      \/ q = r /\ j = Len(L[r]) + 1 /\ A[q][j] = w
  BY AddedElement
<1> HIDE DEF A
<1> QED
  BY <1>1, <1>2 DEF Once, Has

LEMMA PrefixFacts ==
  ASSUME NEW L \in Logs, NEW M \in Logs, Prefix(L, M)
  PROVE  /\ \A r \in Rows : \A i \in DOMAIN L[r] : i \in DOMAIN M[r] /\ L[r][i] = M[r][i]
         /\ \A r \in Rows : M[r] = <<>> => L[r] = <<>>
         /\ \A r \in Rows : L[r] \in Seq(Write) /\ M[r] \in Seq(Write)
<1>1. \A r \in Rows : L[r] \in Seq(Write) /\ M[r] \in Seq(Write)
  BY DEF Logs
<1>2. ASSUME NEW r \in Rows
      PROVE  /\ \A i \in DOMAIN L[r] : i \in DOMAIN M[r] /\ L[r][i] = M[r][i]
             /\ M[r] = <<>> => L[r] = <<>>
  <2> DEFINE s == L[r]
             u == M[r]
  <2>1. s \in Seq(Write) /\ u \in Seq(Write) /\ Len(s) <= Len(u) /\ \A i \in 1..Len(s) : s[i] = u[i]
    BY <1>1 DEF Prefix
  <2> HIDE DEF s, u
  <2>2. \A i \in DOMAIN s : i \in DOMAIN u /\ s[i] = u[i]
    BY <2>1
  <2>3. u = <<>> => s = <<>>
    BY <2>1
  <2> QED
    BY <2>2, <2>3 DEF s, u
<1> QED
  BY <1>1, <1>2

LEMMA OncePrefix ==
  ASSUME NEW L \in Logs, NEW M \in Logs, Prefix(L, M), Once(M)
  PROVE  Once(L)
BY PrefixFacts DEF Once

LEMMA PrefixJoin ==
  ASSUME NEW R \in Logs, NEW L \in Logs, NEW M \in Logs, Prefix(L, M)
  PROVE  Prefix(Join(R, L), Join(R, M))
<1> SUFFICES ASSUME NEW r \in Rows
             PROVE  /\ Len(Join(R, L)[r]) <= Len(Join(R, M)[r])
                    /\ \A i \in 1..Len(Join(R, L)[r]) : Join(R, L)[r][i] = Join(R, M)[r][i]
  BY DEF Prefix
<1> DEFINE s == R[r]
           u == L[r]
           v == M[r]
<1>1. s \in Seq(Write) /\ u \in Seq(Write) /\ v \in Seq(Write) /\ Join(R, L)[r] = s \o u /\ Join(R, M)[r] = s \o v
  BY JoinType
<1>2. Len(u) <= Len(v) /\ \A i \in 1..Len(u) : u[i] = v[i]
  BY DEF Prefix
<1> HIDE DEF s, u, v
<1>3. /\ Len(s \o u) = Len(s) + Len(u) /\ Len(s) \in Nat /\ Len(u) \in Nat
      /\ \A i \in 1..Len(s) : (s \o u)[i] = s[i]
      /\ \A i \in 1..Len(u) : (s \o u)[Len(s) + i] = u[i]
  BY <1>1, ConcatProps
<1>4. /\ Len(s \o v) = Len(s) + Len(v) /\ Len(v) \in Nat
      /\ \A i \in 1..Len(s) : (s \o v)[i] = s[i]
      /\ \A i \in 1..Len(v) : (s \o v)[Len(s) + i] = v[i]
  BY <1>1, ConcatProps
<1>5. ASSUME NEW i \in 1..(Len(s) + Len(u)) PROVE (s \o u)[i] = (s \o v)[i]
  <2>1. CASE i <= Len(s)
    BY <1>3, <1>4, <2>1
  <2>2. CASE ~(i <= Len(s))
    <3> DEFINE j == i - Len(s)
    <3>1. j \in 1..Len(u) /\ j \in 1..Len(v) /\ i = Len(s) + j
      BY <1>2, <1>3, <1>4, <2>2
    <3> HIDE DEF j
    <3> QED
      BY <1>2, <1>3, <1>4, <3>1
  <2> QED
    BY <2>1, <2>2
<1> QED
  BY <1>1, <1>2, <1>3, <1>4, <1>5

LEMMA PrefixOrder ==
  /\ \A L \in Logs : Prefix(L, L)
  /\ \A L, M, N \in Logs : Prefix(L, M) /\ Prefix(M, N) => Prefix(L, N)
  /\ \A L \in Logs : Prefix(NoWrites, L)
<1>1. \A L \in Logs : \A r \in Rows : L[r] \in Seq(Write) /\ Len(L[r]) \in Nat
  BY DEF Logs
<1>2. \A L \in Logs : Prefix(L, L)
  BY <1>1 DEF Prefix
<1>3. \A L, M, N \in Logs : Prefix(L, M) /\ Prefix(M, N) => Prefix(L, N)
  <2> SUFFICES ASSUME NEW L \in Logs, NEW M \in Logs, NEW N \in Logs, Prefix(L, M), Prefix(M, N), NEW r \in Rows
               PROVE  Len(L[r]) <= Len(N[r]) /\ \A i \in 1..Len(L[r]) : L[r][i] = N[r][i]
    BY DEF Prefix
  <2>1. Len(L[r]) \in Nat /\ Len(M[r]) \in Nat /\ Len(N[r]) \in Nat
    BY <1>1
  <2>2. Len(L[r]) <= Len(M[r]) /\ Len(M[r]) <= Len(N[r])
    BY DEF Prefix
  <2>3. ASSUME NEW i \in 1..Len(L[r]) PROVE L[r][i] = N[r][i]
    <3>1. i \in 1..Len(M[r])
      BY <2>1, <2>2
    <3> QED
      BY <3>1 DEF Prefix
  <2> QED
    BY <2>1, <2>2, <2>3
<1>4. ASSUME NEW L \in Logs PROVE Prefix(NoWrites, L)
  <2>1. \A r \in Rows : NoWrites[r] = <<>> /\ Len(NoWrites[r]) = 0
    BY DEF NoWrites
  <2> QED
    BY <1>1, <2>1 DEF Prefix
<1> QED
  BY <1>2, <1>3, <1>4

-----------------------------------------------------------------------------
(* What was written *)

Pendings == [Clients -> Logs]
Calls == [Callers -> Context]

\* For the writes there are, the calls have seen the same, keep the client they
\* were made on, and have passed the statements.
Keeps(R, P, k, l) ==
  \A t \in Callers :
    Of(R, t) \/ (\E c \in Clients : Of(P[c], t)) =>
      /\ l[t].seen = k[t].seen /\ l[t].client = k[t].client
      /\ \A n \in Nat : Passed(k, <<t, n>>) => Passed(l, <<t, n>>)

LEMMA HasIsOf ==
  ASSUME NEW L \in Logs, NEW w \in Write, Has(L, w)
  PROVE  Of(L, w[1])
BY DEF Has, Of

LEMMA Element ==
  ASSUME NEW Q, NEW s \in Seq(Q), NEW i \in DOMAIN s
  PROVE  s[i] \in Q
OBVIOUS

LEMMA HasAt ==
  ASSUME NEW L, NEW r \in Rows, NEW i \in DOMAIN L[r]
  PROVE  Has(L, L[r][i])
BY DEF Has

LEMMA DataCalls ==
  ASSUME NEW R \in Logs, NEW P \in Pendings, NEW k, NEW l, Data(R, P, k), Keeps(R, P, k, l)
  PROVE  Data(R, P, l)
<1>1. \A r \in Rows : R[r] \in Seq(Write) /\ \A c \in Clients : P[c][r] \in Seq(Write)
  BY DEF Logs, Pendings
<1>2. ASSUME NEW w \in Write, NEW L \in Logs, L = R \/ \E c \in Clients : L = P[c], Has(L, w)
      PROVE  /\ l[w[1]].seen = k[w[1]].seen /\ l[w[1]].client = k[w[1]].client
             /\ Passed(k, w) => Passed(l, w)
  <2>1. Of(L, w[1]) /\ w[1] \in Callers /\ w[2] \in Nat /\ w = <<w[1], w[2]>>
    BY <1>2, HasIsOf DEF Write
  <2> QED
    BY <1>2, <2>1 DEF Keeps
<1>3. ASSUME NEW r \in Rows PROVE TurnsIn(l, R[r], r)
  <2> SUFFICES ASSUME NEW i \in DOMAIN R[r], IsLock(R[r][i])
               PROVE  Version(SubSeq(R[r], 1, i - 1)) = Version(l[R[r][i][1]].seen[r])
    BY DEF TurnsIn
  <2> DEFINE w == R[r][i]
  <2>1. R[r] \in Seq(Write)
    BY <1>1
  <2>2. w \in Write
    BY <2>1, Element
  <2>3. Has(R, w)
    BY HasAt
  <2> HIDE DEF w
  <2>4. l[w[1]].seen = k[w[1]].seen
    BY <1>2, <2>2, <2>3
  <2>5. l[R[r][i][1]].seen = k[R[r][i][1]].seen
    BY <2>4 DEF w
  <2> QED
    BY <2>5 DEF Data, InOrder, TurnsIn
<1>4. ASSUME NEW r \in Rows, NEW c \in Clients PROVE TurnsIn(l, R[r] \o P[c][r], r)
  <2> DEFINE s == R[r] \o P[c][r]
  <2> SUFFICES ASSUME NEW i \in DOMAIN s, IsLock(s[i])
               PROVE  Version(SubSeq(s, 1, i - 1)) = Version(l[s[i][1]].seen[r])
    BY DEF TurnsIn
  <2> DEFINE w == s[i]
  <2>1. R[r] \in Seq(Write) /\ P[c][r] \in Seq(Write) /\ s \in Seq(Write)
    BY <1>1
  <2>2. w \in Write
    BY <2>1, Element
  <2>3. \/ i \in DOMAIN R[r] /\ w = R[r][i]
        \/ \E j \in DOMAIN P[c][r] : w = P[c][r][j]
    BY <2>1, JoinElement
  <2>4. Has(R, w) \/ Has(P[c], w)
    BY <2>3 DEF Has
  <2>5. P[c] \in Logs
    BY DEF Pendings
  <2> HIDE DEF w
  <2>6. l[w[1]].seen = k[w[1]].seen
    BY <1>2, <2>2, <2>4, <2>5
  <2>7. l[s[i][1]].seen = k[s[i][1]].seen
    BY <2>6 DEF w
  <2>8. TurnsIn(k, s, r)
    BY DEF Data, InOrder
  <2> HIDE DEF s
  <2> QED
    BY <2>7, <2>8 DEF TurnsIn
<1>5. Attributed(R, P, l)
  BY <1>2 DEF Data, Attributed, Pendings
<1> QED
  BY <1>3, <1>4, <1>5 DEF Data, InOrder

\* Uncommitted writes are undone, the last ones first.
LEMMA DataShrinks ==
  ASSUME NEW R \in Logs, NEW P \in Pendings, NEW Q \in Pendings, NEW k, Data(R, P, k),
         \A c \in Clients : Prefix(Q[c], P[c])
  PROVE  Data(R, Q, k)
<1>1. ASSUME NEW c \in Clients
      PROVE  /\ P[c] \in Logs /\ Q[c] \in Logs
             /\ \A r \in Rows : P[c][r] = <<>> => Q[c][r] = <<>>
             /\ \A w \in Write : Has(Q[c], w) => Has(P[c], w)
  BY PrefixFacts DEF Pendings, Has
<1>2. Locked(Q)
  BY <1>1 DEF Data, Locked
<1>3. ASSUME NEW r \in Rows, NEW c \in Clients PROVE TurnsIn(k, R[r] \o Q[c][r], r)
  <2>1. Join(R, P[c])[r] = R[r] \o P[c][r] /\ Join(R, P[c])[r] \in Seq(Write)
    BY <1>1, JoinType DEF Logs
  <2>2. Join(R, Q[c])[r] = R[r] \o Q[c][r] /\ Join(R, Q[c])[r] \in Seq(Write)
    BY <1>1, JoinType DEF Logs
  <2>3. /\ Len(Join(R, Q[c])[r]) <= Len(Join(R, P[c])[r])
        /\ \A i \in 1..Len(Join(R, Q[c])[r]) : Join(R, Q[c])[r][i] = Join(R, P[c])[r][i]
    BY <1>1, PrefixJoin DEF Prefix
  <2>4. TurnsIn(k, Join(R, P[c])[r], r)
    BY <2>1 DEF Data, InOrder
  <2>5. TurnsIn(k, Join(R, Q[c])[r], r)
    BY <2>1, <2>2, <2>3, <2>4, TurnsInPrefix
  <2> QED
    BY <2>2, <2>5
<1>4. ASSUME NEW c \in Clients PROVE Once(Join(R, Q[c]))
  BY <1>1, JoinType, PrefixJoin, OncePrefix DEF Data, Unrepeated
<1>5. Attributed(R, Q, k)
  BY <1>1 DEF Data, Attributed
<1> QED
  BY <1>2, <1>3, <1>4, <1>5 DEF Data, InOrder, Unrepeated

\* s and u are joined to what Append makes of the one that is last.
LEMMA JoinAppend ==
  ASSUME NEW s \in Seq(Write), NEW u \in Seq(Write), NEW w \in Write
  PROVE  /\ s \o Append(u, w) = Append(s \o u, w)
         /\ s \o <<>> = s
<1> DEFINE a == s \o Append(u, w)
           b == Append(s \o u, w)
<1>1. /\ Append(u, w) \in Seq(Write) /\ Len(Append(u, w)) = Len(u) + 1 /\ Len(u) \in Nat
      /\ \A i \in 1..Len(u) : Append(u, w)[i] = u[i]
      /\ Append(u, w)[Len(u) + 1] = w
  OBVIOUS
<1>2. /\ a \in Seq(Write) /\ Len(a) = Len(s) + (Len(u) + 1) /\ Len(s) \in Nat
      /\ \A i \in 1..Len(s) : a[i] = s[i]
      /\ \A i \in 1..(Len(u) + 1) : a[Len(s) + i] = Append(u, w)[i]
  BY <1>1, ConcatProps
<1>3. /\ s \o u \in Seq(Write) /\ Len(s \o u) = Len(s) + Len(u)
      /\ \A i \in 1..Len(s) : (s \o u)[i] = s[i]
      /\ \A i \in 1..Len(u) : (s \o u)[Len(s) + i] = u[i]
  BY ConcatProps
<1>4. /\ b \in Seq(Write) /\ Len(b) = Len(s \o u) + 1
      /\ \A i \in 1..Len(s \o u) : b[i] = (s \o u)[i]
      /\ b[Len(s \o u) + 1] = w
  BY <1>3
<1> HIDE DEF a, b
<1>5. ASSUME NEW i \in 1..Len(a) PROVE a[i] = b[i]
  <2>1. CASE i <= Len(s)
    <3>1. i \in 1..Len(s) /\ i \in 1..Len(s \o u)
      BY <1>1, <1>2, <1>3, <2>1
    <3> QED
      BY <1>2, <1>3, <1>4, <3>1
  <2>2. CASE ~(i <= Len(s))
    <3> DEFINE j == i - Len(s)
    <3>1. j \in 1..(Len(u) + 1) /\ i = Len(s) + j
      BY <1>1, <1>2, <2>2
    <3> HIDE DEF j
    <3>2. CASE j \in 1..Len(u)
      BY <1>1, <1>2, <1>3, <1>4, <3>1, <3>2
    <3>3. CASE j = Len(u) + 1
      BY <1>1, <1>2, <1>3, <1>4, <3>1, <3>3
    <3> QED
      BY <1>1, <3>1, <3>2, <3>3
  <2> QED
    BY <2>1, <2>2
<1>6. a = b
  BY <1>1, <1>2, <1>3, <1>4, <1>5, SeqEqual
<1>7. s \o <<>> = s
  OBVIOUS
<1> QED
  BY <1>6, <1>7 DEF a, b

LEMMA HasJoin ==
  ASSUME NEW R \in Logs, NEW p \in Logs, NEW w, Has(Join(R, p), w)
  PROVE  Has(R, w) \/ Has(p, w)
<1>1. PICK r \in Rows : \E i \in DOMAIN Join(R, p)[r] : Join(R, p)[r][i] = w
  BY DEF Has
<1>2. PICK i \in DOMAIN Join(R, p)[r] : Join(R, p)[r][i] = w
  BY <1>1
<1>3. R[r] \in Seq(Write) /\ p[r] \in Seq(Write) /\ Join(R, p)[r] = R[r] \o p[r]
  BY JoinType
<1>4. i \in DOMAIN (R[r] \o p[r]) /\ (R[r] \o p[r])[i] = w
  BY <1>2, <1>3
<1>5. \/ i \in DOMAIN R[r] /\ w = R[r][i]
      \/ \E j \in DOMAIN p[r] : w = p[r][j]
  BY <1>3, <1>4, JoinElement
<1> QED
  BY <1>5 DEF Has

LEMMA HasAdded ==
  ASSUME NEW L \in Logs, NEW r \in Rows, NEW w \in Write, NEW v, Has(Added(L, r, w), v)
  PROVE  Has(L, v) \/ v = w
<1>1. PICK q \in Rows : \E i \in DOMAIN Added(L, r, w)[q] : Added(L, r, w)[q][i] = v
  BY DEF Has
<1>2. PICK i \in DOMAIN Added(L, r, w)[q] : Added(L, r, w)[q][i] = v
  BY <1>1
<1>3. \/ i \in DOMAIN L[q] /\ Added(L, r, w)[q][i] = L[q][i]
      \/ Added(L, r, w)[q][i] = w
  BY AddedElement
<1> QED
  BY <1>2, <1>3 DEF Has

LEMMA LogsEqual ==
  ASSUME NEW L \in Logs, NEW M \in Logs, \A r \in Rows : L[r] = M[r]
  PROVE  L = M
BY DEF Logs

\* A write outside a transaction is committed at once.
LEMMA DataRow ==
  ASSUME NEW R \in Logs, NEW P \in Pendings, NEW k, Data(R, P, k),
         NEW r \in Rows, NEW w \in Write, Passed(k, w),
         \A c \in Clients : P[c][r] = <<>> /\ ~Has(P[c], w), ~Has(R, w),
         IsLock(w) => Version(R[r]) = Version(k[w[1]].seen[r])
  PROVE  Data(Added(R, r, w), P, k)
<1> DEFINE A == Added(R, r, w)
<1>1. /\ A \in Logs /\ A[r] = Append(R[r], w) /\ \A q \in Rows : q # r => A[q] = R[q]
      /\ \A q \in Rows : R[q] \in Seq(Write)
  BY AddedType
<1>2. \A c \in Clients : P[c] \in Logs
  BY DEF Pendings
<1>3. Once(A)
  BY OnceAdded DEF Data, Unrepeated
<1>4. \A v \in Write : Has(A, v) => Has(R, v) \/ v = w
  BY HasAdded
<1> HIDE DEF A
<1>5. \A q \in Rows : TurnsIn(k, A[q], q)
  <2>1. \A q \in Rows : TurnsIn(k, R[q], q)
    BY DEF Data, InOrder
  <2>2. R[r] \in Seq(Write) /\ TurnsIn(k, R[r], r)
    BY <1>1, <2>1
  <2>3. TurnsIn(k, Append(R[r], w), r)
    BY <2>2, TurnsInAppend
  <2> QED
    BY <1>1, <2>1, <2>3
<1>6. ASSUME NEW q \in Rows, NEW c \in Clients PROVE TurnsIn(k, A[q] \o P[c][q], q)
  <2>1. CASE q = r
    <3>1. A[q] \in Seq(Write)
      BY <1>1 DEF Logs
    <3>2. A[q] \o <<>> = A[q]
      BY <3>1
    <3> QED
      BY <1>5, <2>1, <3>2
  <2>2. CASE q # r
    BY <1>1, <2>2 DEF Data, InOrder
  <2> QED
    BY <2>1, <2>2
<1>7. ASSUME NEW c \in Clients PROVE Once(Join(A, P[c]))
  <2> DEFINE J == Join(R, P[c])
  <2>1. J \in Logs /\ Once(J) /\ \A q \in Rows : J[q] = R[q] \o P[c][q]
    BY <1>2, JoinType DEF Data, Unrepeated
  <2>2. ~Has(J, w)
    BY <1>2, HasJoin
  <2>3. Join(A, P[c]) \in Logs /\ \A q \in Rows : Join(A, P[c])[q] = A[q] \o P[c][q]
    BY <1>1, <1>2, JoinType
  <2> HIDE DEF J
  <2>4. Once(Added(J, r, w))
    BY <2>1, <2>2, OnceAdded
  <2>5. /\ Added(J, r, w) \in Logs /\ Added(J, r, w)[r] = Append(J[r], w)
        /\ \A q \in Rows : q # r => Added(J, r, w)[q] = J[q]
    BY <2>1, AddedType
  <2>6. Join(A, P[c])[r] = Append(J[r], w)
    <3>1. A[r] \in Seq(Write) /\ R[r] \in Seq(Write) /\ P[c][r] = <<>>
      BY <1>1 DEF Logs
    <3>2. A[r] \o <<>> = A[r] /\ R[r] \o <<>> = R[r]
      BY <3>1
    <3> QED
      BY <1>1, <2>1, <2>3, <3>1, <3>2
  <2>7. \A q \in Rows : Join(A, P[c])[q] = Added(J, r, w)[q]
    BY <1>1, <2>1, <2>3, <2>5, <2>6
  <2>8. Join(A, P[c]) = Added(J, r, w)
    BY <2>3, <2>5, <2>7, LogsEqual
  <2> QED
    BY <2>4, <2>8
<1>8. Attributed(A, P, k)
  BY <1>4 DEF Data, Attributed
<1>9. Locked(P)
  BY DEF Data
<1> QED
  BY <1>3, <1>5, <1>6, <1>7, <1>8, <1>9 DEF Data, InOrder, Unrepeated, A

\* A write in a transaction locks its row for the client it is made on.
LEMMA DataPending ==
  ASSUME NEW R \in Logs, NEW P \in Pendings, NEW k, Data(R, P, k), NEW c \in Clients,
         NEW r \in Rows, NEW w \in Write, Passed(k, w), k[w[1]].client = c,
         \A d \in Clients : d # c => P[d][r] = <<>>,
         ~Has(P[c], w), ~Has(R, w),
         IsLock(w) => Version(R[r] \o P[c][r]) = Version(k[w[1]].seen[r]),
         NEW Q, Q = [P EXCEPT ![c] = Added(P[c], r, w)]
  PROVE  Data(R, Q, k)
<1> DEFINE A == Added(P[c], r, w)
<1>1. \A d \in Clients : P[d] \in Logs
  BY DEF Pendings
<1>2. /\ A \in Logs /\ A[r] = Append(P[c][r], w) /\ \A q \in Rows : q # r => A[q] = P[c][q]
      /\ \A v \in Write : Has(A, v) => Has(P[c], v) \/ v = w
  BY <1>1, AddedType, HasAdded
<1>3. Q[c] = A /\ \A d \in Clients : d # c => Q[d] = P[d]
  BY DEF Pendings
<1> HIDE DEF A
<1>4. Locked(Q)
  BY <1>2, <1>3 DEF Data, Locked
<1> DEFINE J == Join(R, P[c])
<1>5. J \in Logs /\ Once(J) /\ \A q \in Rows : J[q] = R[q] \o P[c][q] /\ R[q] \in Seq(Write) /\ P[c][q] \in Seq(Write)
  BY <1>1, JoinType DEF Data, Unrepeated
<1>6. ~Has(J, w)
  BY <1>1, HasJoin
<1>7. Join(R, A) \in Logs /\ \A q \in Rows : Join(R, A)[q] = R[q] \o A[q]
  BY <1>2, JoinType
<1> HIDE DEF J
<1>8. /\ Added(J, r, w) \in Logs /\ Added(J, r, w)[r] = Append(J[r], w)
      /\ \A q \in Rows : q # r => Added(J, r, w)[q] = J[q]
  BY <1>5, AddedType
<1>9. Join(R, A) = Added(J, r, w)
  <2>1. R[r] \o Append(P[c][r], w) = Append(R[r] \o P[c][r], w)
    BY <1>5, JoinAppend
  <2>2. Join(R, A)[r] = Added(J, r, w)[r]
    BY <1>2, <1>5, <1>7, <1>8, <2>1
  <2>3. ASSUME NEW q \in Rows, q # r PROVE Join(R, A)[q] = Added(J, r, w)[q]
    <3>1. Join(R, A)[q] = R[q] \o A[q] /\ A[q] = P[c][q]
      BY <1>2, <1>7, <2>3
    <3>2. Added(J, r, w)[q] = J[q] /\ J[q] = R[q] \o P[c][q]
      BY <1>5, <1>8, <2>3
    <3> QED
      BY <3>1, <3>2
  <2>4. \A q \in Rows : Join(R, A)[q] = Added(J, r, w)[q]
    BY <2>2, <2>3
  <2> QED
    BY <1>7, <1>8, <2>4, LogsEqual
<1>10. Once(Join(R, A))
  BY <1>5, <1>6, <1>9, OnceAdded
<1>11. \A q \in Rows : TurnsIn(k, R[q] \o A[q], q)
  <2>1. J[r] \in Seq(Write) /\ TurnsIn(k, J[r], r)
    BY <1>5 DEF Data, InOrder, Logs
  <2>2. IsLock(w) => Version(J[r]) = Version(k[w[1]].seen[r])
    BY <1>5
  <2>3. TurnsIn(k, Append(J[r], w), r)
    BY <2>1, <2>2, TurnsInAppend
  <2>4. TurnsIn(k, R[r] \o A[r], r)
    BY <1>7, <1>8, <1>9, <2>3
  <2>5. \A q \in Rows : q # r => TurnsIn(k, R[q] \o A[q], q)
    BY <1>2 DEF Data, InOrder
  <2> QED
    BY <2>4, <2>5
<1>12. InOrder(R, Q, k)
  BY <1>3, <1>11 DEF Data, InOrder
<1>13. Unrepeated(R, Q)
  BY <1>3, <1>10 DEF Data, Unrepeated
<1>14. Attributed(R, Q, k)
  BY <1>2, <1>3 DEF Data, Attributed
<1> QED
  BY <1>4, <1>12, <1>13, <1>14 DEF Data

LEMMA JoinStart ==
  ASSUME NEW s \in Seq(Write), NEW u \in Seq(Write), NEW i \in DOMAIN s
  PROVE  i \in DOMAIN (s \o u) /\ (s \o u)[i] = s[i]
BY ConcatProps

\* What a client has pending is committed.
LEMMA DataCommit ==
  ASSUME NEW R \in Logs, NEW P \in Pendings, NEW k, Data(R, P, k), NEW c \in Clients,
         NEW Q, Q = [P EXCEPT ![c] = NoWrites]
  PROVE  Data(Join(R, P[c]), Q, k)
<1> DEFINE C == Join(R, P[c])
<1>1. \A d \in Clients : P[d] \in Logs
  BY DEF Pendings
<1>2. C \in Logs /\ \A q \in Rows : C[q] = R[q] \o P[c][q] /\ R[q] \in Seq(Write) /\ P[c][q] \in Seq(Write)
  BY <1>1, JoinType
<1>3. Once(C) /\ \A v \in Write : Has(C, v) => Has(R, v) \/ Has(P[c], v)
  BY <1>1, HasJoin DEF Data, Unrepeated
<1>4. Q[c] = NoWrites /\ (\A q \in Rows : NoWrites[q] = <<>>) /\ \A d \in Clients : d # c => Q[d] = P[d]
  BY DEF Pendings, NoWrites
<1>5. NoWrites \in Logs /\ \A v : ~Has(NoWrites, v)
  BY IdleType DEF NoWrites, Has
<1> HIDE DEF C
<1>6. Locked(Q)
  BY <1>4 DEF Data, Locked
<1>7. \A q \in Rows : C[q] \in Seq(Write) /\ C[q] \o <<>> = C[q] /\ R[q] \o <<>> = R[q]
  <2>1. \A q \in Rows : C[q] \in Seq(Write)
    BY <1>2 DEF Logs
  <2> QED
    BY <1>2, <2>1
<1>8. \A q \in Rows : TurnsIn(k, C[q], q)
  BY <1>2 DEF Data, InOrder
<1>9. ASSUME NEW d \in Clients, d # c, NEW q \in Rows
      PROVE  \/ P[d][q] = <<>> /\ C[q] \o P[d][q] = C[q]
             \/ P[c][q] = <<>> /\ C[q] \o P[d][q] = R[q] \o P[d][q]
  BY <1>2, <1>7, <1>9 DEF Data, Locked
<1>10. ASSUME NEW q \in Rows, NEW d \in Clients PROVE TurnsIn(k, C[q] \o Q[d][q], q)
  <2>1. CASE d = c
    BY <1>4, <1>7, <1>8, <2>1
  <2>2. CASE d # c
    <3>1. Q[d] = P[d] /\ TurnsIn(k, C[q], q)
      BY <1>4, <1>8, <2>2
    <3>2. TurnsIn(k, R[q] \o P[d][q], q)
      BY DEF Data, InOrder
    <3> QED
      BY <1>9, <2>2, <3>1, <3>2
  <2> QED
    BY <2>1, <2>2
<1>11. ASSUME NEW d \in Clients PROVE Once(Join(C, Q[d]))
  <2>1. Q[d] \in Logs
    BY <1>1, <1>4, <1>5
  <2> DEFINE J == Join(C, Q[d])
             D == Join(R, P[d])
  <2>2. J \in Logs /\ \A q \in Rows : J[q] = C[q] \o Q[d][q]
    BY <1>2, <2>1, JoinType
  <2>3. D \in Logs /\ Once(D) /\ \A q \in Rows : D[q] = R[q] \o P[d][q]
    BY <1>1, JoinType DEF Data, Unrepeated
  <2> HIDE DEF J, D
  <2>4. CASE d = c
    <3>1. ASSUME NEW q \in Rows PROVE J[q] = C[q]
      <4>1. Q[d][q] = <<>> /\ C[q] \o <<>> = C[q]
        BY <1>4, <1>7, <2>4
      <4>2. J[q] = C[q] \o Q[d][q]
        BY <2>2
      <4> QED
        BY <4>1, <4>2
    <3>2. J = C
      BY <1>2, <2>2, <3>1, LogsEqual
    <3> QED
      BY <1>3, <3>2 DEF J
  <2>5. CASE d # c
    <3>1. ASSUME NEW q \in Rows PROVE J[q] = C[q] \/ J[q] = D[q]
      <4>1. J[q] = C[q] \o P[d][q]
        BY <1>4, <2>2, <2>5
      <4>2. D[q] = R[q] \o P[d][q]
        BY <2>3
      <4>3. C[q] \o P[d][q] = C[q] \/ C[q] \o P[d][q] = R[q] \o P[d][q]
        BY <1>9, <2>5
      <4> QED
        BY <4>1, <4>2, <4>3
    <3>2. ASSUME NEW p \in Rows, NEW q \in Rows, NEW i \in DOMAIN C[p], NEW j \in DOMAIN D[q], C[p][i] = D[q][j]
          PROVE  p = q /\ i = j
      <4> DEFINE w == C[p][i]
      <4>1. /\ R[p] \in Seq(Write) /\ P[c][p] \in Seq(Write) /\ P[d][p] \in Seq(Write)
            /\ R[q] \in Seq(Write) /\ P[c][q] \in Seq(Write) /\ P[d][q] \in Seq(Write)
        BY <1>1, <1>2 DEF Logs
      <4>2. C[p] = R[p] \o P[c][p] /\ C[q] = R[q] \o P[c][q] /\ D[p] = R[p] \o P[d][p] /\ D[q] = R[q] \o P[d][q]
        BY <1>2, <2>3
      <4>3. C[p] \in Seq(Write)
        BY <1>2 DEF Logs
      <4>4. w \in Write
        BY <4>3, Element
      <4>5. \/ i \in DOMAIN R[p] /\ w = R[p][i]
            \/ \E m \in DOMAIN P[c][p] : w = P[c][p][m]
        <5>1. i \in DOMAIN (R[p] \o P[c][p]) /\ w = (R[p] \o P[c][p])[i]
          BY <4>2
        <5>2. \/ i \in DOMAIN R[p] /\ (R[p] \o P[c][p])[i] = R[p][i]
              \/ \E m \in DOMAIN P[c][p] : i = Len(R[p]) + m /\ (R[p] \o P[c][p])[i] = P[c][p][m]
          BY <4>1, <5>1, JoinElement
        <5> QED
          BY <5>1, <5>2
      <4>6. \/ j \in DOMAIN R[q] /\ D[q][j] = R[q][j]
            \/ \E m \in DOMAIN P[d][q] : D[q][j] = P[d][q][m]
        <5>1. j \in DOMAIN (R[q] \o P[d][q]) /\ D[q][j] = (R[q] \o P[d][q])[j]
          BY <4>2
        <5>2. \/ j \in DOMAIN R[q] /\ (R[q] \o P[d][q])[j] = R[q][j]
              \/ \E m \in DOMAIN P[d][q] : j = Len(R[q]) + m /\ (R[q] \o P[d][q])[j] = P[d][q][m]
          BY <4>1, <5>1, JoinElement
        <5> QED
          BY <5>1, <5>2
      <4>7. w = D[q][j]
        BY <3>2
      <4> HIDE DEF w
      <4>8. CASE i \in DOMAIN R[p] /\ w = R[p][i]
        <5>1. i \in DOMAIN (R[p] \o P[d][p]) /\ (R[p] \o P[d][p])[i] = R[p][i]
          BY <4>1, <4>8, JoinStart
        <5>2. i \in DOMAIN D[p] /\ D[p][i] = w
          BY <4>2, <4>8, <5>1
        <5> QED
          BY <2>3, <4>7, <5>2 DEF Once
      <4>9. CASE j \in DOMAIN R[q] /\ w = R[q][j]
        <5>1. j \in DOMAIN (R[q] \o P[c][q]) /\ (R[q] \o P[c][q])[j] = R[q][j]
          BY <4>1, <4>9, JoinStart
        <5>2. j \in DOMAIN C[q] /\ C[q][j] = w
          BY <4>2, <4>9, <5>1
        <5> QED
          BY <1>3, <5>2 DEF Once, w
      <4>10. CASE (\E m \in DOMAIN P[c][p] : w = P[c][p][m]) /\ (\E m \in DOMAIN P[d][q] : w = P[d][q][m])
        <5>1. Has(P[c], w) /\ Has(P[d], w)
          BY <4>10 DEF Has
        <5> QED
          BY <2>5, <4>4, <5>1 DEF Data, Attributed
      <4> QED
        BY <4>5, <4>6, <4>7, <4>8, <4>9, <4>10
    <3>3. Once(J)
      <4> SUFFICES ASSUME NEW p \in Rows, NEW q \in Rows, NEW i \in DOMAIN J[p], NEW j \in DOMAIN J[q], J[p][i] = J[q][j]
                   PROVE  p = q /\ i = j
        BY DEF Once
      <4>1. (J[p] = C[p] \/ J[p] = D[p]) /\ (J[q] = C[q] \/ J[q] = D[q])
        BY <3>1
      <4>2. CASE J[p] = C[p] /\ J[q] = C[q]
        BY <1>3, <4>2 DEF Once
      <4>3. CASE J[p] = D[p] /\ J[q] = D[q]
        BY <2>3, <4>3 DEF Once
      <4>4. CASE J[p] = C[p] /\ J[q] = D[q]
        BY <3>2, <4>4
      <4>5. CASE J[p] = D[p] /\ J[q] = C[q]
        BY <3>2, <4>5
      <4> QED
        BY <4>1, <4>2, <4>3, <4>4, <4>5
    <3> QED
      BY <3>3 DEF J
  <2> QED
    BY <2>4, <2>5
<1>12. Attributed(C, Q, k)
  BY <1>3, <1>4, <1>5 DEF Data, Attributed
<1> QED
  BY <1>3, <1>6, <1>8, <1>10, <1>11, <1>12 DEF Data, InOrder, Unrepeated, C

-----------------------------------------------------------------------------
(* Whose writes *)

LEMMA OfIsHas ==
  ASSUME NEW L \in Logs, NEW t, Of(L, t)
  PROVE  \E w \in Write : Has(L, w) /\ w[1] = t
<1>1. PICK r \in Rows : \E i \in DOMAIN L[r] : L[r][i][1] = t
  BY DEF Of
<1>2. PICK i \in DOMAIN L[r] : L[r][i][1] = t
  BY <1>1
<1>3. L[r] \in Seq(Write)
  BY DEF Logs
<1> DEFINE w == L[r][i]
<1>4. w \in Write /\ Has(L, w) /\ w[1] = t
  BY <1>2, <1>3, Element, HasAt
<1> QED
  BY <1>4

LEMMA OfJoin ==
  ASSUME NEW R \in Logs, NEW p \in Logs, NEW t, Of(Join(R, p), t)
  PROVE  Of(R, t) \/ Of(p, t)
<1>1. Join(R, p) \in Logs
  BY JoinType
<1>2. PICK w \in Write : Has(Join(R, p), w) /\ w[1] = t
  BY <1>1, OfIsHas
<1>3. Has(R, w) \/ Has(p, w)
  BY <1>2, HasJoin
<1> QED
  BY <1>2, <1>3, HasIsOf

LEMMA OfAdded ==
  ASSUME NEW L \in Logs, NEW r \in Rows, NEW w \in Write, NEW t, Of(Added(L, r, w), t)
  PROVE  Of(L, t) \/ t = w[1]
<1>1. Added(L, r, w) \in Logs
  BY AddedType
<1>2. PICK v \in Write : Has(Added(L, r, w), v) /\ v[1] = t
  BY <1>1, OfIsHas
<1>3. Has(L, v) \/ v = w
  BY <1>2, HasAdded
<1> QED
  BY <1>2, <1>3, HasIsOf

LEMMA OfPrefix ==
  ASSUME NEW L \in Logs, NEW M \in Logs, Prefix(L, M), NEW t, Of(L, t)
  PROVE  Of(M, t)
BY PrefixFacts DEF Of

LEMMA NoneOf ==
  ASSUME NEW t
  PROVE  ~Of(NoWrites, t)
BY DEF Of, NoWrites

LEMMA PendingType ==
  ASSUME TypeOK
  PROVE  /\ Pending \in Pendings
         /\ \A c \in Clients : Pending[c] = conn[c].pending /\ Pending[c] \in Logs
         /\ rows \in Logs
BY DEF TypeOK, Pending, Pendings

\* The uncommitted writes of a client are of calls that have, or had, this client.
LEMMA PendingOf ==
  ASSUME TypeOK, Data(rows, Pending, call), NEW c \in Clients, NEW t, Of(Pending[c], t)
  PROVE  call[t].client = c
<1>1. Pending[c] \in Logs
  BY PendingType
<1>2. PICK w \in Write : Has(Pending[c], w) /\ w[1] = t
  BY <1>1, OfIsHas
<1> QED
  BY <1>2 DEF Data, Attributed

\* Between the calls k and l, the call of t keeps what its writes are judged by,
\* and the calls of others stay.
Stays(k, l, t) ==
  /\ l[t].seen = k[t].seen /\ l[t].client = k[t].client
  /\ \A n \in Nat : Passed(k, <<t, n>>) => Passed(l, <<t, n>>)
Others(k, l, t) == \A u \in Callers : u # t => l[u] = k[u]

\* Where one call changes, all keep what their writes are judged by.
LEMMA KeepsOne ==
  ASSUME NEW R, NEW P, NEW k, NEW l, NEW t \in Callers, Others(k, l, t),
         Of(R, t) \/ (\E c \in Clients : Of(P[c], t)) => Stays(k, l, t)
  PROVE  Keeps(R, P, k, l)
<1> USE DEF Stays, Others
<1> SUFFICES ASSUME NEW u \in Callers, Of(R, u) \/ (\E c \in Clients : Of(P[c], u))
             PROVE  /\ l[u].seen = k[u].seen /\ l[u].client = k[u].client
                    /\ \A n \in Nat : Passed(k, <<u, n>>) => Passed(l, <<u, n>>)
  BY DEF Keeps
<1>1. CASE u = t
  BY <1>1
<1>2. CASE u # t
  BY <1>2 DEF Passed
<1> QED
  BY <1>1, <1>2

\* An answer takes the operation on, and only an error that leaves it is kept.
LEMMA AnsweredFacts ==
  ASSUME NEW k \in Context, NEW t \in Callers, NEW error \in Errors, NEW r,
         r = Fails(k, t, error) \/ r = Succeeds(k, t)
  PROVE  /\ r.seen = k.seen
         /\ r.step >= k.step
         /\ k.phase \notin {"save", "write"} => r.step > k.step \/ r.phase \notin {"save", "write"}
         /\ r.error # k.error => r.error = error /\ r.op = "ready" /\ r.phase = "raise" /\ k.error # "timeout"
         /\ r = Succeeds(k, t) /\ k.phase = "write" => r.step > k.step \/ r.phase \notin {"save", "write"}
<1>1. k.step \in Nat
  BY DEF Context
<1> DEFINE on == AtStep(k, t, k.step + 1)
           undo == [k EXCEPT !.op = "ready", !.phase = "undo"]
           raise == [k EXCEPT !.op = "ready", !.phase = "raise",
                              !.error = IF k.error = "timeout" THEN k.error ELSE error]
           write == [k EXCEPT !.op = "ready", !.phase = "write"]
           release == [k EXCEPT !.op = "ready", !.phase = "release"]
<1>2. on.seen = k.seen /\ on.step = k.step + 1 /\ on.error = k.error
  BY DEF AtStep, Context
<1>3. undo.seen = k.seen /\ undo.step = k.step /\ undo.phase = "undo" /\ undo.error = k.error
  BY DEF Context
<1>4. /\ raise.seen = k.seen /\ raise.step = k.step /\ raise.phase = "raise" /\ raise.op = "ready"
      /\ raise.error = IF k.error = "timeout" THEN k.error ELSE error
  BY DEF Context
<1>5. write.seen = k.seen /\ write.step = k.step /\ write.phase = "write" /\ write.error = k.error
  BY DEF Context
<1>6. release.seen = k.seen /\ release.step = k.step /\ release.phase = "release" /\ release.error = k.error
  BY DEF Context
<1>7. /\ Fails(k, t, error) \in {on, undo, raise}
      /\ k.phase = "save" => Succeeds(k, t) = write
      /\ k.phase = "write" => Succeeds(k, t) \in {release, on}
      /\ k.phase \notin {"save", "write"} => Succeeds(k, t) = on
  BY DEF Fails, Succeeds
<1> HIDE DEF on, undo, raise, write, release
<1> QED
  BY <1>1, <1>2, <1>3, <1>4, <1>5, <1>6, <1>7

\* A call whose operation was answered has passed what it had passed.
LEMMA PassedStill ==
  ASSUME NEW k, NEW l, NEW t, k[t].step \in Nat, l[t].step \in Nat, l[t].step >= k[t].step,
         k[t].phase \notin {"save", "write"} => l[t].step > k[t].step \/ l[t].phase \notin {"save", "write"}
  PROVE  \A n \in Nat : Passed(k, <<t, n>>) => Passed(l, <<t, n>>)
BY DEF Passed

\* An operation that goes on to a statement, rather than return, has one.
LEMMA AtStepThread ==
  ASSUME NEW k \in Context, NEW t \in Callers, NEW i \in Nat \ {0}, AtStep(k, t, i).phase # "return"
  PROVE  AtStep(k, t, i).step \in DOMAIN Work[t]
<1>1. AtStep(k, t, i).step = i /\ (i > Len(Work[t]) => AtStep(k, t, i).phase = "return")
  BY DEF AtStep, Context
<1>2. Work[t] \in Seq(Statement)
  BY WorkAssumption
<1> QED
  BY <1>1, <1>2

LEMMA AnsweredThread ==
  ASSUME NEW k \in Context, NEW t \in Callers, NEW error \in Errors, NEW r,
         r = Fails(k, t, error) \/ r = Succeeds(k, t), k.step \in DOMAIN Work[t],
         r.phase \notin {"raise", "return"}
  PROVE  r.step \in DOMAIN Work[t]
<1>1. k.step + 1 \in Nat \ {0}
  BY DEF Context
<1>2. r = AtStep(k, t, k.step + 1) \/ r.step = k.step
  BY DEF Fails, Succeeds, Context
<1> QED
  BY <1>1, <1>2, AtStepThread

LEMMA OnStatement ==
  ASSUME Threads, NEW t \in Callers, call[t].op = "sent", call[t].phase = "write"
  PROVE  Now(t).row \in Rows
<1>1. call[t].step \in DOMAIN Work[t]
  BY DEF Threads, Thread
<1>2. Work[t] \in Seq(Statement)
  BY WorkAssumption
<1>3. Work[t][call[t].step] \in Statement
  BY <1>1, <1>2, Element
<1> QED
  BY <1>3 DEF Now, Statement

-----------------------------------------------------------------------------
(* The queries of the operations *)

\* A call that waits for its operation's query goes on waiting.
Waiting(k, l, t) ==
  k[t].op = "sent" => l[t].client = k[t].client /\ l[t].op = "sent" /\ l[t].phase = k[t].phase

LEMMA AwaitedStays ==
  ASSUME NEW k, NEW l, NEW c, NEW s \in Seq(Query), AwaitedQueue(k, s, c),
         \A i \in DOMAIN s : s[i].from = "operation" => Waiting(k, l, s[i].call)
  PROVE  AwaitedQueue(l, s, c)
BY DEF AwaitedQueue, Awaited, Waiting

LEMMA AwaitsStay ==
  ASSUME TypeOK, Awaits, queue' = queue, \A u \in Callers : Waiting(call, call', u)
  PROVE  Awaits'
<1> SUFFICES ASSUME NEW c \in Clients PROVE AwaitedQueue(call', queue[c], c)
  BY DEF Awaits
<1>1. queue[c] \in Seq(Query) /\ AwaitedQueue(call, queue[c], c)
  BY DEF TypeOK, Awaits
<1>2. \A i \in DOMAIN queue[c] : queue[c][i] \in Query
  BY <1>1, Element
<1>3. \A i \in DOMAIN queue[c] : queue[c][i].call \in Callers
  BY <1>2 DEF Query
<1> QED
  BY <1>1, <1>3, AwaitedStays

\* A query is sent: an operation sends one when it waits for none.
LEMMA AwaitsSend ==
  ASSUME TypeOK, Awaits, NEW c, NEW e \in Query,
         queue' = [queue EXCEPT ![c] = Append(queue[c], e)],
         \A u \in Callers : Waiting(call, call', u),
         e.from = "operation" => call[e.call].op # "sent" /\ (c \in Clients => Awaited(call', e, c))
  PROVE  Awaits'
<1> SUFFICES ASSUME NEW d \in Clients PROVE AwaitedQueue(call', queue'[d], d)
  BY DEF Awaits
<1> DEFINE s == queue[d]
           a == Append(s, e)
<1>1. s \in Seq(Query) /\ AwaitedQueue(call, s, d)
  BY DEF TypeOK, Awaits
<1>2. queue'[d] = IF d = c THEN a ELSE s
  BY DEF TypeOK
<1> HIDE DEF s
<1>3. \A i \in DOMAIN s : s[i] \in Query
  BY <1>1, Element
<1>4. \A i \in DOMAIN s : s[i].call \in Callers
  BY <1>3 DEF Query
<1>5. AwaitedQueue(call', s, d)
  BY <1>1, <1>4, AwaitedStays
<1>6. CASE d # c
  BY <1>2, <1>5, <1>6
<1>7. CASE d = c
  <2>1. /\ \A i \in DOMAIN a : \/ i \in DOMAIN s /\ a[i] = s[i]
                               \/ i = Len(s) + 1 /\ a[i] = e
        /\ \A i \in DOMAIN s : i # Len(s) + 1
    BY <1>1, Appended
  <2> HIDE DEF a
  <2>2. e.from = "operation" => Awaited(call', e, d)
    BY <1>7
  <2>3. \A i \in DOMAIN a : Awaited(call', a[i], d)
    BY <1>5, <2>1, <2>2 DEF AwaitedQueue, Awaited
  <2>4. \A i \in DOMAIN s : s[i].from = "operation" => call[s[i].call].op = "sent"
    BY <1>1 DEF AwaitedQueue, Awaited
  <2>5. ASSUME NEW i \in DOMAIN a, NEW j \in DOMAIN a,
               a[i].from = "operation", a[j].from = "operation", a[i].call = a[j].call
        PROVE  i = j
    <3>1. CASE i \in DOMAIN s /\ a[i] = s[i] /\ j \in DOMAIN s /\ a[j] = s[j]
      BY <1>5, <2>5, <3>1 DEF AwaitedQueue
    <3>2. CASE i \in DOMAIN s /\ a[i] = s[i] /\ a[j] = e
      BY <2>4, <2>5, <3>2
    <3>3. CASE a[i] = e /\ j \in DOMAIN s /\ a[j] = s[j]
      BY <2>4, <2>5, <3>3
    <3> QED
      BY <2>1, <3>1, <3>2, <3>3
  <2>6. AwaitedQueue(call', a, d)
    BY <2>3, <2>5 DEF AwaitedQueue
  <2> QED
    BY <1>2, <1>7, <2>6
<1> QED
  BY <1>6, <1>7

\* A query is answered: only the operation that sent it stops waiting.
LEMMA AwaitsAnswer ==
  ASSUME TypeOK, Awaits, NEW c \in Clients, queue[c] # <<>>, Answer(c),
         \A u \in Callers :
           Waiting(call, call', u) \/ (u = Asker(c) /\ Head(queue[c]).from = "operation")
  PROVE  Awaits'
<1> SUFFICES ASSUME NEW d \in Clients PROVE AwaitedQueue(call', queue'[d], d)
  BY DEF Awaits
<1> DEFINE s == queue[d]
           a == Tail(s)
           h == Head(queue[c])
<1>1. s \in Seq(Query) /\ AwaitedQueue(call, s, d)
  BY DEF TypeOK, Awaits
<1>2. queue'[d] = IF d = c THEN a ELSE s
  BY DEF TypeOK, Answer
<1>3. h.from = "operation" => call[h.call].client = c
  <2>1. queue[c] \in Seq(Query) /\ AwaitedQueue(call, queue[c], c)
    BY DEF TypeOK, Awaits
  <2>2. 1 \in DOMAIN queue[c] /\ h = queue[c][1]
    BY <2>1, HeadTail
  <2> QED
    BY <2>1, <2>2 DEF AwaitedQueue, Awaited
<1>4. d = c => s # <<>> /\ h = Head(s)
  OBVIOUS
<1>5. \A u \in Callers : Waiting(call, call', u) \/ (u = h.call /\ h.from = "operation")
  BY DEF Asker
<1> HIDE DEF s, h
<1>6. \A i \in DOMAIN s : s[i] \in Query
  BY <1>1, Element
<1>7. \A i \in DOMAIN s : s[i].call \in Callers
  BY <1>6 DEF Query
<1>8. CASE d # c
  <2>1. \A i \in DOMAIN s : s[i].from = "operation" => call[s[i].call].client = d
    BY <1>1 DEF AwaitedQueue, Awaited
  <2>2. \A i \in DOMAIN s : s[i].from = "operation" => Waiting(call, call', s[i].call)
    BY <1>3, <1>5, <1>7, <1>8, <2>1
  <2>3. AwaitedQueue(call', s, d)
    BY <1>1, <2>2, AwaitedStays
  <2> QED
    BY <1>2, <1>8, <2>3
<1>9. CASE d = c
  <2>1. /\ a \in Seq(Query) /\ 1 \in DOMAIN s /\ h = s[1]
        /\ \A i \in DOMAIN a : i \in Nat \ {0} /\ i + 1 \in DOMAIN s /\ a[i] = s[i + 1]
    BY <1>1, <1>4, <1>9, HeadTail
  <2> HIDE DEF a
  <2>2. \A i \in DOMAIN a : Awaited(call, a[i], d)
    BY <1>1, <2>1 DEF AwaitedQueue
  <2>3. ASSUME NEW i \in DOMAIN a, NEW j \in DOMAIN a,
               a[i].from = "operation", a[j].from = "operation", a[i].call = a[j].call
        PROVE  i = j
    <3>1. i + 1 = j + 1
      BY <1>1, <2>1, <2>3 DEF AwaitedQueue
    <3> QED
      BY <2>1, <3>1
  <2>4. AwaitedQueue(call, a, d)
    BY <2>2, <2>3 DEF AwaitedQueue
  <2>5. ASSUME NEW i \in DOMAIN a, a[i].from = "operation" PROVE Waiting(call, call', a[i].call)
    <3>1. i + 1 # 1 /\ i + 1 \in DOMAIN s /\ a[i] = s[i + 1]
      BY <2>1
    <3>2. ~(s[1].from = "operation" /\ s[i + 1].call = s[1].call)
      BY <1>1, <2>1, <2>5, <3>1 DEF AwaitedQueue
    <3> QED
      BY <1>5, <1>7, <2>1, <3>1, <3>2
  <2>6. AwaitedQueue(call', a, d)
    BY <2>1, <2>4, <2>5, AwaitedStays
  <2> QED
    BY <1>2, <1>9, <2>6
<1> QED
  BY <1>8, <1>9

\* The operation whose query is at the head waits for it.
LEMMA HeadIsAwaited ==
  ASSUME TypeOK, Asks, Awaits, NEW c \in Clients, queue[c] # <<>>,
         Head(queue[c]).what \in {"save", "write", "release", "undo"}
  PROVE  /\ Head(queue[c]).from = "operation"
         /\ Asker(c) \in Callers
         /\ call[Asker(c)].client = c
         /\ call[Asker(c)].op = "sent"
         /\ call[Asker(c)].phase = Head(queue[c]).what
<1>1. queue[c] \in Seq(Query) /\ AwaitedQueue(call, queue[c], c) /\ HonestQueue(call, queue[c], c)
  BY DEF TypeOK, Awaits, Asks
<1>2. 1 \in DOMAIN queue[c] /\ Head(queue[c]) = queue[c][1] /\ Head(queue[c]) \in Query
  BY <1>1, HeadTail
<1>3. Awaited(call, Head(queue[c]), c) /\ Honest(call, Head(queue[c]), c)
  BY <1>1, <1>2 DEF AwaitedQueue, HonestQueue
<1>4. Head(queue[c]).call \in Callers /\ Head(queue[c]).from \in {"main", "operation", "force"}
  BY <1>2 DEF Query
<1> QED
  BY <1>3, <1>4 DEF Honest, Awaited, Asker

-----------------------------------------------------------------------------
(* The sessions *)

LEMMA SavepointTypes ==
  ASSUME NEW s \in Session
  PROVE  /\ s.pending \in Logs /\ s.savepoints \in Seq(Savepoint)
         /\ \A i \in DOMAIN s.savepoints : s.savepoints[i].pending \in Logs
<1>1. s.pending \in Logs /\ s.savepoints \in Seq(Savepoint)
  BY DEF Session
<1>2. \A i \in DOMAIN s.savepoints : s.savepoints[i] \in Savepoint
  BY <1>1, Element
<1> QED
  BY <1>1, <1>2 DEF Savepoint

LEMMA IdleNested == Nested(Idle)
BY DEF Nested, Idle

\* An error takes away what was written since the last savepoint.
LEMMA AbortNested ==
  ASSUME NEW s \in Session, Nested(s)
  PROVE  /\ Nested(Abort(s))
         /\ Prefix(Abort(s).pending, s.pending)
         /\ Abort(s).status = "idle" <=> s.status = "idle"
<1> DEFINE p == IF s.savepoints = <<>> THEN NoWrites ELSE s.savepoints[Len(s.savepoints)].pending
           f == [s EXCEPT !.status = "failed", !.pending = p]
<1>1. Abort(s) = IF s.status = "idle" THEN s ELSE f
  BY DEF Abort
<1>2. s.pending \in Logs /\ Prefix(s.pending, s.pending) /\ Prefix(NoWrites, s.pending)
  BY SavepointTypes, PrefixOrder
<1>3. Prefix(p, s.pending) /\ \A i \in DOMAIN s.savepoints : Prefix(s.savepoints[i].pending, p)
  <2>1. CASE s.savepoints = <<>>
    BY <1>2, <2>1
  <2>2. CASE s.savepoints # <<>>
    <3> DEFINE n == Len(s.savepoints)
    <3>1. s.savepoints \in Seq(Savepoint)
      BY SavepointTypes
    <3>2. n \in DOMAIN s.savepoints /\ \A i \in DOMAIN s.savepoints : i <= n
      BY <2>2, <3>1
    <3> HIDE DEF n
    <3>3. p = s.savepoints[n].pending
      BY <2>2 DEF n
    <3> QED
      BY <3>2, <3>3 DEF Nested
  <2> QED
    BY <2>1, <2>2
<1> HIDE DEF p
<1>4. f.status = "failed" /\ f.pending = p /\ f.savepoints = s.savepoints
  BY DEF Session
<1> HIDE DEF f
<1>5. Nested(f)
  BY <1>3, <1>4 DEF Nested
<1> QED
  BY <1>1, <1>2, <1>3, <1>4, <1>5

\* A savepoint is taken, with what is pending.
LEMMA SaveNested ==
  ASSUME NEW s \in Session, Nested(s), s.status # "idle", NEW name,
         NEW u, u = [s EXCEPT !.savepoints = Append(s.savepoints, [name |-> name, pending |-> s.pending])],
         u \in Session
  PROVE  Nested(u) /\ u.pending = s.pending /\ u.status = s.status
<1> DEFINE e == [name |-> name, pending |-> s.pending]
           v == s.savepoints
<1>1. u.status = s.status /\ u.pending = s.pending /\ u.savepoints = Append(v, e)
  BY DEF Session
<1>2. v \in Seq(Savepoint) /\ s.pending \in Logs /\ Prefix(s.pending, s.pending)
  BY SavepointTypes, PrefixOrder
<1>3. \A i \in DOMAIN v : Prefix(v[i].pending, s.pending)
  BY DEF Nested
<1>4. \A i, j \in DOMAIN v : i <= j => Prefix(v[i].pending, v[j].pending)
  BY DEF Nested
<1>5. e.pending = s.pending
  OBVIOUS
<1> HIDE DEF e, v
<1> DEFINE a == Append(v, e)
<1>6. Len(v) \in Nat /\ DOMAIN v = 1..Len(v) /\ DOMAIN a = 1..(Len(v) + 1)
  BY <1>2
<1>7. (\A i \in 1..Len(v) : a[i] = v[i]) /\ a[Len(v) + 1] = e
  BY <1>2
<1> HIDE DEF a
<1>8. \A i \in DOMAIN a : Prefix(a[i].pending, s.pending)
  BY <1>2, <1>3, <1>5, <1>6, <1>7
<1>9. ASSUME NEW i \in DOMAIN a, NEW j \in DOMAIN a, i <= j PROVE Prefix(a[i].pending, a[j].pending)
  <2>1. CASE j \in 1..Len(v)
    <3>1. i \in 1..Len(v)
      BY <1>6, <1>9, <2>1
    <3> QED
      BY <1>4, <1>6, <1>7, <1>9, <2>1, <3>1
  <2>2. CASE j = Len(v) + 1
    BY <1>5, <1>7, <1>8, <2>2
  <2> QED
    BY <1>6, <2>1, <2>2
<1> QED
  BY <1>1, <1>8, <1>9 DEF Nested, a

\* The first n savepoints are kept, with what is pending or with what the n-th has.
LEMMA CutNested ==
  ASSUME NEW s \in Session, Nested(s), NEW n \in Nat, n <= Len(s.savepoints),
         NEW u \in Session, u.status # "idle", u.savepoints = SubSeq(s.savepoints, 1, n),
         u.pending = s.pending \/ (n # 0 /\ u.pending = s.savepoints[n].pending)
  PROVE  Nested(u) /\ Prefix(u.pending, s.pending)
<1> DEFINE v == s.savepoints
           a == SubSeq(v, 1, n)
<1>1. v \in Seq(Savepoint) /\ s.pending \in Logs /\ Prefix(s.pending, s.pending)
  BY SavepointTypes, PrefixOrder
<1>2. /\ \A i \in DOMAIN v : Prefix(v[i].pending, s.pending)
      /\ \A i, j \in DOMAIN v : i <= j => Prefix(v[i].pending, v[j].pending)
  BY DEF Nested
<1>3. n <= Len(v) /\ u.savepoints = a /\ (u.pending = s.pending \/ (n # 0 /\ u.pending = v[n].pending))
  OBVIOUS
<1> HIDE DEF v
<1>4. Len(v) \in Nat /\ DOMAIN v = 1..Len(v)
  BY <1>1
<1>5. DOMAIN a = 1..n /\ \A i \in 1..n : a[i] = v[i] /\ i \in DOMAIN v
  BY <1>1, <1>3, <1>4, SubSeqProperties
<1> HIDE DEF a
<1>6. n # 0 => n \in DOMAIN v
  BY <1>3, <1>4
<1>7. \A i \in DOMAIN a : Prefix(a[i].pending, u.pending)
  BY <1>2, <1>3, <1>5, <1>6
<1>8. \A i, j \in DOMAIN a : i <= j => Prefix(a[i].pending, a[j].pending)
  BY <1>2, <1>5
<1>9. Prefix(u.pending, s.pending)
  BY <1>1, <1>2, <1>3, <1>6
<1> QED
  BY <1>3, <1>7, <1>8, <1>9 DEF Nested

\* A write is added to what is pending.
LEMMA WriteNested ==
  ASSUME NEW s \in Session, Nested(s), s.status # "idle", NEW r \in Rows, NEW w \in Write,
         NEW u, u = [s EXCEPT !.pending = Added(s.pending, r, w)]
  PROVE  Nested(u) /\ u.pending = Added(s.pending, r, w) /\ u.status = s.status
<1> DEFINE p == Added(s.pending, r, w)
<1>1. u.status = s.status /\ u.pending = p /\ u.savepoints = s.savepoints
  BY DEF Session
<1>2. s.pending \in Logs /\ p \in Logs /\ \A i \in DOMAIN s.savepoints : s.savepoints[i].pending \in Logs
  BY SavepointTypes, AddedType
<1>3. Prefix(s.pending, p)
  <2> SUFFICES ASSUME NEW q \in Rows
               PROVE  Len(s.pending[q]) <= Len(p[q]) /\ \A i \in 1..Len(s.pending[q]) : s.pending[q][i] = p[q][i]
    BY DEF Prefix
  <2>1. s.pending[q] \in Seq(Write)
    BY <1>2 DEF Logs
  <2>2. p[q] = Append(s.pending[q], w) \/ p[q] = s.pending[q]
    <3>1. CASE q = r
      BY <1>2, <3>1, AddedType
    <3>2. CASE q # r
      BY <1>2, <3>2, AddedType
    <3> QED
      BY <3>1, <3>2
  <2> DEFINE x == s.pending[q]
  <2>3. x \in Seq(Write) /\ (p[q] = Append(x, w) \/ p[q] = x)
    BY <2>1, <2>2
  <2> HIDE DEF x, p
  <2>4. Len(x) <= Len(p[q]) /\ \A i \in 1..Len(x) : x[i] = p[q][i]
    BY <2>3
  <2> QED
    BY <2>4 DEF x
<1> HIDE DEF p
<1>4. \A i \in DOMAIN s.savepoints : Prefix(s.savepoints[i].pending, p)
  BY <1>2, <1>3, PrefixOrder DEF Nested
<1> QED
  BY <1>1, <1>4 DEF Nested, p

-----------------------------------------------------------------------------
(* The steps *)

\* Nothing is committed and what is pending may be undone: the calls that begin
\* again, or whose transaction is open, have committed nothing.
LEMMA Shrinks ==
  ASSUME UInv, TypeOK', rows' = rows, \A c \in Clients : Prefix(conn'[c].pending, conn[c].pending),
         Keeps(rows, Pending, call, call'),
         \A t \in Callers : call'[t].main \in Unwritten =>
           ~Of(rows, t) /\ \A c \in Clients : ~Of(Pending[c], t) \/ conn'[c].pending = NoWrites,
         \A t \in Callers :
           call'[t].main \in {"operating", "rollback"} /\ call'[t].error = "deadlock" => ~Of(rows, t),
         \A t \in Callers, c \in Clients :
           call'[t].client = c /\ call'[t].main \in Transacting /\ conn'[c].status # "idle" => ~Of(rows, t)
  PROVE  Data(rows, Pending, call)' /\ Untouched'
<1>1. Pending \in Pendings /\ rows \in Logs /\ \A c \in Clients : Pending[c] = conn[c].pending /\ Pending[c] \in Logs
  BY PendingType DEF UInv, Inv
<1>2. Pending' \in Pendings /\ \A c \in Clients : Pending'[c] = conn'[c].pending /\ Pending'[c] \in Logs
  BY DEF TypeOK, Pending, Pendings
<1>3. \A c \in Clients : Prefix(Pending'[c], Pending[c])
  BY <1>1, <1>2
<1>4. Data(rows, Pending, call')
  BY <1>1, DataCalls DEF UInv
<1>5. Data(rows, Pending', call')
  BY <1>1, <1>2, <1>3, <1>4, DataShrinks
<1>6. ASSUME NEW t \in Callers, call'[t].main \in Unwritten, NEW c \in Clients PROVE ~Of(Pending'[c], t)
  BY <1>1, <1>2, <1>3, <1>6, OfPrefix, NoneOf
<1>7. Untouched'
  BY <1>6 DEF Untouched, OwnedBy
<1> QED
  BY <1>5, <1>7

\* What a client has pending is committed for the call that holds it.
LEMMA Commits ==
  ASSUME UInv, TypeOK', NEW c \in Clients, NEW t \in Callers, Holds(t, c), call[t].main = "commit",
         rows' = Committed(c), conn' = [conn EXCEPT ![c] = Idle],
         Keeps(rows, Pending, call, call'),
         \A u \in Callers : call'[u].main \in Unwritten => call[u].main \in Unwritten,
         \A u \in Callers :
           call'[u].main \in {"operating", "rollback"} /\ call'[u].error = "deadlock" =>
             call[u].main \in {"operating", "rollback"} /\ call[u].error = "deadlock",
         \A u \in Callers, d \in Clients :
           call'[u].client = d /\ call'[u].main \in Transacting => OwnedBy(u, d)
  PROVE  Data(rows, Pending, call)' /\ Untouched'
<1>1. Pending \in Pendings /\ rows \in Logs /\ \A d \in Clients : Pending[d] = conn[d].pending /\ Pending[d] \in Logs
  BY PendingType DEF UInv, Inv
<1>2. Pending' = [Pending EXCEPT ![c] = NoWrites]
  BY DEF UInv, Inv, TypeOK, Pending, Idle
<1>3. rows' = Join(rows, Pending[c])
  BY <1>1 DEF Committed, Join
<1>4. Data(rows, Pending, call')
  BY <1>1, DataCalls DEF UInv
<1>5. Data(rows', Pending', call')
  BY <1>1, <1>2, <1>3, <1>4, DataCommit
<1>6. \A u \in Callers : ~Of(rows, u) /\ ~Of(Pending[c], u) => ~Of(rows', u)
  BY <1>1, <1>3, OfJoin
<1>7. \A u \in Callers, d \in Clients : ~Of(Pending[d], u) => ~Of(Pending'[d], u)
  BY <1>1, <1>2, NoneOf DEF Pendings
<1>8. \A u \in Callers : Of(Pending[c], u) => call[u].client = c
  BY PendingOf DEF UInv, Inv
<1>9. ASSUME NEW u \in Callers, call[u].main \in {"operating", "rollback"} PROVE call[u].client # c
  <2> SUFFICES ASSUME call[u].client = c PROVE FALSE
    OBVIOUS
  <2>1. Holds(u, c) /\ u # t
    BY <1>9 DEF Holds
  <2> QED
    BY <2>1 DEF UInv, Inv, Pool, Alone
<1>10. ASSUME NEW u \in Callers
       PROVE  /\ call'[u].main \in Unwritten => ~Of(rows', u) /\ \A d \in Clients : ~Of(Pending'[d], u)
              /\ call'[u].main \in {"operating", "rollback"} /\ call'[u].error = "deadlock" => ~Of(rows', u)
  BY <1>6, <1>7, <1>8, <1>9 DEF UInv, Untouched
<1>11. ASSUME NEW u \in Callers, NEW d \in Clients, call'[u].client = d, call'[u].main \in Transacting, conn'[d].status # "idle"
       PROVE  ~Of(rows', u)
  <2>1. OwnedBy(u, d)
    BY <1>11
  <2>2. d # c /\ conn'[d] = conn[d]
    BY <1>11 DEF UInv, Inv, TypeOK, Idle
  <2>3. ~Of(rows, u) /\ call[u].client # c
    BY <1>11, <2>1, <2>2 DEF UInv, Untouched, OwnedBy
  <2> QED
    BY <1>6, <1>8, <2>3
<1>12. Untouched'
  BY <1>10, <1>11 DEF Untouched, OwnedBy
<1> QED
  BY <1>5, <1>12

\* The part of UInv that is not Inv.
Updates == Data(rows, Pending, call) /\ Sessions /\ Untouched /\ Threads /\ Awaits

LEMMA SameSessions ==
  ASSUME UInv, conn' = conn
  PROVE  Sessions' /\ \A c \in Clients : Prefix(conn'[c].pending, conn[c].pending)
<1>1. \A c \in Clients : conn[c].pending \in Logs
  BY DEF UInv, Inv, TypeOK
<1> QED
  BY <1>1, PrefixOrder DEF UInv, Sessions

\* The server does nothing: one call moves on.
LEMMA Moves ==
  ASSUME UInv, TypeOK', rows' = rows, conn' = conn, NEW t \in Callers,
         \A u \in Callers : u # t => call'[u] = call[u],
         \/ call[t].main \in Unwritten
         \/ /\ call'[t].seen = call[t].seen /\ call'[t].client = call[t].client
            /\ \A n \in Nat : Passed(call, <<t, n>>) => Passed(call', <<t, n>>),
         call'[t].main \in Unwritten => call[t].main \in Unwritten,
         call'[t].main \in {"operating", "rollback"} /\ call'[t].error = "deadlock" =>
           call[t].main \in {"operating", "rollback"} /\ call[t].error = "deadlock",
         call'[t].main \in Transacting => call'[t].client = call[t].client /\ call[t].main \in Transacting,
         Thread(t, call'[t])
  PROVE  Data(rows, Pending, call)' /\ Sessions' /\ Untouched' /\ Threads'
<1>1. call[t].main \in Unwritten => ~Of(rows, t) /\ \A c \in Clients : ~Of(Pending[c], t)
  BY DEF UInv, Untouched
<1>2. Keeps(rows, Pending, call, call')
  <2>1. Others(call, call', t) /\ (call[t].main \in Unwritten \/ Stays(call, call', t))
    BY DEF Others, Stays
  <2> QED
    BY <1>1, <2>1, KeepsOne
<1>3. \A u \in Callers : call'[u].main \in Unwritten => ~Of(rows, u) /\ \A c \in Clients : ~Of(Pending[c], u)
  BY DEF UInv, Untouched
<1>4. \A u \in Callers :
        call'[u].main \in {"operating", "rollback"} /\ call'[u].error = "deadlock" => ~Of(rows, u)
  BY DEF UInv, Untouched
<1>5. \A u \in Callers, c \in Clients :
        call'[u].client = c /\ call'[u].main \in Transacting /\ conn'[c].status # "idle" => ~Of(rows, u)
  BY DEF UInv, Untouched, OwnedBy
<1>6. Sessions' /\ \A c \in Clients : Prefix(conn'[c].pending, conn[c].pending)
  BY SameSessions
<1>7. Threads'
  BY DEF UInv, Threads
<1> QED
  BY <1>2, <1>3, <1>4, <1>5, <1>6, <1>7, Shrinks

LEMMA ConnectUpdates ==
  ASSUME UInv, TypeOK', NEW t \in Callers, NEW c \in Clients, Connect(t, c)
  PROVE  Updates'
<1> DEFINE e == [call |-> t, from |-> "main", attempt |-> call[t].attempt + 1, what |-> "begin"]
           seen == IF call[t].attempt = 0 THEN rows ELSE call[t].seen
           n == call[t].attempt + 1
           k == [call[t] EXCEPT !.main = "begin", !.client = c, !.active = TRUE, !.attempt = n, !.seen = seen]
<1>1. TypeOK /\ call[t] \in Context /\ call[t].main = "new"
  BY DEF UInv, Inv, TypeOK, Context, Connect
<1>2. /\ call' = [call EXCEPT ![t] = k] /\ queue' = [queue EXCEPT ![c] = Append(queue[c], e)]
      /\ rows' = rows /\ conn' = conn
  <2>1. k = [call[t] EXCEPT !.main = "begin", !.client = c, !.active = TRUE, !.attempt = @ + 1,
                           !.seen = IF call[t].attempt = 0 THEN rows ELSE @]
    BY <1>1 DEF Context
  <2>2. call' = [call EXCEPT ![t] = k]
    BY <1>1, <2>1 DEF Connect, TypeOK
  <2> QED
    BY <2>2 DEF Connect
<1>3. e \in Query /\ e.from = "main"
  BY <1>1 DEF Query, Context
<1> HIDE DEF e, seen, n
<1>4. k.main = "begin" /\ k.op = call[t].op /\ k.error = call[t].error
  BY <1>1 DEF Context
<1> HIDE DEF k
<1>5. call'[t] = k /\ \A u \in Callers : u # t => call'[u] = call[u]
  BY <1>1, <1>2 DEF TypeOK
<1>6. Thread(t, call[t])
  BY DEF UInv, Threads
<1>7. call[t].op # "sent" /\ call[t].main \in Unwritten /\ Thread(t, call'[t])
  BY <1>1, <1>4, <1>5, <1>6 DEF Thread, Unwritten
<1>8. Data(rows, Pending, call)' /\ Sessions' /\ Untouched' /\ Threads'
  BY <1>2, <1>4, <1>5, <1>7, Moves DEF Transacting
<1>9. \A u \in Callers : Waiting(call, call', u)
  BY <1>5, <1>7 DEF Waiting
<1>10. Awaits'
  BY <1>1, <1>2, <1>3, <1>9, AwaitsSend DEF UInv
<1> QED
  BY <1>8, <1>10 DEF Updates

LEMMA IssueUpdates ==
  ASSUME UInv, TypeOK', NEW t \in Callers, Issue(t)
  PROVE  Updates'
<1>1. /\ TypeOK /\ call[t] \in Context /\ call[t].op = "ready" /\ Thread(t, call[t])
      /\ call[t].phase \in Phases \ {"raise", "return"} /\ rows' = rows /\ conn' = conn
  BY DEF UInv, Inv, TypeOK, Context, Issue, Threads
<1>2. call[t].main \notin Unwritten /\ (call[t].main = "operating" => call[t].error # "deadlock")
      /\ call[t].main # "commit" /\ (call[t].main = "rollback" => call[t].error = "timeout")
  BY <1>1 DEF Thread, Unwritten
<1>3. CASE call[t].phase = "save" /\ ~call[t].active
  <2> DEFINE k == AtStep(call[t], t, call[t].step + 1)
  <2>1. call' = [call EXCEPT ![t] = k] /\ queue' = queue
    BY <1>3 DEF Issue
  <2>2. /\ k.main = call[t].main /\ k.client = call[t].client /\ k.seen = call[t].seen
        /\ k.error = call[t].error /\ k.step = call[t].step + 1 /\ k.op = "ready" /\ k.step \in Nat
    BY <1>1 DEF AtStep, Context
  <2>3. k.phase # "return" => k.step \in DOMAIN Work[t]
    BY <1>1, AtStepThread DEF Context
  <2> HIDE DEF k
  <2>4. call'[t] = k /\ \A u \in Callers : u # t => call'[u] = call[u]
    BY <1>1, <2>1 DEF TypeOK
  <2>5. \A n \in Nat : Passed(call, <<t, n>>) => Passed(call', <<t, n>>)
    <3>1. call[t].step \in Nat /\ call'[t].step \in Nat /\ call'[t].step > call[t].step
      BY <1>1, <2>2, <2>4 DEF Context
    <3> QED
      BY <3>1 DEF Passed
  <2>6. Thread(t, call'[t])
    BY <1>2, <2>2, <2>3, <2>4 DEF Thread
  <2>7. Data(rows, Pending, call)' /\ Sessions' /\ Untouched' /\ Threads'
    BY <1>1, <1>2, <2>2, <2>4, <2>5, <2>6, Moves
  <2>8. \A u \in Callers : Waiting(call, call', u)
    BY <1>1, <2>4 DEF Waiting
  <2>9. Awaits'
    BY <1>1, <2>1, <2>8, AwaitsStay DEF UInv
  <2> QED
    BY <2>7, <2>9 DEF Updates
<1>4. CASE ~(call[t].phase = "save" /\ ~call[t].active)
  <2> DEFINE k == [call[t] EXCEPT !.op = "sent"]
             c == call[t].client
             e == [call |-> t, from |-> "operation", attempt |-> call[t].attempt, what |-> call[t].phase]
  <2>1. call' = [call EXCEPT ![t] = k] /\ queue' = [queue EXCEPT ![c] = Append(queue[c], e)]
    BY <1>4 DEF Issue, Send
  <2>2. /\ k.main = call[t].main /\ k.client = c /\ k.seen = call[t].seen /\ k.error = call[t].error
        /\ k.step = call[t].step /\ k.phase = call[t].phase /\ k.op = "sent"
    BY <1>1 DEF Context
  <2>3. e \in Query /\ e.call = t /\ e.from = "operation" /\ e.what = call[t].phase
    BY <1>1 DEF Query, Context, Phases
  <2>4. call[t].client = c
    OBVIOUS
  <2> HIDE DEF k, c, e
  <2>5. call'[t] = k /\ \A u \in Callers : u # t => call'[u] = call[u]
    BY <1>1, <2>1 DEF TypeOK
  <2>6. Thread(t, call'[t])
    BY <1>1, <1>2, <2>2, <2>5 DEF Thread
  <2>7. \A n \in Nat : Passed(call, <<t, n>>) => Passed(call', <<t, n>>)
    BY <2>2, <2>5 DEF Passed
  <2>8. Data(rows, Pending, call)' /\ Sessions' /\ Untouched' /\ Threads'
    BY <1>1, <1>2, <2>2, <2>4, <2>5, <2>6, <2>7, Moves
  <2>9. \A u \in Callers : Waiting(call, call', u)
    BY <1>1, <2>5 DEF Waiting
  <2>10. Awaited(call', e, c)
    BY <2>2, <2>3, <2>5 DEF Awaited
  <2>11. Awaits'
    BY <1>1, <2>1, <2>3, <2>9, <2>10, AwaitsSend DEF UInv
  <2> QED
    BY <2>8, <2>11 DEF Updates
<1> QED
  BY <1>3, <1>4

LEMMA SettleUpdates ==
  ASSUME UInv, TypeOK', NEW t \in Callers, Settle(t)
  PROVE  Updates'
<1> DEFINE what == IF call[t].phase = "return" THEN "commit" ELSE "rollback"
           raced == call[t].main = "operating"
           k == [call[t] EXCEPT !.op = "over", !.main = IF raced THEN what ELSE call[t].main]
           c == call[t].client
           e == [call |-> t, from |-> "main", attempt |-> call[t].attempt, what |-> what]
<1>1. TypeOK /\ call[t] \in Context /\ call[t].op = "ready" /\ Thread(t, call[t]) /\ rows' = rows /\ conn' = conn
  BY DEF UInv, Inv, TypeOK, Context, Settle, Threads
<1>2. /\ call' = [call EXCEPT ![t] = k]
      /\ queue' = queue \/ queue' = [queue EXCEPT ![c] = Append(queue[c], e)]
  BY <1>1 DEF Settle, Send, TypeOK, Context
<1>3. what \in {"commit", "rollback"}
  OBVIOUS
<1> HIDE DEF what
<1>4. e \in Query /\ e.from = "main"
  BY <1>1, <1>3 DEF Query, Context
<1>5. /\ k.client = call[t].client /\ k.seen = call[t].seen /\ k.error = call[t].error
      /\ k.step = call[t].step /\ k.phase = call[t].phase /\ k.op = "over"
      /\ k.main = IF raced THEN what ELSE call[t].main
  BY <1>1 DEF Context
<1> HIDE DEF k, c, e
<1>6. call'[t] = k /\ \A u \in Callers : u # t => call'[u] = call[u]
  BY <1>1, <1>2 DEF TypeOK
<1>7. call[t].main \notin Unwritten
  BY <1>1 DEF Thread
<1>8. Thread(t, call'[t])
  BY <1>3, <1>5, <1>6, <1>7 DEF Thread, Unwritten
<1>9. \A n \in Nat : Passed(call, <<t, n>>) => Passed(call', <<t, n>>)
  BY <1>5, <1>6 DEF Passed
<1>10. /\ call'[t].main \in Unwritten => call[t].main \in Unwritten
       /\ call'[t].main \in {"operating", "rollback"} /\ call'[t].error = "deadlock" =>
            call[t].main \in {"operating", "rollback"} /\ call[t].error = "deadlock"
       /\ call'[t].main \in Transacting => call'[t].client = call[t].client /\ call[t].main \in Transacting
  BY <1>3, <1>5, <1>6 DEF Unwritten, Transacting
<1>11. Data(rows, Pending, call)' /\ Sessions' /\ Untouched' /\ Threads'
  BY <1>1, <1>5, <1>6, <1>8, <1>9, <1>10, Moves
<1>12. \A u \in Callers : Waiting(call, call', u)
  BY <1>1, <1>6 DEF Waiting
<1>13. Awaits'
  BY <1>1, <1>2, <1>4, <1>12, AwaitsStay, AwaitsSend DEF UInv
<1> QED
  BY <1>11, <1>13 DEF Updates

LEMMA TimeOutUpdates ==
  ASSUME UInv, TypeOK', NEW t \in Callers, TimeOut(t)
  PROVE  Updates'
<1> DEFINE k == [call[t] EXCEPT !.main = "rollback", !.error = "timeout"]
           c == call[t].client
           e == [call |-> t, from |-> "main", attempt |-> call[t].attempt, what |-> "rollback"]
<1>1. TypeOK /\ call[t] \in Context /\ call[t].main = "operating" /\ rows' = rows /\ conn' = conn /\ Thread(t, call[t])
  BY DEF UInv, Inv, TypeOK, Context, TimeOut, Threads
<1>2. call' = [call EXCEPT ![t] = k] /\ queue' = [queue EXCEPT ![c] = Append(queue[c], e)]
  BY DEF TimeOut, Send
<1>3. e \in Query /\ e.from = "main"
  BY <1>1 DEF Query, Context
<1>4. /\ k.client = call[t].client /\ k.seen = call[t].seen /\ k.error = "timeout" /\ k.op = call[t].op
      /\ k.step = call[t].step /\ k.phase = call[t].phase /\ k.main = "rollback"
  BY <1>1 DEF Context
<1> HIDE DEF k, c, e
<1>5. call'[t] = k /\ \A u \in Callers : u # t => call'[u] = call[u]
  BY <1>1, <1>2 DEF TypeOK
<1>6. Thread(t, call'[t])
  BY <1>1, <1>4, <1>5 DEF Thread, Unwritten
<1>7. \A n \in Nat : Passed(call, <<t, n>>) => Passed(call', <<t, n>>)
  BY <1>4, <1>5 DEF Passed
<1>8. /\ call'[t].main \notin Unwritten
      /\ call'[t].error # "deadlock"
      /\ call'[t].client = call[t].client /\ call[t].main \in Transacting
  BY <1>1, <1>4, <1>5 DEF Unwritten, Transacting
<1>9. Data(rows, Pending, call)' /\ Sessions' /\ Untouched' /\ Threads'
  BY <1>1, <1>4, <1>5, <1>6, <1>7, <1>8, Moves
<1>10. \A u \in Callers : Waiting(call, call', u)
  BY <1>4, <1>5 DEF Waiting
<1>11. Awaits'
  BY <1>1, <1>2, <1>3, <1>10, AwaitsSend DEF UInv
<1> QED
  BY <1>9, <1>11 DEF Updates

LEMMA BackOffUpdates ==
  ASSUME UInv, TypeOK', NEW t \in Callers, BackOff(t)
  PROVE  Updates'
<1> DEFINE k == [call[t] EXCEPT !.main = "new", !.active = FALSE]
<1>1. /\ TypeOK /\ call[t] \in Context /\ call[t].main = "backoff" /\ Thread(t, call[t])
      /\ rows' = rows /\ conn' = conn /\ queue' = queue
  BY DEF UInv, Inv, TypeOK, Context, BackOff, Threads
<1>2. call' = [call EXCEPT ![t] = k]
  BY DEF BackOff, Release
<1>3. k.op = call[t].op /\ k.error = call[t].error /\ k.main = "new"
  BY <1>1 DEF Context
<1> HIDE DEF k
<1>4. call'[t] = k /\ \A u \in Callers : u # t => call'[u] = call[u]
  BY <1>1, <1>2 DEF TypeOK
<1>5. call[t].main \in Unwritten /\ call[t].op # "sent" /\ Thread(t, call'[t])
  BY <1>1, <1>3, <1>4 DEF Thread, Unwritten
<1>6. call'[t].main \notin {"operating", "rollback"} /\ call'[t].main \notin Transacting
  BY <1>3, <1>4 DEF Transacting
<1>7. Data(rows, Pending, call)' /\ Sessions' /\ Untouched' /\ Threads'
  BY <1>1, <1>4, <1>5, <1>6, Moves
<1>8. \A u \in Callers : Waiting(call, call', u)
  BY <1>4, <1>5 DEF Waiting
<1>9. Awaits'
  BY <1>1, <1>8, AwaitsStay DEF UInv
<1> QED
  BY <1>7, <1>9 DEF Updates

LEMMA ForceRollbackUpdates ==
  ASSUME UInv, TypeOK', NEW t \in Callers, ForceRollback(t)
  PROVE  Updates'
<1> DEFINE c == call[t].client
           e == [call |-> t, from |-> "force", attempt |-> call[t].attempt, what |-> "rollback"]
<1>1. /\ TypeOK /\ call[t] \in Context /\ Thread(t, call[t])
      /\ rows' = rows /\ conn' = conn /\ call' = call
  BY DEF UInv, Inv, TypeOK, Context, ForceRollback, Threads
<1>2. queue' = [queue EXCEPT ![c] = Append(queue[c], e)]
  BY DEF ForceRollback, Send
<1>3. e \in Query /\ e.from = "force"
  BY <1>1 DEF Query, Context
<1> HIDE DEF c, e
<1>4. \A n \in Nat : Passed(call, <<t, n>>) => Passed(call', <<t, n>>)
  BY <1>1
<1>5. Data(rows, Pending, call)' /\ Sessions' /\ Untouched' /\ Threads'
  BY <1>1, <1>4, Moves
<1>6. \A u \in Callers : Waiting(call, call', u)
  BY <1>1 DEF Waiting
<1>7. Awaits'
  BY <1>1, <1>2, <1>3, <1>6, AwaitsSend DEF UInv
<1> QED
  BY <1>5, <1>7 DEF Updates

\* A transaction is opened for a call that has written nothing.
LEMMA BeginUpdates ==
  ASSUME UInv, TypeOK', NEW c \in Clients, Begin(c)
  PROVE  Updates'
<1> DEFINE t == Asker(c)
           o == [call[t] EXCEPT !.main = "operating"]
           k == AtStep(o, t, 1)
           x == [conn[c] EXCEPT !.status = "open"]
<1>1. /\ queue[c] # <<>> /\ t \in Callers /\ Head(queue[c]).from = "main"
      /\ call[t].client = c /\ call[t].main = "begin"
  BY HeadIsHonest DEF UInv, Inv, Begin, Asked
<1>2. call[t] \in Context /\ conn[c] \in Session /\ TypeOK /\ Thread(t, call[t])
  BY <1>1 DEF UInv, Inv, TypeOK, Context, Session, Threads
<1>3. /\ call' = [call EXCEPT ![t] = k] /\ conn' = [conn EXCEPT ![c] = x] /\ Answer(c) /\ rows' = rows
  BY <1>2 DEF Begin, TypeOK
<1>4. k.main = "operating" /\ k.error = call[t].error
  BY <1>2 DEF AtStep, Context
<1>5. o \in Context
  BY <1>2 DEF Context, Mains
<1>6. k.phase # "return" => k.step \in DOMAIN Work[t]
  BY <1>1, <1>5, AtStepThread
<1>7. x.status = "open" /\ x.pending = conn[c].pending /\ x.savepoints = conn[c].savepoints
  BY <1>2 DEF Session
<1> HIDE DEF t, k, x
<1>8. call'[t] = k /\ \A u \in Callers : u # t => call'[u] = call[u]
  BY <1>1, <1>2, <1>3 DEF TypeOK
<1>9. conn'[c] = x /\ \A d \in Clients : d # c => conn'[d] = conn[d]
  BY <1>2, <1>3 DEF TypeOK
<1>10. call[t].error = "none" /\ call[t].op # "sent" /\ Thread(t, call'[t])
  BY <1>1, <1>2, <1>4, <1>6, <1>8 DEF Thread, Unwritten
<1>11. ~Of(rows, t) /\ \A d \in Clients : ~Of(Pending[d], t)
  BY <1>1 DEF UInv, Untouched, Unwritten
<1>12. Keeps(rows, Pending, call, call')
  <2>1. Others(call, call', t)
    BY <1>8 DEF Others
  <2> QED
    BY <1>1, <1>11, <2>1, KeepsOne
<1>13. \A d \in Clients : conn'[d].pending = conn[d].pending /\ conn[d].pending \in Logs
  BY <1>2, <1>7, <1>9 DEF TypeOK
<1>14. \A d \in Clients : Prefix(conn'[d].pending, conn[d].pending)
  BY <1>13, PrefixOrder
<1>15. \A u \in Callers : call'[u].main \in Unwritten => ~Of(rows, u) /\ \A d \in Clients : ~Of(Pending[d], u)
  BY <1>8, <1>11 DEF UInv, Untouched
<1>16. \A u \in Callers : call'[u].main \in {"operating", "rollback"} /\ call'[u].error = "deadlock" => ~Of(rows, u)
  BY <1>8, <1>11 DEF UInv, Untouched
<1>17. ASSUME NEW u \in Callers, NEW d \in Clients,
              call'[u].client = d, call'[u].main \in Transacting, conn'[d].status # "idle"
       PROVE  ~Of(rows, u)
  <2>1. CASE u = t
    BY <1>11, <2>1
  <2>2. CASE u # t
    <3>1. OwnedBy(u, d)
      BY <1>8, <1>17, <2>2 DEF OwnedBy
    <3>2. d # c
      BY <1>1, <2>2, <3>1 DEF UInv, Inv, Pool, Alone, OwnedBy, Transacting, Holds
    <3> QED
      BY <1>9, <1>17, <3>1, <3>2 DEF UInv, Untouched
  <2> QED
    BY <2>1, <2>2
<1>18. Data(rows, Pending, call)' /\ Untouched'
  BY <1>3, <1>12, <1>14, <1>15, <1>16, <1>17, Shrinks
<1>19. Sessions'
  <2>1. Nested(x)
    BY <1>7 DEF UInv, Sessions, Nested
  <2> QED
    BY <1>9, <2>1 DEF UInv, Sessions
<1>20. Threads'
  BY <1>8, <1>10 DEF UInv, Threads
<1>21. \A u \in Callers : Waiting(call, call', u)
  BY <1>8, <1>10 DEF Waiting
<1>22. Awaits'
  BY <1>1, <1>2, <1>3, <1>21, AwaitsAnswer DEF UInv
<1> QED
  BY <1>18, <1>19, <1>20, <1>22 DEF Updates

\* The server answers an operation that waits for it.
LEMMA OperationGoesOn ==
  ASSUME UInv, TypeOK', NEW c \in Clients, queue[c] # <<>>, Answer(c),
         Head(queue[c]).what \in {"save", "write", "release", "undo"},
         NEW error \in Errors, NEW r,
         r = Fails(call[Asker(c)], Asker(c), error) \/ r = Succeeds(call[Asker(c)], Asker(c)),
         call' = [call EXCEPT ![Asker(c)] = r]
  PROVE  /\ Keeps(rows, Pending, call, call')
         /\ \A u \in Callers : call'[u].main = call[u].main /\ call'[u].client = call[u].client
         /\ call[Asker(c)].main \notin Unwritten
         /\ \A u \in Callers : call'[u].main \in {"operating", "rollback"} /\ call'[u].error = "deadlock" =>
              \/ call[u].error = "deadlock"
              \/ u = Asker(c) /\ error = "deadlock" /\ call[u].main = "operating"
         /\ Threads'
         /\ Awaits'
<1> DEFINE t == Asker(c)
           k == call[t]
<1>1. /\ Head(queue[c]).from = "operation" /\ t \in Callers /\ k.client = c /\ k.op = "sent"
      /\ k.phase \notin {"raise", "return"}
  BY HeadIsAwaited DEF UInv, Inv
<1>2. TypeOK /\ k \in Context /\ k.step \in Nat /\ Thread(t, k)
  BY <1>1 DEF UInv, Inv, TypeOK, Context, Threads
<1>3. r \in Context /\ r.main = k.main /\ r.client = k.client
  BY <1>1, <1>2, AnsweredType
<1>4. /\ r.seen = k.seen /\ r.step >= k.step
      /\ k.phase \notin {"save", "write"} => r.step > k.step \/ r.phase \notin {"save", "write"}
      /\ r.error # k.error => r.error = error /\ r.op = "ready" /\ r.phase = "raise" /\ k.error # "timeout"
  BY <1>1, <1>2, AnsweredFacts
<1>5. r.step \in Nat /\ (r.phase \notin {"raise", "return"} => r.step \in DOMAIN Work[t])
  BY <1>1, <1>2, <1>3, AnsweredThread DEF Thread, Context
<1>6. call'[t] = r /\ \A u \in Callers : u # t => call'[u] = call[u]
  BY <1>1, <1>2 DEF TypeOK
<1> HIDE DEF t
<1>7. \A n \in Nat : Passed(call, <<t, n>>) => Passed(call', <<t, n>>)
  BY <1>2, <1>4, <1>5, <1>6 DEF Passed
<1>8. call'[t].seen = call[t].seen /\ call'[t].client = call[t].client
  BY <1>3, <1>4, <1>6
<1>9. Keeps(rows, Pending, call, call')
  <2>1. Others(call, call', t) /\ Stays(call, call', t)
    BY <1>6, <1>7, <1>8 DEF Others, Stays
  <2> QED
    BY <1>1, <2>1, KeepsOne
<1>10. k.main \notin Unwritten /\ (k.main = "operating" => k.error # "deadlock")
      /\ k.main # "commit" /\ (k.main = "rollback" => k.error = "timeout")
  BY <1>1, <1>2 DEF Thread
<1>11. Thread(t, r)
  BY <1>3, <1>4, <1>5, <1>10 DEF Thread
<1>12. Threads'
  BY <1>6, <1>11 DEF UInv, Threads
<1>13. \A u \in Callers : Waiting(call, call', u) \/ u = t
  BY <1>6 DEF Waiting
<1>14. Awaits'
  BY <1>1, <1>2, <1>13, AwaitsAnswer DEF UInv, t
<1>15. \A u \in Callers : call'[u].main = call[u].main /\ call'[u].client = call[u].client
  BY <1>3, <1>6
<1>16. \A u \in Callers : call'[u].main \in {"operating", "rollback"} /\ call'[u].error = "deadlock" =>
         call[u].error = "deadlock" \/ (u = t /\ error = "deadlock" /\ call[u].main = "operating")
  BY <1>3, <1>4, <1>6, <1>10
<1> QED
  BY <1>9, <1>10, <1>12, <1>14, <1>15, <1>16 DEF t

\* Its session may be cut back, but does not end.
LEMMA OperationUndoes ==
  ASSUME UInv, TypeOK', NEW c \in Clients, queue[c] # <<>>, Answer(c),
         Head(queue[c]).what \in {"save", "write", "release", "undo"},
         NEW error \in Errors, NEW r,
         r = Fails(call[Asker(c)], Asker(c), error) \/ r = Succeeds(call[Asker(c)], Asker(c)),
         call' = [call EXCEPT ![Asker(c)] = r],
         rows' = rows, NEW x, conn' = [conn EXCEPT ![c] = x],
         Nested(x), Prefix(x.pending, conn[c].pending), conn[c].status = "idle" => x.status = "idle",
         error = "deadlock" => conn[c].status # "idle"
  PROVE  Updates'
<1> DEFINE t == Asker(c)
<1>1. /\ Keeps(rows, Pending, call, call')
      /\ \A u \in Callers : call'[u].main = call[u].main /\ call'[u].client = call[u].client
      /\ \A u \in Callers : call'[u].main \in {"operating", "rollback"} /\ call'[u].error = "deadlock" =>
           call[u].error = "deadlock" \/ (u = t /\ error = "deadlock" /\ call[u].main = "operating")
      /\ Threads' /\ Awaits'
  BY OperationGoesOn
<1>2. t \in Callers /\ call[t].client = c
  BY HeadIsAwaited DEF UInv, Inv
<1> HIDE DEF t
<1>3. conn'[c] = x /\ \A d \in Clients : d # c => conn'[d] = conn[d]
  BY DEF UInv, Inv, TypeOK
<1>4. \A d \in Clients : conn[d].pending \in Logs /\ Prefix(conn[d].pending, conn[d].pending)
  BY PrefixOrder DEF UInv, Inv, TypeOK
<1>5. \A d \in Clients : Prefix(conn'[d].pending, conn[d].pending)
  BY <1>3, <1>4
<1>6. \A d \in Clients : conn'[d].status # "idle" => conn[d].status # "idle"
  BY <1>3
<1>7. Sessions'
  BY <1>3 DEF UInv, Sessions
<1>8. \A u \in Callers : call'[u].main \in Unwritten => ~Of(rows, u) /\ \A d \in Clients : ~Of(Pending[d], u)
  BY <1>1 DEF UInv, Untouched
<1>9. \A u \in Callers, d \in Clients :
        call'[u].client = d /\ call'[u].main \in Transacting /\ conn'[d].status # "idle" => ~Of(rows, u)
  BY <1>1, <1>6 DEF UInv, Untouched, OwnedBy
<1>10. ASSUME NEW u \in Callers, call'[u].main \in {"operating", "rollback"}, call'[u].error = "deadlock"
       PROVE  ~Of(rows, u)
  <2>1. CASE call[u].error = "deadlock"
    BY <1>1, <1>10, <2>1 DEF UInv, Untouched
  <2>2. CASE u = t /\ error = "deadlock" /\ call[u].main = "operating"
    BY <1>2, <2>2 DEF UInv, Untouched, OwnedBy, Transacting
  <2> QED
    BY <1>1, <1>10, <2>1, <2>2
<1>11. Data(rows, Pending, call)' /\ Untouched'
  BY <1>1, <1>5, <1>8, <1>9, <1>10, Shrinks
<1> QED
  BY <1>1, <1>7, <1>11 DEF Updates

LEMMA FailWriteUpdates ==
  ASSUME UInv, TypeOK', NEW c \in Clients, NEW error \in {"deadlock", "cancelled"}, FailWrite(c, error),
         error = "deadlock" => OnCycle(c)
  PROVE  Updates'
<1> DEFINE r == Fails(call[Asker(c)], Asker(c), error)
           x == Abort(conn[c])
<1>1. queue[c] # <<>> /\ Head(queue[c]).what = "write" /\ Answer(c)
  BY DEF FailWrite, Blockers, Asked
<1>2. call' = [call EXCEPT ![Asker(c)] = r] /\ conn' = [conn EXCEPT ![c] = x] /\ rows' = rows
  BY DEF FailWrite
<1>3. conn[c] \in Session /\ Nested(conn[c])
  BY DEF UInv, Inv, TypeOK, Session, Sessions
<1>4. Nested(x) /\ Prefix(x.pending, conn[c].pending) /\ (conn[c].status = "idle" => x.status = "idle")
  BY <1>3, AbortNested
<1>5. error \in Errors
  BY DEF Errors
<1>6. ASSUME error = "deadlock" PROVE conn[c].status # "idle"
  <2>1. PICK e \in Clients : c \in Blockers(e)
    BY <1>6 DEF OnCycle, Waits
  <2>2. queue[e] # <<>> /\ Head(queue[e]).what = "write" /\ conn[c].pending[Now(Asker(e)).row] # <<>>
    BY <2>1 DEF Blockers, Asked
  <2>3. Asker(e) \in Callers /\ call[Asker(e)].op = "sent" /\ call[Asker(e)].phase = "write"
    BY <2>2, HeadIsAwaited DEF UInv, Inv
  <2>4. Now(Asker(e)).row \in Rows
    BY <2>3, OnStatement DEF UInv
  <2>5. conn[c] # Idle
    BY <2>2, <2>4 DEF Idle, NoWrites
  <2> QED
    BY <1>3, <2>5 DEF Nested
<1> HIDE DEF r, x
<1>7. r = Fails(call[Asker(c)], Asker(c), error)
  BY DEF r
<1> QED
  BY <1>1, <1>2, <1>4, <1>5, <1>6, <1>7, OperationUndoes

LEMMA SavepointsUpdates ==
  ASSUME UInv, TypeOK', NEW c \in Clients, Savepoints(c)
  PROVE  Updates'
<1> DEFINE t == Asker(c)
           s == conn[c]
           name == <<t, call[t].step>>
           At == {i \in DOMAIN s.savepoints : s.savepoints[i].name = name}
           what == Head(queue[c]).what
           good == \/ what = "save" /\ s.status = "open"
                   \/ what = "release" /\ s.status = "open" /\ At # {}
                   \/ what = "undo" /\ s.status # "idle" /\ At # {}
           r == IF good THEN Succeeds(call[t], t) ELSE Fails(call[t], t, "aborted")
           x == conn'[c]
<1>1. queue[c] # <<>> /\ what \in {"save", "release", "undo"} /\ Answer(c)
  BY DEF Savepoints
<1>2. call' = [call EXCEPT ![t] = r] /\ rows' = rows
  BY DEF Savepoints
<1>3. s \in Session /\ Nested(s) /\ x \in Session
  BY DEF UInv, Inv, TypeOK, Session, Sessions
<1>4. s.savepoints \in Seq(Savepoint) /\ s.pending \in Logs /\ Prefix(s.pending, s.pending)
  BY <1>3, SavepointTypes, PrefixOrder
<1>5. \/ /\ ~good
         /\ conn' = [conn EXCEPT ![c] = IF s.status = "failed" THEN s ELSE Abort(s)]
      \/ /\ good /\ what = "save"
         /\ conn' = [conn EXCEPT ![c] = [s EXCEPT !.savepoints = Append(s.savepoints, [name |-> name, pending |-> s.pending])]]
      \/ /\ good /\ what # "save"
         /\ \E i \in At :
              conn' = [conn EXCEPT ![c] =
                IF what = "release" THEN [s EXCEPT !.savepoints = SubSeq(s.savepoints, 1, i - 1)]
                ELSE [status |-> "open", pending |-> s.savepoints[i].pending,
                      savepoints |-> SubSeq(s.savepoints, 1, i)]]
  BY DEF Savepoints, UInv, Inv, TypeOK
<1>6. r = Fails(call[t], t, "aborted") \/ r = Succeeds(call[t], t)
  OBVIOUS
<1>7. good => s.status # "idle"
  OBVIOUS
<1>8. conn \in [Clients -> Session]
  BY DEF UInv, Inv, TypeOK, Session
<1>9. \A i \in At : i \in 1..Len(s.savepoints)
  BY <1>4
<1> HIDE DEF t, s, name, At, what, good, r, x
<1>10. Nested(x) /\ Prefix(x.pending, s.pending) /\ (s.status = "idle" => x.status = "idle")
       /\ conn' = [conn EXCEPT ![c] = x]
  <2>1. CASE conn' = [conn EXCEPT ![c] = IF s.status = "failed" THEN s ELSE Abort(s)]
    <3>1. x = s \/ x = Abort(s)
      BY <1>8, <2>1 DEF x
    <3>2. conn' = [conn EXCEPT ![c] = x]
      BY <1>8, <2>1 DEF x
    <3> QED
      BY <1>3, <1>4, <3>1, <3>2, AbortNested
  <2>2. CASE good /\ conn' = [conn EXCEPT ![c] = [s EXCEPT !.savepoints = Append(s.savepoints, [name |-> name, pending |-> s.pending])]]
    <3>1. x = [s EXCEPT !.savepoints = Append(s.savepoints, [name |-> name, pending |-> s.pending])]
          /\ conn' = [conn EXCEPT ![c] = x]
      BY <1>8, <2>2 DEF x
    <3> QED
      BY <1>3, <1>4, <1>7, <2>2, <3>1, SaveNested
  <2>3. CASE good /\ \E i \in At : conn' = [conn EXCEPT ![c] = [s EXCEPT !.savepoints = SubSeq(s.savepoints, 1, i - 1)]]
    <3>1. PICK i \in At : conn' = [conn EXCEPT ![c] = [s EXCEPT !.savepoints = SubSeq(s.savepoints, 1, i - 1)]]
      BY <2>3
    <3>2. x = [s EXCEPT !.savepoints = SubSeq(s.savepoints, 1, i - 1)] /\ conn' = [conn EXCEPT ![c] = x]
      BY <1>8, <3>1 DEF x
    <3> DEFINE n == i - 1
    <3>3. n \in Nat /\ n <= Len(s.savepoints)
      BY <1>4, <1>9
    <3>4. x.status = s.status /\ x.pending = s.pending /\ x.savepoints = SubSeq(s.savepoints, 1, n)
      BY <1>3, <3>2 DEF Session
    <3> HIDE DEF n
    <3> QED
      BY <1>3, <1>7, <2>3, <3>2, <3>3, <3>4, CutNested
  <2>4. CASE good /\ \E i \in At :
               conn' = [conn EXCEPT ![c] = [status |-> "open", pending |-> s.savepoints[i].pending,
                                            savepoints |-> SubSeq(s.savepoints, 1, i)]]
    <3>1. PICK i \in At :
            conn' = [conn EXCEPT ![c] = [status |-> "open", pending |-> s.savepoints[i].pending,
                                         savepoints |-> SubSeq(s.savepoints, 1, i)]]
      BY <2>4
    <3>2. x = [status |-> "open", pending |-> s.savepoints[i].pending, savepoints |-> SubSeq(s.savepoints, 1, i)]
          /\ conn' = [conn EXCEPT ![c] = x]
      BY <1>8, <3>1 DEF x
    <3>3. i \in Nat /\ i # 0 /\ i <= Len(s.savepoints)
      BY <1>4, <1>9
    <3>4. x.status = "open" /\ x.pending = s.savepoints[i].pending /\ x.savepoints = SubSeq(s.savepoints, 1, i)
      BY <3>2
    <3> QED
      BY <1>3, <1>7, <2>4, <3>2, <3>3, <3>4, CutNested
  <2> QED
    BY <1>5, <2>1, <2>2, <2>3, <2>4
<1>11. "aborted" \in Errors /\ "aborted" # "deadlock"
  BY DEF Errors
<1>12. Head(queue[c]).what \in {"save", "write", "release", "undo"}
  BY <1>1 DEF what
<1> QED
  BY <1>1, <1>2, <1>6, <1>10, <1>11, <1>12, OperationUndoes DEF t, s

LEMMA WriteRowUpdates ==
  ASSUME UInv, TypeOK', NEW c \in Clients, WriteRow(c)
  PROVE  Updates'
<1> DEFINE t == Asker(c)
           q == Now(t).row
           w == <<t, call[t].step>>
           hit == conn[c].status # "failed" /\ Matches(t, rows[q] \o conn[c].pending[q])
           ok == hit \/ (conn[c].status # "failed" /\ NullOnMiss(t))
           error == IF conn[c].status = "failed" THEN "aborted" ELSE "conflict"
           r == IF ok THEN Succeeds(call[t], t) ELSE Fails(call[t], t, error)
<1>1. queue[c] # <<>> /\ Head(queue[c]).what = "write" /\ Answer(c) /\ Blockers(c) = {}
  BY DEF WriteRow, Asked
<1>2. t \in Callers /\ call[t].client = c /\ call[t].op = "sent" /\ call[t].phase = "write"
  BY <1>1, HeadIsAwaited DEF UInv, Inv
<1>3. TypeOK /\ call[t] \in Context /\ conn[c] \in Session /\ Nested(conn[c]) /\ q \in Rows
  BY <1>2, OnStatement DEF UInv, Inv, TypeOK, Context, Session, Sessions
<1>4. /\ call' = [call EXCEPT ![t] = r]
      /\ rows' = IF hit /\ conn[c].status = "idle" THEN [rows EXCEPT ![q] = Append(rows[q], w)] ELSE rows
      /\ conn' = IF hit /\ conn[c].status = "open"
                 THEN [conn EXCEPT ![c].pending[q] = Append(conn[c].pending[q], w)] ELSE conn
  BY <1>3 DEF WriteRow, TypeOK, Logs, Session
<1>5. error \in Errors /\ error # "deadlock"
  BY DEF Errors
<1>6. (r = Fails(call[t], t, error) \/ r = Succeeds(call[t], t)) /\ (hit => r = Succeeds(call[t], t))
  OBVIOUS
<1>7. hit => conn[c].status # "failed" /\ (Now(t).kind = "lock" => Version(rows[q] \o conn[c].pending[q]) = Version(call[t].seen[q]))
  BY DEF Matches
<1>8. hit => \A d \in Clients : d # c => conn[d].pending[q] = <<>>
  BY <1>1 DEF Blockers, Asked
<1>9. w \in Write /\ w[1] = t /\ (IsLock(w) <=> Now(t).kind = "lock") /\ ~Passed(call, w)
  BY <1>2, <1>3 DEF Write, Context, IsLock, Now, Passed
<1>10. Head(queue[c]).what \in {"save", "write", "release", "undo"}
  BY <1>1
<1> HIDE DEF q, w, hit, ok, error, r
<1>11. CASE ~(hit /\ conn[c].status \in {"idle", "open"})
  <2>1. rows' = rows /\ conn' = [conn EXCEPT ![c] = conn[c]]
    BY <1>3, <1>4, <1>11 DEF TypeOK
  <2>2. Prefix(conn[c].pending, conn[c].pending)
    BY <1>3, SavepointTypes, PrefixOrder
  <2> QED
    BY <1>1, <1>3, <1>4, <1>5, <1>6, <1>10, <2>1, <2>2, OperationUndoes
<1>12. CASE hit /\ conn[c].status \in {"idle", "open"}
  <2>1. /\ Keeps(rows, Pending, call, call')
        /\ \A u \in Callers : call'[u].main = call[u].main /\ call'[u].client = call[u].client
        /\ call[t].main \notin Unwritten
        /\ \A u \in Callers : call'[u].main \in {"operating", "rollback"} /\ call'[u].error = "deadlock" =>
             call[u].error = "deadlock" \/ (u = t /\ error = "deadlock" /\ call[u].main = "operating")
        /\ Threads' /\ Awaits'
    BY <1>1, <1>4, <1>5, <1>6, <1>10, OperationGoesOn
  <2>2. Pending \in Pendings /\ rows \in Logs /\ \A d \in Clients : Pending[d] = conn[d].pending /\ Pending[d] \in Logs
    BY <1>3, PendingType
  <2>3. Data(rows, Pending, call')
    BY <2>1, <2>2, DataCalls DEF UInv
  <2>4. r = Succeeds(call[t], t) /\ call'[t] = r
    BY <1>2, <1>3, <1>4, <1>6, <1>12 DEF TypeOK
  <2>5. r.seen = call[t].seen /\ r.step >= call[t].step /\ (r.step > call[t].step \/ r.phase \notin {"save", "write"})
    BY <1>2, <1>3, <1>5, <2>4, AnsweredFacts
  <2>6. r \in Context
    BY <1>2, <1>3, <1>5, <2>4, AnsweredType
  <2>7. Passed(call', w)
    <3>1. call[t].step \in Nat /\ r.step \in Nat
      BY <1>3, <2>6 DEF Context
    <3> QED
      BY <2>4, <2>5, <3>1 DEF Passed, w
  <2>8. ~Has(rows, w) /\ \A d \in Clients : ~Has(Pending[d], w)
    BY <1>9 DEF UInv, Data, Attributed
  <2>9. call'[w[1]].client = c /\ call'[w[1]].seen = call[t].seen
    BY <1>2, <1>9, <2>1, <2>4, <2>5
  <2>10. \A d \in Clients : d # c => Pending[d][q] = <<>>
    BY <1>8, <1>12, <2>2
  <2>11. IsLock(w) => Version(rows[q] \o Pending[c][q]) = Version(call'[w[1]].seen[q])
    BY <1>7, <1>9, <1>12, <2>2, <2>9
  <2>12. CASE conn[c].status = "idle"
    <3>1. rows' = Added(rows, q, w) /\ conn' = conn /\ Pending' = Pending
      BY <1>4, <1>12, <2>12 DEF Added, Pending
    <3>2. Pending[c][q] = <<>>
      BY <1>3, <2>2, <2>12 DEF Nested, Idle, NoWrites
    <3>3. \A d \in Clients : Pending[d][q] = <<>> /\ ~Has(Pending[d], w)
      BY <2>8, <2>10, <3>2
    <3>4. rows[q] \in Seq(Write)
      BY <1>3, <2>2 DEF Logs
    <3>5. rows[q] \o <<>> = rows[q]
      BY <3>4
    <3>6. IsLock(w) => Version(rows[q]) = Version(call'[w[1]].seen[q])
      BY <2>11, <3>2, <3>5
    <3>7. Data(rows', Pending', call')
      BY <1>3, <1>9, <2>2, <2>3, <2>7, <2>8, <3>1, <3>3, <3>6, DataRow
    <3>8. \A u \in Callers : u # t /\ ~Of(rows, u) => ~Of(rows', u)
      BY <1>3, <1>9, <2>2, <3>1, OfAdded
    <3>9. \A u \in Callers : call'[u].main \in Unwritten => u # t /\ ~Of(rows, u) /\ \A d \in Clients : ~Of(Pending[d], u)
      BY <2>1 DEF UInv, Untouched
    <3>10. \A u \in Callers : call'[u].main \in {"operating", "rollback"} /\ call'[u].error = "deadlock" => ~Of(rows, u) /\ u # t
      <4>1. call'[t].main \in {"operating", "rollback"} => call'[t].error # "deadlock"
        <5>1. Thread(t, call[t])
          BY <1>2 DEF UInv, Threads
        <5> QED
          BY <1>2, <1>5, <2>1, <5>1 DEF Thread
      <4> QED
        BY <1>5, <2>1, <4>1 DEF UInv, Untouched
    <3>11. ASSUME NEW u \in Callers, NEW d \in Clients, OwnedBy(u, d)', conn'[d].status # "idle" PROVE ~Of(rows', u)
      <4>1. OwnedBy(u, d) /\ ~Of(rows, u)
        BY <2>1, <3>1, <3>11 DEF UInv, Untouched, OwnedBy
      <4>2. u # t
        BY <1>2, <2>12, <3>1, <3>11, <4>1 DEF OwnedBy
      <4> QED
        BY <3>8, <4>1, <4>2
    <3>12. Untouched'
      BY <3>1, <3>8, <3>9, <3>10, <3>11 DEF Untouched
    <3>13. Sessions'
      BY <3>1 DEF UInv, Sessions
    <3> QED
      BY <2>1, <3>7, <3>12, <3>13 DEF Updates
  <2>13. CASE conn[c].status = "open"
    <3> DEFINE x == [conn[c] EXCEPT !.pending = Added(conn[c].pending, q, w)]
    <3>1. rows' = rows /\ conn' = [conn EXCEPT ![c] = x]
      BY <1>3, <1>4, <1>12, <2>13 DEF Added, TypeOK, Session
    <3>2. Nested(x) /\ x.pending = Added(conn[c].pending, q, w) /\ x.status = conn[c].status
      BY <1>3, <1>9, <2>13, WriteNested
    <3> HIDE DEF x
    <3>3. conn'[c] = x /\ \A d \in Clients : d # c => conn'[d] = conn[d]
      BY <1>3, <3>1 DEF TypeOK
    <3>4. Pending' = [Pending EXCEPT ![c] = Added(Pending[c], q, w)]
      BY <2>2, <3>2, <3>3 DEF Pending
    <3>5. Data(rows, Pending', call')
      BY <1>3, <1>9, <2>2, <2>3, <2>7, <2>8, <2>9, <2>10, <2>11, <3>4, DataPending
    <3>6. \A u \in Callers : u # t => \A d \in Clients : ~Of(Pending[d], u) => ~Of(Pending'[d], u)
      BY <1>3, <1>9, <2>2, <3>4, OfAdded DEF Pendings
    <3>7. \A u \in Callers : call'[u].main \in Unwritten => u # t /\ ~Of(rows, u) /\ \A d \in Clients : ~Of(Pending[d], u)
      BY <2>1 DEF UInv, Untouched
    <3>8. \A u \in Callers : call'[u].main \in {"operating", "rollback"} /\ call'[u].error = "deadlock" => ~Of(rows, u)
      BY <1>5, <2>1 DEF UInv, Untouched
    <3>9. \A u \in Callers, d \in Clients : OwnedBy(u, d)' /\ conn'[d].status # "idle" => ~Of(rows, u)
      BY <2>1, <3>2, <3>3 DEF UInv, Untouched, OwnedBy
    <3>10. Untouched'
      BY <3>1, <3>6, <3>7, <3>8, <3>9 DEF Untouched
    <3>11. Sessions'
      BY <3>2, <3>3 DEF UInv, Sessions
    <3> QED
      BY <2>1, <3>1, <3>5, <3>10, <3>11 DEF Updates
  <2> QED
    BY <1>12, <2>12, <2>13
<1> QED
  BY <1>11, <1>12

\* The main thread of a call is answered and its session ends, and nothing is
\* committed: it can only be one that failed by a deadlock that begins again.
LEMMA EndUpdates ==
  ASSUME UInv, TypeOK', NEW c \in Clients, queue[c] # <<>>, Answer(c),
         rows' = rows, conn' = [conn EXCEPT ![c] = Idle],
         NEW k, call' = [call EXCEPT ![Asker(c)] = k],
         k.client = call[Asker(c)].client, k.seen = call[Asker(c)].seen, k.op = call[Asker(c)].op,
         k.step = call[Asker(c)].step, k.phase = call[Asker(c)].phase,
         \/ k.main = call[Asker(c)].main /\ k.error = call[Asker(c)].error
         \/ k.main \in {"ok", "failed"}
         \/ /\ k.main = "backoff" /\ k.error = "none"
            /\ call[Asker(c)].main = "rollback" /\ call[Asker(c)].error = "deadlock" /\ call[Asker(c)].client = c
  PROVE  Updates'
<1> DEFINE t == Asker(c)
<1>1. t \in Callers /\ TypeOK
  BY HeadIsHonest DEF UInv, Inv
<1>2. Thread(t, call[t])
  BY <1>1 DEF UInv, Threads
<1> HIDE DEF t
<1>3. call'[t] = k /\ \A u \in Callers : u # t => call'[u] = call[u]
  BY <1>1 DEF TypeOK, t
<1>4. /\ k.client = call[t].client /\ k.seen = call[t].seen /\ k.op = call[t].op
      /\ k.step = call[t].step /\ k.phase = call[t].phase
      /\ \/ k.main = call[t].main /\ k.error = call[t].error
         \/ k.main \in {"ok", "failed"}
         \/ /\ k.main = "backoff" /\ k.error = "none"
            /\ call[t].main = "rollback" /\ call[t].error = "deadlock" /\ call[t].client = c
  BY DEF t
<1>5. conn'[c] = Idle /\ \A d \in Clients : d # c => conn'[d] = conn[d]
  BY <1>1 DEF TypeOK
<1>6. \A n \in Nat : Passed(call, <<t, n>>) => Passed(call', <<t, n>>)
  BY <1>3, <1>4 DEF Passed
<1>7. Keeps(rows, Pending, call, call')
  <2>1. Others(call, call', t) /\ Stays(call, call', t)
    BY <1>3, <1>4, <1>6 DEF Others, Stays
  <2> QED
    BY <1>1, <2>1, KeepsOne
<1>8. \A d \in Clients : conn[d].pending \in Logs /\ Prefix(conn[d].pending, conn[d].pending) /\ Prefix(NoWrites, conn[d].pending)
  BY <1>1, PrefixOrder DEF TypeOK
<1>9. \A d \in Clients : Prefix(conn'[d].pending, conn[d].pending)
  BY <1>5, <1>8 DEF Idle
<1>10. ASSUME NEW u \in Callers, call'[u].main \in Unwritten
       PROVE  ~Of(rows, u) /\ \A d \in Clients : ~Of(Pending[d], u) \/ conn'[d].pending = NoWrites
  <2>1. CASE call[u].main \in Unwritten
    BY <2>1 DEF UInv, Untouched
  <2>2. CASE call[u].main \notin Unwritten
    <3>1. u = t /\ call[t].main = "rollback" /\ call[t].error = "deadlock" /\ call[t].client = c
      BY <1>3, <1>4, <1>10, <2>2 DEF Unwritten
    <3>2. ~Of(rows, u)
      BY <1>1, <3>1 DEF UInv, Untouched
    <3>3. \A d \in Clients : Of(Pending[d], u) => d = c
      BY <1>1, <3>1, PendingOf DEF UInv
    <3> QED
      BY <1>5, <3>2, <3>3 DEF Idle
  <2> QED
    BY <2>1, <2>2
<1>11. \A u \in Callers : call'[u].main \in {"operating", "rollback"} /\ call'[u].error = "deadlock" => ~Of(rows, u)
  BY <1>3, <1>4 DEF UInv, Untouched
<1>12. \A u \in Callers, d \in Clients :
         call'[u].client = d /\ call'[u].main \in Transacting /\ conn'[d].status # "idle" => ~Of(rows, u)
  <2>1. \A d \in Clients : conn'[d].status # "idle" => conn'[d] = conn[d]
    BY <1>5 DEF Idle
  <2>2. \A u \in Callers : call'[u].main \in Transacting => call'[u].main = call[u].main /\ call'[u].client = call[u].client
    BY <1>3, <1>4 DEF Transacting
  <2> QED
    BY <2>1, <2>2 DEF UInv, Untouched, OwnedBy
<1>13. Data(rows, Pending, call)' /\ Untouched'
  BY <1>7, <1>9, <1>10, <1>11, <1>12, Shrinks
<1>14. Sessions'
  BY <1>5, IdleNested DEF UInv, Sessions
<1>15. Thread(t, k)
  BY <1>2, <1>4 DEF Thread, Unwritten
<1>16. Threads'
  BY <1>3, <1>15 DEF UInv, Threads
<1>17. \A u \in Callers : Waiting(call, call', u)
  BY <1>3, <1>4 DEF Waiting
<1>18. Awaits'
  BY <1>1, <1>17, AwaitsAnswer DEF UInv
<1> QED
  BY <1>13, <1>14, <1>16, <1>18 DEF Updates

LEMMA CommitUpdates ==
  ASSUME UInv, TypeOK', NEW c \in Clients, Commit(c)
  PROVE  Updates'
<1> DEFINE t == Asker(c)
           k == [call[t] EXCEPT !.main = "ok", !.active = FALSE]
<1>1. queue[c] # <<>> /\ Head(queue[c]).what = "commit" /\ Answer(c) /\ conn' = [conn EXCEPT ![c] = Idle]
  BY DEF Commit, Asked
<1>2. /\ t \in Callers /\ Head(queue[c]).from = "main" /\ call[t].client = c /\ call[t].main = "commit"
      /\ TypeOK /\ call[t] \in Context
  BY <1>1, HeadIsHonest DEF UInv, Inv, TypeOK, Context
<1>3. call' = [call EXCEPT ![t] = k]
  BY DEF Commit, Release
<1>4. /\ k.client = call[t].client /\ k.seen = call[t].seen /\ k.op = call[t].op
      /\ k.step = call[t].step /\ k.phase = call[t].phase /\ k.main = "ok" /\ k.error = call[t].error
  BY <1>2 DEF Context
<1> HIDE DEF k
<1>5. CASE conn[c].status # "open"
  <2>1. rows' = rows
    BY <1>5 DEF Commit
  <2> QED
    BY <1>1, <1>3, <1>4, <2>1, EndUpdates
<1>6. CASE conn[c].status = "open"
  <2> HIDE DEF t
  <2>1. rows' = Committed(c)
    BY <1>6 DEF Commit
  <2>2. call'[t] = k /\ \A u \in Callers : u # t => call'[u] = call[u]
    BY <1>2, <1>3 DEF TypeOK
  <2>3. Thread(t, call[t])
    BY <1>2 DEF UInv, Threads
  <2>4. \A n \in Nat : Passed(call, <<t, n>>) => Passed(call', <<t, n>>)
    BY <1>4, <2>2 DEF Passed
  <2>5. Keeps(rows, Pending, call, call')
    <3>1. Others(call, call', t) /\ Stays(call, call', t)
      BY <1>4, <2>2, <2>4 DEF Others, Stays
    <3> QED
      BY <1>2, <3>1, KeepsOne
  <2>6. Holds(t, c)
    BY <1>2 DEF Holds
  <2>7. \A u \in Callers : call'[u].main \in Unwritten => call[u].main \in Unwritten
    BY <1>4, <2>2 DEF Unwritten
  <2>8. \A u \in Callers :
          call'[u].main \in {"operating", "rollback"} /\ call'[u].error = "deadlock" =>
            call[u].main \in {"operating", "rollback"} /\ call[u].error = "deadlock"
    BY <1>4, <2>2
  <2>9. \A u \in Callers, d \in Clients :
          call'[u].client = d /\ call'[u].main \in Transacting => OwnedBy(u, d)
    BY <1>4, <2>2 DEF Transacting, OwnedBy
  <2>10. Data(rows, Pending, call)' /\ Untouched'
    BY <1>1, <1>2, <2>1, <2>5, <2>6, <2>7, <2>8, <2>9, Commits
  <2>11. Sessions'
    BY <1>1, <1>2, IdleNested DEF UInv, Sessions, TypeOK
  <2>12. Thread(t, k)
    BY <1>4, <2>3 DEF Thread, Unwritten
  <2>13. Threads'
    BY <2>2, <2>12 DEF UInv, Threads
  <2>14. \A u \in Callers : Waiting(call, call', u)
    BY <1>4, <2>2 DEF Waiting
  <2>15. Awaits'
    BY <1>1, <1>2, <2>14, AwaitsAnswer DEF UInv
  <2> QED
    BY <2>10, <2>11, <2>13, <2>15 DEF Updates
<1> QED
  BY <1>5, <1>6

LEMMA RollbackUpdates ==
  ASSUME UInv, TypeOK', NEW c \in Clients, Rollback(c)
  PROVE  Updates'
<1> DEFINE t == Asker(c)
<1>1. /\ queue[c] # <<>> /\ Head(queue[c]).what = "rollback" /\ Head(queue[c]).from = "main"
      /\ Answer(c) /\ rows' = rows /\ conn' = [conn EXCEPT ![c] = Idle]
  BY DEF Rollback, Asked
<1>2. t \in Callers /\ call[t].client = c /\ call[t].main = "rollback" /\ call[t] \in Context
  BY <1>1, HeadIsHonest DEF UInv, Inv, TypeOK, Context
<1>3. CASE Retries(call[t], call[t].error)
  <2> DEFINE k == [call[t] EXCEPT !.main = "backoff", !.error = "none"]
  <2>1. call' = [call EXCEPT ![t] = k] /\ call[t].error = "deadlock"
    BY <1>3 DEF Rollback, Retries, IsRetryable
  <2>2. /\ k.client = call[t].client /\ k.seen = call[t].seen /\ k.op = call[t].op
        /\ k.step = call[t].step /\ k.phase = call[t].phase /\ k.main = "backoff" /\ k.error = "none"
    BY <1>2 DEF Context
  <2> HIDE DEF k
  <2> QED
    BY <1>1, <1>2, <2>1, <2>2, EndUpdates
<1>4. CASE ~Retries(call[t], call[t].error)
  <2> DEFINE k == [call[t] EXCEPT !.main = "failed", !.active = FALSE]
  <2>1. call' = [call EXCEPT ![t] = k]
    BY <1>4 DEF Rollback, Release
  <2>2. /\ k.client = call[t].client /\ k.seen = call[t].seen /\ k.op = call[t].op
        /\ k.step = call[t].step /\ k.phase = call[t].phase /\ k.main = "failed"
    BY <1>2 DEF Context
  <2> HIDE DEF k
  <2> QED
    BY <1>1, <2>1, <2>2, EndUpdates
<1> QED
  BY <1>3, <1>4

LEMMA ForcedUpdates ==
  ASSUME UInv, TypeOK', NEW c \in Clients, Forced(c)
  PROVE  Updates'
<1> DEFINE t == Asker(c)
           same == Head(queue[c]).attempt = call[t].attempt
           k == [call[t] EXCEPT !.active = call[t].active /\ ~same, !.forced = TRUE]
<1>1. queue[c] # <<>> /\ Answer(c) /\ rows' = rows /\ conn' = [conn EXCEPT ![c] = Idle]
  BY DEF Forced, Asked
<1>2. t \in Callers /\ call[t] \in Context
  BY <1>1, HeadIsHonest DEF UInv, Inv, TypeOK, Context
<1>3. call' = [call EXCEPT ![t] = k]
  BY <1>2 DEF Forced, UInv, Inv, TypeOK
<1>4. /\ k.client = call[t].client /\ k.seen = call[t].seen /\ k.op = call[t].op
      /\ k.step = call[t].step /\ k.phase = call[t].phase /\ k.main = call[t].main /\ k.error = call[t].error
  BY <1>2 DEF Context
<1> HIDE DEF k
<1> QED
  BY <1>1, <1>3, <1>4, EndUpdates

\* The connection is lost; only a call whose ROLLBACK answers a deadlock begins
\* again, and it is not the one whose COMMIT may have been done.
LEMMA BreakUpdates ==
  ASSUME UInv, TypeOK', NEW c \in Clients, Break(c)
  PROVE  Updates'
<1> DEFINE live == {t \in Callers : call[t].client = c /\ (Holds(t, c) \/ call[t].op \in {"ready", "sent"})}
           caught == {t \in live : Holds(t, c) /\ call[t].main # "backoff"}
           Reason(t) == IF call[t].main = "rollback" THEN call[t].error ELSE "broken"
           failed == {t \in caught : ~Retries(call[t], Reason(t))}
           main(t) == IF t \in failed THEN "failed" ELSE IF t \in caught THEN "backoff" ELSE call[t].main
           error(t) == IF t \in failed THEN Reason(t) ELSE IF t \in caught THEN "none" ELSE call[t].error
           active(t) == call[t].active /\ t \notin failed
           k(t) == [call[t] EXCEPT !.op = "over", !.main = main(t), !.active = active(t), !.error = error(t)]
<1>1. /\ call' = [t \in Callers |-> IF t \notin live THEN call[t] ELSE k(t)]
      /\ conn' = [conn EXCEPT ![c] = Idle]
      /\ queue' = [queue EXCEPT ![c] = <<>>]
      /\ rows' \in IF Asked(c, "commit") /\ conn[c].status = "open" THEN {rows, Committed(c)} ELSE {rows}
  BY DEF Break
<1>2. TypeOK /\ \A t \in Callers : call[t] \in Context
  BY DEF UInv, Inv, TypeOK, Context
<1>3. \A t \in caught : t \in live /\ Holds(t, c) /\ call[t].main # "backoff"
  OBVIOUS
<1>4. \A t \in live : t \in Callers /\ call[t].client = c
  OBVIOUS
<1>5. \A t \in caught : t \notin failed => call[t].main = "rollback" /\ call[t].error = "deadlock"
  BY DEF Retries, IsRetryable
<1>6. \A t \in Callers : call[t].client = c /\ call[t].op \in {"ready", "sent"} => t \in live
  OBVIOUS
<1>7. \A t \in Callers : Holds(t, c) => t \in live /\ (t \in caught \/ call[t].main = "backoff")
  BY DEF Holds
<1>8. \A t \in failed : t \in caught
  OBVIOUS
<1> HIDE DEF failed, caught, live, Reason
<1>9. \A t \in Callers :
        /\ t \notin live => call'[t] = call[t]
        /\ t \in live => /\ call'[t].op = "over" /\ call'[t].main = main(t) /\ call'[t].error = error(t)
                         /\ call'[t].client = call[t].client /\ call'[t].seen = call[t].seen
                         /\ call'[t].step = call[t].step /\ call'[t].phase = call[t].phase
  <2> SUFFICES ASSUME NEW t \in Callers
               PROVE  /\ t \notin live => call'[t] = call[t]
                      /\ t \in live => /\ call'[t].op = "over" /\ call'[t].main = main(t) /\ call'[t].error = error(t)
                                       /\ call'[t].client = call[t].client /\ call'[t].seen = call[t].seen
                                       /\ call'[t].step = call[t].step /\ call'[t].phase = call[t].phase
    OBVIOUS
  <2>1. call'[t] = IF t \notin live THEN call[t] ELSE k(t)
    BY <1>1
  <2> HIDE DEF main, error, active
  <2>2. /\ k(t).op = "over" /\ k(t).main = main(t) /\ k(t).error = error(t)
        /\ k(t).client = call[t].client /\ k(t).seen = call[t].seen
        /\ k(t).step = call[t].step /\ k(t).phase = call[t].phase
    BY <1>2 DEF Context
  <2> HIDE DEF k
  <2> QED
    BY <2>1, <2>2
<1>10. ASSUME NEW t \in Callers
       PROVE  \/ call'[t] = call[t] /\ t \notin live
              \/ /\ t \in caught /\ call'[t].op = "over"
                 /\ \/ call'[t].main = "failed"
                    \/ call'[t].main = "backoff" /\ call'[t].error = "none"
                       /\ call[t].main = "rollback" /\ call[t].error = "deadlock"
              \/ t \in live \ caught /\ call'[t].op = "over" /\ call'[t].main = call[t].main /\ call'[t].error = call[t].error
  BY <1>5, <1>8, <1>9 DEF main, error
<1>11. \A t \in Callers :
         call'[t].client = call[t].client /\ call'[t].seen = call[t].seen /\ call'[t].step = call[t].step /\ call'[t].phase = call[t].phase
  BY <1>9
<1>12. Keeps(rows, Pending, call, call')
  BY <1>11 DEF Keeps, Passed
<1>13. conn'[c] = Idle /\ \A d \in Clients : d # c => conn'[d] = conn[d]
  BY <1>1, <1>2 DEF TypeOK
<1>14. \A t \in Callers :
         call'[t].main \in {"operating", "rollback"} /\ call'[t].error = "deadlock" =>
           call[t].main \in {"operating", "rollback"} /\ call[t].error = "deadlock"
  BY <1>10
<1>15. \A t \in Callers, d \in Clients : call'[t].client = d /\ call'[t].main \in Transacting => OwnedBy(t, d)
  BY <1>10, <1>11 DEF Transacting, OwnedBy
<1>16. Data(rows, Pending, call)' /\ Untouched'
  <2>1. CASE rows' = rows
    <3>1. \A d \in Clients : conn[d].pending \in Logs /\ Prefix(conn[d].pending, conn[d].pending) /\ Prefix(NoWrites, conn[d].pending)
      BY <1>2, PrefixOrder DEF TypeOK
    <3>2. \A d \in Clients : Prefix(conn'[d].pending, conn[d].pending)
      BY <1>13, <3>1 DEF Idle
    <3>3. ASSUME NEW t \in Callers, call'[t].main \in Unwritten
          PROVE  ~Of(rows, t) /\ \A d \in Clients : ~Of(Pending[d], t) \/ conn'[d].pending = NoWrites
      <4>1. CASE call[t].main \in Unwritten
        BY <4>1 DEF UInv, Untouched
      <4>2. CASE call[t].main \notin Unwritten
        <5>1. call[t].main = "rollback" /\ call[t].error = "deadlock" /\ call[t].client = c
          BY <1>3, <1>4, <1>10, <3>3, <4>2 DEF Unwritten
        <5>2. ~Of(rows, t)
          BY <5>1 DEF UInv, Untouched
        <5>3. \A d \in Clients : Of(Pending[d], t) => d = c
          BY <1>2, <5>1, PendingOf DEF UInv
        <5> QED
          BY <1>13, <5>2, <5>3 DEF Idle
      <4> QED
        BY <4>1, <4>2
    <3>4. \A t \in Callers : call'[t].main \in {"operating", "rollback"} /\ call'[t].error = "deadlock" => ~Of(rows, t)
      BY <1>14 DEF UInv, Untouched
    <3>5. \A t \in Callers, d \in Clients :
            call'[t].client = d /\ call'[t].main \in Transacting /\ conn'[d].status # "idle" => ~Of(rows, t)
      <4>1. \A d \in Clients : conn'[d].status # "idle" => conn'[d] = conn[d]
        BY <1>13 DEF Idle
      <4> QED
        BY <1>15, <4>1 DEF UInv, Untouched
    <3> QED
      BY <1>12, <2>1, <3>2, <3>3, <3>4, <3>5, Shrinks
  <2>2. CASE rows' = Committed(c) /\ Asked(c, "commit")
    <3> DEFINE t == Asker(c)
    <3>1. t \in Callers /\ call[t].client = c /\ call[t].main = "commit"
      BY <2>2, HeadIsHonest DEF UInv, Inv, Asked
    <3> HIDE DEF t
    <3>2. Holds(t, c)
      BY <3>1 DEF Holds
    <3>3. \A u \in Callers : Holds(u, c) => u = t
      BY <3>1, <3>2 DEF UInv, Inv, Pool, Alone
    <3>4. \A u \in Callers : call'[u].main \in Unwritten => call[u].main \in Unwritten
      BY <1>3, <1>10, <3>1, <3>3 DEF Unwritten
    <3> QED
      BY <1>1, <1>12, <1>14, <1>15, <2>2, <3>1, <3>2, <3>4, Commits
  <2> QED
    BY <1>1, <2>1, <2>2
<1>17. Sessions'
  BY <1>13, IdleNested DEF UInv, Sessions
<1>18. ASSUME NEW t \in Callers PROVE Thread(t, call'[t])
  <2>1. Thread(t, call[t])
    BY DEF UInv, Threads
  <2>2. CASE call'[t] = call[t]
    BY <2>1, <2>2
  <2>3. CASE t \in caught /\ call'[t].op = "over"
             /\ (call'[t].main = "failed" \/ (call'[t].main = "backoff" /\ call'[t].error = "none"))
    BY <2>3 DEF Thread, Unwritten
  <2>4. CASE t \in live \ caught /\ call'[t].op = "over" /\ call'[t].main = call[t].main /\ call'[t].error = call[t].error
    <3>1. call[t].main # "operating"
      BY <1>4, <1>7, <2>4 DEF Holds
    <3> QED
      BY <2>1, <2>4, <3>1 DEF Thread
  <2> QED
    BY <1>10, <2>2, <2>3, <2>4
<1>19. Threads'
  BY <1>18 DEF Threads
<1>20. Awaits'
  <2> SUFFICES ASSUME NEW d \in Clients PROVE AwaitedQueue(call', queue'[d], d)
    BY DEF Awaits
  <2>1. CASE d = c
    <3>1. queue'[d] = <<>>
      BY <1>1, <1>2, <2>1 DEF TypeOK
    <3> QED
      BY <3>1 DEF AwaitedQueue
  <2>2. CASE d # c
    <3>1. queue'[d] = queue[d] /\ queue[d] \in Seq(Query) /\ AwaitedQueue(call, queue[d], d)
      BY <1>1, <2>2 DEF UInv, Inv, TypeOK, Awaits
    <3>2. \A i \in DOMAIN queue[d] : queue[d][i] \in Query
      BY <3>1, Element
    <3>3. \A i \in DOMAIN queue[d] : queue[d][i].call \in Callers
      BY <3>2 DEF Query
    <3>4. \A i \in DOMAIN queue[d] : queue[d][i].from = "operation" => call[queue[d][i].call].client = d
      BY <3>1 DEF AwaitedQueue, Awaited
    <3>5. \A t \in Callers : call[t].client = d => call'[t] = call[t]
      BY <1>4, <1>9, <2>2
    <3>6. \A i \in DOMAIN queue[d] : queue[d][i].from = "operation" => Waiting(call, call', queue[d][i].call)
      BY <3>3, <3>4, <3>5 DEF Waiting
    <3> QED
      BY <3>1, <3>6, AwaitedStays
  <2> QED
    BY <2>1, <2>2
<1> QED
  BY <1>16, <1>17, <1>19, <1>20 DEF Updates

LEMMA UpdatesInitially ==
  ASSUME Init
  PROVE  Updates
<1>1. \A r \in Rows : NoWrites[r] = <<>>
  BY DEF NoWrites
<1>2. rows = NoWrites /\ \A c \in Clients : Pending[c] = NoWrites /\ conn[c] = Idle /\ queue[c] = <<>>
  BY DEF Init, Pending, Idle
<1>3. \A t \in Callers : call[t].main = "new" /\ call[t].op = "idle" /\ call[t].error = "none"
  BY DEF Init
<1>4. \A r \in Rows : NoWrites[r] \o NoWrites[r] = <<>>
  BY <1>1
<1>5. Join(NoWrites, NoWrites) = NoWrites
  BY <1>4 DEF Join, NoWrites
<1>6. \A w : ~Has(NoWrites, w)
  BY <1>1 DEF Has
<1>7. Once(NoWrites)
  BY <1>1 DEF Once
<1>8. \A r \in Rows : TurnsIn(call, NoWrites[r], r) /\ TurnsIn(call, NoWrites[r] \o NoWrites[r], r)
  BY <1>1, <1>4 DEF TurnsIn
<1>9. Data(rows, Pending, call)
  BY <1>1, <1>2, <1>5, <1>6, <1>7, <1>8 DEF Data, Locked, InOrder, Unrepeated, Attributed
<1>10. Sessions
  BY <1>2, IdleNested DEF Sessions
<1>11. Untouched
  BY <1>2, <1>3, NoneOf DEF Untouched, OwnedBy, Transacting
<1>12. Threads
  BY <1>3 DEF Threads, Thread
<1>13. Awaits
  BY <1>2 DEF Awaits, AwaitedQueue
<1> QED
  BY <1>9, <1>10, <1>11, <1>12, <1>13 DEF Updates

LEMMA EveryUpdate ==
  ASSUME UInv, TypeOK', [Next]_vars
  PROVE  Updates'
<1>1. ASSUME NEW t \in Callers, NEW c \in Clients, Connect(t, c) PROVE Updates'
  BY <1>1, ConnectUpdates
<1>2. ASSUME NEW t \in Callers, Operation(t) PROVE Updates'
  BY <1>2, IssueUpdates, SettleUpdates, BackOffUpdates DEF Operation
<1>3. ASSUME NEW t \in Callers, TimeOut(t) \/ ForceRollback(t) PROVE Updates'
  BY <1>3, TimeOutUpdates, ForceRollbackUpdates
<1>4. ASSUME NEW c \in Clients, Serve(c) PROVE Updates'
  BY <1>4, BeginUpdates, WriteRowUpdates, SavepointsUpdates, CommitUpdates, RollbackUpdates, ForcedUpdates DEF Serve
<1>5. ASSUME NEW c \in Clients, Deadlock(c) \/ Cancel(c) PROVE Updates'
  BY <1>5, FailWriteUpdates DEF Deadlock, Cancel
<1>6. ASSUME NEW c \in Clients, Break(c) PROVE Updates'
  BY <1>6, BreakUpdates
<1>7. CASE UNCHANGED vars
  BY <1>7 DEF vars, UInv, Updates, Pending, Sessions, Untouched, OwnedBy, Threads, Awaits
<1> QED
  BY <1>1, <1>2, <1>3, <1>4, <1>5, <1>6, <1>7 DEF Next, Terminated

LEMMA UInvKept ==
  ASSUME AttemptsAssumption, UInv, [Next]_vars
  PROVE  UInv'
<1>1. Inv'
  BY EveryStep DEF UInv
<1>2. Updates'
  BY <1>1, EveryUpdate DEF Inv
<1> QED
  BY <1>1, <1>2 DEF UInv, Updates

-----------------------------------------------------------------------------
(* Theorems *)

\* Through retries, timeouts, forced rollbacks, savepoints, deadlocks and lost
\* connections, each versioned write of a row was made by a call that had seen
\* all the versioned writes before it, and no statement of a call takes effect
\* twice (updateWithOptimisticLock in withTransaction).
THEOREM UpdatesAreCounted ==
  ASSUME AttemptsAssumption
  PROVE  Spec => []UpdatesCount
<1>1. Init => UInv
  BY Initially, UpdatesInitially DEF UInv, Updates
<1>2. UInv /\ [Next]_vars => UInv'
  BY UInvKept
<1>3. UInv => UpdatesCount
  <2> SUFFICES ASSUME UInv PROVE UpdatesCount
    OBVIOUS
  <2>1. TypeOK
    BY DEF UInv, Inv
  <2>2. InTurn
    BY DEF UInv, Data, InOrder, TurnsIn, InTurn
  <2>3. AppliedOnce
    BY DEF UInv, Data, Unrepeated, Once, AppliedOnce
  <2> QED
    BY <2>1, <2>2, <2>3 DEF UpdatesCount
<1> QED
  BY <1>1, <1>2, <1>3, PTL DEF Spec

-----------------------------------------------------------------------------
(* What the callers are told *)

\* The write of statement i of t is in the logs L; and those of all the required
\* statements of t, or of the ones before the n-th.
In(L, t, i) == \E n \in DOMAIN L[Work[t][i].row] : L[Work[t][i].row][n] = <<t, i>>
Whole(L, t) == \A i \in Required(t) : In(L, t, i)
Through(L, t, n) == \A i \in Required(t) : i < n => In(L, t, i)

\* The call k of t is inside withSavepoint, after SAVEPOINT was answered.
Inside(t, k) == k.phase \in {"release", "undo"} \/ (k.phase = "write" /\ Work[t][k.step].guarded)

Marked(s, name) == \E i \in DOMAIN s.savepoints : s.savepoints[i].name = name

\* What the session s of an operating call k of t is, by how far its operation is.
Working(t, k, s) ==
  /\ k.phase \in {"save", "write", "release", "return"} => s.status = "open" /\ Through(s.pending, t, k.step)
  /\ k.phase \in {"save", "release", "undo"} => Work[t][k.step].guarded
  /\ Inside(t, k) => Marked(s, <<t, k.step>>)
  /\ k.phase = "undo" => s.status # "idle"
  /\ k.phase = "return" => k.step > Len(Work[t])

\* What is true of the call k of t with the session s, when R is committed: the
\* operation runs while it is waited for, and nothing is committed but by COMMIT.
Lost(k) == k.main = "failed" /\ k.error = "broken"
Told(t, k, s, R) ==
  /\ k.op \in {"ready", "sent"} <=> k.main = "operating"
  /\ k.main \in Holding => k.active
  /\ k.main = "operating" => Working(t, k, s)
  /\ k.main = "commit" => s.status = "open" /\ Whole(s.pending, t)
  /\ k.main = "ok" => Whole(R, t)
  /\ Lost(k) => Whole(R, t) \/ ~Of(R, t)
  /\ k.main # "ok" /\ ~Lost(k) => ~Of(R, t)

\* A savepoint has what the statements before its own wrote.
Saved(s) ==
  \A i \in DOMAIN s.savepoints :
    Through(s.savepoints[i].pending, s.savepoints[i].name[1], s.savepoints[i].name[2])

\* An undisturbed run: every call is told so, and what a session has pending is of
\* the call whose transaction it is.
EveryTold == \A t \in Callers : Told(t, call[t], conn[call[t].client], rows)
EverySaved == \A c \in Clients : Saved(conn[c])
EveryOwned == \A c \in Clients, t \in Callers : Of(conn[c].pending, t) => OwnedBy(t, c)
Story == EveryTold /\ EverySaved /\ EveryOwned

\* A timeout is the last error of its call.
Late == \A t \in Callers : call[t].error = "timeout" => call[t].main \in {"rollback", "failed"}

RInv == UInv /\ Late /\ (Undisturbed => Story)

-----------------------------------------------------------------------------
(* Statements and their writes *)

LEMMA RequiredStatement ==
  ASSUME NEW t \in Callers, NEW i \in Required(t)
  PROVE  i \in DOMAIN Work[t] /\ i \in Nat /\ i <= Len(Work[t]) /\ Work[t][i].row \in Rows
<1>1. i \in DOMAIN Work[t]
  BY DEF Required
<1>2. Work[t] \in Seq(Statement)
  BY WorkAssumption
<1>3. Work[t][i] \in Statement
  BY <1>1, <1>2, Element
<1> QED
  BY <1>1, <1>2, <1>3 DEF Statement

LEMMA InIsOf ==
  ASSUME NEW t \in Callers, NEW i \in Required(t), NEW L, In(L, t, i)
  PROVE  Of(L, t)
<1>1. Work[t][i].row \in Rows
  BY RequiredStatement
<1>2. PICK n \in DOMAIN L[Work[t][i].row] : L[Work[t][i].row][n] = <<t, i>>
  BY DEF In
<1>3. L[Work[t][i].row][n][1] = t
  BY <1>2
<1> QED
  BY <1>1, <1>3 DEF Of

LEMMA InAdded ==
  ASSUME NEW L \in Logs, NEW r \in Rows, NEW w \in Write, NEW t \in Callers, NEW i \in Required(t),
         In(L, t, i) \/ (w = <<t, i>> /\ r = Work[t][i].row)
  PROVE  In(Added(L, r, w), t, i)
<1> DEFINE q == Work[t][i].row
           M == Added(L, r, w)
<1>1. q \in Rows
  BY RequiredStatement
<1>2. M[r] = Append(L[r], w) /\ (q # r => M[q] = L[q]) /\ L[r] \in Seq(Write) /\ L[q] \in Seq(Write)
  BY <1>1, AddedType
<1>3. Len(L[r]) \in Nat /\ DOMAIN L[r] = 1..Len(L[r]) /\ DOMAIN Append(L[r], w) = 1..(Len(L[r]) + 1)
      /\ Append(L[r], w)[Len(L[r]) + 1] = w /\ \A n \in 1..Len(L[r]) : Append(L[r], w)[n] = L[r][n]
  BY <1>2
<1> HIDE DEF M, q
<1>4. \E n \in DOMAIN M[q] : M[q][n] = <<t, i>>
  <2>1. CASE w = <<t, i>> /\ r = q
    <3>1. M[q] = Append(L[r], w) /\ Len(L[r]) + 1 \in 1..(Len(L[r]) + 1)
      BY <1>2, <1>3, <2>1
    <3>2. Len(L[r]) + 1 \in DOMAIN M[q] /\ M[q][Len(L[r]) + 1] = <<t, i>>
      BY <1>3, <2>1, <3>1
    <3> QED
      BY <3>2
  <2>2. CASE In(L, t, i)
    <3>1. PICK n \in DOMAIN L[q] : L[q][n] = <<t, i>>
      BY <2>2 DEF In, q
    <3>2. CASE q = r
      <4>1. n \in 1..Len(L[r]) /\ M[q] = Append(L[r], w)
        BY <1>2, <1>3, <3>1, <3>2
      <4>2. n \in 1..(Len(L[r]) + 1) /\ Append(L[r], w)[n] = L[r][n]
        BY <1>3, <4>1
      <4> QED
        BY <1>3, <3>1, <3>2, <4>1, <4>2
    <3>3. CASE q # r
      BY <1>2, <3>1, <3>3
    <3> QED
      BY <3>2, <3>3
  <2> QED
    BY <2>1, <2>2 DEF q
<1> QED
  BY <1>4 DEF In, M, q

LEMMA InJoin ==
  ASSUME NEW R \in Logs, NEW p \in Logs, NEW t \in Callers, NEW i \in Required(t),
         In(R, t, i) \/ In(p, t, i)
  PROVE  In(Join(R, p), t, i)
<1> DEFINE q == Work[t][i].row
           a == R[q]
           b == p[q]
           j == Join(R, p)[q]
<1>1. q \in Rows
  BY RequiredStatement
<1>2. j = a \o b /\ a \in Seq(Write) /\ b \in Seq(Write)
  BY <1>1, JoinType
<1>3. (\E n \in DOMAIN a : a[n] = <<t, i>>) \/ (\E n \in DOMAIN b : b[n] = <<t, i>>)
  BY DEF In
<1> SUFFICES \E n \in DOMAIN j : j[n] = <<t, i>>
  BY DEF In
<1> HIDE DEF q, a, b, j
<1>4. /\ j \in Seq(Write) /\ Len(j) = Len(a) + Len(b) /\ Len(a) \in Nat /\ Len(b) \in Nat
      /\ \A n \in 1..Len(a) : j[n] = a[n]
      /\ \A n \in 1..Len(b) : j[Len(a) + n] = b[n]
  BY <1>2, ConcatProps
<1>5. DOMAIN a = 1..Len(a) /\ DOMAIN b = 1..Len(b) /\ DOMAIN j = 1..Len(j)
  BY <1>2, <1>4
<1>6. CASE \E n \in DOMAIN a : a[n] = <<t, i>>
  <2>1. PICK n \in 1..Len(a) : a[n] = <<t, i>>
    BY <1>5, <1>6
  <2>2. n \in 1..Len(j)
    BY <1>4, <2>1
  <2> QED
    BY <1>4, <1>5, <2>1, <2>2
<1>7. CASE \E n \in DOMAIN b : b[n] = <<t, i>>
  <2>1. PICK n \in 1..Len(b) : b[n] = <<t, i>>
    BY <1>5, <1>7
  <2>2. Len(a) + n \in 1..Len(j)
    BY <1>4, <2>1
  <2> QED
    BY <1>4, <1>5, <2>1, <2>2
<1> QED
  BY <1>3, <1>6, <1>7

-----------------------------------------------------------------------------
(* What calls are told *)

\* The other calls write their own rows.
LEMMA OthersTold ==
  ASSUME Story, NEW t,
         \A u \in Callers : u # t => call'[u] = call[u],
         \A u \in Callers : u # t /\ call[u].main \in {"operating", "commit"} =>
           conn'[call[u].client] = conn[call[u].client],
         \A u \in Callers : u # t =>
           /\ Of(rows', u) => Of(rows, u)
           /\ \A i \in Required(u) : In(rows, u, i) => In(rows', u, i)
  PROVE  \A u \in Callers : u # t => Told(u, call'[u], conn'[call'[u].client], rows')
<1> SUFFICES ASSUME NEW u \in Callers, u # t
             PROVE  Told(u, call[u], conn'[call[u].client], rows')
  OBVIOUS
<1>1. Told(u, call[u], conn[call[u].client], rows)
  BY DEF Story, EveryTold
<1>2. Whole(rows, u) => Whole(rows', u)
  BY DEF Whole
<1>3. call[u].main \in {"operating", "commit"} => conn'[call[u].client] = conn[call[u].client]
  OBVIOUS
<1>4. Of(rows', u) => Of(rows, u)
  OBVIOUS
<1> QED
  BY <1>1, <1>2, <1>3, <1>4 DEF Told

\* Those that operate or commit have other clients.
LEMMA OtherClients ==
  ASSUME Pool, NEW t \in Callers, NEW c \in Clients, Holds(t, c),
         \A d \in Clients : d # c => conn'[d] = conn[d]
  PROVE  \A u \in Callers : u # t /\ call[u].main \in {"operating", "commit"} =>
           conn'[call[u].client] = conn[call[u].client]
<1> SUFFICES ASSUME NEW u \in Callers, u # t, call[u].main \in {"operating", "commit"}
             PROVE  conn'[call[u].client] = conn[call[u].client]
  OBVIOUS
<1>1. call[u].client \in Clients /\ Holds(u, call[u].client)
  BY DEF Pool, Seated, Holding, Holds
<1>2. call[u].client # c
  BY <1>1 DEF Pool, Alone
<1> QED
  BY <1>1, <1>2

\* The calls and their sessions stay as they were, but for the call t.
LEMMA OneTold ==
  ASSUME Story, NEW t \in Callers, conn' = conn, rows' = rows,
         \A u \in Callers : u # t => call'[u] = call[u],
         Told(t, call'[t], conn[call'[t].client], rows),
         \A d \in Clients : OwnedBy(t, d) => OwnedBy(t, d)' \/ ~Of(conn[d].pending, t)
  PROVE  Story'
<1>1. \A u \in Callers : u # t => Told(u, call'[u], conn'[call'[u].client], rows')
  BY OthersTold
<1>2. EveryTold'
  BY <1>1 DEF EveryTold
<1>3. EverySaved'
  BY DEF Story, EverySaved
<1>4. EveryOwned'
  BY DEF Story, EveryOwned, OwnedBy
<1> QED
  BY <1>2, <1>3, <1>4 DEF Story

-----------------------------------------------------------------------------
(* Once disturbed *)

\* What an answer leaves of the call, and how it fails.
LEMMA AnsweredOp ==
  ASSUME NEW k \in Context, NEW t \in Callers, NEW error \in Errors \ {"timeout"}, NEW r,
         r = Fails(k, t, error) \/ r = Succeeds(k, t)
  PROVE  r.op = "ready" /\ r.active = k.active /\ r.forced = k.forced
         /\ (r.error = "timeout" <=> k.error = "timeout")
<1> DEFINE on == AtStep(k, t, k.step + 1)
           undo == [k EXCEPT !.op = "ready", !.phase = "undo"]
           raise == [k EXCEPT !.op = "ready", !.phase = "raise",
                              !.error = IF k.error = "timeout" THEN k.error ELSE error]
           write == [k EXCEPT !.op = "ready", !.phase = "write"]
           release == [k EXCEPT !.op = "ready", !.phase = "release"]
<1>1. on.op = "ready" /\ on.active = k.active /\ on.forced = k.forced /\ on.error = k.error
  BY DEF AtStep, Context
<1>2. undo.op = "ready" /\ undo.active = k.active /\ undo.forced = k.forced /\ undo.error = k.error
  BY DEF Context
<1>3. raise.op = "ready" /\ raise.active = k.active /\ raise.forced = k.forced
      /\ raise.error = IF k.error = "timeout" THEN k.error ELSE error
  BY DEF Context
<1>4. write.op = "ready" /\ write.active = k.active /\ write.forced = k.forced /\ write.error = k.error
  BY DEF Context
<1>5. release.op = "ready" /\ release.active = k.active /\ release.forced = k.forced /\ release.error = k.error
  BY DEF Context
<1>6. r \in {on, undo, raise, write, release}
  BY DEF Fails, Succeeds
<1> HIDE DEF on, undo, raise, write, release
<1> QED
  BY <1>1, <1>2, <1>3, <1>4, <1>5, <1>6

\* A call that was forced back or timed out remains so.
Kept(k, l) ==
  /\ k.forced => l.forced
  /\ k.error = "timeout" => l.error = "timeout"
  /\ l.error = "timeout" => l.main \in {"rollback", "failed"}

LEMMA KeptOne ==
  ASSUME Late, call \in [Callers -> Context], NEW t \in Callers, NEW k,
         call' = [call EXCEPT ![t] = k], Kept(call[t], k)
  PROVE  \A u \in Callers : Kept(call[u], call'[u])
<1> SUFFICES ASSUME NEW u \in Callers PROVE Kept(call[u], call'[u])
  OBVIOUS
<1>1. CASE u = t
  BY <1>1
<1>2. CASE u # t
  BY <1>2 DEF Late, Kept
<1> QED
  BY <1>1, <1>2

LEMMA KeptByCall ==
  ASSUME UInv, Late, NEW t \in Callers,
         (\E c \in Clients : Connect(t, c)) \/ Operation(t) \/ TimeOut(t)
  PROVE  \A u \in Callers : Kept(call[u], call'[u])
<1>1. call \in [Callers -> Context] /\ call[t] \in Context
  BY DEF UInv, Inv, TypeOK, Context
<1>2. call[t].error = "timeout" => call[t].main \in {"rollback", "failed"}
  BY DEF Late
<1>3. ASSUME NEW c \in Clients, Connect(t, c) PROVE \A u \in Callers : Kept(call[u], call'[u])
  <2> DEFINE k == [call[t] EXCEPT !.main = "begin", !.client = c, !.active = TRUE,
                     !.attempt = @ + 1, !.seen = IF call[t].attempt = 0 THEN rows ELSE @]
  <2>1. call' = [call EXCEPT ![t] = k] /\ call[t].main = "new"
    BY <1>1, <1>3 DEF Connect
  <2>2. k.error = call[t].error /\ k.forced = call[t].forced
    BY <1>1 DEF Context
  <2>3. Kept(call[t], k)
    BY <1>2, <2>1, <2>2 DEF Kept
  <2> HIDE DEF k
  <2> QED
    BY <1>1, <2>1, <2>3, KeptOne
<1>4. CASE Issue(t)
  <2> DEFINE on == AtStep(call[t], t, call[t].step + 1)
             sent == [call[t] EXCEPT !.op = "sent"]
  <2>1. call' = [call EXCEPT ![t] = on] \/ call' = [call EXCEPT ![t] = sent]
    BY <1>1, <1>4 DEF Issue
  <2>2. on.error = call[t].error /\ on.forced = call[t].forced /\ on.main = call[t].main
    BY <1>1 DEF AtStep, Context
  <2>3. sent.error = call[t].error /\ sent.forced = call[t].forced /\ sent.main = call[t].main
    BY <1>1 DEF Context
  <2>4. Kept(call[t], on) /\ Kept(call[t], sent)
    BY <1>2, <2>2, <2>3 DEF Kept
  <2> HIDE DEF on, sent
  <2> QED
    BY <1>1, <2>1, <2>4, KeptOne
<1>5. CASE Settle(t)
  <2> DEFINE main == IF call[t].main = "operating" THEN IF call[t].phase = "return" THEN "commit" ELSE "rollback" ELSE call[t].main
             k == [call[t] EXCEPT !.op = "over", !.main = main]
  <2>1. call' = [call EXCEPT ![t] = k]
    BY <1>1, <1>5 DEF Settle
  <2>2. k.error = call[t].error /\ k.forced = call[t].forced /\ k.main = main
    BY <1>1 DEF Context
  <2>3. Kept(call[t], k)
    BY <1>2, <2>2 DEF Kept
  <2> HIDE DEF k
  <2> QED
    BY <1>1, <2>1, <2>3, KeptOne
<1>6. CASE BackOff(t)
  <2> DEFINE k == [call[t] EXCEPT !.main = "new", !.active = FALSE]
  <2>1. call' = [call EXCEPT ![t] = k] /\ call[t].main = "backoff"
    BY <1>1, <1>6 DEF BackOff, Release
  <2>2. k.error = call[t].error /\ k.forced = call[t].forced
    BY <1>1 DEF Context
  <2>3. Kept(call[t], k)
    BY <1>2, <2>1, <2>2 DEF Kept
  <2> HIDE DEF k
  <2> QED
    BY <1>1, <2>1, <2>3, KeptOne
<1>7. CASE TimeOut(t)
  <2> DEFINE k == [call[t] EXCEPT !.main = "rollback", !.error = "timeout"]
  <2>1. call' = [call EXCEPT ![t] = k]
    BY <1>1, <1>7 DEF TimeOut
  <2>2. k.error = "timeout" /\ k.forced = call[t].forced /\ k.main = "rollback"
    BY <1>1 DEF Context
  <2>3. Kept(call[t], k)
    BY <2>2 DEF Kept
  <2> HIDE DEF k
  <2> QED
    BY <1>1, <2>1, <2>3, KeptOne
<1> QED
  BY <1>3, <1>4, <1>5, <1>6, <1>7 DEF Operation

LEMMA KeptByAnswer ==
  ASSUME UInv, Late, NEW c \in Clients, Serve(c) \/ Deadlock(c) \/ Cancel(c)
  PROVE  \A u \in Callers : Kept(call[u], call'[u])
<1> DEFINE t == Asker(c)
<1>1. call \in [Callers -> Context]
  BY DEF UInv, Inv, TypeOK, Context
<1>2. \A u \in Callers : call[u].error = "timeout" => call[u].main \in {"rollback", "failed"}
  BY DEF Late
<1>3. ASSUME queue[c] # <<>>, Head(queue[c]).what \in {"save", "write", "release", "undo"},
             NEW error \in Errors \ {"timeout"}, NEW r,
             r = Fails(call[t], t, error) \/ r = Succeeds(call[t], t), call' = [call EXCEPT ![t] = r]
      PROVE  \A u \in Callers : Kept(call[u], call'[u])
  <2>1. t \in Callers
    BY <1>3, HeadIsAwaited DEF UInv, Inv
  <2>2. call[t] \in Context
    BY <1>1, <2>1
  <2> HIDE DEF t
  <2>3. r.main = call[t].main
    BY <1>3, <2>1, <2>2, AnsweredType
  <2>4. r.forced = call[t].forced /\ (r.error = "timeout" <=> call[t].error = "timeout")
    BY <1>3, <2>1, <2>2, AnsweredOp
  <2>5. Kept(call[t], r)
    BY <1>2, <2>1, <2>3, <2>4 DEF Kept
  <2> QED
    BY <1>1, <1>3, <2>1, <2>5, KeptOne
<1>4. {"conflict", "aborted", "deadlock", "cancelled"} \subseteq Errors \ {"timeout"}
  BY DEF Errors
<1>5. CASE Begin(c)
  <2> DEFINE k == AtStep([call[t] EXCEPT !.main = "operating"], t, 1)
  <2>1. t \in Callers /\ call[t].main = "begin" /\ call[t] \in Context
    BY <1>1, <1>5, HeadIsHonest DEF UInv, Inv, Begin, Asked
  <2>2. call' = [call EXCEPT ![t] = k]
    BY <1>1, <1>5, <2>1 DEF Begin
  <2>3. k.error = call[t].error /\ k.forced = call[t].forced
    BY <2>1 DEF AtStep, Context
  <2> HIDE DEF k, t
  <2>4. Kept(call[t], k)
    BY <1>2, <2>1, <2>3 DEF Kept
  <2> QED
    BY <1>1, <2>1, <2>2, <2>4, KeptOne
<1>6. CASE WriteRow(c)
  <2>1. queue[c] # <<>> /\ Head(queue[c]).what = "write"
    BY <1>6 DEF WriteRow, Asked
  <2>2. PICK r : /\ call' = [call EXCEPT ![t] = r]
                 /\ r = Succeeds(call[t], t) \/ r = Fails(call[t], t, "aborted") \/ r = Fails(call[t], t, "conflict")
    BY <1>6 DEF WriteRow
  <2> QED
    BY <1>3, <1>4, <2>1, <2>2
<1>7. CASE Savepoints(c)
  <2>1. queue[c] # <<>> /\ Head(queue[c]).what \in {"save", "release", "undo"}
    BY <1>7 DEF Savepoints
  <2>2. PICK r : /\ call' = [call EXCEPT ![t] = r]
                 /\ r = Succeeds(call[t], t) \/ r = Fails(call[t], t, "aborted")
    BY <1>7 DEF Savepoints
  <2> QED
    BY <1>3, <1>4, <2>1, <2>2
<1>8. CASE Deadlock(c) \/ Cancel(c)
  <2>1. queue[c] # <<>> /\ Head(queue[c]).what = "write"
    BY <1>8 DEF Deadlock, Cancel, FailWrite, Blockers, Asked
  <2>2. PICK r : /\ call' = [call EXCEPT ![t] = r]
                 /\ r = Fails(call[t], t, "deadlock") \/ r = Fails(call[t], t, "cancelled")
    BY <1>8 DEF Deadlock, Cancel, FailWrite
  <2> QED
    BY <1>3, <1>4, <2>1, <2>2
<1>9. CASE Commit(c)
  <2> DEFINE k == [call[t] EXCEPT !.main = "ok", !.active = FALSE]
  <2>1. t \in Callers /\ call[t].main = "commit" /\ call[t] \in Context
    BY <1>1, <1>9, HeadIsHonest DEF UInv, Inv, Commit, Asked
  <2>2. call' = [call EXCEPT ![t] = k]
    BY <1>1, <1>9, <2>1 DEF Commit, Release
  <2>3. k.error = call[t].error /\ k.forced = call[t].forced
    BY <2>1 DEF Context
  <2> HIDE DEF k, t
  <2>4. Kept(call[t], k)
    BY <1>2, <2>1, <2>3 DEF Kept
  <2> QED
    BY <1>1, <2>1, <2>2, <2>4, KeptOne
<1>10. CASE Rollback(c)
  <2> DEFINE back == [call[t] EXCEPT !.main = "backoff", !.error = "none"]
             failed == [call[t] EXCEPT !.main = "failed", !.active = FALSE]
  <2>1. t \in Callers /\ call[t] \in Context
    BY <1>1, <1>10, HeadIsHonest DEF UInv, Inv, Rollback, Asked
  <2>2. \/ call' = [call EXCEPT ![t] = back] /\ call[t].error = "deadlock"
        \/ call' = [call EXCEPT ![t] = failed]
    BY <1>1, <1>10, <2>1 DEF Rollback, Release, Retries, IsRetryable
  <2>3. back.error = "none" /\ back.forced = call[t].forced
    BY <2>1 DEF Context
  <2>4. failed.error = call[t].error /\ failed.forced = call[t].forced /\ failed.main = "failed"
    BY <2>1 DEF Context
  <2> HIDE DEF back, failed, t
  <2>5. Kept(call[t], failed) /\ (call[t].error = "deadlock" => Kept(call[t], back))
    BY <2>3, <2>4 DEF Kept
  <2> QED
    BY <1>1, <2>1, <2>2, <2>5, KeptOne
<1>11. CASE Forced(c)
  <2> DEFINE active == call[t].active /\ ~(Head(queue[c]).attempt = call[t].attempt)
             k == [call[t] EXCEPT !.active = active, !.forced = TRUE]
  <2>1. t \in Callers /\ call[t] \in Context
    BY <1>1, <1>11, HeadIsHonest DEF UInv, Inv, Forced, Asked
  <2>2. call' = [call EXCEPT ![t] = k]
    BY <1>1, <1>11, <2>1 DEF Forced
  <2> HIDE DEF active
  <2>3. k.error = call[t].error /\ k.forced = TRUE /\ k.main = call[t].main
    BY <2>1 DEF Context
  <2> HIDE DEF k, t
  <2>4. Kept(call[t], k)
    BY <1>2, <2>1, <2>3 DEF Kept
  <2> QED
    BY <1>1, <2>1, <2>2, <2>4, KeptOne
<1> QED
  BY <1>5, <1>6, <1>7, <1>8, <1>9, <1>10, <1>11 DEF Serve

\* What a lost connection c makes of the call t, l: it ends, is retried after the
\* deadlock that it was rolling back, or leaves the call's main thread alone.
Dropped(t, l, c) ==
  \/ l = call[t] /\ ~Holds(t, c) /\ ~(call[t].client = c /\ call[t].op \in {"ready", "sent"})
  \/ /\ l.op = "over" /\ l.client = call[t].client /\ l.forced = call[t].forced /\ call[t].client = c
     /\ \/ /\ l.main = call[t].main /\ l.error = call[t].error /\ l.active = call[t].active
           /\ call[t].main \notin Holding \ {"backoff"}
        \/ /\ Holds(t, c) /\ call[t].main # "backoff"
           /\ l.main = "failed" /\ l.error = IF call[t].main = "rollback" THEN call[t].error ELSE "broken"
        \/ /\ Holds(t, c) /\ call[t].main = "rollback" /\ call[t].error = "deadlock"
           /\ l.main = "backoff" /\ l.error = "none" /\ l.active = call[t].active

LEMMA BreakDrops ==
  ASSUME UInv, NEW c \in Clients, Break(c), NEW t \in Callers
  PROVE  Dropped(t, call'[t], c)
<1> DEFINE live == {u \in Callers : call[u].client = c /\ (Holds(u, c) \/ call[u].op \in {"ready", "sent"})}
           caught == {u \in live : Holds(u, c) /\ call[u].main # "backoff"}
           Reason(u) == IF call[u].main = "rollback" THEN call[u].error ELSE "broken"
           failed == {u \in caught : ~Retries(call[u], Reason(u))}
           main == IF t \in failed THEN "failed" ELSE IF t \in caught THEN "backoff" ELSE call[t].main
           error == IF t \in failed THEN Reason(t) ELSE IF t \in caught THEN "none" ELSE call[t].error
           active == call[t].active /\ t \notin failed
           k == [call[t] EXCEPT !.op = "over", !.main = main, !.active = active, !.error = error]
<1>1. call'[t] = IF t \notin live THEN call[t] ELSE k
  BY DEF Break
<1>2. call[t] \in Context
  BY DEF UInv, Inv, TypeOK, Context
<1>3. t \notin live <=> ~Holds(t, c) /\ ~(call[t].client = c /\ call[t].op \in {"ready", "sent"})
  BY DEF Holds
<1>4. t \in caught <=> Holds(t, c) /\ call[t].main # "backoff"
  BY DEF Holds
<1>5. t \in failed => t \in caught
  OBVIOUS
<1>6. t \in caught /\ t \notin failed => call[t].main = "rollback" /\ call[t].error = "deadlock"
  BY DEF Retries, IsRetryable
<1>7. t \in live => call[t].client = c
  OBVIOUS
<1> HIDE DEF live, caught, failed
<1>8. k.op = "over" /\ k.client = call[t].client /\ k.forced = call[t].forced
      /\ k.main = main /\ k.error = error /\ k.active = active
  <2> HIDE DEF main, error, active
  <2> QED
    BY <1>2 DEF Context
<1> HIDE DEF k
<1>9. active \in BOOLEAN /\ (t \notin failed => active = call[t].active)
  BY <1>2 DEF Context
<1> HIDE DEF active
<1>10. CASE t \notin live
  BY <1>1, <1>3, <1>10 DEF Dropped
<1>11. CASE t \in live /\ t \notin caught
  <2>1. k.main = call[t].main /\ k.error = call[t].error /\ k.active = call[t].active
    BY <1>5, <1>8, <1>9, <1>11
  <2>2. call[t].main \notin Holding \ {"backoff"}
    BY <1>4, <1>7, <1>11 DEF Holds, Holding
  <2> QED
    BY <1>1, <1>7, <1>8, <1>11, <2>1, <2>2 DEF Dropped
<1>12. CASE t \in live /\ t \in failed
  BY <1>1, <1>4, <1>5, <1>7, <1>8, <1>12 DEF Dropped
<1>13. CASE t \in live /\ t \in caught /\ t \notin failed
  BY <1>1, <1>4, <1>6, <1>7, <1>8, <1>9, <1>13 DEF Dropped
<1> QED
  BY <1>10, <1>11, <1>12, <1>13

\* A run that is undisturbed was so before, and a timeout stays the last error.
LEMMA StaysDisturbed ==
  ASSUME UInv, Late, [Next]_vars
  PROVE  Late' /\ (Undisturbed' => Undisturbed)
<1>1. \A u \in Callers : call[u].error = "timeout" => call[u].main \in {"rollback", "failed"}
  BY DEF Late
<1>2. \A u \in Callers : Kept(call[u], call'[u])
  <2>1. ASSUME NEW t \in Callers, (\E c \in Clients : Connect(t, c)) \/ Operation(t) \/ TimeOut(t)
        PROVE  \A u \in Callers : Kept(call[u], call'[u])
    BY <2>1, KeptByCall
  <2>2. ASSUME NEW t \in Callers, ForceRollback(t) PROVE \A u \in Callers : Kept(call[u], call'[u])
    BY <1>1, <2>2 DEF ForceRollback, Kept
  <2>3. ASSUME NEW c \in Clients, Serve(c) \/ Deadlock(c) \/ Cancel(c)
        PROVE  \A u \in Callers : Kept(call[u], call'[u])
    BY <2>3, KeptByAnswer
  <2>4. ASSUME NEW c \in Clients, Break(c) PROVE \A u \in Callers : Kept(call[u], call'[u])
    <3> SUFFICES ASSUME NEW u \in Callers PROVE Kept(call[u], call'[u])
      OBVIOUS
    <3>1. Dropped(u, call'[u], c)
      BY <2>4, BreakDrops
    <3> QED
      BY <1>1, <3>1 DEF Dropped, Kept, Holding, Holds
  <2>5. CASE UNCHANGED vars
    BY <1>1, <2>5 DEF vars, Kept
  <2> QED
    BY <2>1, <2>2, <2>3, <2>4, <2>5 DEF Next, Terminated
<1>3. Late'
  BY <1>2 DEF Late, Kept
<1>4. Undisturbed' => Undisturbed
  BY <1>2 DEF Undisturbed, Kept
<1> QED
  BY <1>3, <1>4

-----------------------------------------------------------------------------
(* The calls' own steps *)

LEMMA UndisturbedFacts ==
  ASSUME UInv, Story, NEW t \in Callers
  PROVE  /\ call \in [Callers -> Context] /\ call[t] \in Context
         /\ Thread(t, call[t])
         /\ Told(t, call[t], conn[call[t].client], rows)
BY DEF UInv, Inv, TypeOK, Context, Threads, Story, EveryTold

LEMMA ConnectStory ==
  ASSUME UInv, Story, NEW t \in Callers, NEW c \in Clients, Connect(t, c)
  PROVE  Story'
<1> DEFINE k == [call[t] EXCEPT !.main = "begin", !.client = c, !.active = TRUE,
                   !.attempt = @ + 1, !.seen = IF call[t].attempt = 0 THEN rows ELSE @]
<1>1. call \in [Callers -> Context] /\ call[t] \in Context /\ Thread(t, call[t])
      /\ Told(t, call[t], conn[call[t].client], rows)
  BY UndisturbedFacts
<1>2. call' = [call EXCEPT ![t] = k] /\ call[t].main = "new" /\ rows' = rows /\ conn' = conn
  BY <1>1 DEF Connect
<1>3. k.main = "begin" /\ k.active = TRUE /\ k.op = call[t].op
  BY <1>1 DEF Context
<1>4. Told(t, k, conn[k.client], rows)
  BY <1>1, <1>2, <1>3 DEF Told, Lost, Holding
<1> HIDE DEF k
<1>5. call'[t] = k /\ \A u \in Callers : u # t => call'[u] = call[u]
  BY <1>1, <1>2
<1>6. \A d \in Clients : ~OwnedBy(t, d)
  BY <1>2 DEF OwnedBy, Transacting
<1> QED
  BY <1>2, <1>4, <1>5, <1>6, OneTold

LEMMA IssueStory ==
  ASSUME UInv, Story, NEW t \in Callers, Issue(t)
  PROVE  Story'
<1> DEFINE k == [call[t] EXCEPT !.op = "sent"]
<1>1. call \in [Callers -> Context] /\ call[t] \in Context /\ Told(t, call[t], conn[call[t].client], rows)
  BY UndisturbedFacts
<1>2. call[t].main = "operating" /\ call[t].active
  BY <1>1 DEF Issue, Told, Holding
<1>3. call' = [call EXCEPT ![t] = k] /\ rows' = rows /\ conn' = conn
  BY <1>1, <1>2 DEF Issue
<1>4. k.main = call[t].main /\ k.active = call[t].active /\ k.op = "sent" /\ k.client = call[t].client
      /\ k.phase = call[t].phase /\ k.step = call[t].step
  BY <1>1 DEF Context
<1> HIDE DEF k
<1>5. Told(t, k, conn[k.client], rows)
  BY <1>1, <1>2, <1>4 DEF Told, Lost, Holding, Working, Inside
<1>6. call'[t] = k /\ \A u \in Callers : u # t => call'[u] = call[u]
  BY <1>1, <1>3
<1>7. \A d \in Clients : OwnedBy(t, d) => OwnedBy(t, d)'
  BY <1>4, <1>6 DEF OwnedBy
<1> QED
  BY <1>3, <1>5, <1>6, <1>7, OneTold

\* An operation that returns has made all its required statements.
LEMMA SettleStory ==
  ASSUME UInv, Story, NEW t \in Callers, Settle(t)
  PROVE  Story'
<1> DEFINE main == IF call[t].phase = "return" THEN "commit" ELSE "rollback"
           k == [call[t] EXCEPT !.op = "over", !.main = main]
           s == conn[call[t].client]
<1>1. call \in [Callers -> Context] /\ call[t] \in Context /\ Told(t, call[t], s, rows)
  BY UndisturbedFacts
<1>2. call[t].main = "operating" /\ call[t].phase \in {"raise", "return"}
  BY <1>1 DEF Settle, Told
<1>3. call' = [call EXCEPT ![t] = k] /\ rows' = rows /\ conn' = conn
  BY <1>1, <1>2 DEF Settle
<1>4. k.main = main /\ k.active = call[t].active /\ k.op = "over" /\ k.client = call[t].client
  BY <1>1 DEF Context
<1>5. ASSUME call[t].phase = "return" PROVE s.status = "open" /\ Whole(s.pending, t)
  <2>1. Working(t, call[t], s)
    BY <1>1, <1>2 DEF Told
  <2>2. s.status = "open" /\ Through(s.pending, t, call[t].step) /\ call[t].step > Len(Work[t])
    BY <1>5, <2>1 DEF Working
  <2>3. call[t].step \in Nat /\ Len(Work[t]) \in Nat
    BY <1>1, WorkAssumption DEF Context
  <2>4. \A i \in Required(t) : i < call[t].step
    BY <2>2, <2>3, RequiredStatement
  <2> QED
    BY <2>2, <2>4 DEF Whole, Through
<1> HIDE DEF k, s
<1>6. Told(t, k, s, rows)
  BY <1>1, <1>2, <1>4, <1>5 DEF Told, Lost, Holding
<1>7. call'[t] = k /\ \A u \in Callers : u # t => call'[u] = call[u]
  BY <1>1, <1>3
<1>8. \A d \in Clients : OwnedBy(t, d) => OwnedBy(t, d)'
  BY <1>4, <1>7 DEF OwnedBy, Transacting
<1>9. Told(t, call'[t], conn[call'[t].client], rows)
  BY <1>4, <1>6, <1>7 DEF s
<1> QED
  BY <1>3, <1>7, <1>8, <1>9, OneTold

LEMMA BackOffStory ==
  ASSUME UInv, Story, NEW t \in Callers, BackOff(t)
  PROVE  Story'
<1> DEFINE k == [call[t] EXCEPT !.main = "new", !.active = FALSE]
<1>1. call \in [Callers -> Context] /\ call[t] \in Context /\ Told(t, call[t], conn[call[t].client], rows)
  BY UndisturbedFacts
<1>2. call' = [call EXCEPT ![t] = k] /\ call[t].main = "backoff" /\ rows' = rows /\ conn' = conn
  BY <1>1 DEF BackOff, Release
<1>3. k.main = "new" /\ k.op = call[t].op /\ k.client = call[t].client
  BY <1>1 DEF Context
<1> HIDE DEF k
<1>4. Told(t, k, conn[k.client], rows)
  BY <1>1, <1>2, <1>3 DEF Told, Lost, Holding
<1>5. call'[t] = k /\ \A u \in Callers : u # t => call'[u] = call[u]
  BY <1>1, <1>2
<1>6. \A d \in Clients : ~OwnedBy(t, d)
  BY <1>2 DEF OwnedBy, Transacting
<1> QED
  BY <1>2, <1>4, <1>5, <1>6, OneTold

-----------------------------------------------------------------------------
(* The operations' queries are answered *)

\* The operation goes on to statement i, with what comes before it written.
LEMMA OnWorking ==
  ASSUME NEW k \in Context, NEW t \in Callers, NEW i \in Nat \ {0}, NEW s,
         s.status = "open", Through(s.pending, t, i)
  PROVE  Working(t, AtStep(k, t, i), s)
<1> DEFINE r == AtStep(k, t, i)
<1>1. r.step = i /\ r.phase = IF i > Len(Work[t]) THEN "return" ELSE IF Work[t][i].guarded THEN "save" ELSE "write"
  BY DEF AtStep, Context
<1> HIDE DEF r
<1>2. Working(t, r, s)
  BY <1>1 DEF Working, Inside
<1> QED
  BY <1>2 DEF r

\* An error leaves the operation, or is undone by withSavepoint.
LEMMA FailWorking ==
  ASSUME NEW k \in Context, NEW t \in Callers, NEW s, NEW error, k.phase # "undo",
         Work[t][k.step].guarded => Marked(s, <<t, k.step>>) /\ s.status # "idle"
  PROVE  Working(t, Fails(k, t, error), s)
<1> DEFINE undo == [k EXCEPT !.op = "ready", !.phase = "undo"]
           raise == [k EXCEPT !.op = "ready", !.phase = "raise",
                              !.error = IF k.error = "timeout" THEN k.error ELSE error]
<1>1. Fails(k, t, error) = IF Work[t][k.step].guarded THEN undo ELSE raise
  BY DEF Fails
<1>2. undo.phase = "undo" /\ undo.step = k.step /\ raise.phase = "raise"
  BY DEF Context
<1> HIDE DEF undo, raise
<1>3. Work[t][k.step].guarded => Working(t, undo, s)
  BY <1>2 DEF Working, Inside
<1>4. Working(t, raise, s)
  BY <1>2 DEF Working, Inside
<1> QED
  BY <1>1, <1>3, <1>4

\* The statement after a guarded one needs no more than that one did.
LEMMA ThroughGuarded ==
  ASSUME NEW L, NEW t \in Callers, NEW n \in Nat, Through(L, t, n), n \notin Required(t)
  PROVE  Through(L, t, n + 1)
<1> SUFFICES ASSUME NEW i \in Required(t), i < n + 1 PROVE In(L, t, i)
  BY DEF Through
<1>1. i \in Nat /\ i # n
  BY RequiredStatement
<1>2. i < n
  BY <1>1
<1> QED
  BY <1>2 DEF Through

LEMMA SavedCut ==
  ASSUME NEW s \in Session, Saved(s), NEW n \in Nat, n <= Len(s.savepoints),
         NEW x, x.savepoints = SubSeq(s.savepoints, 1, n)
  PROVE  Saved(x)
<1> DEFINE v == s.savepoints
           a == SubSeq(v, 1, n)
<1>1. v \in Seq(Savepoint) /\ Len(v) \in Nat /\ DOMAIN v = 1..Len(v)
  BY SavepointTypes
<1>2. DOMAIN a = 1..n /\ \A i \in 1..n : a[i] = v[i] /\ i \in DOMAIN v
  BY <1>1, SubSeqProperties
<1>3. x.savepoints = a /\ \A i \in DOMAIN v : Through(v[i].pending, v[i].name[1], v[i].name[2])
  BY DEF Saved
<1> HIDE DEF a, v
<1> QED
  BY <1>2, <1>3 DEF Saved

LEMMA SavedMore ==
  ASSUME NEW s \in Session, Saved(s), NEW t, NEW n, Through(s.pending, t, n), NEW x,
         x.savepoints = Append(s.savepoints, [name |-> <<t, n>>, pending |-> s.pending])
  PROVE  Saved(x) /\ Marked(x, <<t, n>>)
<1> DEFINE v == s.savepoints
           e == [name |-> <<t, n>>, pending |-> s.pending]
           a == Append(v, e)
<1>1. v \in Seq(Savepoint) /\ Len(v) \in Nat /\ DOMAIN v = 1..Len(v)
  BY SavepointTypes
<1>2. e.name = <<t, n>> /\ Through(e.pending, e.name[1], e.name[2])
  OBVIOUS
<1>3. x.savepoints = a /\ \A i \in DOMAIN v : Through(v[i].pending, v[i].name[1], v[i].name[2])
  BY DEF Saved
<1> HIDE DEF e, v
<1>4. DOMAIN a = 1..(Len(v) + 1) /\ a[Len(v) + 1] = e /\ \A i \in 1..Len(v) : a[i] = v[i]
  BY <1>1
<1> HIDE DEF a
<1>5. Len(v) + 1 \in DOMAIN a /\ \A i \in DOMAIN a : i \in DOMAIN v \/ i = Len(v) + 1
  BY <1>1, <1>4
<1>6. \A i \in DOMAIN a : Through(a[i].pending, a[i].name[1], a[i].name[2])
  BY <1>1, <1>2, <1>3, <1>4, <1>5
<1>7. Marked(x, <<t, n>>)
  BY <1>2, <1>3, <1>4, <1>5 DEF Marked
<1> QED
  BY <1>3, <1>6, <1>7 DEF Saved

\* The operation that is answered is the one whose transaction it is.
LEMMA AskerWorks ==
  ASSUME UInv, Story, NEW c \in Clients, queue[c] # <<>>,
         Head(queue[c]).what \in {"save", "write", "release", "undo"}
  PROVE  /\ Asker(c) \in Callers /\ call[Asker(c)] \in Context /\ conn[c] \in Session
         /\ call[Asker(c)].client = c /\ call[Asker(c)].main = "operating" /\ call[Asker(c)].active = TRUE
         /\ call[Asker(c)].phase = Head(queue[c]).what
         /\ call[Asker(c)].step \in DOMAIN Work[Asker(c)]
         /\ Working(Asker(c), call[Asker(c)], conn[c])
         /\ ~Of(rows, Asker(c)) /\ Saved(conn[c])
<1> DEFINE t == Asker(c)
<1>1. t \in Callers /\ call[t].client = c /\ call[t].op = "sent" /\ call[t].phase = Head(queue[c]).what
  BY HeadIsAwaited DEF UInv, Inv
<1>2. conn[c] \in Session /\ Saved(conn[c])
  BY DEF UInv, Inv, TypeOK, Session, Story, EverySaved
<1> HIDE DEF t
<1>3. call[t] \in Context /\ Thread(t, call[t]) /\ Told(t, call[t], conn[c], rows)
  BY <1>1, UndisturbedFacts
<1>4. call[t].main = "operating" /\ call[t].active /\ Working(t, call[t], conn[c]) /\ ~Of(rows, t)
  BY <1>1, <1>3 DEF Told, Lost, Holding
<1>5. call[t].active = TRUE
  <2>1. call[t].active \in BOOLEAN
    BY <1>3 DEF Context
  <2> QED
    BY <1>4, <2>1
<1>6. call[t].step \in DOMAIN Work[t]
  BY <1>1, <1>3 DEF Thread
<1> QED
  BY <1>1, <1>2, <1>3, <1>4, <1>5, <1>6 DEF t

\* r is what the call k of t becomes with the answer to its statement.
Replied(r, k, t) ==
  \E error \in Errors \ {"timeout"} : r = Fails(k, t, error) \/ r = Succeeds(k, t)

LEMMA AnsweredTold ==
  ASSUME NEW k \in Context, NEW t \in Callers, NEW r, Replied(r, k, t),
         k.main = "operating", k.active = TRUE, NEW x, NEW R, ~Of(R, t), Working(t, r, x)
  PROVE  Told(t, r, x, R) /\ r.main = k.main /\ r.client = k.client
<1> PICK error \in Errors \ {"timeout"} : r = Fails(k, t, error) \/ r = Succeeds(k, t)
  BY DEF Replied
<1>1. r.op = "ready" /\ r.active = k.active
  BY AnsweredOp
<1>2. r.main = k.main /\ r.client = k.client
  BY AnsweredType
<1> QED
  BY <1>1, <1>2 DEF Told, Lost, Holding

LEMMA AnswerStory ==
  ASSUME UInv, Story, NEW c \in Clients, queue[c] # <<>>,
         Head(queue[c]).what \in {"save", "write", "release", "undo"},
         NEW error \in Errors \ {"timeout"}, NEW r,
         r = Fails(call[Asker(c)], Asker(c), error) \/ r = Succeeds(call[Asker(c)], Asker(c)),
         call' = [call EXCEPT ![Asker(c)] = r], rows' = rows,
         NEW x, conn' = [conn EXCEPT ![c] = x], Saved(x), Working(Asker(c), r, x),
         \A u \in Callers : Of(x.pending, u) => Of(conn[c].pending, u) \/ u = Asker(c)
  PROVE  Story'
<1> DEFINE t == Asker(c)
           k == call[t]
<1>1. t \in Callers /\ k \in Context /\ k.client = c /\ k.main = "operating" /\ k.active = TRUE /\ ~Of(rows, t)
  BY AskerWorks
<1>2. Told(t, r, x, rows) /\ r.main = k.main /\ r.client = k.client
  <2>1. Replied(r, k, t) /\ Working(t, r, x)
    BY DEF Replied
  <2> HIDE DEF t, k
  <2> QED
    BY <1>1, <2>1, AnsweredTold
<1>3. \A u \in Callers : Of(x.pending, u) => Of(conn[c].pending, u) \/ u = t
  OBVIOUS
<1>4. call' = [call EXCEPT ![t] = r]
  OBVIOUS
<1> HIDE DEF t
<1>5. call'[t] = r /\ \A u \in Callers : u # t => call'[u] = call[u]
  BY <1>1, <1>4 DEF UInv, Inv, TypeOK
<1>6. conn'[c] = x /\ \A d \in Clients : d # c => conn'[d] = conn[d]
  BY DEF UInv, Inv, TypeOK
<1>7. Holds(t, c)
  BY <1>1 DEF Holds
<1>8. \A u \in Callers : u # t /\ call[u].main \in {"operating", "commit"} =>
         conn'[call[u].client] = conn[call[u].client]
  BY <1>1, <1>6, <1>7, OtherClients DEF UInv, Inv
<1>9. \A u \in Callers : u # t => Told(u, call'[u], conn'[call'[u].client], rows')
  BY <1>5, <1>8, OthersTold
<1>10. Told(t, call'[t], conn'[call'[t].client], rows')
  BY <1>1, <1>2, <1>5, <1>6
<1>11. EveryTold'
  BY <1>9, <1>10 DEF EveryTold
<1>12. EverySaved'
  BY <1>6 DEF Story, EverySaved
<1>13. OwnedBy(t, c) /\ \A u \in Callers, d \in Clients : OwnedBy(u, d)' <=> OwnedBy(u, d)
  BY <1>1, <1>2, <1>5 DEF OwnedBy, Transacting
<1>14. EveryOwned'
  BY <1>3, <1>6, <1>13 DEF Story, EveryOwned
<1> QED
  BY <1>11, <1>12, <1>14 DEF Story

LEMMA FailWriteStory ==
  ASSUME UInv, Story, NEW c \in Clients, Deadlock(c) \/ Cancel(c)
  PROVE  Story'
<1> DEFINE t == Asker(c)
           x == Abort(conn[c])
<1>1. PICK error \in {"deadlock", "cancelled"} : FailWrite(c, error)
  BY DEF Deadlock, Cancel
<1>2. queue[c] # <<>> /\ Head(queue[c]).what = "write"
  BY <1>1 DEF FailWrite, Blockers, Asked
<1>3. /\ call' = [call EXCEPT ![t] = Fails(call[t], t, error)]
      /\ conn' = [conn EXCEPT ![c] = x] /\ rows' = rows
  BY <1>1 DEF FailWrite
<1>4. /\ t \in Callers /\ call[t] \in Context /\ conn[c] \in Session /\ call[t].phase = "write"
      /\ Working(t, call[t], conn[c]) /\ Saved(conn[c])
  BY <1>2, AskerWorks
<1>5. Nested(conn[c]) /\ conn[c].status = "open"
  BY <1>4 DEF UInv, Sessions, Working
<1>6. x.status # "idle" /\ x.savepoints = conn[c].savepoints
  BY <1>4, <1>5 DEF Abort, Session
<1>7. x \in Session /\ Prefix(x.pending, conn[c].pending)
  BY <1>4, <1>5, AbortType, AbortNested, IdleType
<1>8. \A u \in Callers : Of(x.pending, u) => Of(conn[c].pending, u)
  BY <1>4, <1>7, OfPrefix, SavepointTypes
<1> HIDE DEF x, t
<1>9. Saved(x)
  BY <1>4, <1>6 DEF Saved
<1>10. Work[t][call[t].step].guarded => Marked(x, <<t, call[t].step>>)
  BY <1>4, <1>6 DEF Working, Inside, Marked
<1>11. Working(t, Fails(call[t], t, error), x)
  BY <1>4, <1>6, <1>10, FailWorking
<1>12. error \in Errors \ {"timeout"}
  BY DEF Errors
<1> QED
  BY <1>2, <1>3, <1>8, <1>9, <1>11, <1>12, AnswerStory DEF t

LEMMA WriteRowStory ==
  ASSUME UInv, Story, NEW c \in Clients, WriteRow(c)
  PROVE  Story'
<1> DEFINE t == Asker(c)
           k == call[t]
           s == conn[c]
           q == Now(t).row
           w == <<t, k.step>>
           hit == Matches(t, rows[q] \o s.pending[q])
           ok == hit \/ NullOnMiss(t)
           r == IF ok THEN Succeeds(k, t) ELSE Fails(k, t, "conflict")
           more == [s EXCEPT !.pending = Added(s.pending, q, w)]
           x == IF hit THEN more ELSE s
<1>1. queue[c] # <<>> /\ Head(queue[c]).what = "write"
  BY DEF WriteRow, Asked
<1>2. /\ t \in Callers /\ k \in Context /\ s \in Session /\ k.phase = "write" /\ k.step \in DOMAIN Work[t]
      /\ Working(t, k, s) /\ Saved(s)
  BY <1>1, AskerWorks
<1>3. s.status = "open" /\ Through(s.pending, t, k.step)
  BY <1>2 DEF Working
<1>4. Work[t][k.step] \in Statement /\ k.step \in Nat \ {0}
  <2>1. Work[t] \in Seq(Statement)
    BY <1>2, WorkAssumption
  <2> QED
    BY <1>2, <2>1, Element
<1>5. q \in Rows /\ w \in Write /\ s.pending \in Logs
  BY <1>2, <1>4 DEF Now, Statement, Write, Session
<1>6. call' = [call EXCEPT ![t] = r] /\ rows' = rows
  BY <1>3 DEF WriteRow
<1>7. conn' = IF hit THEN [conn EXCEPT ![c].pending[q] = Append(s.pending[q], w)] ELSE conn
  BY <1>3 DEF WriteRow
<1>8. conn' = [conn EXCEPT ![c] = x]
  <2>1. conn \in [Clients -> Session]
    BY DEF UInv, Inv, TypeOK, Session
  <2> HIDE DEF hit, w, q
  <2>2. CASE hit
    BY <1>7, <2>1, <2>2 DEF Added
  <2>3. CASE ~hit
    BY <1>7, <2>1, <2>3
  <2> QED
    BY <2>2, <2>3
<1>9. more.status = s.status /\ more.savepoints = s.savepoints /\ more.pending = Added(s.pending, q, w)
  BY <1>2 DEF Session
<1> HIDE DEF more
<1>10. x.status = "open" /\ x.savepoints = s.savepoints
       /\ x.pending = IF hit THEN Added(s.pending, q, w) ELSE s.pending
  BY <1>3, <1>9
<1>11. ASSUME NEW i \in Required(t), i < k.step + 1, i < k.step \/ hit PROVE In(x.pending, t, i)
  <2>1. i \in Nat /\ (i < k.step => In(s.pending, t, i))
    BY <1>2, <1>3, RequiredStatement DEF Through
  <2>2. ~(i < k.step) => i = k.step
    BY <1>4, <1>11, <2>1
  <2>3. i = k.step => w = <<t, i>> /\ q = Work[t][i].row
    BY DEF Now
  <2> HIDE DEF hit, x, s, q, w
  <2>4. hit => In(Added(s.pending, q, w), t, i)
    BY <1>2, <1>5, <2>1, <2>2, <2>3, InAdded
  <2> QED
    BY <1>10, <1>11, <2>1, <2>4
<1>12. k.step \in Required(t) => (hit <=> ok)
  BY DEF Required, NullOnMiss, Now
<1>13. Saved(x)
  BY <1>2, <1>10 DEF Saved
<1>14. \A u \in Callers : Of(x.pending, u) => Of(s.pending, u) \/ u = t
  <2>1. w[1] = t
    OBVIOUS
  <2> HIDE DEF hit, x, s, q, w
  <2> QED
    BY <1>5, <1>10, <2>1, OfAdded
<1>15. Work[t][k.step].guarded => Marked(x, <<t, k.step>>)
  BY <1>2, <1>10 DEF Working, Inside, Marked
<1>16. Through(x.pending, t, k.step)
  <2> SUFFICES ASSUME NEW i \in Required(t), i < k.step PROVE In(x.pending, t, i)
    BY DEF Through
  <2>1. i \in Nat
    BY <1>2, RequiredStatement
  <2>2. i < k.step + 1
    BY <1>4, <2>1
  <2> QED
    BY <1>11, <2>2
<1>17. ok => Through(x.pending, t, k.step + 1)
  <2> SUFFICES ASSUME ok, NEW i \in Required(t), i < k.step + 1 PROVE In(x.pending, t, i)
    BY DEF Through
  <2>1. i \in Nat
    BY <1>2, RequiredStatement
  <2>2. i < k.step \/ i = k.step
    BY <1>4, <2>1
  <2>3. i < k.step \/ hit
    BY <1>12, <2>2
  <2> QED
    BY <1>11, <2>3
<1> HIDE DEF hit, ok, x, s, q, w
<1>18. Working(t, r, x)
  <2>1. CASE ~ok
    <3>1. Working(t, Fails(k, t, "conflict"), x)
      BY <1>2, <1>10, <1>15, FailWorking
    <3> QED
      BY <2>1, <3>1
  <2>2. CASE ok /\ Work[t][k.step].guarded
    <3>1. r = [k EXCEPT !.op = "ready", !.phase = "release"]
      BY <1>2, <2>2 DEF Succeeds
    <3>2. r.phase = "release" /\ r.step = k.step
      BY <1>2, <3>1 DEF Context
    <3> HIDE DEF r
    <3> QED
      BY <1>10, <1>15, <1>16, <2>2, <3>2 DEF Working, Inside
  <2>3. CASE ok /\ ~Work[t][k.step].guarded
    <3>1. r = AtStep(k, t, k.step + 1)
      BY <1>2, <2>3 DEF Succeeds
    <3>2. k.step + 1 \in Nat \ {0}
      BY <1>4
    <3>3. Working(t, AtStep(k, t, k.step + 1), x)
      BY <1>2, <1>10, <1>17, <2>3, <3>2, OnWorking
    <3> QED
      BY <3>1, <3>3
  <2> QED
    BY <2>1, <2>2, <2>3
<1>19. "conflict" \in Errors \ {"timeout"}
  BY DEF Errors
<1>20. r = Fails(k, t, "conflict") \/ r = Succeeds(k, t)
  OBVIOUS
<1> HIDE DEF r
<1> QED
  BY <1>1, <1>6, <1>8, <1>13, <1>14, <1>18, <1>19, <1>20, AnswerStory DEF s

\* SAVEPOINT, RELEASE and ROLLBACK TO find the transaction and the savepoint that
\* withSavepoint made.
LEMMA SavepointsStory ==
  ASSUME UInv, Story, NEW c \in Clients, Savepoints(c)
  PROVE  Story'
<1> DEFINE t == Asker(c)
           k == call[t]
           s == conn[c]
           name == <<t, k.step>>
           At == {i \in DOMAIN s.savepoints : s.savepoints[i].name = name}
           what == Head(queue[c]).what
           x == conn'[c]
           r == Succeeds(k, t)
           on == AtStep(k, t, k.step + 1)
<1>1. queue[c] # <<>> /\ what \in {"save", "release", "undo"}
  BY DEF Savepoints
<1>2. /\ t \in Callers /\ k \in Context /\ s \in Session /\ k.phase = what /\ k.step \in DOMAIN Work[t]
      /\ Working(t, k, s) /\ Saved(s)
  BY <1>1, AskerWorks
<1>3. /\ what # "undo" => s.status = "open" /\ Through(s.pending, t, k.step)
      /\ what = "undo" => s.status # "idle"
      /\ what # "save" => At # {}
      /\ Work[t][k.step].guarded
  BY <1>1, <1>2 DEF Working, Inside, Marked
<1>4. call' = [call EXCEPT ![t] = r] /\ rows' = rows
  BY <1>1, <1>3 DEF Savepoints
<1>5. \/ /\ what = "save"
         /\ conn' = [conn EXCEPT ![c] = [s EXCEPT !.savepoints = Append(s.savepoints, [name |-> name, pending |-> s.pending])]]
      \/ /\ what # "save"
         /\ \E i \in At :
              conn' = [conn EXCEPT ![c] =
                IF what = "release" THEN [s EXCEPT !.savepoints = SubSeq(s.savepoints, 1, i - 1)]
                ELSE [status |-> "open", pending |-> s.savepoints[i].pending,
                      savepoints |-> SubSeq(s.savepoints, 1, i)]]
  BY <1>1, <1>3 DEF Savepoints, UInv, Inv, TypeOK
<1>6. conn \in [Clients -> Session]
  BY DEF UInv, Inv, TypeOK, Session
<1>7. s.savepoints \in Seq(Savepoint) /\ s.pending \in Logs
      /\ \A i \in DOMAIN s.savepoints : s.savepoints[i].pending \in Logs
  BY <1>2, SavepointTypes
<1>8. \A i \in At : i \in 1..Len(s.savepoints) /\ Through(s.savepoints[i].pending, t, k.step)
  BY <1>2, <1>7 DEF Saved
<1>9. k.step \in Nat /\ k.step + 1 \in Nat \ {0} /\ k.step \notin Required(t)
  BY <1>2, <1>3 DEF Required, Context
<1>10. Nested(s)
  BY DEF UInv, Sessions
<1>11. /\ what # "save" => r = on
       /\ what = "save" => r = [k EXCEPT !.op = "ready", !.phase = "write"]
  BY <1>1, <1>2 DEF Succeeds
<1> HIDE DEF t, k, s, name, At, what, x, r, on
<1>12. /\ Saved(x) /\ Working(t, r, x) /\ conn' = [conn EXCEPT ![c] = x]
       /\ \A u \in Callers : Of(x.pending, u) => Of(s.pending, u)
  <2>1. CASE what = "save"
    <3>1. conn' = [conn EXCEPT ![c] = [s EXCEPT !.savepoints = Append(s.savepoints, [name |-> name, pending |-> s.pending])]]
      BY <1>5, <2>1
    <3>2. x = [s EXCEPT !.savepoints = Append(s.savepoints, [name |-> name, pending |-> s.pending])]
          /\ conn' = [conn EXCEPT ![c] = x]
      BY <1>6, <3>1 DEF x
    <3>3. x.savepoints = Append(s.savepoints, [name |-> <<t, k.step>>, pending |-> s.pending])
          /\ x.status = s.status /\ x.pending = s.pending
      BY <1>2, <3>2 DEF Session, name
    <3>4. Saved(x) /\ Marked(x, <<t, k.step>>)
      BY <1>2, <1>3, <2>1, <3>3, SavedMore
    <3>5. r.phase = "write" /\ r.step = k.step
      BY <1>2, <1>11, <2>1 DEF Context
    <3>6. Working(t, r, x)
      BY <1>3, <2>1, <3>3, <3>4, <3>5 DEF Working, Inside
    <3> QED
      BY <3>2, <3>3, <3>4, <3>6
  <2>2. CASE what = "release"
    <3>1. PICK i \in At : conn' = [conn EXCEPT ![c] = [s EXCEPT !.savepoints = SubSeq(s.savepoints, 1, i - 1)]]
      BY <1>5, <2>2
    <3>2. x = [s EXCEPT !.savepoints = SubSeq(s.savepoints, 1, i - 1)] /\ conn' = [conn EXCEPT ![c] = x]
      BY <1>6, <3>1 DEF x
    <3>3. x.savepoints = SubSeq(s.savepoints, 1, i - 1) /\ x.status = s.status /\ x.pending = s.pending
      BY <1>2, <3>2 DEF Session
    <3>4. i - 1 \in Nat /\ i - 1 <= Len(s.savepoints)
      BY <1>7, <1>8
    <3>5. Saved(x)
      BY <1>2, <3>3, <3>4, SavedCut
    <3>6. Through(x.pending, t, k.step + 1)
      BY <1>2, <1>3, <1>9, <2>2, <3>3, ThroughGuarded
    <3>7. Working(t, on, x)
      BY <1>2, <1>3, <1>9, <2>2, <3>3, <3>6, OnWorking DEF on
    <3> QED
      BY <1>11, <2>2, <3>2, <3>3, <3>5, <3>7
  <2>3. CASE what = "undo"
    <3>1. PICK i \in At :
            conn' = [conn EXCEPT ![c] = [status |-> "open", pending |-> s.savepoints[i].pending,
                                         savepoints |-> SubSeq(s.savepoints, 1, i)]]
      BY <1>5, <2>3
    <3>2. x = [status |-> "open", pending |-> s.savepoints[i].pending, savepoints |-> SubSeq(s.savepoints, 1, i)]
          /\ conn' = [conn EXCEPT ![c] = x]
      BY <1>6, <3>1 DEF x
    <3>3. x.savepoints = SubSeq(s.savepoints, 1, i) /\ x.status = "open" /\ x.pending = s.savepoints[i].pending
      BY <3>2
    <3>4. i \in Nat /\ i <= Len(s.savepoints) /\ i \in DOMAIN s.savepoints
      BY <1>7, <1>8
    <3>5. Saved(x)
      BY <1>2, <3>3, <3>4, SavedCut
    <3>6. Through(x.pending, t, k.step)
      BY <1>8, <3>3
    <3>7. Through(x.pending, t, k.step + 1)
      BY <1>2, <1>9, <3>6, ThroughGuarded
    <3>8. Working(t, on, x)
      BY <1>2, <1>9, <3>3, <3>7, OnWorking DEF on
    <3>9. Prefix(x.pending, s.pending)
      BY <1>10, <3>3, <3>4 DEF Nested
    <3>10. \A u \in Callers : Of(x.pending, u) => Of(s.pending, u)
      BY <1>7, <3>3, <3>4, <3>9, OfPrefix
    <3> QED
      BY <1>11, <2>3, <3>2, <3>5, <3>8, <3>10
  <2> QED
    BY <1>1, <2>1, <2>2, <2>3
<1>13. "aborted" \in Errors \ {"timeout"}
  BY DEF Errors
<1>14. Head(queue[c]).what \in {"save", "write", "release", "undo"} /\ r = Succeeds(call[Asker(c)], Asker(c))
  BY <1>1 DEF what, r, k, t
<1> HIDE DEF r
<1>15. \A u \in Callers : Of(x.pending, u) => Of(conn[c].pending, u) \/ u = Asker(c)
  BY <1>12 DEF s
<1>16. call' = [call EXCEPT ![Asker(c)] = r] /\ Working(Asker(c), r, x)
  BY <1>4, <1>12 DEF t
<1> QED
  BY <1>1, <1>4, <1>12, <1>13, <1>14, <1>15, <1>16, AnswerStory

-----------------------------------------------------------------------------
(* The main threads' queries are answered *)

\* The transaction of a call begins, or ends, with its call.
LEMMA MainStory ==
  ASSUME UInv, Story, NEW t \in Callers, NEW c \in Clients, Holds(t, c),
         NEW k, call' = [call EXCEPT ![t] = k], k.client = c,
         NEW x, conn' = [conn EXCEPT ![c] = x], Saved(x),
         (\A u \in Callers : ~Of(x.pending, u)),
         \A u \in Callers : u # t =>
           /\ Of(rows', u) => Of(rows, u)
           /\ \A i \in Required(u) : In(rows, u, i) => In(rows', u, i),
         Told(t, k, x, rows')
  PROVE  Story'
<1>1. call'[t] = k /\ \A u \in Callers : u # t => call'[u] = call[u]
  BY DEF UInv, Inv, TypeOK
<1>2. conn'[c] = x /\ \A d \in Clients : d # c => conn'[d] = conn[d]
  BY DEF UInv, Inv, TypeOK
<1>3. \A u \in Callers : u # t /\ call[u].main \in {"operating", "commit"} =>
        conn'[call[u].client] = conn[call[u].client]
  BY <1>2, OtherClients DEF UInv, Inv
<1>4. \A u \in Callers : u # t => Told(u, call'[u], conn'[call'[u].client], rows')
  BY <1>1, <1>3, OthersTold
<1>5. EveryTold'
  BY <1>1, <1>2, <1>4 DEF EveryTold
<1>6. EverySaved'
  BY <1>2 DEF Story, EverySaved
<1>7. EveryOwned'
  <2> SUFFICES ASSUME NEW d \in Clients, NEW u \in Callers, Of(conn'[d].pending, u) PROVE OwnedBy(u, d)'
    BY DEF EveryOwned
  <2>1. d # c /\ OwnedBy(u, d)
    BY <1>2 DEF Story, EveryOwned
  <2>2. u # t
    BY <2>1 DEF OwnedBy, Holds
  <2> QED
    BY <1>1, <2>1, <2>2 DEF OwnedBy
<1> QED
  BY <1>5, <1>6, <1>7 DEF Story

LEMMA EmptySession ==
  ASSUME NEW x, x.savepoints = <<>>, x.pending = NoWrites
  PROVE  Saved(x) /\ \A u : ~Of(x.pending, u)
BY NoneOf DEF Saved

LEMMA BeginStory ==
  ASSUME UInv, Story, NEW c \in Clients, Begin(c)
  PROVE  Story'
<1> DEFINE t == Asker(c)
           o == [call[t] EXCEPT !.main = "operating"]
           k == AtStep(o, t, 1)
           x == [conn[c] EXCEPT !.status = "open"]
<1>1. t \in Callers /\ call[t].client = c /\ call[t].main = "begin"
  BY HeadIsHonest DEF UInv, Inv, Begin, Asked
<1>2. call[t] \in Context /\ conn[c] \in Session /\ Told(t, call[t], conn[c], rows)
  BY <1>1, UndisturbedFacts DEF UInv, Inv, TypeOK, Session
<1>3. call' = [call EXCEPT ![t] = k] /\ conn' = [conn EXCEPT ![c] = x] /\ rows' = rows
  BY <1>2 DEF Begin, UInv, Inv, TypeOK
<1> HIDE DEF t
<1>4. Holds(t, c)
  BY <1>1 DEF Holds
<1>5. conn[c] = Idle
  <2> SUFFICES ASSUME conn[c] # Idle PROVE FALSE
    OBVIOUS
  <2>1. PICK u \in Callers : OwnedBy(u, c)
    BY DEF UInv, Inv, Pool, Owned
  <2>2. Holds(u, c)
    BY <2>1 DEF OwnedBy, Transacting, Holds
  <2>3. u = t
    BY <1>1, <1>4, <2>2 DEF UInv, Inv, Pool, Alone
  <2> QED
    BY <1>1, <2>1, <2>3 DEF OwnedBy, Transacting
<1>6. x.status = "open" /\ x.savepoints = <<>> /\ x.pending = NoWrites
  BY <1>2, <1>5 DEF Session, Idle
<1>7. o \in Context /\ o.main = "operating" /\ o.client = c /\ o.active = call[t].active
  BY <1>1, <1>2 DEF Context, Mains
<1>8. k.main = "operating" /\ k.client = c /\ k.op = "ready" /\ k.active = call[t].active
  BY <1>7 DEF AtStep, Context
<1> HIDE DEF x, o
<1>9. Through(x.pending, t, 1)
  <2>1. \A i \in Required(t) : ~(i < 1)
    <3> SUFFICES ASSUME NEW i \in Required(t) PROVE ~(i < 1)
      OBVIOUS
    <3>1. Work[t] \in Seq(Statement) /\ i \in DOMAIN Work[t]
      BY <1>1, WorkAssumption, RequiredStatement
    <3> QED
      BY <3>1
  <2> QED
    BY <2>1 DEF Through
<1>10. Working(t, k, x)
  BY <1>1, <1>6, <1>7, <1>9, OnWorking
<1> HIDE DEF k
<1>11. Told(t, k, x, rows')
  BY <1>1, <1>2, <1>3, <1>8, <1>10 DEF Told, Lost, Holding
<1>12. Saved(x) /\ \A u : ~Of(x.pending, u)
  BY <1>6, EmptySession
<1> QED
  BY <1>1, <1>3, <1>4, <1>8, <1>11, <1>12, MainStory

\* What COMMIT adds to the rows is what its call has written, whole.
LEMMA CommittedRows ==
  ASSUME UInv, Story, NEW t \in Callers, NEW c \in Clients, Holds(t, c), call[t].main = "commit"
  PROVE  /\ conn[c].status = "open" /\ Whole(Committed(c), t)
         /\ \A u \in Callers : u # t =>
              /\ Of(Committed(c), u) => Of(rows, u)
              /\ \A i \in Required(u) : In(rows, u, i) => In(Committed(c), u, i)
<1>1. call[t].client = c
  BY DEF Holds
<1>2. conn[c].status = "open" /\ Whole(conn[c].pending, t)
  BY <1>1, UndisturbedFacts DEF Told
<1>3. rows \in Logs /\ conn[c].pending \in Logs
  BY DEF UInv, Inv, TypeOK
<1>4. Committed(c) = Join(rows, conn[c].pending)
  BY DEF Committed, Join
<1>5. Whole(Committed(c), t)
  BY <1>2, <1>3, <1>4, InJoin DEF Whole
<1>6. ASSUME NEW u \in Callers, u # t PROVE ~Of(conn[c].pending, u)
  <2>1. ~OwnedBy(u, c)
    BY <1>6 DEF OwnedBy, Transacting, Holds, UInv, Inv, Pool, Alone
  <2> QED
    BY <2>1 DEF Story, EveryOwned
<1>7. \A u \in Callers : u # t => (Of(Committed(c), u) => Of(rows, u))
  BY <1>3, <1>4, <1>6, OfJoin
<1>8. \A u \in Callers : \A i \in Required(u) : In(rows, u, i) => In(Committed(c), u, i)
  BY <1>3, <1>4, InJoin
<1> QED
  BY <1>2, <1>5, <1>7, <1>8

LEMMA CommitStory ==
  ASSUME UInv, Story, NEW c \in Clients, Commit(c)
  PROVE  Story'
<1> DEFINE t == Asker(c)
           k == [call[t] EXCEPT !.main = "ok", !.active = FALSE]
<1>1. t \in Callers /\ call[t].client = c /\ call[t].main = "commit"
  BY HeadIsHonest DEF UInv, Inv, Commit, Asked
<1>2. call[t] \in Context /\ Told(t, call[t], conn[c], rows)
  BY <1>1, UndisturbedFacts
<1>3. call' = [call EXCEPT ![t] = k] /\ conn' = [conn EXCEPT ![c] = Idle]
  BY <1>2 DEF Commit, Release, UInv, Inv, TypeOK
<1>4. k.main = "ok" /\ k.client = c /\ k.op = call[t].op
  BY <1>1, <1>2 DEF Context
<1> HIDE DEF t, k
<1>5. Holds(t, c)
  BY <1>1 DEF Holds
<1>6. /\ conn[c].status = "open" /\ Whole(Committed(c), t)
      /\ \A u \in Callers : u # t =>
           /\ Of(Committed(c), u) => Of(rows, u)
           /\ \A i \in Required(u) : In(rows, u, i) => In(Committed(c), u, i)
  BY <1>1, <1>5, CommittedRows
<1>7. rows' = Committed(c)
  BY <1>6 DEF Commit
<1>8. Told(t, k, Idle, rows')
  BY <1>1, <1>2, <1>4, <1>6, <1>7 DEF Told, Lost, Holding
<1>9. Saved(Idle) /\ \A u : ~Of(Idle.pending, u)
  BY EmptySession DEF Idle
<1> QED
  BY <1>1, <1>3, <1>4, <1>5, <1>6, <1>7, <1>8, <1>9, MainStory

LEMMA RollbackStory ==
  ASSUME UInv, Story, NEW c \in Clients, Rollback(c)
  PROVE  Story'
<1> DEFINE t == Asker(c)
           back == [call[t] EXCEPT !.main = "backoff", !.error = "none"]
           failed == [call[t] EXCEPT !.main = "failed", !.active = FALSE]
<1>1. t \in Callers /\ call[t].client = c /\ call[t].main = "rollback"
  BY HeadIsHonest DEF UInv, Inv, Rollback, Asked
<1>2. call[t] \in Context /\ Told(t, call[t], conn[c], rows)
  BY <1>1, UndisturbedFacts
<1>3. (call' = [call EXCEPT ![t] = back] \/ call' = [call EXCEPT ![t] = failed])
      /\ conn' = [conn EXCEPT ![c] = Idle] /\ rows' = rows
  BY <1>2 DEF Rollback, Release, UInv, Inv, TypeOK
<1>4. back.main = "backoff" /\ back.client = c /\ back.op = call[t].op /\ back.active = call[t].active
  BY <1>1, <1>2 DEF Context
<1>5. failed.main = "failed" /\ failed.client = c /\ failed.op = call[t].op
  BY <1>1, <1>2 DEF Context
<1> HIDE DEF t, back, failed
<1>6. Holds(t, c)
  BY <1>1 DEF Holds
<1>7. Told(t, back, Idle, rows') /\ Told(t, failed, Idle, rows')
  BY <1>1, <1>2, <1>3, <1>4, <1>5 DEF Told, Lost, Holding
<1>8. Saved(Idle) /\ \A u : ~Of(Idle.pending, u)
  BY EmptySession DEF Idle
<1> QED
  BY <1>1, <1>3, <1>4, <1>5, <1>6, <1>7, <1>8, MainStory

\* The connection is lost: a COMMIT that was on its way was done whole or not at all.
LEMMA BreakStory ==
  ASSUME UInv, Story, NEW c \in Clients, Break(c)
  PROVE  Story'
<1>1. \A u \in Callers : Dropped(u, call'[u], c)
  BY BreakDrops
<1>2. conn'[c] = Idle /\ \A d \in Clients : d # c => conn'[d] = conn[d]
  BY DEF Break, UInv, Inv, TypeOK
<1>3. \A u \in Callers : u \in Callers /\ Told(u, call[u], conn[call[u].client], rows)
  BY UndisturbedFacts
<1>4. rows' = rows \/ (rows' = Committed(c) /\ Asked(c, "commit"))
  BY DEF Break
<1>5. \A u \in Callers : call'[u].client = call[u].client
  BY <1>1 DEF Dropped
<1>6. \A u \in Callers : ~Holds(u, c) => (Whole(rows, u) => Whole(rows', u))
  <2>1. CASE rows' = rows
    BY <2>1
  <2>2. CASE rows' = Committed(c)
    <3>1. rows \in Logs /\ conn[c].pending \in Logs /\ Committed(c) = Join(rows, conn[c].pending)
      BY DEF UInv, Inv, TypeOK, Committed, Join
    <3> QED
      BY <2>2, <3>1, InJoin DEF Whole
  <2> QED
    BY <1>4, <2>1, <2>2
<1>7. \A u \in Callers : call[u].main # "commit" \/ ~Holds(u, c) => (Of(rows', u) => Of(rows, u))
  <2>1. CASE rows' = rows
    BY <2>1
  <2>2. CASE rows' = Committed(c) /\ Asked(c, "commit")
    <3> DEFINE t == Asker(c)
    <3>1. t \in Callers /\ call[t].client = c /\ call[t].main = "commit"
      BY <2>2, HeadIsHonest DEF UInv, Inv, Asked
    <3> HIDE DEF t
    <3>2. Holds(t, c)
      BY <3>1 DEF Holds
    <3> QED
      BY <2>2, <3>1, <3>2, CommittedRows
  <2> QED
    BY <1>4, <2>1, <2>2
<1>8. \A u \in Callers : call[u].main = "commit" /\ Holds(u, c) => Whole(rows', u) \/ ~Of(rows', u)
  <2> SUFFICES ASSUME NEW u \in Callers, call[u].main = "commit", Holds(u, c)
               PROVE  Whole(rows', u) \/ ~Of(rows', u)
    OBVIOUS
  <2>1. Whole(Committed(c), u)
    BY CommittedRows
  <2>2. ~Of(rows, u)
    BY <1>3 DEF Told, Lost
  <2> QED
    BY <1>4, <2>1, <2>2
<1>9. ASSUME NEW u \in Callers PROVE Told(u, call'[u], conn'[call'[u].client], rows')
  <2> DEFINE s == conn[call[u].client]
             x == conn'[call'[u].client]
             l == call'[u]
             k == call[u]
  <2>1. Told(u, k, s, rows) /\ Dropped(u, l, c)
    BY <1>1, <1>3
  <2>2. k.client = c /\ k.main \in Holding => Holds(u, c)
    BY DEF Holds, Holding
  <2>3. Holds(u, c) => k.client = c /\ k.main \in Holding
    BY DEF Holds, Holding
  <2>4. k.main \in Holding => k.client \in Clients
    BY DEF UInv, Inv, Pool, Seated
  <2>5. CASE l = k /\ ~Holds(u, c)
    <3>1. k.main \in {"operating", "commit"} => x = s
      BY <1>2, <1>5, <2>2, <2>4, <2>5 DEF Holding
    <3>2. (Whole(rows, u) => Whole(rows', u)) /\ (Of(rows', u) => Of(rows, u))
      BY <1>6, <1>7, <2>5
    <3> HIDE DEF x, s, l, k
    <3>3. Told(u, l, x, rows')
      BY <2>1, <2>5, <3>1, <3>2 DEF Told, Lost
    <3> QED
      BY <3>3 DEF x, l
  <2>6. CASE l.op = "over" /\ l.main = k.main /\ l.error = k.error /\ l.active = k.active
             /\ k.main \notin Holding \ {"backoff"} /\ k.client = c
    <3>1. Of(rows', u) => Of(rows, u)
      BY <1>7, <2>6 DEF Holding
    <3>2. k.main \in {"ok", "failed"} => (Whole(rows, u) => Whole(rows', u))
      BY <1>6, <2>3 DEF Holding
    <3> HIDE DEF x, s
    <3> QED
      BY <2>1, <2>6, <3>1, <3>2 DEF Told, Lost, Holding
  <2>7. CASE l.op = "over" /\ Holds(u, c) /\ k.main # "backoff" /\ l.main = "failed"
             /\ l.error = IF k.main = "rollback" THEN k.error ELSE "broken"
    <3>1. k.main # "commit" => ~Of(rows', u)
      BY <1>7, <2>1, <2>3, <2>7 DEF Told, Lost, Holding
    <3>2. k.main = "commit" => Whole(rows', u) \/ ~Of(rows', u)
      BY <1>8, <2>7
    <3> HIDE DEF x, s
    <3> QED
      BY <2>7, <3>1, <3>2 DEF Told, Lost, Holding
  <2>8. CASE l.op = "over" /\ Holds(u, c) /\ k.main = "rollback" /\ l.main = "backoff" /\ l.error = "none"
             /\ l.active = k.active
    <3>1. ~Of(rows', u)
      BY <1>7, <2>1, <2>8 DEF Told, Lost
    <3> HIDE DEF x, s
    <3> QED
      BY <2>1, <2>8, <3>1 DEF Told, Lost, Holding
  <2> HIDE DEF l, k, x, s
  <2> QED
    BY <2>1, <2>5, <2>6, <2>7, <2>8 DEF Dropped, l, k, x
<1>10. EveryTold'
  BY <1>9 DEF EveryTold
<1>11. Saved(Idle) /\ \A u : ~Of(Idle.pending, u)
  BY EmptySession DEF Idle
<1>12. EverySaved'
  BY <1>2, <1>11 DEF Story, EverySaved
<1>13. EveryOwned'
  <2> SUFFICES ASSUME NEW d \in Clients, NEW u \in Callers, Of(conn'[d].pending, u) PROVE OwnedBy(u, d)'
    BY DEF EveryOwned
  <2>1. d # c /\ OwnedBy(u, d)
    BY <1>2, <1>11 DEF Story, EveryOwned
  <2>2. call'[u] = call[u]
    BY <1>1, <2>1 DEF Dropped, OwnedBy, Holds
  <2> QED
    BY <2>1, <2>2 DEF OwnedBy
<1> QED
  BY <1>10, <1>12, <1>13 DEF Story

-----------------------------------------------------------------------------
(* Every step *)

LEMMA StoryInitially ==
  ASSUME Init
  PROVE  Late /\ Story
<1>1. rows = NoWrites /\ \A c \in Clients : conn[c] = Idle
  BY DEF Init
<1>2. \A t \in Callers : call[t].main = "new" /\ call[t].op = "idle" /\ call[t].error = "none"
  BY DEF Init
<1>3. Saved(Idle) /\ \A u : ~Of(Idle.pending, u) /\ ~Of(NoWrites, u)
  BY EmptySession, NoneOf DEF Idle
<1>4. EveryTold
  BY <1>1, <1>2, <1>3 DEF EveryTold, Told, Lost, Holding
<1>5. EverySaved /\ EveryOwned
  BY <1>1, <1>3 DEF EverySaved, EveryOwned
<1> QED
  BY <1>2, <1>4, <1>5 DEF Late, Story

LEMMA EveryStory ==
  ASSUME UInv, Story, Late, Undisturbed', [Next]_vars
  PROVE  Story'
<1>1. ASSUME NEW t \in Callers, NEW c \in Clients, Connect(t, c) PROVE Story'
  BY <1>1, ConnectStory
<1>2. ASSUME NEW t \in Callers, Operation(t) PROVE Story'
  BY <1>2, IssueStory, SettleStory, BackOffStory DEF Operation
<1>3. ASSUME NEW t \in Callers, TimeOut(t) PROVE FALSE
  <2>1. call'[t].error = "timeout"
    BY <1>3 DEF TimeOut, UInv, Inv, TypeOK
  <2> QED
    BY <2>1 DEF Undisturbed
<1>4. ASSUME NEW t \in Callers, ForceRollback(t) PROVE Story'
  BY <1>4 DEF ForceRollback, Story, EveryTold, EverySaved, EveryOwned, OwnedBy
<1>5. ASSUME NEW c \in Clients, Forced(c) PROVE FALSE
  <2>1. Asker(c) \in Callers
    BY <1>5, HeadIsHonest DEF Forced, Asked, UInv, Inv
  <2>2. call'[Asker(c)].forced
    BY <1>5, <2>1 DEF Forced, UInv, Inv, TypeOK
  <2> QED
    BY <2>1, <2>2 DEF Undisturbed
<1>6. ASSUME NEW c \in Clients, Serve(c) PROVE Story'
  BY <1>5, <1>6, BeginStory, WriteRowStory, SavepointsStory, CommitStory, RollbackStory DEF Serve
<1>7. ASSUME NEW c \in Clients, Deadlock(c) \/ Cancel(c) PROVE Story'
  BY <1>7, FailWriteStory
<1>8. ASSUME NEW c \in Clients, Break(c) PROVE Story'
  BY <1>8, BreakStory
<1>9. CASE UNCHANGED vars
  BY <1>9 DEF vars, Story, EveryTold, EverySaved, EveryOwned, OwnedBy
<1> QED
  BY <1>1, <1>2, <1>3, <1>4, <1>6, <1>7, <1>8, <1>9 DEF Next, Terminated

-----------------------------------------------------------------------------
(* Theorem *)

\* Unless a call timed out or was forced back, all the required statements of a
\* call took effect or none did, a call that was told it succeeded has them all
\* and one that was told it failed has none, except that a connection lost while
\* COMMIT was on its way leaves it open which (withTransaction, withSavepoint).
THEOREM CallsAreToldTheTruth ==
  ASSUME AttemptsAssumption
  PROVE  Spec => []Reported
<1>1. Init => RInv
  BY Initially, UpdatesInitially, StoryInitially DEF RInv, UInv, Updates
<1>2. RInv /\ [Next]_vars => RInv'
  <2> SUFFICES ASSUME RInv, [Next]_vars PROVE RInv'
    OBVIOUS
  <2>1. UInv'
    BY UInvKept DEF RInv
  <2>2. Late' /\ (Undisturbed' => Undisturbed)
    BY StaysDisturbed DEF RInv
  <2>3. Undisturbed' => Story'
    BY <2>2, EveryStory DEF RInv
  <2> QED
    BY <2>1, <2>2, <2>3 DEF RInv
<1>3. RInv => Reported
  <2> SUFFICES ASSUME RInv, Undisturbed PROVE Reported
    BY DEF Reported
  <2>1. \A t \in Callers : \A i \in Required(t) : Applied(t, i) <=> In(rows, t, i)
    BY DEF Applied, In
  <2>2. \A t \in Callers : Told(t, call[t], conn[call[t].client], rows)
    BY DEF RInv, Story, EveryTold
  <2>3. \A t \in Callers : Whole(rows, t) \/ ~Of(rows, t)
    BY <2>2 DEF Told
  <2>4. \A t \in Callers : ~Of(rows, t) => \A i \in Required(t) : ~In(rows, t, i)
    BY InIsOf
  <2>5. BatchAtomic
    BY <2>1, <2>3, <2>4 DEF BatchAtomic, Whole
  <2>6. \A t \in Callers : \A i \in Required(t) :
          /\ call[t].main = "ok" => Applied(t, i)
          /\ call[t].main = "failed" /\ call[t].error # "broken" => ~Applied(t, i)
    BY <2>1, <2>2, <2>4 DEF Told, Lost, Whole
  <2> QED
    BY <2>5, <2>6 DEF Reported
<1> QED
  BY <1>1, <1>2, <1>3, PTL DEF Spec
==============================================================================
