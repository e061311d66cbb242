----------------------------- MODULE LoopProofs -----------------------------
(***************************************************************************)
(* For any events, tasks, flushes, groups and workers: an agent rebuilt    *)
(* from what is stored is the one that its events describe, no appended    *)
(* event is lost unless flushes overlap and one fails, and the groups of a *)
(* replay share the workers until all is handled.  For any callers and     *)
(* tasks: a stopped machine is forgotten, the storage settles on the state *)
(* of the registered one, and calls that do not overlap keep to the table. *)
(***************************************************************************)
EXTENDS EventSourcing, AgentStateMachine, InductionLemmas, SequenceTheorems, FiniteSetTheorems, TLAPS

-----------------------------------------------------------------------------
(* The event store.                                                        *)

Sound == failures = 0 \/ ~overlap
Busy(f) == flush[f].at \in {"begin", "insert", "commit", "rollback"}

\* Whoever has something to write holds it, and knows which of it is next.
BatchHeld ==
  \A f \in Flushers :
    /\ flush[f].at \in {"idle", "select"} => flush[f].batch = <<>>
    /\ flush[f].at = "insert" => flush[f].next \in 1..Len(flush[f].batch)
    /\ flush[f].at = "begin" => flush[f].next = 1 /\ Len(flush[f].batch) > 0
    /\ flush[f].at = "commit" => flush[f].next = Len(flush[f].batch) + 1

\* All that is anywhere was appended, and without overlap or without failure all
\* that was appended is somewhere.
Known ==
  /\ session.rows \subseteq appended /\ table \subseteq appended /\ Store!Elements(buffer) \subseteq appended
  /\ \A f \in Flushers : Store!Elements(flush[f].batch) \subseteq appended
  /\ session.status = "none" => session.rows = {}
Kept ==
  Sound => \A e \in appended :
    e \in Store!Elements(buffer) \/ e \in table \/ \E f \in Flushers : e \in Store!Elements(flush[f].batch)

\* Without overlap one flush at most is at work; without failure nothing is
\* rolled back.
OneFlush == ~overlap => \A f, g \in Flushers : Busy(f) /\ Busy(g) => f = g
NoFailure == failures = 0 => session.status # "failed" /\ \A f \in Flushers : flush[f].at # "rollback"

\* What a flush has inserted is in the table or in the transaction.
Inserted ==
  Sound => \A f \in Flushers : flush[f].at \in {"insert", "commit"} =>
    /\ session.status # "failed"
    /\ \A i \in 1..(flush[f].next - 1) : flush[f].batch[i] \in table \cup session.rows

StoreInv ==
  Store!TypeOK /\ BatchHeld /\ Known /\ Kept /\ OneFlush /\ NoFailure /\ Inserted

\* The events of a sequence that grows at either end.
LEMMA ElementsOf ==
  ASSUME NEW S, NEW s \in Seq(S)
  PROVE  /\ Store!Elements(s) \subseteq S
         /\ Store!Elements(s) = {s[i] : i \in 1..Len(s)}
         /\ (s = <<>> => Store!Elements(s) = {})
         /\ \A e \in S : Store!Elements(Append(s, e)) = Store!Elements(s) \cup {e}
         /\ \A t \in Seq(S) : Store!Elements(s \o t) = Store!Elements(s) \cup Store!Elements(t)
<1>1. ASSUME NEW e \in S PROVE Store!Elements(Append(s, e)) = Store!Elements(s) \cup {e}
  <2>1. Store!Elements(Append(s, e)) \subseteq Store!Elements(s) \cup {e}
    BY DEF Store!Elements
  <2>2. e \in Store!Elements(Append(s, e))
    <3>1. Len(s) + 1 \in DOMAIN Append(s, e) /\ Append(s, e)[Len(s) + 1] = e
      OBVIOUS
    <3> QED
      BY <3>1 DEF Store!Elements
  <2>3. Store!Elements(s) \subseteq Store!Elements(Append(s, e))
    <3> SUFFICES ASSUME NEW i \in DOMAIN s PROVE s[i] \in Store!Elements(Append(s, e))
      BY DEF Store!Elements
    <3>1. i \in DOMAIN Append(s, e) /\ Append(s, e)[i] = s[i]
      OBVIOUS
    <3> QED
      BY <3>1 DEF Store!Elements
  <2> QED
    BY <2>1, <2>2, <2>3
<1>2. ASSUME NEW t \in Seq(S) PROVE Store!Elements(s \o t) = Store!Elements(s) \cup Store!Elements(t)
  <2>0. s \o t \in Seq(S) /\ Len(s \o t) = Len(s) + Len(t)
    BY ConcatProperties
  <2>1. ASSUME NEW i \in DOMAIN (s \o t) PROVE (s \o t)[i] \in Store!Elements(s) \cup Store!Elements(t)
    <3>1. CASE i <= Len(s)
      <4>1. i \in DOMAIN s /\ (s \o t)[i] = s[i]
        BY <3>1, <2>0, ConcatProperties
      <4> QED
        BY <4>1 DEF Store!Elements
    <3>2. CASE i > Len(s)
      <4>1. i - Len(s) \in DOMAIN t /\ (s \o t)[i] = t[i - Len(s)]
        BY <3>2, <2>0, ConcatProperties
      <4> QED
        BY <4>1 DEF Store!Elements
    <3> QED
      BY <3>1, <3>2, <2>0
  <2>2. ASSUME NEW i \in DOMAIN s PROVE s[i] \in Store!Elements(s \o t)
    <3>1. i \in DOMAIN (s \o t) /\ (s \o t)[i] = s[i]
      BY <2>0, ConcatProperties
    <3> QED
      BY <3>1 DEF Store!Elements
  <2>3. ASSUME NEW i \in DOMAIN t PROVE t[i] \in Store!Elements(s \o t)
    <3>1. Len(s) + i \in DOMAIN (s \o t) /\ (s \o t)[Len(s) + i] = t[i]
      BY <2>0, ConcatProperties
    <3> QED
      BY <3>1 DEF Store!Elements
  <2> QED
    BY <2>1, <2>2, <2>3 DEF Store!Elements
<1>3. s = <<>> => Store!Elements(s) = {}
  BY DEF Store!Elements
<1>4. Store!Elements(s) = {s[i] : i \in 1..Len(s)} /\ Store!Elements(s) \subseteq S
  BY DEF Store!Elements
<1> QED
  BY <1>1, <1>2, <1>3, <1>4

LEMMA StoreImplies == StoreInv => Store!TypeOK /\ Store!NoneLost
<1> SUFFICES ASSUME StoreInv, failures = 0 \/ ~overlap
             PROVE  appended = Store!Elements(buffer) \cup Store!Batches \cup table
  BY DEF StoreInv, Store!NoneLost
<1>1. \A f \in Flushers : flush[f].at = "idle" => Store!Elements(flush[f].batch) = {}
  BY DEF StoreInv, BatchHeld, Store!Elements
<1>2. Store!Batches = UNION {Store!Elements(flush[f].batch) : f \in Flushers}
  BY <1>1 DEF Store!Batches, Store!Running
<1> QED
  BY <1>2 DEF StoreInv, Known, Kept, Sound

LEMMA StoreInitially == Store!FailuresAssumption /\ Store!Init => StoreInv
<1> SUFFICES ASSUME Store!FailuresAssumption, Store!Init PROVE StoreInv
  OBVIOUS
<1> USE DEF Store!Init, Store!NotRunning, Store!NoTransaction
<1>1. Store!TypeOK
  <2>1. [at |-> "idle", why |-> "timer", batch |-> <<>>, next |-> 1]
          \in [at : Store!Steps, why : Store!Causes, batch : Seq(Events), next : Nat]
    BY DEF Store!Steps, Store!Causes
  <2>2. flush \in [Flushers -> [at : Store!Steps, why : Store!Causes, batch : Seq(Events), next : Nat]]
    BY <2>1
  <2>3. session \in [status : {"none", "open", "failed"}, rows : SUBSET Events]
    OBVIOUS
  <2>4. failures \in 0..MaxFailures /\ buffer \in Seq(Events) /\ table \subseteq Events /\ appended \subseteq Events
    BY DEF Store!FailuresAssumption
  <2>5. timer \in BOOLEAN /\ overlap \in BOOLEAN
    OBVIOUS
  <2> HIDE DEF Store!Init
  <2> QED
    BY <2>2, <2>3, <2>4, <2>5 DEF Store!TypeOK
<1>2. Known /\ Kept
  BY DEF Known, Kept, Store!Elements
<1> QED
  BY <1>1, <1>2 DEF StoreInv, BatchHeld, OneFlush, NoFailure, Inserted, Busy

-----------------------------------------------------------------------------
\* What a flush is when another value of its type is written to it.
LEMMA FlushMoves ==
  ASSUME Store!TypeOK, NEW f \in Flushers,
         NEW q \in [at : Store!Steps, why : Store!Causes, batch : Seq(Events), next : Nat],
         flush' = [flush EXCEPT ![f] = q]
  PROVE  /\ flush' \in [Flushers -> [at : Store!Steps, why : Store!Causes, batch : Seq(Events), next : Nat]]
         /\ flush'[f] = q /\ \A g \in Flushers : g # f => flush'[g] = flush[g]
BY DEF Store!TypeOK

\* A flush starts with the buffer, and with the events appended just now.
LEMMA StartKeeps ==
  ASSUME StoreInv, NEW f \in Flushers, NEW why \in Store!Causes, NEW events \in Seq(Events), NEW new \in SUBSET Events,
         Store!Start(f, why, events), Store!Elements(events) = Store!Elements(buffer) \cup new,
         appended' = appended \cup new, timer' \in BOOLEAN, UNCHANGED <<table, session, failures>>
  PROVE  StoreInv'
<1> PICK q : q = [at |-> IF events # <<>> THEN "begin" ELSE IF why = "read" THEN "select" ELSE "idle",
                  why |-> why, batch |-> events, next |-> 1]
  OBVIOUS
<1>1. /\ q \in [at : Store!Steps, why : Store!Causes, batch : Seq(Events), next : Nat]
      /\ q.batch = events /\ q.next = 1 /\ q.at \in {"begin", "select", "idle"}
      /\ q.at = "begin" => Len(q.batch) > 0
      /\ q.at = "begin" <=> events # <<>>
  BY DEF Store!Steps
<1>2. /\ flush' = [flush EXCEPT ![f] = q] /\ flush[f].at = "idle" /\ buffer' = <<>>
      /\ overlap' = (overlap \/ (events # <<>> /\ Store!Running # {}))
  BY DEF Store!Start
<1>3. /\ flush' \in [Flushers -> [at : Store!Steps, why : Store!Causes, batch : Seq(Events), next : Nat]]
      /\ flush'[f] = q /\ \A g \in Flushers : g # f => flush'[g] = flush[g]
  BY <1>1, <1>2, FlushMoves DEF StoreInv
<1>4. Store!TypeOK'
  BY <1>2, <1>3 DEF StoreInv, Store!TypeOK
<1>5. BatchHeld'
  <2>1. \A g \in Flushers : g # f => flush'[g] = flush[g]
    BY <1>3
  <2>2. q.at # "insert" /\ q.at # "commit" /\ (q.at # "begin" => q.batch = <<>>)
    BY <1>1
  <2> QED
    BY <1>1, <1>3, <2>1, <2>2 DEF StoreInv, BatchHeld
<1>6. Known'
  <2>1. Store!Elements(buffer)' = {}
    BY <1>2 DEF Store!Elements
  <2>2. Store!Elements(flush'[f].batch) \subseteq appended'
    BY <1>1, <1>3 DEF StoreInv, Known
  <2> QED
    BY <1>3, <2>1, <2>2 DEF StoreInv, Known
<1>7. Kept'
  <2> SUFFICES ASSUME Sound', NEW e \in appended'
               PROVE  e \in table' \/ \E g \in Flushers : e \in Store!Elements(flush'[g].batch)
    BY DEF Kept
  <2>1. Sound
    BY <1>2 DEF Sound
  <2>2. ASSUME NEW g \in Flushers, e \in Store!Elements(flush[g].batch) PROVE g # f
    BY <1>2, <2>2 DEF StoreInv, BatchHeld, Store!Elements
  <2>3. CASE e \in Store!Elements(events)
    BY <1>1, <1>3, <2>3
  <2>4. CASE e \notin Store!Elements(events)
    BY <1>3, <2>1, <2>2, <2>4 DEF StoreInv, Kept
  <2> QED
    BY <2>3, <2>4
<1>8. OneFlush'
  <2> SUFFICES ASSUME ~overlap', NEW g \in Flushers, NEW h \in Flushers, Busy(g)', Busy(h)' PROVE g = h
    BY DEF OneFlush
  <2>1. ~overlap /\ (events = <<>> \/ \A g1 \in Flushers : flush[g1].at = "idle")
    BY <1>2 DEF Store!Running
  <2> QED
    BY <1>1, <1>3, <2>1 DEF StoreInv, OneFlush, Busy
<1>9. NoFailure' /\ Inserted'
  BY <1>1, <1>2, <1>3 DEF StoreInv, NoFailure, Inserted, Sound
<1> QED
  BY <1>4, <1>5, <1>6, <1>7, <1>8, <1>9 DEF StoreInv

\* append, the timer, reads and close.
LEMMA CallsKeep ==
  ASSUME StoreInv,
         \/ \E e \in Events : Store!AppendEvent(e)
         \/ Store!TimerFlush
         \/ \E f \in Flushers : Store!Read(f) \/ Store!Close(f)
  PROVE  StoreInv'
<1> buffer \in Seq(Events) /\ timer \in BOOLEAN
  BY DEF StoreInv, Store!TypeOK
<1>1. ASSUME NEW e \in Events, Store!AppendEvent(e) PROVE StoreInv'
  <2>1. Append(buffer, e) \in Seq(Events) /\ Store!Elements(Append(buffer, e)) = Store!Elements(buffer) \cup {e}
    BY ElementsOf
  <2>2. CASE Len(buffer) + 1 >= BatchSize
    <3>1. PICK f \in Flushers : Store!Start(f, "append", Append(buffer, e))
      BY <1>1, <2>2 DEF Store!AppendEvent
    <3>2. appended' = appended \cup {e} /\ timer' \in BOOLEAN /\ UNCHANGED <<table, session, failures>>
      BY <1>1 DEF Store!AppendEvent
    <3>3. "append" \in Store!Causes /\ {e} \in SUBSET Events
      BY DEF Store!Causes
    <3> QED
      BY <2>1, <3>1, <3>2, <3>3, StartKeeps
  <2>3. CASE ~(Len(buffer) + 1 >= BatchSize)
    <3>1. /\ appended' = appended \cup {e} /\ buffer' = Append(buffer, e)
          /\ UNCHANGED <<flush, overlap, table, session, timer, failures>>
      BY <1>1, <2>3 DEF Store!AppendEvent
    <3>2. Store!Elements(buffer)' = Store!Elements(buffer) \cup {e}
      BY <2>1, <3>1
    <3>3. Store!TypeOK'
      BY <2>1, <3>1 DEF StoreInv, Store!TypeOK
    <3>4. Known' /\ Kept'
      BY <3>1, <3>2 DEF StoreInv, Known, Kept, Sound
    <3>5. BatchHeld' /\ OneFlush' /\ NoFailure' /\ Inserted'
      BY <3>1 DEF StoreInv, BatchHeld, OneFlush, NoFailure, Inserted, Sound, Busy
    <3> QED
      BY <3>3, <3>4, <3>5 DEF StoreInv
  <2> QED
    BY <2>2, <2>3
<1>2. ASSUME NEW f \in Flushers, NEW why \in {"timer", "read", "close"}, Store!Start(f, why, buffer), timer' \in BOOLEAN,
             UNCHANGED <<appended, table, session, failures>>
      PROVE  StoreInv'
  <2>1. why \in Store!Causes /\ {} \in SUBSET Events /\ appended' = appended \cup {}
    BY <1>2 DEF Store!Causes
  <2>2. Store!Elements(buffer) = Store!Elements(buffer) \cup {}
    OBVIOUS
  <2> QED
    BY <1>2, <2>1, <2>2, StartKeeps
<1>3. ASSUME Store!TimerFlush PROVE StoreInv'
  <2>1. PICK f \in Flushers : Store!Start(f, "timer", buffer)
    BY <1>3 DEF Store!TimerFlush
  <2>2. timer' \in BOOLEAN /\ UNCHANGED <<appended, table, session, failures>>
    BY <1>3 DEF Store!TimerFlush
  <2> QED
    BY <1>2, <2>1, <2>2
<1>4. ASSUME NEW f \in Flushers, Store!Read(f) PROVE StoreInv'
  BY <1>2, <1>4 DEF Store!Read
<1>5. ASSUME NEW f \in Flushers, Store!Close(f) PROVE StoreInv'
  BY <1>2, <1>5 DEF Store!Close
<1> QED
  BY <1>1, <1>3, <1>4, <1>5

\* A flush goes on with the batch it has, while the buffer waits.
LEMMA GoesOnKeeps ==
  ASSUME StoreInv, NEW f \in Flushers, Busy(f), NEW q, flush' = [flush EXCEPT ![f] = q],
         q \in [at : Store!Steps, why : Store!Causes, batch : Seq(Events), next : Nat], q.batch = flush[f].batch,
         \/ q.at = "rollback"
         \/ q.at = "insert" /\ q.next \in 1..Len(q.batch)
         \/ q.at = "commit" /\ q.next = Len(q.batch) + 1,
         session' \in [status : {"none", "open", "failed"}, rows : SUBSET Events], failures' \in 0..MaxFailures,
         table \subseteq table', table \cup session.rows \subseteq table' \cup session'.rows,
         table' \cup session'.rows \subseteq appended, session'.status = "none" => session'.rows = {},
         UNCHANGED <<appended, buffer, timer, overlap>>,
         failures' = failures \/ failures' = failures + 1,
         failures' = failures /\ session.status # "failed" =>
           /\ q.at # "rollback" /\ session'.status # "failed"
           /\ \A i \in 1..(q.next - 1) :
                (flush[f].at \in {"insert", "commit"} /\ i < flush[f].next) \/ q.batch[i] \in table' \cup session'.rows,
         failures' = failures /\ session.status = "failed" => q.at = "rollback" /\ session' = session,
         failures' # failures => q.at = "rollback"
  PROVE  StoreInv'
<1>1. /\ flush' \in [Flushers -> [at : Store!Steps, why : Store!Causes, batch : Seq(Events), next : Nat]]
      /\ flush'[f] = q /\ \A g \in Flushers : g # f => flush'[g] = flush[g]
  BY FlushMoves DEF StoreInv
<1>2. Store!TypeOK'
  BY <1>1 DEF StoreInv, Store!TypeOK
<1>3. BatchHeld'
  BY <1>1 DEF StoreInv, BatchHeld
<1>4. \A g \in Flushers : flush'[g].batch = flush[g].batch
  BY <1>1
<1>5. Known'
  BY <1>4 DEF StoreInv, Known
<1>6. failures' \in Nat /\ failures \in Nat /\ (Sound' => Sound)
  BY DEF StoreInv, Store!TypeOK, Sound
<1>7. Kept'
  BY <1>4, <1>6 DEF StoreInv, Kept
<1>8. OneFlush'
  BY <1>1 DEF StoreInv, OneFlush, Busy
<1>9. NoFailure'
  BY <1>1, <1>6 DEF StoreInv, NoFailure
<1>10. Inserted'
  <2> SUFFICES ASSUME Sound', NEW g \in Flushers, flush'[g].at \in {"insert", "commit"}
               PROVE  /\ session'.status # "failed"
                      /\ \A i \in 1..(flush'[g].next - 1) : flush'[g].batch[i] \in table' \cup session'.rows
    BY DEF Inserted
  <2>1. CASE g = f
    <3>1. failures' = failures /\ session.status # "failed" /\ session'.status # "failed"
      BY <1>1, <2>1
    <3> QED
      BY <1>1, <1>6, <2>1, <3>1 DEF StoreInv, Inserted, BatchHeld
  <2>2. CASE g # f
    <3>1. overlap /\ failures' = 0
      BY <1>1, <2>2 DEF StoreInv, OneFlush, Busy, Sound
    <3>2. failures' = failures /\ session.status # "failed"
      BY <1>6, <3>1 DEF StoreInv, NoFailure
    <3> QED
      BY <1>1, <1>6, <2>2, <3>2 DEF StoreInv, Inserted
  <2> QED
    BY <2>1, <2>2
<1> QED
  BY <1>2, <1>3, <1>5, <1>7, <1>8, <1>9, <1>10 DEF StoreInv

\* A flush is over, having written its batch or given it back.
LEMMA EndKeeps ==
  ASSUME StoreInv, NEW f \in Flushers, NEW q, flush' = [flush EXCEPT ![f] = q],
         q \in [at : Store!Steps, why : Store!Causes, batch : Seq(Events), next : Nat],
         q.at \in {"idle", "select"}, q.batch = <<>>,
         session' = Store!NoTransaction \/ UNCHANGED session,
         buffer' \in Seq(Events), UNCHANGED <<appended, timer, overlap, failures>>,
         table \subseteq table', table' \subseteq appended,
         Store!Elements(buffer) \subseteq Store!Elements(buffer'), Store!Elements(buffer') \subseteq appended,
         Sound => \A e \in Store!Elements(flush[f].batch) : e \in Store!Elements(buffer') \/ e \in table',
         \/ table \cup session.rows \subseteq table' \cup session'.rows
         \/ flush[f].at = "rollback"
         \/ session.status = "failed"
  PROVE  StoreInv'
<1>1. /\ flush' \in [Flushers -> [at : Store!Steps, why : Store!Causes, batch : Seq(Events), next : Nat]]
      /\ flush'[f] = q /\ \A g \in Flushers : g # f => flush'[g] = flush[g]
  BY FlushMoves DEF StoreInv
<1>2. /\ session' \in [status : {"none", "open", "failed"}, rows : SUBSET Events]
      /\ session'.rows \subseteq session.rows /\ (session'.status = "failed" => session.status = "failed")
      /\ session'.status = "none" => session'.rows = {}
  BY DEF StoreInv, Store!TypeOK, Known, Store!NoTransaction
<1>3. Store!TypeOK'
  BY <1>1, <1>2 DEF StoreInv, Store!TypeOK
<1>4. BatchHeld'
  BY <1>1 DEF StoreInv, BatchHeld
<1>5. Known'
  <2>1. Store!Elements(q.batch) = {}
    BY DEF Store!Elements
  <2> QED
    BY <1>1, <1>2, <2>1 DEF StoreInv, Known
<1>6. Sound' <=> Sound
  BY DEF Sound
<1>7. Kept'
  <2> SUFFICES ASSUME Sound, NEW e \in appended
               PROVE  \/ e \in Store!Elements(buffer') \/ e \in table'
                      \/ \E g \in Flushers : e \in Store!Elements(flush'[g].batch)
    BY <1>6 DEF Kept
  <2> QED
    BY <1>1 DEF StoreInv, Kept
<1>8. OneFlush' /\ NoFailure'
  BY <1>1, <1>2 DEF StoreInv, OneFlush, Busy, NoFailure
<1>9. Inserted'
  <2> SUFFICES ASSUME Sound, NEW g \in Flushers, flush'[g].at \in {"insert", "commit"}
               PROVE  /\ session'.status # "failed"
                      /\ \A i \in 1..(flush'[g].next - 1) : flush'[g].batch[i] \in table' \cup session'.rows
    BY <1>6 DEF Inserted
  <2>1. g # f /\ flush'[g] = flush[g]
    BY <1>1
  <2>2. session.status # "failed" /\ \A i \in 1..(flush[g].next - 1) : flush[g].batch[i] \in table \cup session.rows
    BY <2>1 DEF StoreInv, Inserted
  <2>3. flush[f].at # "rollback"
    BY <2>1 DEF StoreInv, Sound, OneFlush, NoFailure, Busy
  <2> QED
    BY <1>2, <2>1, <2>2, <2>3
<1> QED
  BY <1>3, <1>4, <1>5, <1>7, <1>8, <1>9 DEF StoreInv

LEMMA FailKeeps ==
  ASSUME StoreInv, NEW f \in Flushers, Busy(f), Store!Fail, Store!Goes(f, "rollback"),
         UNCHANGED <<appended, buffer, table, timer, overlap>>, Store!FailuresAssumption
  PROVE  StoreInv'
<1>1. flush[f] \in [at : Store!Steps, why : Store!Causes, batch : Seq(Events), next : Nat]
  BY DEF StoreInv, Store!TypeOK
<1> PICK q : q = [flush[f] EXCEPT !.at = "rollback"]
  OBVIOUS
<1>2. flush' = [flush EXCEPT ![f] = q]
  BY DEF Store!Goes
<1>3. /\ q \in [at : Store!Steps, why : Store!Causes, batch : Seq(Events), next : Nat]
      /\ q.batch = flush[f].batch /\ q.at = "rollback"
  BY <1>1 DEF Store!Steps
<1>4. /\ session \in [status : {"none", "open", "failed"}, rows : SUBSET Events]
      /\ session.rows \subseteq appended /\ table \subseteq appended /\ (session.status = "none" => session.rows = {})
  BY DEF StoreInv, Store!TypeOK, Known
<1>5. failures' \in 0..MaxFailures /\ failures' = failures + 1 /\ failures' # failures
  BY DEF StoreInv, Store!TypeOK, Store!Fail, Store!FailuresAssumption
<1>6. /\ session' \in [status : {"none", "open", "failed"}, rows : SUBSET Events]
      /\ session'.rows = session.rows /\ (session'.status = "none" => session'.rows = {})
  BY <1>4 DEF Store!Fail
<1> QED
  BY <1>2, <1>3, <1>4, <1>5, <1>6, GoesOnKeeps

LEMMA BeginKeeps ==
  ASSUME StoreInv, Store!FailuresAssumption, NEW f \in Flushers, Store!Begin(f)
  PROVE  StoreInv'
<1> USE DEF Store!Begin
<1>1. flush[f] \in [at : Store!Steps, why : Store!Causes, batch : Seq(Events), next : Nat] /\ flush[f].at = "begin"
  BY DEF StoreInv, Store!TypeOK
<1>2. Busy(f) /\ flush[f].next = 1 /\ Len(flush[f].batch) > 0 /\ Len(flush[f].batch) \in Nat
  BY <1>1 DEF Busy, StoreInv, BatchHeld
<1>3. /\ session \in [status : {"none", "open", "failed"}, rows : SUBSET Events] /\ failures \in 0..MaxFailures
      /\ MaxFailures \in Int => failures \in Nat
      /\ session.rows \subseteq appended /\ table \subseteq appended /\ (session.status = "none" => session.rows = {})
  BY DEF StoreInv, Store!TypeOK, Known
<1>4. CASE session.status = "failed" /\ Store!Goes(f, "rollback") /\ UNCHANGED <<session, failures>>
  <2> PICK q : q = [flush[f] EXCEPT !.at = "rollback"]
    OBVIOUS
  <2>1. flush' = [flush EXCEPT ![f] = q]
    BY <1>4 DEF Store!Goes
  <2>2. /\ q \in [at : Store!Steps, why : Store!Causes, batch : Seq(Events), next : Nat]
        /\ q.batch = flush[f].batch /\ q.at = "rollback"
    BY <1>1 DEF Store!Steps
  <2> QED
    BY <1>2, <1>3, <1>4, <2>1, <2>2, GoesOnKeeps
<1>5. CASE /\ session.status # "failed" /\ session' = [session EXCEPT !.status = "open"] /\ Store!Goes(f, "insert")
           /\ UNCHANGED failures
  <2> PICK q : q = [flush[f] EXCEPT !.at = "insert"]
    OBVIOUS
  <2>1. flush' = [flush EXCEPT ![f] = q]
    BY <1>5 DEF Store!Goes
  <2>2. /\ q \in [at : Store!Steps, why : Store!Causes, batch : Seq(Events), next : Nat]
        /\ q.batch = flush[f].batch /\ q.at = "insert" /\ q.next = 1
    BY <1>1, <1>2 DEF Store!Steps
  <2>3. /\ session' \in [status : {"none", "open", "failed"}, rows : SUBSET Events]
        /\ session'.status = "open" /\ session'.rows = session.rows
    BY <1>3, <1>5
  <2>4. q.next \in 1..Len(q.batch) /\ 1..(q.next - 1) = {}
    BY <1>2, <2>2
  <2> QED
    BY <1>2, <1>3, <1>5, <2>1, <2>2, <2>3, <2>4, GoesOnKeeps
<1>6. CASE Store!Fail /\ Store!Goes(f, "rollback")
  BY <1>2, <1>6, FailKeeps
<1> QED
  BY <1>4, <1>5, <1>6

LEMMA InsertKeeps ==
  ASSUME StoreInv, Store!FailuresAssumption, NEW f \in Flushers, Store!Insert(f)
  PROVE  StoreInv'
<1> DEFINE e == flush[f].batch[flush[f].next]
           at == IF flush[f].next = Len(flush[f].batch) THEN "commit" ELSE "insert"
<1>1. flush[f] \in [at : Store!Steps, why : Store!Causes, batch : Seq(Events), next : Nat] /\ flush[f].at = "insert"
  BY DEF StoreInv, Store!TypeOK, Store!Insert
<1>2. /\ Busy(f) /\ flush[f].next \in 1..Len(flush[f].batch) /\ Len(flush[f].batch) \in Nat
      /\ e \in Events /\ e \in appended
  BY <1>1 DEF Busy, StoreInv, BatchHeld, Known, Store!Elements
<1>3. /\ session \in [status : {"none", "open", "failed"}, rows : SUBSET Events] /\ failures \in 0..MaxFailures
      /\ session.rows \subseteq appended /\ table \subseteq appended /\ (session.status = "none" => session.rows = {})
  BY DEF StoreInv, Store!TypeOK, Known
<1>4. UNCHANGED <<appended, buffer, timer, overlap>>
  BY DEF Store!Insert
<1>5. CASE session.status = "failed" /\ Store!Goes(f, "rollback") /\ UNCHANGED <<session, table, failures>>
  <2>0. PICK q : q = [flush[f] EXCEPT !.at = "rollback"]
    OBVIOUS
  <2>1. flush' = [flush EXCEPT ![f] = q]
    BY <1>5, <2>0 DEF Store!Goes
  <2>2. /\ q \in [at : Store!Steps, why : Store!Causes, batch : Seq(Events), next : Nat]
        /\ q.batch = flush[f].batch /\ q.at = "rollback"
    BY <1>1, <2>0 DEF Store!Steps
  <2> QED
    BY <1>2, <1>3, <1>4, <1>5, <2>1, <2>2, GoesOnKeeps
<1>6. CASE /\ session.status # "failed"
           /\ IF session.status = "open"
              THEN session' = [session EXCEPT !.rows = @ \cup {e}] /\ UNCHANGED table
              ELSE table' = table \cup {e} /\ UNCHANGED session
           /\ flush' = [flush EXCEPT ![f].next = @ + 1, ![f].at = at]
           /\ UNCHANGED failures
  <2>0. PICK q : q = [flush[f] EXCEPT !.next = @ + 1, !.at = at]
    OBVIOUS
  <2>1. flush' = [flush EXCEPT ![f] = q]
    BY <1>6, <2>0
  <2>2. /\ q \in [at : Store!Steps, why : Store!Causes, batch : Seq(Events), next : Nat]
        /\ q.batch = flush[f].batch /\ q.at = at /\ q.next = flush[f].next + 1
    <3>1. flush[f] = [at |-> flush[f].at, why |-> flush[f].why, batch |-> flush[f].batch, next |-> flush[f].next]
      BY <1>1
    <3>2. q = [at |-> at, why |-> flush[f].why, batch |-> flush[f].batch, next |-> flush[f].next + 1]
      BY <2>0, <3>1
    <3>3. at \in Store!Steps
      BY DEF Store!Steps
    <3>4. flush[f].why \in Store!Causes /\ flush[f].batch \in Seq(Events) /\ flush[f].next + 1 \in Nat
      BY <1>1
    <3> HIDE DEF at
    <3>5. q.batch = flush[f].batch /\ q.at = at /\ q.next = flush[f].next + 1
      BY <3>2
    <3> QED
      BY <3>2, <3>3, <3>4, <3>5
  <2>3. \/ q.at = "insert" /\ q.next \in 1..Len(q.batch)
        \/ q.at = "commit" /\ q.next = Len(q.batch) + 1
    <3>1. CASE flush[f].next = Len(flush[f].batch)
      BY <1>2, <2>2, <3>1
    <3>2. CASE flush[f].next # Len(flush[f].batch)
      BY <1>2, <2>2, <3>2
    <3> QED
      BY <3>1, <3>2
  <2>4. /\ session' \in [status : {"none", "open", "failed"}, rows : SUBSET Events]
        /\ session'.status = session.status /\ (session'.status = "none" => session'.rows = {})
        /\ table' \cup session'.rows = (table \cup session.rows) \cup {e}
        /\ table \subseteq table'
    BY <1>2, <1>3, <1>6
  <2>5. ASSUME NEW i \in 1..(q.next - 1)
        PROVE  (flush[f].at \in {"insert", "commit"} /\ i < flush[f].next) \/ q.batch[i] \in table' \cup session'.rows
    BY <1>1, <1>2, <2>2, <2>4
  <2>6. q.at # "rollback" /\ failures' = failures /\ session.status # "failed" /\ session'.status # "failed"
    BY <1>6, <2>3, <2>4
  <2>7. table \cup session.rows \subseteq table' \cup session'.rows /\ table' \cup session'.rows \subseteq appended
    BY <1>2, <1>3, <2>4
  <2> HIDE DEF e, at
  <2> QED
    BY <1>2, <1>3, <1>4, <2>6, <2>7, <2>1, <2>2, <2>3, <2>4, <2>5, GoesOnKeeps
<1>7. CASE Store!Fail /\ Store!Goes(f, "rollback") /\ UNCHANGED table
  BY <1>2, <1>4, <1>7, FailKeeps
<1> QED
  BY <1>5, <1>6, <1>7 DEF Store!Insert

LEMMA CommitKeeps ==
  ASSUME StoreInv, Store!FailuresAssumption, NEW f \in Flushers, Store!Commit(f)
  PROVE  StoreInv'
<1>1. flush[f] \in [at : Store!Steps, why : Store!Causes, batch : Seq(Events), next : Nat] /\ flush[f].at = "commit"
  BY DEF StoreInv, Store!TypeOK, Store!Commit
<1>2. Busy(f) /\ flush[f].next = Len(flush[f].batch) + 1 /\ Len(flush[f].batch) \in Nat
  BY <1>1 DEF Busy, StoreInv, BatchHeld
<1>3. /\ session \in [status : {"none", "open", "failed"}, rows : SUBSET Events] /\ failures \in 0..MaxFailures
      /\ session.rows \subseteq appended /\ table \subseteq appended /\ (session.status = "none" => session.rows = {})
      /\ buffer \in Seq(Events) /\ Store!Elements(buffer) \subseteq appended
  BY DEF StoreInv, Store!TypeOK, Known
<1>4. UNCHANGED <<appended, buffer, timer, overlap>>
  BY DEF Store!Commit
<1>5. CASE /\ table' = IF session.status = "open" THEN table \cup session.rows ELSE table
           /\ session' = Store!NoTransaction /\ Store!Ends(f) /\ UNCHANGED failures
  <2>0. PICK q : q = IF flush[f].why = "read" THEN [flush[f] EXCEPT !.at = "select", !.batch = <<>>] ELSE Store!NotRunning
    OBVIOUS
  <2>1. flush' = [flush EXCEPT ![f] = q]
    BY <1>5, <2>0 DEF Store!Ends
  <2>2. /\ q \in [at : Store!Steps, why : Store!Causes, batch : Seq(Events), next : Nat]
        /\ q.batch = <<>> /\ q.at \in {"idle", "select"}
    <3>1. CASE flush[f].why = "read"
      <4>1. q = [flush[f] EXCEPT !.at = "select", !.batch = <<>>]
        BY <2>0, <3>1
      <4>2. q = [at |-> "select", why |-> flush[f].why, batch |-> <<>>, next |-> flush[f].next]
        BY <1>1, <4>1
      <4>3. "select" \in Store!Steps /\ flush[f].why \in Store!Causes /\ flush[f].next \in Nat /\ <<>> \in Seq(Events)
        BY <1>1 DEF Store!Steps
      <4>4. q.batch = <<>> /\ q.at = "select"
        BY <4>2
      <4>5. q \in [at : Store!Steps, why : Store!Causes, batch : Seq(Events), next : Nat]
        BY <4>2, <4>3
      <4> QED
        BY <4>4, <4>5
    <3>2. CASE flush[f].why # "read"
      BY <2>0, <3>2 DEF Store!Steps, Store!Causes, Store!NotRunning
    <3> QED
      BY <3>1, <3>2
  <2>3. session'.rows = {} /\ (session.status # "failed" => table' = table \cup session.rows)
    BY <1>3, <1>5 DEF Store!NoTransaction
  <2>4. ASSUME Sound, NEW e \in Store!Elements(flush[f].batch) PROVE e \in table'
    <3>1. PICK i \in 1..(flush[f].next - 1) : e = flush[f].batch[i]
      BY <1>1, <1>2 DEF Store!Elements
    <3> QED
      BY <1>1, <2>3, <2>4, <3>1 DEF StoreInv, Inserted
  <2>5. table \subseteq table' /\ table' \subseteq appended
    BY <1>3, <1>5
  <2> QED
    BY <1>3, <1>4, <1>5, <2>1, <2>2, <2>3, <2>4, <2>5, EndKeeps
<1>6. CASE Store!Fail /\ Store!Goes(f, "rollback") /\ UNCHANGED table
  BY <1>2, <1>4, <1>6, FailKeeps
<1> QED
  BY <1>5, <1>6 DEF Store!Commit

LEMMA RollbackKeeps ==
  ASSUME StoreInv, NEW f \in Flushers, Store!Rollback(f)
  PROVE  StoreInv'
<1>1. flush[f] \in [at : Store!Steps, why : Store!Causes, batch : Seq(Events), next : Nat] /\ buffer \in Seq(Events)
  BY DEF StoreInv, Store!TypeOK
<1>2. /\ flush[f].at = "rollback" /\ session' = Store!NoTransaction /\ buffer' = flush[f].batch \o buffer
      /\ flush' = [flush EXCEPT ![f] = Store!NotRunning] /\ UNCHANGED <<appended, table, timer, failures, overlap>>
  BY DEF Store!Rollback, Store!PutBack
<1>3. /\ Store!NotRunning \in [at : Store!Steps, why : Store!Causes, batch : Seq(Events), next : Nat]
      /\ Store!NotRunning.at = "idle" /\ Store!NotRunning.batch = <<>>
  BY DEF Store!Steps, Store!Causes, Store!NotRunning
<1>4. /\ buffer' \in Seq(Events)
      /\ Store!Elements(buffer') = Store!Elements(flush[f].batch) \cup Store!Elements(buffer)
  <2>1. flush[f].batch \in Seq(Events)
    BY <1>1
  <2>2. Store!Elements(flush[f].batch \o buffer) = Store!Elements(flush[f].batch) \cup Store!Elements(buffer)
    BY <1>1, <2>1, ElementsOf
  <2>3. flush[f].batch \o buffer \in Seq(Events)
    BY <1>1, <2>1
  <2> QED
    BY <1>2, <2>2, <2>3
<1>5. table \subseteq appended /\ Store!Elements(buffer') \subseteq appended
  BY <1>4 DEF StoreInv, Known
<1> QED
  BY <1>2, <1>3, <1>4, <1>5, EndKeeps

LEMMA SelectKeeps ==
  ASSUME StoreInv, NEW f \in Flushers, Store!Select(f)
  PROVE  StoreInv'
<1>1. /\ Store!NotRunning \in [at : Store!Steps, why : Store!Causes, batch : Seq(Events), next : Nat]
      /\ Store!NotRunning.at = "idle" /\ Store!NotRunning.batch = <<>>
  BY DEF Store!Steps, Store!Causes, Store!NotRunning
<1>2. buffer \in Seq(Events) /\ table \subseteq appended /\ Store!Elements(buffer) \subseteq appended
  BY DEF StoreInv, Store!TypeOK, Known
<1>3. flush[f].at = "select" /\ flush' = [flush EXCEPT ![f] = Store!NotRunning]
      /\ UNCHANGED <<appended, buffer, table, session, timer, failures, overlap>>
  BY DEF Store!Select
<1>4. Store!Elements(flush[f].batch) = {}
  BY <1>3 DEF StoreInv, BatchHeld, Store!Elements
<1> QED
  BY <1>1, <1>2, <1>3, <1>4, EndKeeps

LEMMA StoreStep ==
  ASSUME StoreInv, Store!FailuresAssumption, [Store!Next]_(Store!vars)
  PROVE  StoreInv'
<1>1. CASE Store!Next
  BY <1>1, CallsKeep, BeginKeeps, InsertKeeps, CommitKeeps, RollbackKeeps, SelectKeeps DEF Store!Next, Store!Step
<1>2. CASE UNCHANGED Store!vars
  BY <1>2 DEF Store!vars, StoreInv, Store!TypeOK, BatchHeld, Known, Kept, OneFlush, NoFailure, Inserted, Sound, Busy
<1> QED
  BY <1>1, <1>2

-----------------------------------------------------------------------------
(* The replay engine.                                                      *)

ActiveOf(r) == {g \in Engine!Groups : r.worker[g].at \in Engine!Active}
QueuedOf(r) == {g \in Engine!Groups : r.worker[g].at = "queued"}

\* The groups that wait are in the queue of the semaphore, once each.
QueueHolds(r) ==
  /\ \A i \in 1..Len(r.queue) : r.queue[i] \in QueuedOf(r)
  /\ \A g \in QueuedOf(r) : \E i \in 1..Len(r.queue) : r.queue[i] = g
  /\ \A i, j \in 1..Len(r.queue) : r.queue[i] = r.queue[j] => i = j

\* The places are taken by groups at work, and none is free while others wait.
PlacesHold(r) ==
  /\ Cardinality(ActiveOf(r)) <= MaxWorkers
  /\ Len(r.queue) > 0 => Cardinality(ActiveOf(r)) = MaxWorkers

\* A group is done when all its events are handled, and failures are within
\* the limit unless a group has thrown.
EventsHold(r, allowed) ==
  /\ \A g \in Engine!Groups :
       /\ r.worker[g].at \in Engine!Active \cup {"queued"} => r.worker[g].handled < EventsOf[g]
       /\ r.worker[g].at = "done" => r.worker[g].handled = EventsOf[g]
  /\ (\A g \in Engine!Groups : r.worker[g].at # "thrown") => r.failed <= allowed
  /\ r.outcome = "completed" => \A g \in Engine!Groups : r.worker[g].at = "done"

ReplayHolds(r, allowed) == r \in Engine!Replays /\ QueueHolds(r) /\ PlacesHold(r) /\ EventsHold(r, allowed)
Allowed == IF stopOnError THEN 0 ELSE MaxFailed
EngineInv == Engine!TypeOK /\ \A n \in DOMAIN replays : ReplayHolds(replays[n], Allowed)

LEMMA Counted ==
  \A S : Engine!Cardinality(S) = Cardinality(S) /\ (Engine!IsFiniteSet(S) <=> IsFiniteSet(S))
<1>1. \A S : Engine!IsFiniteSet(S) <=> IsFiniteSet(S)
  BY DEF Engine!IsFiniteSet, IsFiniteSet
<1>2. \A S : Engine!Cardinality(S) = Cardinality(S)
  BY DEF Engine!Cardinality, Cardinality
<1> QED
  BY <1>1, <1>2

LEMMA GroupFacts ==
  ASSUME Engine!GroupsAssumption
  PROVE  /\ Engine!GroupCount \in Nat /\ Engine!Groups = 1..Engine!GroupCount
         /\ \A g \in Engine!Groups : EventsOf[g] \in Nat /\ EventsOf[g] > 0
         /\ \A r : IsFiniteSet(ActiveOf(r)) /\ Cardinality(ActiveOf(r)) \in Nat
<1>1. /\ Engine!GroupCount \in Nat /\ Engine!Groups = 1..Engine!GroupCount
      /\ \A g \in Engine!Groups : EventsOf[g] \in Nat /\ EventsOf[g] > 0
  BY DEF Engine!GroupsAssumption, Engine!GroupCount, Engine!Groups
<1>2. IsFiniteSet(Engine!Groups)
  BY <1>1, FS_Interval
<1>3. \A r : ActiveOf(r) \in SUBSET Engine!Groups
  BY DEF ActiveOf
<1>4. \A r : IsFiniteSet(ActiveOf(r)) /\ Cardinality(ActiveOf(r)) \in Nat
  BY <1>2, <1>3, FS_Subset, FS_CardinalityType
<1> QED
  BY <1>1, <1>4

LEMMA EngineImplies == Engine!GroupsAssumption /\ EngineInv => Engine!TypeOK /\ Engine!WorkersKept /\ Engine!CompletedIsWhole
<1> SUFFICES ASSUME Engine!GroupsAssumption, EngineInv, NEW n \in DOMAIN replays
             PROVE  /\ Engine!Cardinality(ActiveOf(replays[n])) <= MaxWorkers
                    /\ (QueuedOf(replays[n]) # {} => Engine!Cardinality(ActiveOf(replays[n])) = MaxWorkers)
                    /\ (replays[n].outcome = "completed" =>
                          /\ \A g \in Engine!Groups : replays[n].worker[g].handled = EventsOf[g]
                          /\ replays[n].failed <= Allowed)
  BY DEF EngineInv, Engine!WorkersKept, Engine!CompletedIsWhole, ActiveOf, QueuedOf, Allowed
<1>1. QueueHolds(replays[n]) /\ PlacesHold(replays[n]) /\ EventsHold(replays[n], Allowed) /\ replays[n] \in Engine!Replays
  BY DEF EngineInv, ReplayHolds
<1>2. QueuedOf(replays[n]) # {} => Len(replays[n].queue) > 0
  BY <1>1 DEF QueueHolds, Engine!Replays
<1>3. /\ Engine!Cardinality(ActiveOf(replays[n])) <= MaxWorkers
      /\ (QueuedOf(replays[n]) # {} => Engine!Cardinality(ActiveOf(replays[n])) = MaxWorkers)
  BY <1>1, <1>2, Counted DEF PlacesHold
<1>4. (replays[n].outcome = "completed" =>
          /\ \A g \in Engine!Groups : replays[n].worker[g].handled = EventsOf[g]
          /\ replays[n].failed <= Allowed)
  BY <1>1 DEF EventsHold
<1> QED
  BY <1>3, <1>4

LEMMA EngineInitially == Engine!Init => EngineInv
<1> SUFFICES ASSUME Engine!Init PROVE EngineInv
  OBVIOUS
<1>1. replays = <<>> /\ isRunning = FALSE /\ aborted = FALSE /\ stopOnError \in BOOLEAN
  BY DEF Engine!Init
<1>2. replays \in Seq(Engine!Replays) /\ DOMAIN replays = {}
  BY <1>1
<1> QED
  BY <1>1, <1>2 DEF EngineInv, Engine!TypeOK

-----------------------------------------------------------------------------
\* A group at work goes on.
LEMMA GroupStays ==
  ASSUME Engine!GroupsAssumption, Engine!WorkersAssumption, NEW allowed, NEW r, ReplayHolds(r, allowed), NEW g \in ActiveOf(r),
         NEW s \in Engine!Replays, s.worker[g].at \in Engine!Active, s.worker[g].handled < EventsOf[g],
         \A h \in Engine!Groups : h # g => s.worker[h] = r.worker[h],
         s.queue = r.queue, s.outcome = r.outcome, s.failed = r.failed \/ s.failed <= allowed
  PROVE  ReplayHolds(s, allowed)
<1> USE DEF ReplayHolds
<1>1. g \in Engine!Groups /\ r.worker[g].at \in Engine!Active
  BY DEF ActiveOf
<1>2. ActiveOf(s) = ActiveOf(r) /\ QueuedOf(s) = QueuedOf(r)
  BY <1>1 DEF ActiveOf, QueuedOf, Engine!Active
<1>3. QueueHolds(s)
  BY <1>2 DEF QueueHolds
<1>4. PlacesHold(s)
  BY <1>2 DEF PlacesHold
<1>5. EventsHold(s, allowed)
  BY <1>1 DEF EventsHold, Engine!Active
<1> QED
  BY <1>3, <1>4, <1>5

\* A group at work ends, and hands its place on.
LEMMA GroupEnds ==
  ASSUME Engine!GroupsAssumption, Engine!WorkersAssumption, NEW allowed, NEW r, ReplayHolds(r, allowed), NEW g \in ActiveOf(r),
         NEW s \in Engine!Replays, s.worker[g].at \in {"done", "thrown"},
         s.worker[g].at = "done" => s.worker[g].handled = EventsOf[g],
         \A h \in Engine!Groups : h # g => s.worker[h] = r.worker[h],
         s.queue = r.queue, s.outcome = r.outcome,
         s.worker[g].at = "done" => s.failed = r.failed \/ s.failed <= allowed
  PROVE  ReplayHolds(Engine!Released(s), allowed)
<1> USE DEF ReplayHolds
<1>0. /\ s.worker \in [Engine!Groups -> Engine!Worker] /\ s.queue \in Seq(Engine!Groups)
      /\ r.worker \in [Engine!Groups -> Engine!Worker]
      /\ s = [worker |-> s.worker, queue |-> s.queue, failed |-> s.failed, outcome |-> s.outcome]
  BY DEF Engine!Replays
<1>1. g \in Engine!Groups /\ r.worker[g].at \in Engine!Active /\ r.outcome # "completed"
  BY DEF ActiveOf, EventsHold, Engine!Active
<1>2. ActiveOf(s) = ActiveOf(r) \ {g} /\ QueuedOf(s) = QueuedOf(r) /\ g \notin QueuedOf(r)
  BY <1>1 DEF ActiveOf, QueuedOf, Engine!Active
<1>3. /\ IsFiniteSet(ActiveOf(r)) /\ Cardinality(ActiveOf(r)) \in Nat
      /\ IsFiniteSet(ActiveOf(s)) /\ Cardinality(ActiveOf(s)) \in Nat
      /\ Cardinality(ActiveOf(s)) = Cardinality(ActiveOf(r)) - 1
  BY <1>2, GroupFacts, FS_RemoveElement
<1>4. EventsHold(s, allowed)
  BY <1>1 DEF EventsHold, Engine!Active
<1>5. CASE s.queue = <<>>
  <2>1. Engine!Released(s) = s /\ Len(s.queue) = 0
    BY <1>5 DEF Engine!Released
  <2>2. QueueHolds(s)
    BY <1>2 DEF QueueHolds
  <2>3. PlacesHold(s)
    BY <1>3, <2>1 DEF PlacesHold, Engine!WorkersAssumption
  <2> QED
    BY <1>4, <2>1, <2>2, <2>3
<1>6. CASE s.queue # <<>>
  <2> DEFINE h == Head(s.queue)
             t == Engine!Released(s)
  <2>1. /\ Len(s.queue) > 0 /\ h = s.queue[1] /\ h \in QueuedOf(s) /\ h # g /\ h \in Engine!Groups
        /\ Tail(s.queue) \in Seq(Engine!Groups) /\ Len(Tail(s.queue)) = Len(s.queue) - 1 /\ Len(s.queue) \in Nat
        /\ \A i \in 1..(Len(s.queue) - 1) : Tail(s.queue)[i] = s.queue[i + 1]
    BY <1>0, <1>2, <1>6 DEF QueueHolds, QueuedOf
  <2>2. /\ t = [worker |-> [s.worker EXCEPT ![h].at = "ready"], queue |-> Tail(s.queue),
                 failed |-> s.failed, outcome |-> s.outcome]
    BY <1>0, <1>6 DEF Engine!Released
  <2>3. /\ s.worker[h] = [at |-> s.worker[h].at, handled |-> s.worker[h].handled] /\ s.worker[h].handled \in Nat
        /\ s.worker[h].at = "queued"
    BY <1>0, <2>1 DEF Engine!Worker, QueuedOf
  <2>4. PICK w : w = [at |-> "ready", handled |-> s.worker[h].handled]
    OBVIOUS
  <2>5. t.worker = [s.worker EXCEPT ![h] = w] /\ w \in Engine!Worker
    BY <2>2, <2>3, <2>4 DEF Engine!Worker
  <2> HIDE DEF h
  <2>6. /\ t.worker \in [Engine!Groups -> Engine!Worker] /\ t.worker[h] = w
        /\ \A k \in Engine!Groups : k # h => t.worker[k] = s.worker[k]
    BY <1>0, <2>1, <2>5
  <2>7. t \in Engine!Replays /\ t.queue = Tail(s.queue) /\ t.failed = s.failed /\ t.outcome = s.outcome
    BY <2>1, <2>2, <2>5, <2>6 DEF Engine!Replays
  <2> HIDE DEF t
  <2>8. ActiveOf(t) = ActiveOf(s) \cup {h} /\ QueuedOf(t) = QueuedOf(s) \ {h} /\ h \notin ActiveOf(s)
    BY <2>1, <2>3, <2>4, <2>6 DEF ActiveOf, QueuedOf, Engine!Active
  <2>9. QueueHolds(t)
    <3>1. ASSUME NEW i \in 1..Len(t.queue) PROVE t.queue[i] \in QueuedOf(t)
      <4>1. t.queue[i] = s.queue[i + 1] /\ i + 1 \in 1..Len(s.queue) /\ 1 \in 1..Len(s.queue) /\ i + 1 # 1
        BY <2>1, <2>7
      <4> QED
        BY <1>2, <2>1, <2>8, <4>1 DEF QueueHolds
    <3>2. ASSUME NEW k \in QueuedOf(t) PROVE \E i \in 1..Len(t.queue) : t.queue[i] = k
      <4>1. PICK i \in 1..Len(s.queue) : s.queue[i] = k
        BY <1>2, <2>8 DEF QueueHolds
      <4>2. i # 1 /\ i - 1 \in 1..Len(t.queue) /\ t.queue[i - 1] = s.queue[i]
        BY <2>1, <2>7, <2>8, <4>1
      <4> QED
        BY <4>1, <4>2
    <3>3. ASSUME NEW i \in 1..Len(t.queue), NEW j \in 1..Len(t.queue), t.queue[i] = t.queue[j] PROVE i = j
      <4>1. /\ t.queue[i] = s.queue[i + 1] /\ i + 1 \in 1..Len(s.queue)
            /\ t.queue[j] = s.queue[j + 1] /\ j + 1 \in 1..Len(s.queue)
        BY <2>1, <2>7
      <4>2. \A k, l \in 1..Len(s.queue) : s.queue[k] = s.queue[l] => k = l
        BY DEF QueueHolds
      <4>3. s.queue[i + 1] = s.queue[j + 1]
        BY <3>3, <4>1
      <4>4. i + 1 = j + 1
        BY <4>1, <4>2, <4>3
      <4> QED
        BY <4>4
    <3> QED
      BY <3>1, <3>2, <3>3 DEF QueueHolds
  <2>10. PlacesHold(t)
    <3>1. Cardinality(ActiveOf(t)) = Cardinality(ActiveOf(r))
      <4>1. Cardinality(ActiveOf(t)) = Cardinality(ActiveOf(s)) + 1
        BY <1>3, <2>8, FS_AddElement
      <4> QED
        BY <1>3, <4>1
    <3> QED
      BY <2>1, <3>1 DEF PlacesHold
  <2>11. EventsHold(t, allowed)
    <3>1. s.outcome # "completed"
      BY <1>1
    <3>2. \A k \in Engine!Groups : t.worker[k].handled = s.worker[k].handled /\ (t.worker[k].at # s.worker[k].at => k = h)
      BY <2>4, <2>6
    <3> QED
      BY <1>4, <2>3, <2>4, <2>6, <2>7, <3>1, <3>2 DEF EventsHold, Engine!Active
  <2> QED
    BY <2>7, <2>9, <2>10, <2>11 DEF t
<1> QED
  BY <1>5, <1>6

\* The replay is settled by what its groups became.
LEMMA Settled ==
  ASSUME NEW allowed, NEW r, ReplayHolds(r, allowed)
  PROVE  ReplayHolds([r EXCEPT !.outcome = Engine!Settles(r)], allowed)
<1> DEFINE s == [r EXCEPT !.outcome = Engine!Settles(r)]
<1>1. r = [worker |-> r.worker, queue |-> r.queue, failed |-> r.failed, outcome |-> r.outcome] /\ r \in Engine!Replays
  BY DEF ReplayHolds, Engine!Replays
<1>2. Engine!Settles(r) \in {"none", "completed", "rejected"}
  BY <1>1 DEF Engine!Settles, Engine!Replays
<1>3. Engine!Settles(r) = "completed" => \A g \in Engine!Groups : r.worker[g].at = "done"
  BY DEF Engine!Settles, ReplayHolds, EventsHold
<1>4. s = [worker |-> r.worker, queue |-> r.queue, failed |-> r.failed, outcome |-> Engine!Settles(r)]
  BY <1>1
<1>5. s \in Engine!Replays
  BY <1>1, <1>2, <1>4 DEF Engine!Replays
<1>6. s.worker = r.worker /\ s.queue = r.queue /\ s.failed = r.failed /\ s.outcome = Engine!Settles(r)
  BY <1>4
<1> HIDE DEF s
<1>7. ActiveOf(s) = ActiveOf(r) /\ QueuedOf(s) = QueuedOf(r)
  BY <1>6 DEF ActiveOf, QueuedOf
<1>8. QueueHolds(s) /\ PlacesHold(s)
  BY <1>6, <1>7 DEF ReplayHolds, QueueHolds, PlacesHold
<1>9. EventsHold(s, allowed)
  BY <1>3, <1>6 DEF ReplayHolds, EventsHold
<1>10. ReplayHolds(s, allowed)
  BY <1>5, <1>8, <1>9 DEF ReplayHolds
<1> QED
  BY <1>10 DEF s

\* A step of one replay.
LEMMA BecomeKeeps ==
  ASSUME EngineInv, NEW n \in DOMAIN replays, NEW r, ReplayHolds(r, Allowed), Engine!Become(n, r)
  PROVE  EngineInv'
<1> PICK s : s = [r EXCEPT !.outcome = Engine!Settles(r)]
  OBVIOUS
<1>1. ReplayHolds(s, Allowed)
  BY Settled
<1>2. /\ replays' = [replays EXCEPT ![n] = s] /\ isRunning' \in BOOLEAN /\ UNCHANGED <<aborted, stopOnError>>
      /\ replays \in Seq(Engine!Replays) /\ isRunning \in BOOLEAN /\ aborted \in BOOLEAN /\ stopOnError \in BOOLEAN
  BY DEF Engine!Become, EngineInv, Engine!TypeOK
<1>3. s \in Engine!Replays
  BY <1>1 DEF ReplayHolds
<1>4. /\ replays' \in Seq(Engine!Replays) /\ DOMAIN replays' = DOMAIN replays
      /\ \A m \in DOMAIN replays : replays'[m] = IF m = n THEN s ELSE replays[m]
  BY <1>2, <1>3
<1>5. Allowed' = Allowed
  BY <1>2 DEF Allowed
<1>6. \A m \in DOMAIN replays : ReplayHolds(replays[m], Allowed)
  BY DEF EngineInv
<1>7. \A m \in DOMAIN replays' : ReplayHolds(replays'[m], Allowed')
  BY <1>1, <1>4, <1>5, <1>6
<1>8. Engine!TypeOK'
  BY <1>2, <1>4 DEF Engine!TypeOK
<1> QED
  BY <1>7, <1>8 DEF EngineInv

\* The first groups are at work, the others wait in turn.
LEMMA FirstReplay ==
  ASSUME Engine!GroupsAssumption, Engine!WorkersAssumption, NEW allowed \in Nat, NEW r,
         r = [worker |-> [g \in Engine!Groups |-> [at |-> IF g <= MaxWorkers THEN "ready" ELSE "queued", handled |-> 0]],
              queue |-> Engine!Waiting,
              failed |-> 0, outcome |-> IF Engine!GroupCount = 0 THEN "completed" ELSE "none"]
  PROVE  ReplayHolds(r, allowed)
<1> DEFINE K == IF Engine!GroupCount > MaxWorkers THEN Engine!GroupCount - MaxWorkers ELSE 0
<1>1. /\ Engine!GroupCount \in Nat /\ Engine!Groups = 1..Engine!GroupCount /\ MaxWorkers \in Nat /\ MaxWorkers > 0
      /\ \A g \in Engine!Groups : EventsOf[g] \in Nat /\ EventsOf[g] > 0
  BY GroupFacts DEF Engine!WorkersAssumption
<1>2. K \in Nat /\ 1..(Engine!GroupCount - MaxWorkers) = 1..K
  BY <1>1
<1>3. Engine!Waiting = [i \in 1..K |-> MaxWorkers + i]
  BY <1>2 DEF Engine!Waiting
<1>4. \A i \in 1..K : MaxWorkers + i \in Engine!Groups
  BY <1>1
<1>5. /\ Engine!Waiting \in Seq(Engine!Groups) /\ Len(Engine!Waiting) = K
      /\ \A i \in 1..K : Engine!Waiting[i] = MaxWorkers + i
  <2> HIDE DEF K
  <2>1. [i \in 1..K |-> MaxWorkers + i] \in [1..K -> Engine!Groups]
    BY <1>4
  <2>2. [i \in 1..K |-> MaxWorkers + i] \in Seq(Engine!Groups)
    BY <1>2, <2>1, SeqDef
  <2> QED
    BY <1>2, <1>3, <2>1, <2>2, LenProperties
<1>6. /\ r.queue = Engine!Waiting /\ r.failed = 0 /\ r.outcome \in {"none", "completed"}
      /\ r.worker = [g \in Engine!Groups |-> [at |-> IF g <= MaxWorkers THEN "ready" ELSE "queued", handled |-> 0]]
      /\ r.outcome = "completed" => Engine!GroupCount = 0
  OBVIOUS
<1>7. \A g \in Engine!Groups : /\ r.worker[g].at = (IF g <= MaxWorkers THEN "ready" ELSE "queued")
                               /\ r.worker[g].handled = 0 /\ r.worker[g] \in Engine!Worker
  BY <1>6 DEF Engine!Worker
<1>8. r.worker \in [Engine!Groups -> Engine!Worker]
  BY <1>6, <1>7
<1>9. r \in Engine!Replays
  BY <1>5, <1>6, <1>8 DEF Engine!Replays
<1>10. /\ ActiveOf(r) = {g \in Engine!Groups : g <= MaxWorkers}
       /\ QueuedOf(r) = {g \in Engine!Groups : g > MaxWorkers}
  BY <1>1, <1>7 DEF ActiveOf, QueuedOf, Engine!Active
<1>11. QueueHolds(r)
  <2>1. \A g \in QueuedOf(r) : g - MaxWorkers \in 1..K /\ MaxWorkers + (g - MaxWorkers) = g
    BY <1>1, <1>10
  <2>2. \A i \in 1..K : MaxWorkers + i \in QueuedOf(r)
    <3> SUFFICES ASSUME NEW i \in 1..K PROVE MaxWorkers + i \in QueuedOf(r)
      OBVIOUS
    <3>1. MaxWorkers + i \in Engine!Groups
      BY <1>4
    <3> HIDE DEF K
    <3>2. MaxWorkers + i > MaxWorkers
      BY <1>1, <1>2
    <3> QED
      BY <1>10, <3>1, <3>2
  <2> HIDE DEF K
  <2>3. \A i, j \in 1..K : MaxWorkers + i = MaxWorkers + j => i = j
    BY <1>1, <1>2
  <2>4. \A g \in QueuedOf(r) : \E i \in 1..K : r.queue[i] = g
    BY <1>5, <1>6, <2>1
  <2> QED
    BY <1>5, <1>6, <2>2, <2>3, <2>4 DEF QueueHolds
<1>12. PlacesHold(r)
  <2>1. CASE Engine!GroupCount > MaxWorkers
    <3>1. ActiveOf(r) = 1..MaxWorkers
      <4>1. \A g : g \in 1..MaxWorkers <=> g \in 1..Engine!GroupCount /\ g <= MaxWorkers
        BY <1>1, <2>1
      <4> QED
        BY <1>1, <1>10, <4>1, Zenon
    <3>2. Cardinality(1..MaxWorkers) = MaxWorkers
      BY <1>1, FS_Interval
    <3> QED
      BY <1>1, <3>1, <3>2 DEF PlacesHold
  <2>2. CASE ~(Engine!GroupCount > MaxWorkers)
    <3>1. ActiveOf(r) = 1..Engine!GroupCount /\ Len(r.queue) = 0
      <4>1. \A g : g \in 1..Engine!GroupCount <=> g \in 1..Engine!GroupCount /\ g <= MaxWorkers
        BY <1>1, <2>2
      <4>2. Len(r.queue) = 0
        BY <1>5, <1>6, <2>2
      <4> QED
        BY <1>1, <1>10, <4>1, <4>2, Zenon
    <3>2. Cardinality(1..Engine!GroupCount) = Engine!GroupCount
      BY <1>1, FS_Interval
    <3> QED
      BY <1>1, <2>2, <3>1, <3>2 DEF PlacesHold
  <2> QED
    BY <2>1, <2>2
<1>13. EventsHold(r, allowed)
  <2>1. r.outcome = "completed" => Engine!Groups = {}
    BY <1>1, <1>6
  <2>2. \A g \in Engine!Groups : r.worker[g].at # "done" /\ r.worker[g].handled < EventsOf[g]
    BY <1>1, <1>7
  <2> QED
    BY <1>6, <2>1, <2>2 DEF EventsHold
<1> QED
  BY <1>9, <1>11, <1>12, <1>13 DEF ReplayHolds

LEMMA ReplayKeeps ==
  ASSUME Engine!GroupsAssumption, Engine!WorkersAssumption, Engine!BoundsAssumption, EngineInv, Engine!Replay
  PROVE  EngineInv'
<1> PICK r : r = [worker |-> [g \in Engine!Groups |-> [at |-> IF g <= MaxWorkers THEN "ready" ELSE "queued", handled |-> 0]],
              queue |-> Engine!Waiting,
              failed |-> 0, outcome |-> IF Engine!GroupCount = 0 THEN "completed" ELSE "none"]
  OBVIOUS
<1>1. Allowed \in Nat /\ Allowed' = Allowed
  BY DEF Allowed, Engine!BoundsAssumption, Engine!Replay
<1>2. ReplayHolds(r, Allowed)
  BY <1>1, FirstReplay
<1>3. /\ replays' = Append(replays, r) /\ isRunning' \in BOOLEAN /\ aborted' = FALSE /\ stopOnError' = stopOnError
      /\ replays \in Seq(Engine!Replays) /\ stopOnError \in BOOLEAN
  BY DEF Engine!Replay, EngineInv, Engine!TypeOK
<1>4. r \in Engine!Replays
  BY <1>2 DEF ReplayHolds
<1>5. /\ replays' \in Seq(Engine!Replays) /\ DOMAIN replays' = 1..(Len(replays) + 1)
      /\ \A m \in DOMAIN replays : replays'[m] = replays[m]
      /\ replays'[Len(replays) + 1] = r /\ DOMAIN replays = 1..Len(replays) /\ Len(replays) \in Nat
  BY <1>3, <1>4
<1>6. \A m \in DOMAIN replays : ReplayHolds(replays[m], Allowed)
  BY DEF EngineInv
<1>7. \A m \in DOMAIN replays' : ReplayHolds(replays'[m], Allowed')
  <2> SUFFICES ASSUME NEW m \in DOMAIN replays' PROVE ReplayHolds(replays'[m], Allowed)
    BY <1>1
  <2>1. CASE m = Len(replays) + 1
    BY <1>2, <1>5, <2>1
  <2>2. CASE m # Len(replays) + 1
    <3>1. m \in DOMAIN replays
      BY <1>5, <2>2
    <3> QED
      BY <1>5, <1>6, <3>1
  <2> QED
    BY <2>1, <2>2
<1>8. Engine!TypeOK'
  BY <1>3, <1>5 DEF Engine!TypeOK
<1> QED
  BY <1>7, <1>8 DEF EngineInv

\* What becomes of a replay when one group of it has moved.
\* s is r but for one worker, which becomes w, and the failed; or but for where
\* one worker is.
GroupSet(s, r, g, w, failed) == s = [r EXCEPT !.worker[g] = w, !.failed = failed]
StateSet(s, r, g, at) == s = [r EXCEPT !.worker[g].at = at]

LEMMA GroupMoves ==
  ASSUME NEW r \in Engine!Replays, NEW g \in Engine!Groups, NEW w \in Engine!Worker, NEW failed \in Nat, NEW s,
         GroupSet(s, r, g, w, failed)
  PROVE  /\ s \in Engine!Replays /\ s.worker[g] = w /\ s.failed = failed /\ s.queue = r.queue /\ s.outcome = r.outcome
         /\ \A h \in Engine!Groups : h # g => s.worker[h] = r.worker[h]
<1>1. r = [worker |-> r.worker, queue |-> r.queue, failed |-> r.failed, outcome |-> r.outcome]
  BY DEF Engine!Replays
<1>2. s = [worker |-> [r.worker EXCEPT ![g] = w], queue |-> r.queue, failed |-> failed, outcome |-> r.outcome]
  BY <1>1 DEF GroupSet
<1>3. r.worker \in [Engine!Groups -> Engine!Worker] /\ [r.worker EXCEPT ![g] = w] \in [Engine!Groups -> Engine!Worker]
  BY DEF Engine!Replays
<1>4. s.worker = [r.worker EXCEPT ![g] = w] /\ s.queue = r.queue /\ s.failed = failed /\ s.outcome = r.outcome
  BY <1>2
<1>5. s \in Engine!Replays
  BY <1>2, <1>3 DEF Engine!Replays
<1> QED
  BY <1>3, <1>4, <1>5

LEMMA StateMoves ==
  ASSUME NEW r \in Engine!Replays, NEW g \in Engine!Groups, NEW at \in {"queued", "ready", "handling", "done", "thrown"}, NEW s,
         StateSet(s, r, g, at)
  PROVE  /\ s \in Engine!Replays /\ s.worker[g].at = at /\ s.worker[g].handled = r.worker[g].handled
         /\ s.failed = r.failed /\ s.queue = r.queue /\ s.outcome = r.outcome
         /\ \A h \in Engine!Groups : h # g => s.worker[h] = r.worker[h]
<1>1. PICK w : w = [at |-> at, handled |-> r.worker[g].handled]
  OBVIOUS
<1>2. /\ r = [worker |-> r.worker, queue |-> r.queue, failed |-> r.failed, outcome |-> r.outcome]
      /\ r.worker \in [Engine!Groups -> Engine!Worker] /\ r.failed \in Nat /\ r.worker[g] \in Engine!Worker
  BY DEF Engine!Replays
<1>3. r.worker[g] = [at |-> r.worker[g].at, handled |-> r.worker[g].handled] /\ r.worker[g].handled \in Nat
  BY <1>2 DEF Engine!Worker
<1>4. [r.worker[g] EXCEPT !.at = at] = w
  BY <1>1, <1>3
<1>5. s = [r EXCEPT !.worker = [r.worker EXCEPT ![g] = w]]
  BY <1>2, <1>4 DEF StateSet
<1>6. s = [worker |-> [r.worker EXCEPT ![g] = w], queue |-> r.queue, failed |-> r.failed, outcome |-> r.outcome]
  BY <1>2, <1>5
<1>7. w \in Engine!Worker /\ w.at = at /\ w.handled = r.worker[g].handled
  BY <1>1, <1>3 DEF Engine!Worker
<1>8. [r.worker EXCEPT ![g] = w] \in [Engine!Groups -> Engine!Worker] /\ r \in Engine!Replays
  BY <1>2, <1>7
<1>9. s \in Engine!Replays
  <2>1. r.queue \in Seq(Engine!Groups) /\ r.failed \in Nat /\ r.outcome \in {"none", "completed", "rejected"}
    BY DEF Engine!Replays
  <2> QED
    BY <1>6, <1>8, <2>1 DEF Engine!Replays
<1>10. s.worker = [r.worker EXCEPT ![g] = w] /\ s.queue = r.queue /\ s.failed = r.failed /\ s.outcome = r.outcome
  BY <1>6
<1> QED
  BY <1>2, <1>7, <1>9, <1>10

\* A group takes an event, or sees the abort.
LEMMA TakeKeeps ==
  ASSUME Engine!GroupsAssumption, Engine!WorkersAssumption, EngineInv,
         NEW n \in DOMAIN replays, NEW g \in Engine!Groups, Engine!Take(n, g)
  PROVE  EngineInv'
<1> DEFINE r == replays[n]
<1>1. ReplayHolds(r, Allowed)
  BY DEF EngineInv
<1>2. /\ r \in Engine!Replays /\ r.worker[g] \in Engine!Worker /\ r.worker[g].at = "ready" /\ r.failed \in Nat
      /\ r = [worker |-> r.worker, queue |-> r.queue, failed |-> r.failed, outcome |-> r.outcome]
      /\ r.worker \in [Engine!Groups -> Engine!Worker]
  BY <1>1 DEF ReplayHolds, Engine!Take, Engine!Replays
<1>3. r.worker[g] = [at |-> "ready", handled |-> r.worker[g].handled] /\ r.worker[g].handled \in Nat
  BY <1>2 DEF Engine!Worker
<1>4. g \in ActiveOf(r) /\ r.worker[g].handled < EventsOf[g]
  BY <1>1, <1>2 DEF ActiveOf, Engine!Active, ReplayHolds, EventsHold
<1>5. CASE aborted
  <2>2. PICK s : s = [r EXCEPT !.worker[g].at = "thrown"]
    OBVIOUS
  <2>3. Engine!Become(n, Engine!Released(s))
    BY <1>5, <2>2 DEF Engine!Take, Engine!EndGroup, Engine!AfterGroup
  <2> HIDE DEF r
  <2>4. StateSet(s, r, g, "thrown")
    BY <2>2 DEF StateSet
  <2>6. /\ s \in Engine!Replays /\ s.worker[g].at = "thrown" /\ s.worker[g].handled = r.worker[g].handled
        /\ s.queue = r.queue /\ s.outcome = r.outcome /\ s.failed = r.failed
        /\ \A h \in Engine!Groups : h # g => s.worker[h] = r.worker[h]
    BY <1>2, <2>4, StateMoves
  <2>7. ReplayHolds(Engine!Released(s), Allowed)
    BY <1>1, <1>4, <2>6, GroupEnds
  <2> QED
    BY <2>3, <2>7, BecomeKeeps
<1>6. CASE ~aborted
  <2>2. PICK s : s = [r EXCEPT !.worker[g].at = "handling"]
    OBVIOUS
  <2>3. Engine!Become(n, s)
    BY <1>6, <2>2 DEF Engine!Take
  <2> HIDE DEF r
  <2>4. StateSet(s, r, g, "handling")
    BY <2>2 DEF StateSet
  <2>6. /\ s \in Engine!Replays /\ s.worker[g].at = "handling" /\ s.worker[g].handled = r.worker[g].handled
        /\ s.queue = r.queue /\ s.outcome = r.outcome /\ s.failed = r.failed
        /\ \A h \in Engine!Groups : h # g => s.worker[h] = r.worker[h]
    BY <1>2, <2>4, StateMoves
  <2>7. ReplayHolds(s, Allowed)
    BY <1>1, <1>4, <2>6, GroupStays DEF Engine!Active
  <2> QED
    BY <2>3, <2>7, BecomeKeeps
<1> QED
  BY <1>5, <1>6

\* A group has handled an event, with so many failures in all.
LEMMA HandledKeeps ==
  ASSUME Engine!GroupsAssumption, Engine!WorkersAssumption, NEW allowed, NEW r, ReplayHolds(r, allowed),
         NEW g \in Engine!Groups, r.worker[g].at = "handling",
         NEW failed \in Nat, failed = r.failed \/ failed <= allowed, NEW q, q = [r EXCEPT !.failed = failed]
  PROVE  ReplayHolds(Engine!AfterEvent(q, g), allowed)
<1>1. /\ r \in Engine!Replays /\ r.worker[g] \in Engine!Worker
      /\ r = [worker |-> r.worker, queue |-> r.queue, failed |-> r.failed, outcome |-> r.outcome]
      /\ r.worker \in [Engine!Groups -> Engine!Worker]
  BY DEF ReplayHolds, Engine!Replays
<1>2. r.worker[g] = [at |-> "handling", handled |-> r.worker[g].handled] /\ r.worker[g].handled \in Nat
  BY <1>1 DEF Engine!Worker
<1>3. g \in ActiveOf(r) /\ r.worker[g].handled < EventsOf[g] /\ EventsOf[g] \in Nat
  BY <1>1, GroupFacts DEF ActiveOf, Engine!Active, ReplayHolds, EventsHold
<1>4. q = [worker |-> r.worker, queue |-> r.queue, failed |-> failed, outcome |-> r.outcome]
  BY <1>1
<1>5. PICK k : k = r.worker[g].handled + 1
  OBVIOUS
<1>6. PICK s : s = [q EXCEPT !.worker[g].handled = @ + 1]
  OBVIOUS
<1>7. s = [worker |-> [r.worker EXCEPT ![g] = [at |-> "handling", handled |-> k]], queue |-> r.queue,
           failed |-> failed, outcome |-> r.outcome]
  BY <1>2, <1>4, <1>5, <1>6
<1>8. s.worker[g].handled = k /\ s.worker[g] = [at |-> "handling", handled |-> k] /\ k \in Nat
  BY <1>1, <1>2, <1>5, <1>7
<1>9. CASE k = EventsOf[g]
  <2>1. PICK w : w = [at |-> "done", handled |-> k]
    OBVIOUS
  <2>2. PICK t : t = [s EXCEPT !.worker[g].at = "done"]
    OBVIOUS
  <2>3. Engine!AfterEvent(q, g) = Engine!Released(t)
    BY <1>6, <1>8, <1>9, <2>2 DEF Engine!AfterEvent, Engine!EndGroup, Engine!AfterGroup
  <2>4. w \in Engine!Worker /\ w.at = "done" /\ w.handled = EventsOf[g]
    BY <1>8, <1>9, <2>1 DEF Engine!Worker
  <2>5. GroupSet(t, r, g, w, failed)
    BY <1>1, <1>7, <1>8, <2>1, <2>2 DEF GroupSet
  <2>6. /\ t \in Engine!Replays /\ t.worker[g] = w /\ t.queue = r.queue /\ t.outcome = r.outcome /\ t.failed = failed
        /\ \A h \in Engine!Groups : h # g => t.worker[h] = r.worker[h]
    BY <1>1, <2>4, <2>5, GroupMoves
  <2>7. ReplayHolds(Engine!Released(t), allowed)
    BY <1>3, <2>4, <2>6, GroupEnds
  <2> QED
    BY <2>3, <2>7
<1>10. CASE k # EventsOf[g]
  <2>1. PICK w : w = [at |-> "ready", handled |-> k]
    OBVIOUS
  <2>2. PICK t : t = [s EXCEPT !.worker[g].at = "ready"]
    OBVIOUS
  <2>3. Engine!AfterEvent(q, g) = t
    BY <1>6, <1>8, <1>10, <2>2 DEF Engine!AfterEvent
  <2>4. w \in Engine!Worker /\ w.at \in Engine!Active /\ w.handled < EventsOf[g]
    BY <1>3, <1>5, <1>8, <1>10, <2>1, <1>2 DEF Engine!Worker, Engine!Active
  <2>5. GroupSet(t, r, g, w, failed)
    BY <1>1, <1>7, <1>8, <2>1, <2>2 DEF GroupSet
  <2>6. /\ t \in Engine!Replays /\ t.worker[g] = w /\ t.queue = r.queue /\ t.outcome = r.outcome /\ t.failed = failed
        /\ \A h \in Engine!Groups : h # g => t.worker[h] = r.worker[h]
    BY <1>1, <2>4, <2>5, GroupMoves
  <2>7. ReplayHolds(t, allowed)
    BY <1>3, <2>4, <2>6, GroupStays
  <2> QED
    BY <2>3, <2>7
<1> QED
  BY <1>9, <1>10

LEMMA ProcessedKeeps ==
  ASSUME Engine!GroupsAssumption, Engine!WorkersAssumption, EngineInv,
         NEW n \in DOMAIN replays, NEW g \in Engine!Groups, Engine!Processed(n, g)
  PROVE  EngineInv'
<1>1. PICK r : r = replays[n]
  OBVIOUS
<1>2. ReplayHolds(r, Allowed) /\ r.worker[g].at = "handling" /\ Engine!Become(n, Engine!AfterEvent(r, g))
  BY <1>1 DEF EngineInv, Engine!Processed
<1>3. r.failed \in Nat /\ r = [r EXCEPT !.failed = r.failed]
  BY <1>2 DEF ReplayHolds, Engine!Replays
<1>4. ReplayHolds(Engine!AfterEvent(r, g), Allowed)
  BY <1>2, <1>3, HandledKeeps
<1> QED
  BY <1>2, <1>4, BecomeKeeps

LEMMA FailedKeeps ==
  ASSUME Engine!GroupsAssumption, Engine!WorkersAssumption, Engine!BoundsAssumption, EngineInv,
         NEW n \in DOMAIN replays, NEW g \in Engine!Groups, Engine!Failed(n, g)
  PROVE  EngineInv'
<1>1. PICK r : r = replays[n]
  OBVIOUS
<1>2. PICK s : s = [r EXCEPT !.failed = @ + 1]
  OBVIOUS
<1>3. ReplayHolds(r, Allowed) /\ r.worker[g].at = "handling"
  BY <1>1 DEF EngineInv, Engine!Failed
<1>4. /\ r \in Engine!Replays /\ r.worker[g] \in Engine!Worker /\ r.failed \in Nat
      /\ r = [worker |-> r.worker, queue |-> r.queue, failed |-> r.failed, outcome |-> r.outcome]
      /\ r.worker \in [Engine!Groups -> Engine!Worker]
  BY <1>3 DEF ReplayHolds, Engine!Replays
<1>5. /\ s = [worker |-> r.worker, queue |-> r.queue, failed |-> r.failed + 1, outcome |-> r.outcome]
      /\ s = [r EXCEPT !.failed = r.failed + 1] /\ s.failed = r.failed + 1 /\ s.worker = r.worker
  BY <1>2, <1>4
<1>6. r.worker[g] = [at |-> "handling", handled |-> r.worker[g].handled] /\ r.worker[g].handled \in Nat
  BY <1>3, <1>4 DEF Engine!Worker
<1>7. CASE stopOnError \/ Engine!TooManyFailures(s.failed)
  <2>2. PICK t : t = [s EXCEPT !.worker[g].at = "thrown"]
    OBVIOUS
  <2>3. Engine!Become(n, Engine!Released(t))
    BY <1>1, <1>2, <1>7, <2>2 DEF Engine!Failed, Engine!EndGroup, Engine!AfterGroup
  <2>4. s \in Engine!Replays
    BY <1>4, <1>5 DEF Engine!Replays
  <2>5. StateSet(t, s, g, "thrown")
    BY <2>2 DEF StateSet
  <2>6. /\ t \in Engine!Replays /\ t.worker[g].at = "thrown" /\ t.queue = s.queue /\ t.outcome = s.outcome
        /\ \A h \in Engine!Groups : h # g => t.worker[h] = s.worker[h]
    BY <2>4, <2>5, StateMoves
  <2>9. s.queue = r.queue /\ s.outcome = r.outcome
    BY <1>5
  <2>7. g \in ActiveOf(r)
    BY <1>3 DEF ActiveOf, Engine!Active
  <2>8. ReplayHolds(Engine!Released(t), Allowed)
    BY <1>3, <1>5, <2>9, <2>6, <2>7, GroupEnds
  <2> QED
    BY <2>3, <2>8, BecomeKeeps
<1>8. CASE ~(stopOnError \/ Engine!TooManyFailures(s.failed))
  <2>1. Engine!Become(n, Engine!AfterEvent(s, g))
    BY <1>1, <1>2, <1>8 DEF Engine!Failed
  <2>2. r.failed + 1 \in Nat /\ r.failed + 1 <= Allowed
    BY <1>4, <1>5, <1>8 DEF Allowed, Engine!TooManyFailures, Engine!BoundsAssumption
  <2>3. ReplayHolds(Engine!AfterEvent(s, g), Allowed)
    BY <1>3, <1>5, <2>2, HandledKeeps
  <2> QED
    BY <2>1, <2>3, BecomeKeeps
<1> QED
  BY <1>7, <1>8

LEMMA EngineStep ==
  ASSUME Engine!GroupsAssumption, Engine!WorkersAssumption, Engine!BoundsAssumption, EngineInv,
         [Engine!Next]_(Engine!vars)
  PROVE  EngineInv'
<1>1. ASSUME Engine!Abort \/ UNCHANGED Engine!vars PROVE EngineInv'
  <2>1. /\ UNCHANGED <<stopOnError, replays>> /\ isRunning' = isRunning /\ (aborted' = aborted \/ aborted' = TRUE)
    BY <1>1 DEF Engine!Abort, Engine!vars
  <2>2. Engine!TypeOK'
    BY <2>1 DEF EngineInv, Engine!TypeOK
  <2>3. Allowed' = Allowed
    BY <2>1 DEF Allowed
  <2> QED
    BY <2>1, <2>2, <2>3 DEF EngineInv
<1>2. ASSUME NEW n \in 1..MaxReplays, NEW g \in Engine!Groups, Engine!Work(n, g) PROVE EngineInv'
  BY <1>2, TakeKeeps, ProcessedKeeps, FailedKeeps DEF Engine!Work
<1>3. ASSUME Engine!Replay PROVE EngineInv'
  BY <1>3, ReplayKeeps
<1> QED
  BY <1>1, <1>2, <1>3 DEF Engine!Next

-----------------------------------------------------------------------------
(* Replaying events.                                                       *)

\* The agents that a log makes of another one, event by event.
Course(f, start, log) ==
  /\ f \in [0..Len(log) -> Aggregate!Agent] /\ f[0] = start
  /\ \A n \in 1..Len(log) : f[n] = Aggregate!ApplyEvent(f[n - 1], log[n])

LEMMA Applied ==
  ASSUME NEW a \in Aggregate!Agent, NEW e \in Aggregate!Event
  PROVE  Aggregate!ApplyEvent(a, e) \in Aggregate!Agent /\ Aggregate!ApplyEvent(a, e).version = e.version
<1>1. Aggregate!ResumeState(a) \in Aggregate!States
  BY DEF Aggregate!ResumeState, Aggregate!Agent, Aggregate!States
<1>2. /\ a.taskCount + 1 \in Nat /\ a.failedCount + 1 \in Nat /\ a.consecutiveErrors + 1 \in Nat
      /\ e.consecutiveErrors \in Nat /\ e.version \in Nat
  BY DEF Aggregate!Agent, Aggregate!Event
<1>3. Aggregate!Handled(a, e) \in Aggregate!Agent
  <2>1. CASE e.type = "initialized"
    BY <1>1, <1>2, <2>1 DEF Aggregate!Handled, Aggregate!Agent, Aggregate!Event, Aggregate!States
  <2>2. CASE e.type = "ready"
    BY <1>1, <1>2, <2>2 DEF Aggregate!Handled, Aggregate!Agent, Aggregate!Event, Aggregate!States
  <2>3. CASE e.type = "task_assigned"
    BY <1>1, <1>2, <2>3 DEF Aggregate!Handled, Aggregate!Agent, Aggregate!Event, Aggregate!States
  <2>4. CASE e.type = "task_completed"
    BY <1>1, <1>2, <2>4 DEF Aggregate!Handled, Aggregate!Agent, Aggregate!Event, Aggregate!States
  <2>5. CASE e.type = "task_failed"
    BY <1>1, <1>2, <2>5 DEF Aggregate!Handled, Aggregate!Agent, Aggregate!Event, Aggregate!States
  <2>6. CASE e.type = "paused"
    BY <1>1, <1>2, <2>6 DEF Aggregate!Handled, Aggregate!Agent, Aggregate!Event, Aggregate!States
  <2>7. CASE e.type = "resumed"
    BY <1>1, <1>2, <2>7 DEF Aggregate!Handled, Aggregate!Agent, Aggregate!Event, Aggregate!States
  <2>8. CASE e.type = "stopping"
    BY <1>1, <1>2, <2>8 DEF Aggregate!Handled, Aggregate!Agent, Aggregate!Event, Aggregate!States
  <2>9. CASE e.type = "stopped"
    BY <1>1, <1>2, <2>9 DEF Aggregate!Handled, Aggregate!Agent, Aggregate!Event, Aggregate!States
  <2>10. CASE e.type = "error_recorded"
    BY <1>1, <1>2, <2>10 DEF Aggregate!Handled, Aggregate!Agent, Aggregate!Event, Aggregate!States
  <2>11. CASE e.type \notin {"initialized", "ready", "task_assigned", "task_completed", "task_failed",
                           "paused", "resumed", "stopping", "stopped", "error_recorded"}
    BY <2>11 DEF Aggregate!Handled
  <2> QED
    BY <2>1, <2>2, <2>3, <2>4, <2>5, <2>6, <2>7, <2>8, <2>9, <2>10, <2>11
<1> QED
  BY <1>2, <1>3 DEF Aggregate!ApplyEvent, Aggregate!Agent

\* There is a course.
LEMMA CourseExists ==
  ASSUME NEW start \in Aggregate!Agent, NEW log \in Seq(Aggregate!Event)
  PROVE  \E f : Course(f, start, log)
<1> DEFINE S == Nat \X Aggregate!Agent
           g == [p \in S |-> <<p[1] + 1, IF p[1] + 1 \in 1..Len(log)
                                         THEN Aggregate!ApplyEvent(p[2], log[p[1] + 1]) ELSE p[2]>>]
           b == <<0, start>>
<1>1. b \in S
  OBVIOUS
<1>2. g \in [S -> S]
  <2> SUFFICES ASSUME NEW p \in S PROVE g[p] \in S
    OBVIOUS
  <2>1. p[1] \in Nat /\ p[2] \in Aggregate!Agent
    OBVIOUS
  <2>2. CASE p[1] + 1 \in 1..Len(log)
    <3>1. Aggregate!ApplyEvent(p[2], log[p[1] + 1]) \in Aggregate!Agent
      BY <2>1, <2>2, Applied
    <3> QED
      BY <2>1, <2>2, <3>1
  <2>3. CASE p[1] + 1 \notin 1..Len(log)
    BY <2>1, <2>3
  <2> QED
    BY <2>2, <2>3
<1>3. \A p \in S : /\ g[p][1] = p[1] + 1
                   /\ p[1] + 1 \in 1..Len(log) => g[p][2] = Aggregate!ApplyEvent(p[2], log[p[1] + 1])
  OBVIOUS
<1> HIDE DEF g, b, S
<1>4. PICK k : Iterates(k, S, b, g)
  BY <1>1, <1>2, Recursion
<1>5. k \in [Nat -> S] /\ k[0] = b /\ \A n \in Nat : k[n + 1] = g[k[n]]
  BY <1>4 DEF Iterates
<1>6. \A n \in Nat : k[n][1] = n /\ k[n][2] \in Aggregate!Agent
  <2> DEFINE T == {n \in Nat : k[n][1] = n}
  <2>1. 0 \in T
    BY <1>5 DEF b
  <2>2. ASSUME NEW n \in Nat, n \in T PROVE n + 1 \in T
    <3>1. k[n] \in S /\ k[n][1] = n /\ k[n + 1] = g[k[n]]
      BY <1>5, <2>2
    <3>2. g[k[n]][1] = k[n][1] + 1
      BY <1>3, <3>1
    <3> QED
      BY <3>1, <3>2
  <2> HIDE DEF T
  <2>3. Nat \subseteq T
    BY <2>1, <2>2, Induction
  <2> QED
    BY <1>5, <2>3 DEF S, T
<1>7. PICK f : f = [n \in 0..Len(log) |-> k[n][2]]
  OBVIOUS
<1>8. f \in [0..Len(log) -> Aggregate!Agent] /\ f[0] = start
  <2>1. 0 \in 0..Len(log) /\ \A n \in 0..Len(log) : n \in Nat
    OBVIOUS
  <2>2. k[0][2] = start
    BY <1>5 DEF b
  <2> QED
    BY <1>6, <1>7, <2>1, <2>2
<1>9. ASSUME NEW n \in 1..Len(log) PROVE f[n] = Aggregate!ApplyEvent(f[n - 1], log[n])
  <2>1. n - 1 \in Nat /\ n - 1 \in 0..Len(log) /\ n \in 0..Len(log) /\ (n - 1) + 1 = n
    OBVIOUS
  <2>2. k[n - 1] \in S /\ k[n - 1][1] = n - 1 /\ k[n] = g[k[n - 1]]
    BY <1>5, <1>6, <2>1
  <2>3. k[n][2] = Aggregate!ApplyEvent(k[n - 1][2], log[n])
    BY <1>3, <2>1, <2>2
  <2> QED
    BY <1>7, <2>1, <2>3
<1> QED
  BY <1>8, <1>9 DEF Course

\* loadFromHistory is where the course ends.
LEMMA LoadEnds ==
  ASSUME NEW start \in Aggregate!Agent, NEW log \in Seq(Aggregate!Event), NEW f, Course(f, start, log)
  PROVE  Aggregate!LoadFrom(start, log) = f[Len(log)]
<1> DEFINE Def(h) == h = [n \in 0..Len(log) |-> IF n = 0 THEN start ELSE Aggregate!ApplyEvent(h[n - 1], log[n])]
           A == CHOOSE h : Def(h)
<1>1. Len(log) \in Nat
  OBVIOUS
<1>2. Def(f)
  <2>1. f \in [0..Len(log) -> Aggregate!Agent]
    BY DEF Course
  <2>2. \A n \in 0..Len(log) : f[n] = IF n = 0 THEN start ELSE Aggregate!ApplyEvent(f[n - 1], log[n])
    BY <1>1 DEF Course
  <2> QED
    BY <2>1, <2>2
<1>3. Def(A)
  <2> HIDE DEF Def
  <2> QED
    BY <1>2, Zenon
<1>4. Aggregate!LoadFrom(start, log) = A[Len(log)]
  BY DEF Aggregate!LoadFrom
<1> HIDE DEF A
<1>5. A[0] = start /\ \A n \in 1..Len(log) : A[n] = Aggregate!ApplyEvent(A[n - 1], log[n])
  BY <1>1, <1>3
<1> DEFINE T == {n \in Nat : n <= Len(log) => A[n] = f[n]}
<1>6. 0 \in T
  BY <1>5 DEF Course
<1>7. ASSUME NEW n \in Nat, n \in T PROVE n + 1 \in T
  <2> SUFFICES ASSUME n + 1 <= Len(log) PROVE A[n + 1] = f[n + 1]
    OBVIOUS
  <2>1. n + 1 \in 1..Len(log) /\ (n + 1) - 1 = n /\ A[n] = f[n]
    BY <1>1, <1>7
  <2>2. /\ A[n + 1] = Aggregate!ApplyEvent(A[(n + 1) - 1], log[n + 1])
        /\ f[n + 1] = Aggregate!ApplyEvent(f[(n + 1) - 1], log[n + 1])
    BY <1>5, <2>1 DEF Course
  <2> QED
    BY <2>1, <2>2
<1> HIDE DEF T
<1>8. Nat \subseteq T
  BY <1>6, <1>7, Induction
<1> QED
  BY <1>1, <1>4, <1>8 DEF T

\* The events of a log whose versions count them from one on.
CountedFrom(v, log) == \A i \in DOMAIN log : log[i].version = v + i

\* getEventsSince: what comes after the version.
LEMMA EventsSince ==
  ASSUME stored \in Seq(Aggregate!Event), CountedFrom(0, stored), NEW v \in 0..Len(stored)
  PROVE  Aggregate!GetEventsSince(v) = [i \in 1..(Len(stored) - v) |-> stored[v + i]]
<1> DEFINE N == Len(stored)
           Def(h) == h = [n \in 0..N |-> IF n = 0 THEN <<>>
                                         ELSE IF stored[n].version > v THEN Append(h[n - 1], stored[n]) ELSE h[n - 1]]
           L == CHOOSE h : Def(h)
           Rest(n) == [i \in 1..(IF n > v THEN n - v ELSE 0) |-> stored[v + i]]
           F == [n \in 0..N |-> Rest(n)]
<1>1. N \in Nat /\ v \in Nat /\ v <= N /\ \A n \in 1..N : stored[n].version = n /\ stored[n] \in Aggregate!Event
  BY DEF CountedFrom
<1>2. Rest(0) = <<>>
  BY <1>1
<1>3. ASSUME NEW n \in 1..N, n > v PROVE Rest(n) = Append(Rest(n - 1), stored[n])
  <2>1. PICK m \in Nat : m = n - 1 - v
    BY <1>1, <1>3
  <2>2. Rest(n) = [i \in 1..(m + 1) |-> stored[v + i]] /\ v + (m + 1) = n
    BY <1>1, <1>3, <2>1
  <2>3. Rest(n - 1) = [i \in 1..m |-> stored[v + i]]
    BY <1>1, <1>3, <2>1
  <2>4. \A i \in 1..m : stored[v + i] \in Aggregate!Event
    BY <1>1, <2>1
  <2>5. PICK s : s = [i \in 1..m |-> stored[v + i]]
    OBVIOUS
  <2>6. s \in Seq(Aggregate!Event) /\ Len(s) = m /\ \A i \in 1..m : s[i] = stored[v + i]
    BY <2>4, <2>5
  <2>7. PICK t : t = Append(s, stored[n])
    OBVIOUS
  <2>8. t \in [1..(m + 1) -> Aggregate!Event] /\ \A i \in 1..(m + 1) : t[i] = stored[v + i]
    <3>1. t \in Seq(Aggregate!Event) /\ Len(t) = m + 1 /\ stored[n] \in Aggregate!Event
      BY <1>1, <1>3, <2>6, <2>7
    <3>2. ASSUME NEW i \in 1..(m + 1) PROVE t[i] = stored[v + i]
      <4>1. CASE i \in 1..m
        BY <2>6, <2>7, <3>1, <4>1
      <4>2. CASE i \notin 1..m
        <5>1. i = m + 1
          BY <4>2
        <5> QED
          BY <2>2, <2>6, <2>7, <3>1, <5>1
      <4> QED
        BY <4>1, <4>2
    <3> QED
      BY <3>1, <3>2
  <2>9. t = [i \in 1..(m + 1) |-> stored[v + i]]
    BY <2>8
  <2> HIDE DEF Rest
  <2> QED
    BY <2>2, <2>3, <2>5, <2>7, <2>9
<1>4. ASSUME NEW n \in 1..N, ~(n > v) PROVE Rest(n) = Rest(n - 1)
  <2>1. ~(n - 1 > v)
    BY <1>1, <1>4
  <2> QED
    BY <1>4, <2>1
<1> HIDE DEF Rest
<1>5. Def(F)
  <2>1. \A n \in 0..N : F[n] = IF n = 0 THEN <<>>
                               ELSE IF stored[n].version > v THEN Append(F[n - 1], stored[n]) ELSE F[n - 1]
    <3> SUFFICES ASSUME NEW n \in 0..N PROVE F[n] = IF n = 0 THEN <<>>
                               ELSE IF stored[n].version > v THEN Append(F[n - 1], stored[n]) ELSE F[n - 1]
      OBVIOUS
    <3>1. CASE n = 0
      BY <1>2, <3>1
    <3>2. CASE n # 0
      <4>1. n \in 1..N /\ n - 1 \in 0..N /\ stored[n].version = n
        BY <1>1, <3>2
      <4> QED
        BY <1>3, <1>4, <3>2, <4>1
    <3> QED
      BY <3>1, <3>2
  <2> QED
    BY <2>1
<1>6. Def(L)
  <2> HIDE DEF Def
  <2> QED
    BY <1>5, Zenon
<1>7. Aggregate!GetEventsSince(v) = L[N]
  BY DEF Aggregate!GetEventsSince
<1> HIDE DEF L, N
<1> DEFINE T == {n \in Nat : n <= N => L[n] = F[n]}
<1>8. 0 \in T
  <2>1. L[0] = <<>>
    BY <1>1, <1>6
  <2>2. F[0] = Rest(0)
    BY <1>1
  <2> QED
    BY <1>2, <2>1, <2>2
<1>9. ASSUME NEW n \in Nat, n \in T PROVE n + 1 \in T
  <2> SUFFICES ASSUME n + 1 <= N PROVE L[n + 1] = F[n + 1]
    OBVIOUS
  <2>1. n + 1 \in 0..N /\ n + 1 # 0 /\ (n + 1) - 1 = n /\ L[n] = F[n]
    BY <1>1, <1>9
  <2>2. /\ L[n + 1] = IF stored[n + 1].version > v THEN Append(L[n], stored[n + 1]) ELSE L[n]
        /\ F[n + 1] = IF stored[n + 1].version > v THEN Append(F[n], stored[n + 1]) ELSE F[n]
    <3> HIDE DEF F
    <3>1. L[n + 1] = IF stored[n + 1].version > v THEN Append(L[n], stored[n + 1]) ELSE L[n]
      BY <1>6, <2>1
    <3>2. F[n + 1] = IF stored[n + 1].version > v THEN Append(F[n], stored[n + 1]) ELSE F[n]
      BY <1>5, <2>1
    <3> QED
      BY <3>1, <3>2
  <2> HIDE DEF F
  <2> QED
    BY <2>1, <2>2
<1> HIDE DEF T
<1>10. Nat \subseteq T
  BY <1>8, <1>9, Induction
<1>11. L[N] = Rest(N)
  <2>1. L[N] = F[N]
    <3>1. N \in T
      BY <1>1, <1>10
    <3> HIDE DEF F
    <3> QED
      BY <1>1, <3>1 DEF T
  <2>2. N \in 0..N
    BY <1>1
  <2> QED
    BY <2>1, <2>2
<1>12. Rest(N) = [i \in 1..(N - v) |-> stored[v + i]]
  <2>1. 1..(N - v) = 1..(IF N > v THEN N - v ELSE 0)
    BY <1>1
  <2> QED
    BY <2>1 DEF Rest
<1> QED
  BY <1>7, <1>11, <1>12 DEF N

\* A course that goes one event further, and one that begins later.
Extends(h, f, start, log, e) ==
  /\ Course(h, start, Append(log, e))
  /\ \A n \in 0..Len(log) : h[n] = f[n]
  /\ h[Len(log) + 1] = Aggregate!ApplyEvent(f[Len(log)], e)
PartOf(h, f, v, s) ==
  Course(h, f[v], s) /\ \A n \in 0..Len(s) : h[n] = f[v + n]

LEMMA CourseExtends ==
  ASSUME NEW start, NEW log \in Seq(Aggregate!Event), NEW f, Course(f, start, log), NEW e \in Aggregate!Event
  PROVE  \E h : Extends(h, f, start, log, e)
<1>1. PICK N \in Nat : N = Len(log)
  OBVIOUS
<1>2. PICK t : t = Append(log, e)
  OBVIOUS
<1>3. t \in Seq(Aggregate!Event) /\ Len(t) = N + 1 /\ t[N + 1] = e /\ \A i \in 1..N : t[i] = log[i]
  BY <1>1, <1>2
<1>4. PICK h : h = [n \in 0..(N + 1) |-> IF n <= N THEN f[n] ELSE Aggregate!ApplyEvent(f[N], e)]
  OBVIOUS
<1>5. /\ f \in [0..N -> Aggregate!Agent] /\ f[0] = start /\ f[N] \in Aggregate!Agent
      /\ \A n \in 1..N : f[n] = Aggregate!ApplyEvent(f[n - 1], log[n])
  BY <1>1 DEF Course
<1>6. Aggregate!ApplyEvent(f[N], e) \in Aggregate!Agent
  BY <1>5, Applied
<1>7. /\ \A n \in 0..N : h[n] = f[n]
      /\ h[N + 1] = Aggregate!ApplyEvent(f[N], e)
      /\ DOMAIN h = 0..(N + 1)
  BY <1>1, <1>4
<1>8. h \in [0..(N + 1) -> Aggregate!Agent]
  BY <1>4, <1>5, <1>6
<1>9. ASSUME NEW n \in 1..(N + 1) PROVE h[n] = Aggregate!ApplyEvent(h[n - 1], t[n])
  <2>1. CASE n \in 1..N
    <3>1. n - 1 \in 0..N /\ n \in 0..N
      BY <2>1
    <3> QED
      BY <1>3, <1>5, <1>7, <2>1, <3>1
  <2>2. CASE n \notin 1..N
    <3>1. n = N + 1 /\ n - 1 = N /\ N \in 0..N
      BY <2>2
    <3> QED
      BY <1>3, <1>7, <3>1
  <2> QED
    BY <2>1, <2>2
<1>10. Course(h, start, t)
  BY <1>3, <1>5, <1>7, <1>8, <1>9 DEF Course
<1>11. Extends(h, f, start, log, e)
  BY <1>1, <1>2, <1>7, <1>10 DEF Extends
<1> QED
  BY <1>11

LEMMA CoursePart ==
  ASSUME NEW start, NEW log \in Seq(Aggregate!Event), NEW f, Course(f, start, log), NEW v \in 0..Len(log),
         NEW s \in Seq(Aggregate!Event), v + Len(s) <= Len(log), \A i \in 1..Len(s) : s[i] = log[v + i]
  PROVE  \E h : PartOf(h, f, v, s)
<1>1. PICK N \in Nat : N = Len(log)
  OBVIOUS
<1>2. PICK M \in Nat : M = Len(s)
  OBVIOUS
<1>3. /\ f \in [0..N -> Aggregate!Agent]
      /\ \A n \in 1..N : f[n] = Aggregate!ApplyEvent(f[n - 1], log[n])
  BY <1>1 DEF Course
<1>4. PICK h : h = [n \in 0..M |-> f[v + n]]
  OBVIOUS
<1>5. \A n \in 0..M : v + n \in 0..N
  BY <1>1, <1>2
<1>6. h \in [0..M -> Aggregate!Agent] /\ \A n \in 0..M : h[n] = f[v + n]
  BY <1>3, <1>4, <1>5
<1>7. h[0] = f[v]
  BY <1>1, <1>2, <1>6
<1>8. ASSUME NEW n \in 1..M PROVE h[n] = Aggregate!ApplyEvent(h[n - 1], s[n])
  <2>1. n \in 0..M /\ n - 1 \in 0..M /\ v + n \in 1..N /\ v + (n - 1) = (v + n) - 1 /\ s[n] = log[v + n]
    BY <1>1, <1>2
  <2>2. f[v + n] = Aggregate!ApplyEvent(f[(v + n) - 1], log[v + n])
    BY <1>3, <2>1
  <2> QED
    BY <1>6, <2>1, <2>2
<1>9. Course(h, f[v], s)
  BY <1>2, <1>6, <1>7, <1>8 DEF Course
<1>10. PartOf(h, f, v, s)
  BY <1>2, <1>6, <1>9 DEF PartOf
<1> QED
  BY <1>10

\* An agent is what its events say, but for what a shared snapshot may change.
Alike(anySharing, a, b) ==
  IF anySharing THEN a = [b EXCEPT !.state = a.state, !.pausedFrom = a.pausedFrom] ELSE a = b

LEMMA AlikeFields ==
  ASSUME NEW a \in Aggregate!Agent, NEW b \in Aggregate!Agent
  PROVE  Alike(TRUE, a, b) <=> /\ a.task = b.task /\ a.taskCount = b.taskCount /\ a.failedCount = b.failedCount
                               /\ a.consecutiveErrors = b.consecutiveErrors /\ a.version = b.version
<1>1. /\ a = [state |-> a.state, task |-> a.task, taskCount |-> a.taskCount, failedCount |-> a.failedCount,
              consecutiveErrors |-> a.consecutiveErrors, pausedFrom |-> a.pausedFrom, version |-> a.version]
      /\ b = [state |-> b.state, task |-> b.task, taskCount |-> b.taskCount, failedCount |-> b.failedCount,
              consecutiveErrors |-> b.consecutiveErrors, pausedFrom |-> b.pausedFrom, version |-> b.version]
  BY DEF Aggregate!Agent
<1>2. [b EXCEPT !.state = a.state, !.pausedFrom = a.pausedFrom]
        = [state |-> a.state, task |-> b.task, taskCount |-> b.taskCount, failedCount |-> b.failedCount,
           consecutiveErrors |-> b.consecutiveErrors, pausedFrom |-> a.pausedFrom, version |-> b.version]
  <2>1. PICK c : c = [b EXCEPT !.state = a.state, !.pausedFrom = a.pausedFrom]
    OBVIOUS
  <2>2. c \in Aggregate!Agent
    BY <2>1 DEF Aggregate!Agent
  <2>3. c = [state |-> c.state, task |-> c.task, taskCount |-> c.taskCount, failedCount |-> c.failedCount,
             consecutiveErrors |-> c.consecutiveErrors, pausedFrom |-> c.pausedFrom, version |-> c.version]
    BY <2>2 DEF Aggregate!Agent
  <2>4. /\ c.state = a.state /\ c.task = b.task /\ c.taskCount = b.taskCount /\ c.failedCount = b.failedCount
        /\ c.consecutiveErrors = b.consecutiveErrors /\ c.pausedFrom = a.pausedFrom /\ c.version = b.version
    BY <2>1 DEF Aggregate!Agent
  <2> QED
    BY <2>1, <2>3, <2>4
<1> QED
  BY <1>1, <1>2 DEF Alike

LEMMA AlikeApplied ==
  ASSUME NEW sharing \in BOOLEAN, NEW a \in Aggregate!Agent, NEW b \in Aggregate!Agent, NEW e \in Aggregate!Event,
         Alike(sharing, a, b)
  PROVE  Alike(sharing, Aggregate!ApplyEvent(a, e), Aggregate!ApplyEvent(b, e))
<1>1. CASE ~sharing
  BY <1>1 DEF Alike
<1>2. CASE sharing
  <2>1. /\ a.task = b.task /\ a.taskCount = b.taskCount /\ a.failedCount = b.failedCount
        /\ a.consecutiveErrors = b.consecutiveErrors
    BY <1>2, AlikeFields DEF Alike
  <2>2. Aggregate!ApplyEvent(a, e) \in Aggregate!Agent /\ Aggregate!ApplyEvent(b, e) \in Aggregate!Agent
    BY Applied
  <2>3. /\ Aggregate!ApplyEvent(a, e).task = Aggregate!ApplyEvent(b, e).task
        /\ Aggregate!ApplyEvent(a, e).taskCount = Aggregate!ApplyEvent(b, e).taskCount
        /\ Aggregate!ApplyEvent(a, e).failedCount = Aggregate!ApplyEvent(b, e).failedCount
        /\ Aggregate!ApplyEvent(a, e).consecutiveErrors = Aggregate!ApplyEvent(b, e).consecutiveErrors
        /\ Aggregate!ApplyEvent(a, e).version = Aggregate!ApplyEvent(b, e).version
    BY <2>1 DEF Aggregate!ApplyEvent, Aggregate!Handled, Aggregate!Agent
  <2> QED
    BY <1>2, <2>2, <2>3, AlikeFields DEF Alike
<1> QED
  BY <1>1, <1>2

LEMMA CoursesAlike ==
  ASSUME NEW sharing \in BOOLEAN, NEW a, NEW b, NEW log \in Seq(Aggregate!Event), Alike(sharing, a, b),
         NEW f, Course(f, a, log), NEW g, Course(g, b, log)
  PROVE  \A n \in 0..Len(log) : Alike(sharing, f[n], g[n])
<1> DEFINE T == {n \in Nat : n <= Len(log) => Alike(sharing, f[n], g[n])}
<1>1. 0 \in T
  BY DEF Course
<1>2. ASSUME NEW n \in Nat, n \in T PROVE n + 1 \in T
  <2> SUFFICES ASSUME n + 1 <= Len(log) PROVE Alike(sharing, f[n + 1], g[n + 1])
    OBVIOUS
  <2>1. n + 1 \in 1..Len(log) /\ (n + 1) - 1 = n /\ Alike(sharing, f[n], g[n]) /\ n \in 0..Len(log)
    BY <1>2
  <2>2. /\ f[n + 1] = Aggregate!ApplyEvent(f[(n + 1) - 1], log[n + 1]) /\ f[n] \in Aggregate!Agent
        /\ g[n + 1] = Aggregate!ApplyEvent(g[(n + 1) - 1], log[n + 1]) /\ g[n] \in Aggregate!Agent
        /\ log[n + 1] \in Aggregate!Event
    BY <2>1 DEF Course
  <2> QED
    BY <2>1, <2>2, AlikeApplied
<1> HIDE DEF T
<1>3. Nat \subseteq T
  BY <1>1, <1>2, Induction
<1> QED
  BY <1>3 DEF T

-----------------------------------------------------------------------------
(* The aggregate.                                                          *)

\* A busy agent has a task, and so has one that will be busy when it resumes.
BusyHolds(a) ==
  a.state = "busy" \/ (a.state = "paused" /\ Aggregate!ResumeState(a) = "busy") => a.task # None

\* f is the course of the log: the agent is where it ends, the snapshot where it
\* was when it had the snapshot's version.
Lives(f) ==
  /\ Course(f, Aggregate!New, Aggregate!Log)
  /\ Alike(shared, agent, f[Len(Aggregate!Log)])
  /\ snapshot # None => /\ snapshot.agent.version \in 0..Len(stored)
                        /\ Alike(shared, snapshot.agent, f[snapshot.agent.version])
  /\ ~shared => \A n \in 0..Len(Aggregate!Log) : BusyHolds(f[n])

AggregateInv == Aggregate!TypeOK /\ Aggregate!Versioned /\ \E f : Lives(f)

LEMMA NewAgent == Aggregate!New \in Aggregate!Agent /\ Aggregate!New.version = 0 /\ Aggregate!New.state = "created"
BY DEF Aggregate!New, Aggregate!Agent, Aggregate!States

LEMMA LogFacts ==
  ASSUME Aggregate!TypeOK, Aggregate!Versioned
  PROVE  /\ Aggregate!Log \in Seq(Aggregate!Event) /\ stored \in Seq(Aggregate!Event) /\ fresh \in Seq(Aggregate!Event)
         /\ Len(Aggregate!Log) = Len(stored) + Len(fresh) /\ Len(stored) \in Nat /\ Len(fresh) \in Nat
         /\ \A i \in 1..Len(stored) : Aggregate!Log[i] = stored[i]
         /\ CountedFrom(0, Aggregate!Log) /\ CountedFrom(0, stored)
<1>1. stored \in Seq(Aggregate!Event) /\ fresh \in Seq(Aggregate!Event)
  BY DEF Aggregate!TypeOK
<1>2. /\ Aggregate!Log \in Seq(Aggregate!Event) /\ Len(Aggregate!Log) = Len(stored) + Len(fresh)
      /\ \A i \in 1..Len(stored) : Aggregate!Log[i] = stored[i]
  BY <1>1, ConcatProperties DEF Aggregate!Log
<1>3. CountedFrom(0, Aggregate!Log)
  BY <1>2 DEF CountedFrom, Aggregate!Versioned
<1>4. CountedFrom(0, stored)
  BY <1>1, <1>2, <1>3 DEF CountedFrom
<1> QED
  BY <1>1, <1>2, <1>3, <1>4

\* An agent on the course has the version of its place.
LEMMA CourseVersions ==
  ASSUME NEW log \in Seq(Aggregate!Event), CountedFrom(0, log), NEW f, Course(f, Aggregate!New, log)
  PROVE  \A n \in 0..Len(log) : f[n] \in Aggregate!Agent /\ f[n].version = n
<1> SUFFICES ASSUME NEW n \in 0..Len(log) PROVE f[n] \in Aggregate!Agent /\ f[n].version = n
  OBVIOUS
<1>1. CASE n = 0
  BY <1>1, NewAgent DEF Course
<1>2. CASE n # 0
  <2>1. n \in 1..Len(log) /\ n - 1 \in 0..Len(log) /\ log[n] \in Aggregate!Event /\ log[n].version = n
    BY <1>2 DEF CountedFrom
  <2>2. f[n - 1] \in Aggregate!Agent /\ f[n] = Aggregate!ApplyEvent(f[n - 1], log[n])
    BY <2>1 DEF Course
  <2> QED
    BY <2>1, <2>2, Applied
<1> QED
  BY <1>1, <1>2

LEMMA AggregateImplies ==
  AggregateInv => Aggregate!TypeOK /\ Aggregate!Versioned /\ Aggregate!Rebuilt /\ Aggregate!BusyHasTask
<1> SUFFICES ASSUME AggregateInv PROVE Aggregate!Rebuilt /\ Aggregate!BusyHasTask
  BY DEF AggregateInv
<1>1. PICK f : Lives(f)
  BY DEF AggregateInv
<1>2. Aggregate!Log \in Seq(Aggregate!Event) /\ Len(Aggregate!Log) \in Nat
  BY LogFacts DEF AggregateInv
<1>3. Aggregate!LoadFrom(Aggregate!New, Aggregate!Log) = f[Len(Aggregate!Log)]
  BY <1>1, <1>2, NewAgent, LoadEnds DEF Lives
<1>4. Aggregate!Rebuilt
  BY <1>1, <1>3 DEF Lives, Aggregate!Rebuilt, Alike
<1>5. Aggregate!BusyHasTask
  <2> SUFFICES ASSUME ~shared, agent.state = "busy" PROVE agent.task # None
    BY DEF Aggregate!BusyHasTask
  <2>1. agent = f[Len(Aggregate!Log)] /\ Len(Aggregate!Log) \in 0..Len(Aggregate!Log)
    BY <1>1, <1>2 DEF Lives, Alike
  <2> QED
    BY <1>1, <2>1 DEF Lives, BusyHolds
<1> QED
  BY <1>4, <1>5

LEMMA AggregateInitially ==
  ASSUME Aggregate!StoresAssumption, Aggregate!Init
  PROVE  AggregateInv
<1>1. agent = Aggregate!New /\ stored = <<>> /\ fresh = <<>> /\ snapshot = None /\ shared \in BOOLEAN
  BY DEF Aggregate!Init, Aggregate!StoresAssumption
<1>2. Aggregate!Log = <<>>
  BY <1>1 DEF Aggregate!Log
<1>3. Aggregate!TypeOK
  BY <1>1, NewAgent DEF Aggregate!TypeOK
<1>4. Aggregate!Versioned
  BY <1>1, <1>2, NewAgent DEF Aggregate!Versioned
<1>5. PICK f : f = [n \in 0..0 |-> Aggregate!New]
  OBVIOUS
<1>6. Len(Aggregate!Log) = 0 /\ 0..0 = {0} /\ 1..0 = {} /\ f[0] = Aggregate!New
  BY <1>2, <1>5
<1>7. Course(f, Aggregate!New, Aggregate!Log)
  BY <1>5, <1>6, NewAgent DEF Course
<1>8. Alike(shared, agent, f[0])
  <2>1. agent = [f[0] EXCEPT !.state = agent.state, !.pausedFrom = agent.pausedFrom]
    BY <1>1, <1>6, NewAgent, AlikeFields DEF Alike
  <2> QED
    BY <1>1, <1>6, <2>1 DEF Alike
<1>9. \A n \in 0..Len(Aggregate!Log) : BusyHolds(f[n])
  BY <1>6, NewAgent DEF BusyHolds
<1>10. Lives(f)
  BY <1>1, <1>6, <1>7, <1>8, <1>9 DEF Lives
<1> QED
  BY <1>3, <1>4, <1>10 DEF AggregateInv

\* What a command's event makes of an agent that is allowed the command.
LEMMA CommandBusy ==
  ASSUME Aggregate!NoneAssumption, NEW a \in Aggregate!Agent, BusyHolds(a), a = agent,
         NEW type \in Aggregate!Types, Aggregate!Allowed(type),
         NEW task, task \in IF type = "task_assigned" THEN Tasks ELSE {None},
         NEW e \in Aggregate!Event, e.type = type, e.task = task, e.previousState = a.state
  PROVE  BusyHolds(Aggregate!ApplyEvent(a, e))
<1>1. Aggregate!ApplyEvent(a, e) \in Aggregate!Agent
  BY Applied
<1> QED
  BY <1>1 DEF BusyHolds, Aggregate!ApplyEvent, Aggregate!Handled, Aggregate!Agent, Aggregate!Allowed, Aggregate!Types,
              Aggregate!ResumeState, Aggregate!NoneAssumption

\* The snapshot is a record, and mirroring changes in it what the agent resumes to.
LEMMA MirroredKeeps ==
  ASSUME NEW s \in Aggregate!Snapshot, NEW a \in Aggregate!Agent, Aggregate!TypeOK
  PROVE  /\ Aggregate!Mirrored(s, a) \in Aggregate!Snapshot
         /\ Aggregate!Mirrored(s, a).agent.version = s.agent.version
         /\ \A b \in Aggregate!Agent :
              Alike(shared, s.agent, b) => Alike(shared, Aggregate!Mirrored(s, a).agent, b)
<1>1. s.agent \in Aggregate!Agent /\ shared \in BOOLEAN /\ s = [agent |-> s.agent, attached |-> s.attached]
  BY DEF Aggregate!Snapshot, Aggregate!TypeOK
<1>2. CASE shared /\ s # None /\ s.attached
  <2>1. PICK c : c = [s.agent EXCEPT !.pausedFrom = a.pausedFrom]
    OBVIOUS
  <2>2. Aggregate!Mirrored(s, a) = [s EXCEPT !.agent = c]
    BY <1>1, <1>2, <2>1 DEF Aggregate!Mirrored
  <2>3. /\ c \in Aggregate!Agent
        /\ c.task = s.agent.task /\ c.taskCount = s.agent.taskCount /\ c.failedCount = s.agent.failedCount
        /\ c.consecutiveErrors = s.agent.consecutiveErrors /\ c.version = s.agent.version
    BY <1>1, <2>1 DEF Aggregate!Agent
  <2>4. Aggregate!Mirrored(s, a) \in Aggregate!Snapshot /\ Aggregate!Mirrored(s, a).agent = c
    BY <1>1, <2>2, <2>3 DEF Aggregate!Snapshot
  <2>5. ASSUME NEW b \in Aggregate!Agent, Alike(shared, s.agent, b) PROVE Alike(shared, c, b)
    <3>1. Alike(TRUE, s.agent, b)
      BY <1>2, <2>5 DEF Alike
    <3>2. /\ s.agent.task = b.task /\ s.agent.taskCount = b.taskCount /\ s.agent.failedCount = b.failedCount
          /\ s.agent.consecutiveErrors = b.consecutiveErrors /\ s.agent.version = b.version
      BY <1>1, <3>1, AlikeFields
    <3>3. /\ c.task = b.task /\ c.taskCount = b.taskCount /\ c.failedCount = b.failedCount
          /\ c.consecutiveErrors = b.consecutiveErrors /\ c.version = b.version
      BY <2>3, <3>2
    <3>4. Alike(TRUE, c, b)
      BY <2>3, <3>3, AlikeFields
    <3> QED
      BY <1>2, <3>4 DEF Alike
  <2> QED
    BY <2>3, <2>4, <2>5
<1>3. CASE ~(shared /\ s # None /\ s.attached)
  BY <1>3 DEF Aggregate!Mirrored
<1> QED
  BY <1>2, <1>3

LEMMA SelfAlike == ASSUME NEW sharing \in BOOLEAN, NEW a \in Aggregate!Agent PROVE Alike(sharing, a, a)
BY AlikeFields DEF Alike

\* A command emits its event.
LEMMA CommandKeeps ==
  ASSUME Aggregate!NoneAssumption, AggregateInv, NEW type \in Aggregate!Types, Aggregate!Command(type)
  PROVE  AggregateInv'
<1>1. PICK f : Lives(f)
  BY DEF AggregateInv
<1>2. PICK task \in IF type = "task_assigned" THEN Tasks ELSE {None} : Aggregate!Emit(type, task)
  BY DEF Aggregate!Command
<1>3. PICK e : e = [type |-> type, task |-> task, previousState |-> agent.state,
                    consecutiveErrors |-> agent.consecutiveErrors + 1, version |-> agent.version + 1]
  OBVIOUS
<1>4. /\ agent' = Aggregate!ApplyEvent(agent, e) /\ fresh' = Append(fresh, e)
      /\ snapshot' = Aggregate!Mirrored(snapshot, agent') /\ UNCHANGED <<stored, shared>> /\ Aggregate!Allowed(type)
  BY <1>2, <1>3 DEF Aggregate!Emit, Aggregate!Command, Aggregate!NextVersion
<1>5. /\ agent \in Aggregate!Agent /\ shared \in BOOLEAN /\ (snapshot = None \/ snapshot \in Aggregate!Snapshot)
      /\ Aggregate!TypeOK /\ Aggregate!Versioned
  BY DEF AggregateInv, Aggregate!TypeOK
<1>6. e \in Aggregate!Event /\ e.version = agent.version + 1 /\ e.type = type /\ e.task = task /\ e.previousState = agent.state
  <2>1. /\ task \in Tasks \cup {None} /\ agent.state \in Aggregate!States /\ agent.consecutiveErrors + 1 \in Nat
        /\ agent.version + 1 \in Nat
    BY <1>5 DEF Aggregate!Agent
  <2> QED
    BY <1>3, <2>1 DEF Aggregate!Event
<1>7. agent' \in Aggregate!Agent /\ agent'.version = agent.version + 1
  BY <1>4, <1>5, <1>6, Applied
<1>8. /\ Aggregate!Log \in Seq(Aggregate!Event) /\ stored \in Seq(Aggregate!Event) /\ fresh \in Seq(Aggregate!Event)
      /\ Len(Aggregate!Log) = Len(stored) + Len(fresh) /\ Len(stored) \in Nat /\ Len(fresh) \in Nat
      /\ CountedFrom(0, Aggregate!Log) /\ agent.version = Len(Aggregate!Log)
  BY <1>5, LogFacts DEF Aggregate!Versioned
<1>9. Aggregate!Log' = Append(Aggregate!Log, e)
  <2>1. stored \o Append(fresh, e) = Append(stored \o fresh, e)
    BY <1>6, <1>8
  <2> QED
    BY <1>4, <2>1 DEF Aggregate!Log
<1>10. PICK t : t = Aggregate!Log'
  OBVIOUS
<1>11. PICK N \in Nat : N = Len(Aggregate!Log)
  BY <1>8
<1>12. /\ t = Append(Aggregate!Log, e) /\ t \in Seq(Aggregate!Event) /\ Len(t) = N + 1 /\ t[N + 1] = e
       /\ \A i \in 1..N : t[i] = Aggregate!Log[i]
  BY <1>6, <1>8, <1>9, <1>10, <1>11
<1>13. Aggregate!TypeOK'
  <2>1. snapshot' = None \/ snapshot' \in Aggregate!Snapshot
    BY <1>4, <1>5, <1>7, MirroredKeeps DEF Aggregate!Mirrored
  <2> QED
    BY <1>4, <1>5, <1>6, <1>7, <1>8, <2>1 DEF Aggregate!TypeOK
<1>14. Aggregate!Versioned'
  <2>1. ASSUME NEW i \in DOMAIN t PROVE t[i].version = i
    <3>1. CASE i \in 1..N
      BY <1>8, <1>11, <1>12, <3>1 DEF CountedFrom
    <3>2. CASE i \notin 1..N
      <4>1. i = N + 1
        BY <1>12, <3>2
      <4> QED
        BY <1>6, <1>8, <1>11, <1>12, <4>1
    <3> QED
      BY <3>1, <3>2
  <2> QED
    BY <1>7, <1>8, <1>10, <1>11, <1>12, <2>1 DEF Aggregate!Versioned
<1>15. PICK h : /\ Course(h, Aggregate!New, t) /\ \A n \in 0..N : h[n] = f[n]
                /\ h[N + 1] = Aggregate!ApplyEvent(f[N], e)
  <2>1. Course(f, Aggregate!New, Aggregate!Log)
    BY <1>1 DEF Lives
  <2>2. PICK h : Extends(h, f, Aggregate!New, Aggregate!Log, e)
    BY <1>6, <1>8, <2>1, CourseExtends
  <2> QED
    BY <1>11, <1>12, <2>2 DEF Extends
<1>16. f[N] \in Aggregate!Agent /\ Alike(shared, agent, f[N])
  BY <1>1, <1>11 DEF Lives, Course
<1>17. Alike(shared, agent', h[N + 1])
  BY <1>4, <1>5, <1>6, <1>15, <1>16, AlikeApplied
<1>18. ASSUME snapshot' # None
       PROVE  snapshot'.agent.version \in 0..Len(stored) /\ Alike(shared, snapshot'.agent, h[snapshot'.agent.version])
  <2>1. snapshot # None /\ snapshot \in Aggregate!Snapshot
    BY <1>4, <1>5, <1>18 DEF Aggregate!Mirrored
  <2>2. PICK v : v = snapshot.agent.version
    OBVIOUS
  <2>3. v \in 0..Len(stored) /\ Alike(shared, snapshot.agent, f[v]) /\ v \in 0..N
    BY <1>1, <1>8, <1>11, <2>1, <2>2 DEF Lives
  <2>4. f[v] \in Aggregate!Agent /\ h[v] = f[v]
    BY <1>1, <1>11, <1>15, <2>3 DEF Lives, Course
  <2>5. snapshot'.agent.version = v /\ Alike(shared, snapshot'.agent, f[v])
    BY <1>4, <1>5, <1>7, <2>1, <2>2, <2>3, <2>4, MirroredKeeps
  <2> QED
    BY <2>3, <2>4, <2>5
<1>19. ASSUME ~shared, NEW n \in 0..(N + 1) PROVE BusyHolds(h[n])
  <2>1. CASE n \in 0..N
    BY <1>1, <1>11, <1>15, <1>19, <2>1 DEF Lives
  <2>2. CASE n \notin 0..N
    <3>1. n = N + 1 /\ N \in 0..N
      BY <2>2
    <3>2. f[N] = agent /\ BusyHolds(f[N])
      BY <1>1, <1>11, <1>16, <1>19, <3>1 DEF Lives, Alike
    <3> QED
      BY <1>2, <1>4, <1>5, <1>6, <1>15, <3>1, <3>2, CommandBusy
  <2> QED
    BY <2>1, <2>2
<1>20. Lives(h)'
  BY <1>4, <1>10, <1>12, <1>15, <1>17, <1>18, <1>19 DEF Lives
<1> QED
  BY <1>13, <1>14, <1>20 DEF AggregateInv

\* The log stays, whatever is saved of it.
LEMMA SaveKeeps == AggregateInv /\ Aggregate!Save => AggregateInv'
<1> SUFFICES ASSUME AggregateInv, Aggregate!Save PROVE AggregateInv'
  OBVIOUS
<1>1. PICK f : Lives(f)
  BY DEF AggregateInv
<1>2. stored' = stored \o fresh /\ fresh' = <<>> /\ UNCHANGED <<agent, snapshot, shared>>
  BY DEF Aggregate!Save
<1>3. /\ Aggregate!TypeOK /\ Aggregate!Versioned /\ Aggregate!Log \in Seq(Aggregate!Event)
      /\ stored \in Seq(Aggregate!Event) /\ fresh \in Seq(Aggregate!Event)
      /\ Len(Aggregate!Log) = Len(stored) + Len(fresh) /\ Len(stored) \in Nat /\ Len(fresh) \in Nat
  BY LogFacts DEF AggregateInv
<1>4. stored' = Aggregate!Log /\ Aggregate!Log' = Aggregate!Log
  <2>1. (stored \o fresh) \o <<>> = stored \o fresh
    BY <1>3
  <2> QED
    BY <1>2, <2>1 DEF Aggregate!Log
<1>5. Aggregate!TypeOK' /\ Aggregate!Versioned'
  BY <1>2, <1>3, <1>4 DEF Aggregate!TypeOK, Aggregate!Versioned
<1>6. Lives(f)'
  <2>1. \A n : n \in 0..Len(stored) => n \in 0..Len(stored')
    BY <1>3, <1>4
  <2> QED
    BY <1>1, <1>2, <1>4, <2>1 DEF Lives
<1> QED
  BY <1>5, <1>6 DEF AggregateInv

LEMMA SnapshotKeeps == AggregateInv /\ Aggregate!CreateSnapshot => AggregateInv'
<1> SUFFICES ASSUME AggregateInv, Aggregate!CreateSnapshot PROVE AggregateInv'
  OBVIOUS
<1>1. PICK f : Lives(f)
  BY DEF AggregateInv
<1>2. fresh = <<>> /\ snapshot' = [agent |-> agent, attached |-> TRUE] /\ UNCHANGED <<agent, stored, fresh, shared>>
  BY DEF Aggregate!CreateSnapshot
<1>3. /\ Aggregate!TypeOK /\ Aggregate!Versioned /\ Len(Aggregate!Log) = Len(stored) /\ Len(stored) \in Nat
      /\ agent \in Aggregate!Agent /\ agent.version = Len(Aggregate!Log)
  BY <1>2, LogFacts DEF AggregateInv, Aggregate!TypeOK, Aggregate!Versioned
<1>4. Aggregate!Log' = Aggregate!Log
  BY <1>2 DEF Aggregate!Log
<1>5. snapshot' \in Aggregate!Snapshot /\ snapshot'.agent = agent
  BY <1>2, <1>3 DEF Aggregate!Snapshot
<1>6. Aggregate!TypeOK' /\ Aggregate!Versioned'
  BY <1>2, <1>3, <1>4, <1>5 DEF Aggregate!TypeOK, Aggregate!Versioned
<1>7. Lives(f)'
  BY <1>1, <1>2, <1>3, <1>4, <1>5 DEF Lives
<1> QED
  BY <1>6, <1>7 DEF AggregateInv

\* What was not saved is dropped, and the agent is where the stored events end.
LEMMA Dropped ==
  ASSUME AggregateInv, NEW f, Lives(f), stored' = stored, fresh' = <<>>, shared' = shared,
         agent' \in Aggregate!Agent, agent'.version = Len(stored), Alike(shared, agent', f[Len(stored)]),
         snapshot' \in Aggregate!Snapshot \cup {None},
         snapshot' # None => /\ snapshot'.agent.version \in 0..Len(stored)
                             /\ Alike(shared, snapshot'.agent, f[snapshot'.agent.version])
  PROVE  AggregateInv'
<1>1. /\ Aggregate!TypeOK /\ Aggregate!Log \in Seq(Aggregate!Event) /\ CountedFrom(0, stored)
      /\ stored \in Seq(Aggregate!Event) /\ fresh \in Seq(Aggregate!Event)
      /\ Len(Aggregate!Log) = Len(stored) + Len(fresh) /\ Len(stored) \in Nat /\ Len(fresh) \in Nat
      /\ \A i \in 1..Len(stored) : Aggregate!Log[i] = stored[i]
  BY LogFacts DEF AggregateInv
<1>2. Aggregate!Log' = stored
  <2>1. stored \o <<>> = stored
    BY <1>1
  <2> QED
    BY <2>1 DEF Aggregate!Log
<1>3. Aggregate!TypeOK'
  BY <1>1 DEF Aggregate!TypeOK
<1>4. Aggregate!Versioned'
  BY <1>1, <1>2 DEF Aggregate!Versioned, CountedFrom
<1>5. Course(f, Aggregate!New, Aggregate!Log) /\ f[0] = Aggregate!New
  BY DEF Lives, Course
<1>6. PICK h : PartOf(h, f, 0, stored)
  <2>1. 0 \in 0..Len(Aggregate!Log) /\ 0 + Len(stored) <= Len(Aggregate!Log)
    BY <1>1
  <2>2. \A i \in 1..Len(stored) : stored[i] = Aggregate!Log[0 + i]
    BY <1>1
  <2> QED
    BY <1>1, <1>5, <2>1, <2>2, CoursePart
<1>7. Course(h, Aggregate!New, stored) /\ \A n \in 0..Len(stored) : h[n] = f[n] /\ n \in 0..Len(Aggregate!Log)
  BY <1>1, <1>5, <1>6 DEF PartOf
<1>8. Lives(h)'
  <2>1. ~shared => \A n \in 0..Len(stored) : BusyHolds(h[n])
    BY <1>7 DEF Lives
  <2>2. Len(stored) \in 0..Len(stored)
    BY <1>1
  <2> QED
    BY <1>2, <1>7, <2>1, <2>2 DEF Lives
<1> QED
  BY <1>3, <1>4, <1>8 DEF AggregateInv

\* A new agent replays what is stored.
LEMMA LoadKeeps == AggregateInv /\ Aggregate!Load => AggregateInv'
<1> SUFFICES ASSUME AggregateInv, Aggregate!Load PROVE AggregateInv'
  OBVIOUS
<1>1. PICK f : Lives(f)
  BY DEF AggregateInv
<1>2. /\ agent' = Aggregate!LoadFrom(Aggregate!New, stored) /\ fresh' = <<>> /\ UNCHANGED <<stored, shared>>
      /\ snapshot' = IF snapshot = None THEN None ELSE [snapshot EXCEPT !.attached = FALSE]
  BY DEF Aggregate!Load
<1>3. /\ Aggregate!TypeOK /\ Aggregate!Log \in Seq(Aggregate!Event) /\ CountedFrom(0, stored)
      /\ stored \in Seq(Aggregate!Event) /\ fresh \in Seq(Aggregate!Event)
      /\ Len(Aggregate!Log) = Len(stored) + Len(fresh) /\ Len(stored) \in Nat /\ Len(fresh) \in Nat
      /\ \A i \in 1..Len(stored) : Aggregate!Log[i] = stored[i]
  BY LogFacts DEF AggregateInv
<1>4. Course(f, Aggregate!New, Aggregate!Log) /\ f[0] = Aggregate!New
  BY <1>1 DEF Lives, Course
<1>5. PICK h : PartOf(h, f, 0, stored)
  <2>1. 0 \in 0..Len(Aggregate!Log) /\ 0 + Len(stored) <= Len(Aggregate!Log)
    BY <1>3
  <2>2. \A i \in 1..Len(stored) : stored[i] = Aggregate!Log[0 + i]
    BY <1>3
  <2> QED
    BY <1>3, <1>4, <2>1, <2>2, CoursePart
<1>6. Course(h, Aggregate!New, stored) /\ h[Len(stored)] = f[Len(stored)] /\ Len(stored) \in 0..Len(stored)
  BY <1>3, <1>4, <1>5 DEF PartOf
<1>7. agent' = f[Len(stored)]
  BY <1>2, <1>3, <1>6, NewAgent, LoadEnds
<1>8. agent' \in Aggregate!Agent /\ agent'.version = Len(stored)
  BY <1>3, <1>6, <1>7, CourseVersions
<1>9. shared \in BOOLEAN /\ snapshot \in Aggregate!Snapshot \cup {None}
  BY <1>3 DEF Aggregate!TypeOK
<1>10. Alike(shared, agent', f[Len(stored)])
  BY <1>7, <1>8, <1>9, SelfAlike
<1>11. /\ snapshot' \in Aggregate!Snapshot \cup {None}
       /\ snapshot' # None => snapshot # None /\ snapshot'.agent = snapshot.agent
  <2>1. CASE snapshot = None
    BY <1>2, <2>1
  <2>2. CASE snapshot # None
    <3>1. snapshot = [agent |-> snapshot.agent, attached |-> snapshot.attached] /\ snapshot.agent \in Aggregate!Agent
      BY <1>9, <2>2 DEF Aggregate!Snapshot
    <3>2. snapshot' = [agent |-> snapshot.agent, attached |-> FALSE]
      BY <1>2, <2>2, <3>1
    <3> QED
      BY <2>2, <3>1, <3>2 DEF Aggregate!Snapshot
  <2> QED
    BY <2>1, <2>2
<1>12. snapshot' # None => /\ snapshot'.agent.version \in 0..Len(stored)
                           /\ Alike(shared, snapshot'.agent, f[snapshot'.agent.version])
  BY <1>1, <1>11 DEF Lives
<1> QED
  BY <1>1, <1>2, <1>8, <1>10, <1>11, <1>12, Dropped

\* The snapshot's agent replays what was stored since.
LEMMA RestoreKeeps == AggregateInv /\ Aggregate!RestoreFromSnapshot => AggregateInv'
<1> SUFFICES ASSUME AggregateInv, Aggregate!RestoreFromSnapshot PROVE AggregateInv'
  OBVIOUS
<1>1. PICK f : Lives(f)
  BY DEF AggregateInv
<1>2. PICK v : v = snapshot.agent.version
  OBVIOUS
<1>3. PICK s : s = Aggregate!GetEventsSince(v)
  OBVIOUS
<1>4. /\ snapshot # None /\ agent' = Aggregate!LoadFrom(snapshot.agent, s) /\ fresh' = <<>> /\ UNCHANGED <<stored, shared>>
      /\ snapshot' = Aggregate!Mirrored([snapshot EXCEPT !.attached = TRUE], agent')
  BY <1>2, <1>3 DEF Aggregate!RestoreFromSnapshot, Aggregate!Restored
<1>5. /\ Aggregate!TypeOK /\ Aggregate!Log \in Seq(Aggregate!Event) /\ CountedFrom(0, Aggregate!Log) /\ CountedFrom(0, stored)
      /\ stored \in Seq(Aggregate!Event) /\ fresh \in Seq(Aggregate!Event)
      /\ Len(Aggregate!Log) = Len(stored) + Len(fresh) /\ Len(stored) \in Nat /\ Len(fresh) \in Nat
      /\ \A i \in 1..Len(stored) : Aggregate!Log[i] = stored[i]
  BY LogFacts DEF AggregateInv
<1>6. shared \in BOOLEAN /\ snapshot \in Aggregate!Snapshot /\ snapshot.agent \in Aggregate!Agent
  BY <1>4, <1>5 DEF Aggregate!TypeOK, Aggregate!Snapshot
<1>7. v \in 0..Len(stored) /\ Alike(shared, snapshot.agent, f[v])
  BY <1>1, <1>2, <1>4 DEF Lives
<1>8. PICK M \in Nat : M = Len(stored) - v
  BY <1>5, <1>7
<1>9. s \in Seq(Aggregate!Event) /\ Len(s) = M /\ \A i \in 1..M : s[i] = stored[v + i]
  <2>1. s = [i \in 1..M |-> stored[v + i]]
    BY <1>3, <1>5, <1>7, <1>8, EventsSince
  <2>2. \A i \in 1..M : stored[v + i] \in Aggregate!Event
    BY <1>5, <1>7, <1>8
  <2> QED
    BY <2>1, <2>2
<1>10. Course(f, Aggregate!New, Aggregate!Log)
  BY <1>1 DEF Lives
<1>11. PICK h : PartOf(h, f, v, s)
  <2>1. v \in 0..Len(Aggregate!Log) /\ v + Len(s) <= Len(Aggregate!Log)
    BY <1>5, <1>7, <1>8, <1>9
  <2>2. \A i \in 1..Len(s) : s[i] = Aggregate!Log[v + i]
    BY <1>5, <1>7, <1>8, <1>9
  <2> QED
    BY <1>5, <1>9, <1>10, <2>1, <2>2, CoursePart
<1>12. PICK g : Course(g, snapshot.agent, s)
  BY <1>6, <1>9, CourseExists
<1>13. agent' = g[M] /\ agent' \in Aggregate!Agent
  <2>1. agent' = g[Len(s)]
    BY <1>4, <1>6, <1>9, <1>12, LoadEnds
  <2>2. M \in 0..Len(s)
    BY <1>9
  <2> QED
    BY <1>9, <1>12, <2>1, <2>2 DEF Course
<1>14. h[M] = f[Len(stored)] /\ M \in 0..Len(s) /\ Len(stored) \in 0..Len(Aggregate!Log)
  BY <1>5, <1>7, <1>8, <1>9, <1>11 DEF PartOf
<1>15. Alike(shared, agent', f[Len(stored)])
  <2>1. Alike(shared, g[M], h[M])
    <3>1. Course(h, f[v], s)
      BY <1>11 DEF PartOf
    <3> QED
      BY <1>6, <1>7, <1>9, <1>12, <1>14, <3>1, CoursesAlike
  <2> QED
    BY <1>13, <1>14, <2>1
<1>16. f[Len(stored)] \in Aggregate!Agent /\ f[Len(stored)].version = Len(stored)
  BY <1>5, <1>10, <1>14, CourseVersions
<1>17. agent'.version = Len(stored)
  <2>1. CASE shared
    BY <1>13, <1>15, <1>16, <2>1, AlikeFields DEF Alike
  <2>2. CASE ~shared
    BY <1>15, <1>16, <2>2 DEF Alike
  <2> QED
    BY <2>1, <2>2
<1>18. PICK q : q = [snapshot EXCEPT !.attached = TRUE]
  OBVIOUS
<1>19. q \in Aggregate!Snapshot /\ q.agent = snapshot.agent
  <2>1. snapshot = [agent |-> snapshot.agent, attached |-> snapshot.attached]
    BY <1>6 DEF Aggregate!Snapshot
  <2>2. q = [agent |-> snapshot.agent, attached |-> TRUE]
    BY <1>18, <2>1
  <2> QED
    BY <1>6, <2>2 DEF Aggregate!Snapshot
<1>20. f[v] \in Aggregate!Agent
  <2>1. v \in 0..Len(Aggregate!Log)
    BY <1>5, <1>7
  <2> QED
    BY <1>10, <2>1 DEF Course
<1>21. /\ snapshot' \in Aggregate!Snapshot /\ snapshot'.agent.version = v
       /\ Alike(shared, snapshot'.agent, f[v])
  <2>1. Alike(shared, q.agent, f[v]) /\ q.agent.version = v /\ snapshot' = Aggregate!Mirrored(q, agent')
    BY <1>2, <1>4, <1>7, <1>18, <1>19
  <2> QED
    BY <1>5, <1>13, <1>19, <1>20, <2>1, MirroredKeeps
<1> QED
  BY <1>1, <1>4, <1>7, <1>13, <1>15, <1>17, <1>21, Dropped

LEMMA AggregateStep ==
  ASSUME Aggregate!NoneAssumption, AggregateInv, [Aggregate!Next]_(Aggregate!vars)
  PROVE  AggregateInv'
<1>1. CASE Aggregate!Next
  BY <1>1, CommandKeeps, SaveKeeps, SnapshotKeeps, LoadKeeps, RestoreKeeps DEF Aggregate!Next
<1>2. CASE UNCHANGED Aggregate!vars
  <2>1. UNCHANGED <<agent, stored, fresh, snapshot, shared>>
    BY <1>2 DEF Aggregate!vars
  <2>2. Aggregate!Log' = Aggregate!Log
    BY <2>1 DEF Aggregate!Log
  <2>3. Aggregate!TypeOK' /\ Aggregate!Versioned'
    BY <2>1, <2>2 DEF AggregateInv, Aggregate!TypeOK, Aggregate!Versioned
  <2>4. PICK f : Lives(f)
    BY DEF AggregateInv
  <2>5. Lives(f)'
    BY <2>1, <2>2, <2>4 DEF Lives
  <2> QED
    BY <2>3, <2>5 DEF AggregateInv
<1> QED
  BY <1>1, <1>2

-----------------------------------------------------------------------------
(* The parts together.                                                     *)

Inv == AggregateInv /\ StoreInv /\ EngineInv

LEMMA Initially == MCInit => Inv
BY AggregateInitially, StoreInitially, EngineInitially, PartsAssumption DEF MCInit, Inv

\* A part that is not the one that runs stays as it is.
LEMMA Steps ==
  ASSUME [MCNext]_MCVars
  PROVE  [Aggregate!Next]_(Aggregate!vars) /\ [Store!Next]_(Store!vars) /\ [Engine!Next]_(Engine!vars)
BY DEF MCNext, MCVars, aggregateVars, storeVars, engineVars, Aggregate!vars, Store!vars, Engine!vars

LEMMA EveryStep == Inv /\ [MCNext]_MCVars => Inv'
BY Steps, AggregateStep, StoreStep, EngineStep, PartsAssumption DEF Inv

\* Whatever is saved, left out, snapshot and rebuilt in whatever order: the events
\* of an agent are numbered without a gap, the agent is what they make of a new one
\* (but for the state it resumes to, where a snapshot shares that with it),
\* and with a store that serializes its snapshots a busy agent has a task.
THEOREM AgentsAreRebuilt == MCSpec => []Rebuilt
<1>1. Inv => Rebuilt
  BY AggregateImplies DEF Inv, Rebuilt
<1> QED
  BY <1>1, Initially, EveryStep, PTL DEF MCSpec

\* For any number of callers whose flushes overlap at any step: unless flushes
\* overlap and one fails, every appended event is in the buffer, in a flush
\* or in the table.
THEOREM EventsAreNotLost == MCSpec => []NoneLost
<1>1. Inv => NoneLost
  BY StoreImplies DEF Inv, NoneLost
<1> QED
  BY <1>1, Initially, EveryStep, PTL DEF MCSpec

\* However many groups share the workers, and whichever of them fail or are
\* aborted, in this replay or in one that overlaps it: no more run than there
\* are workers, none waits for a free one, and a replay that reports
\* completion has handled all events with no more failures than are allowed.
THEOREM ReplaysAreKept == MCSpec => []ReplayKept
<1>1. Inv => ReplayKept
  BY EngineImplies, PartsAssumption DEF Inv, ReplayKept
<1> QED
  BY <1>1, Initially, EveryStep, PTL DEF MCSpec

-----------------------------------------------------------------------------
(* The state machine of an agent (AgentStateMachine).                      *)

\* Where the frame of a call stands: it runs unless it sleeps, it will forget
\* the agent, it waits inside transition(), it will save machine m.
Running(f) == f.at \notin {"none", "sleep"}
Forgetting(f) ==
  /\ f.at \in {"persist", "back", "delete", "deleted"}
  /\ f.op \in {"stop", "slowStop"} /\ f.to = "stopped"
Waits(f) == f.at \in {"guard", "action"}
Saves(f, m) == f.at = "persist" /\ f.ok /\ f.m = m

\* The machines that are referred to exist.
Ranges ==
  /\ TypeOK /\ created \in Nat
  /\ \A c \in Callers : frame[c] # NoFrame => frame[c].m \in Machines
  /\ \A i \in DOMAIN ready : ready[i] \in Loader => ready[i].load \in Machines
  /\ \A i \in DOMAIN timers : ~timers[i].wakes => timers[i].who \in Machines

\* A call that runs is among the continuations that are ready.
Queued == \A c \in Callers : Running(frame[c]) => \E i \in DOMAIN ready : ready[i] = c

\* The transition to stopped waits for nothing, and only a stop sleeps.
NotToStopped ==
  \A c \in Callers : (Waits(frame[c]) => frame[c].to # "stopped") /\ (frame[c].at = "sleep" => frame[c].op = "slowStop")

\* A machine is loaded before anything else runs, also the call that registers it.
LoadsFirst ==
  environment.serial \/ environment.settled =>
    \A i \in DOMAIN ready : ready[i] \in Loader =>
       /\ i = 1 /\ Len(ready) >= 2 /\ ready[2] \in Callers
       /\ frame[ready[2]] = Call("register", ready[1].load, "persist", "initializing", TRUE)

\* A call that overlaps with no other concludes a transition that is still in the table.
Alone ==
  environment.serial =>
    /\ \A c, d \in Callers : frame[c] # NoFrame /\ frame[d] # NoFrame => c = d
    /\ \A c \in Callers : Waits(frame[c]) => <<machine[frame[c].m].state, frame[c].to>> \in Transitions

\* A call that took the registered machine to stopped forgets it.
Stopping == registered # 0 /\ Agent.state = "stopped" => \E c \in Callers : Forgetting(frame[c])

\* The last save that is pending is one of machine m.
LastSaved(m) == \E i \in DOMAIN timers : timers[i] = Pending(m) /\ \A j \in DOMAIN timers : j > i => timers[j].wakes
\* No save is pending, and the storage agrees with the registered machine.
Agrees == saved # Null /\ saved.state = Agent.state /\ \A i \in DOMAIN timers : timers[i].wakes

\* What becomes of the storage, where an agent is registered when nothing runs:
\* until the registered machine is to be forgotten, all calls that run are its own,
\* and it will be saved last or agrees with the storage.
StorageKept ==
  environment.settled /\ registered # 0 /\ (\A c \in Callers : ~Forgetting(frame[c])) =>
    /\ \A c \in Callers : Running(frame[c]) => frame[c].m = registered
    /\ (\E c \in Callers : Saves(frame[c], registered)) \/ LastSaved(registered) \/ Agrees

\* The inductive invariant.
RegistryInv == Ranges /\ Queued /\ NotToStopped /\ LoadsFirst /\ Alone /\ Stopping /\ StorageKept

\* A frame is that of no call, or has the fields of a call.
LEMMA FrameKinds ==
  /\ \A f \in Frame :
       \/ f = NoFrame /\ f.at = "none"
       \/ /\ f # NoFrame
          /\ f.at \in {"guard", "action", "persist", "back", "sleep", "delete", "deleted"}
          /\ f.op \in Operations /\ f.m \in Nat /\ f.to \in States /\ f.ok \in BOOLEAN
  /\ NoFrame \in Frame /\ ~Running(NoFrame) /\ ~Forgetting(NoFrame) /\ ~Waits(NoFrame)
  /\ NoFrame.at = "none" /\ \A m : ~Saves(NoFrame, m)
<1>1. \A f \in [at : {"none"}] : f = NoFrame /\ f.at = "none"
  BY DEF NoFrame
<1>2. \A f \in [at : {"guard", "action", "persist", "back", "sleep", "delete", "deleted"},
                op : Operations, m : Nat, to : States, ok : BOOLEAN] :
        /\ f # NoFrame
        /\ f.at \in {"guard", "action", "persist", "back", "sleep", "delete", "deleted"}
        /\ f.op \in Operations /\ f.m \in Nat /\ f.to \in States /\ f.ok \in BOOLEAN
  <2> SUFFICES ASSUME NEW f \in [at : {"guard", "action", "persist", "back", "sleep", "delete", "deleted"},
                                 op : Operations, m : Nat, to : States, ok : BOOLEAN]
               PROVE  /\ f # NoFrame
                      /\ f.at \in {"guard", "action", "persist", "back", "sleep", "delete", "deleted"}
                      /\ f.op \in Operations /\ f.m \in Nat /\ f.to \in States /\ f.ok \in BOOLEAN
    OBVIOUS
  <2>1. f.at \in {"guard", "action", "persist", "back", "sleep", "delete", "deleted"}
    OBVIOUS
  <2>2. NoFrame.at = "none"
    BY DEF NoFrame
  <2> QED
    BY <2>1, <2>2
<1>3. NoFrame \in [at : {"none"}] /\ NoFrame.at = "none"
  BY DEF NoFrame
<1> QED
  BY <1>1, <1>2, <1>3 DEF Frame, Running, Forgetting, Waits, Saves

\* The frame of a call, and that frame further on.
LEMMA CallFrame ==
  ASSUME NEW op \in Operations, NEW m \in Nat, NEW to \in States, NEW ok \in BOOLEAN,
         NEW at \in {"guard", "action", "persist", "back", "sleep", "delete", "deleted"}
  PROVE  /\ Call(op, m, at, to, ok) \in Frame /\ Call(op, m, at, to, ok) # NoFrame
         /\ Call(op, m, at, to, ok).op = op /\ Call(op, m, at, to, ok).m = m
         /\ Call(op, m, at, to, ok).at = at /\ Call(op, m, at, to, ok).to = to
         /\ Call(op, m, at, to, ok).ok = ok
<1>1. Call(op, m, at, to, ok) \in [at : {"guard", "action", "persist", "back", "sleep", "delete", "deleted"},
                                   op : Operations, m : Nat, to : States, ok : BOOLEAN]
  BY DEF Call
<1>2. Call(op, m, at, to, ok).at = at
  BY DEF Call
<1>3. NoFrame.at = "none"
  BY DEF NoFrame
<1> QED
  BY <1>1, <1>2, <1>3 DEF Call, Frame

\* A frame that goes on.
LEMMA FrameMoves ==
  ASSUME NEW f \in Frame, f # NoFrame,
         NEW at \in {"guard", "action", "persist", "back", "sleep", "delete", "deleted"}
  PROVE  /\ [f EXCEPT !.at = at] \in Frame /\ [f EXCEPT !.at = at] # NoFrame
         /\ [f EXCEPT !.at = at].op = f.op /\ [f EXCEPT !.at = at].m = f.m
         /\ [f EXCEPT !.at = at].at = at /\ [f EXCEPT !.at = at].to = f.to
         /\ [f EXCEPT !.at = at].ok = f.ok
<1>1. f \in [at : {"guard", "action", "persist", "back", "sleep", "delete", "deleted"},
             op : Operations, m : Nat, to : States, ok : BOOLEAN]
  BY DEF Frame, NoFrame
<1>2. PICK g : g = [f EXCEPT !.at = at]
  OBVIOUS
<1>3. /\ g \in [at : {"guard", "action", "persist", "back", "sleep", "delete", "deleted"},
                op : Operations, m : Nat, to : States, ok : BOOLEAN]
      /\ g.op = f.op /\ g.m = f.m /\ g.at = at /\ g.to = f.to /\ g.ok = f.ok
  BY <1>1, <1>2
<1>4. NoFrame.at = "none"
  BY DEF NoFrame
<1>5. g \in Frame /\ g # NoFrame
  BY <1>3, <1>4 DEF Frame
<1> QED
  BY <1>2, <1>3, <1>5

\* What a step does to the queue of continuations: a new call, or the call whose
\* turn it is, is ready again behind the others, or is not ready any more.
Turns(c, f, others) ==
  /\ frame' = [frame EXCEPT ![c] = f]
  /\ \/ others = ready /\ frame[c] = NoFrame
     \/ ready # <<>> /\ Head(ready) = c /\ others = Tail(ready)
  /\ ready' = Append(others, c) \/ (ready' = others /\ ~Running(f))

\* Calls that run remain in the queue, and a machine is still loaded first.
LEMMA TurnsKeep ==
  ASSUME NamesAssumption, RegistryInv, NEW c \in Callers, NEW f, NEW others, Turns(c, f, others),
         created' \in Nat, created <= created', UNCHANGED environment
  PROVE  /\ ready' \in Seq(Callers \cup Loader)
         /\ \A i \in DOMAIN ready' : ready'[i] \in Loader => ready'[i].load \in Machines'
         /\ Queued' /\ LoadsFirst'
<1>1. ready \in Seq(Callers \cup Loader) /\ frame \in [Callers -> Frame] /\ created \in Nat
  BY DEF RegistryInv, Ranges, TypeOK
<1>2. \A d \in Callers : d # c => frame'[d] = frame[d]
  BY <1>1 DEF Turns
<1>3. frame'[c] = f
  BY <1>1 DEF Turns
<1>4. others \in Seq(Callers \cup Loader)
  BY <1>1 DEF Turns
<1>5. ready' \in Seq(Callers \cup Loader) /\ Len(ready') >= Len(others)
      /\ \A i \in 1..Len(others) : ready'[i] = others[i]
  BY <1>4 DEF Turns
<1>6. \A i \in 1..Len(ready') : ready'[i] = c \/ (i \in 1..Len(others) /\ ready'[i] = others[i])
  BY <1>4 DEF Turns
<1>7. \A i \in 1..Len(others) : \E j \in 1..Len(ready) : others[i] = ready[j]
  <2>1. CASE others = ready
    BY <2>1
  <2>2. CASE ready # <<>> /\ others = Tail(ready)
    <3>1. Len(others) = Len(ready) - 1 /\ \A i \in 1..Len(others) : others[i] = ready[i + 1]
      BY <2>2, <1>1
    <3>2. Len(ready) \in Nat /\ Len(others) \in Nat
      BY <1>1, <1>4
    <3>3. \A i \in 1..Len(others) : i + 1 \in 1..Len(ready)
      BY <3>1, <3>2
    <3> QED
      BY <3>1, <3>3
  <2> QED
    BY <2>1, <2>2 DEF Turns
<1>8. DOMAIN ready' = 1..Len(ready') /\ DOMAIN ready = 1..Len(ready)
  BY <1>1, <1>5
<1>9. Machines \subseteq Machines' /\ c \notin Loader
  BY <1>1 DEF Machines, NamesAssumption
<1>10. \A i \in DOMAIN ready' : ready'[i] \in Loader => ready'[i].load \in Machines'
  <2> SUFFICES ASSUME NEW i \in DOMAIN ready', ready'[i] \in Loader
               PROVE  ready'[i].load \in Machines'
    OBVIOUS
  <2>1. i \in 1..Len(others) /\ ready'[i] = others[i]
    BY <1>6, <1>8, <1>9
  <2>2. PICK j \in 1..Len(ready) : others[i] = ready[j]
    BY <2>1, <1>7
  <2>3. ready[j].load \in Machines
    BY <2>1, <2>2, <1>8 DEF RegistryInv, Ranges
  <2> QED
    BY <2>1, <2>2, <2>3, <1>9
<1>11. Queued'
  <2> SUFFICES ASSUME NEW d \in Callers, Running(frame'[d])
               PROVE  \E i \in 1..Len(ready') : ready'[i] = d
    BY <1>8 DEF Queued
  <2>1. CASE d = c
    <3>1. ready' = Append(others, c)
      BY <2>1, <1>3 DEF Turns
    <3>2. Len(ready') \in 1..Len(ready') /\ ready'[Len(ready')] = c
      BY <3>1, <1>4
    <3> QED
      BY <3>2, <2>1
  <2>2. CASE d # c
    <3>1. PICK i \in 1..Len(ready) : ready[i] = d
      BY <2>2, <1>2, <1>8 DEF RegistryInv, Queued
    <3>2. \E j \in 1..Len(others) : others[j] = d
      <4>1. CASE others = ready
        BY <4>1, <3>1
      <4>2. CASE ready # <<>> /\ Head(ready) = c /\ others = Tail(ready)
        <5>1. Len(ready) \in Nat /\ i # 1
          BY <4>2, <3>1, <2>2, <1>1
        <5>2. i - 1 \in 1..Len(others) /\ others[i - 1] = ready[(i - 1) + 1]
          BY <5>1, <4>2, <3>1, <1>1
        <5>3. (i - 1) + 1 = i
          BY <3>1
        <5> QED
          BY <5>2, <5>3, <3>1
      <4> QED
        BY <4>1, <4>2 DEF Turns
    <3>3. PICK j \in 1..Len(others) : others[j] = d
      BY <3>2
    <3>4. j \in 1..Len(ready')
      BY <1>4, <1>5
    <3> QED
      BY <3>3, <3>4, <1>5
  <2> QED
    BY <2>1, <2>2
<1>12. LoadsFirst'
  <2> SUFFICES ASSUME environment.serial \/ environment.settled, NEW i \in DOMAIN ready', ready'[i] \in Loader
               PROVE  /\ i = 1 /\ Len(ready') >= 2 /\ ready'[2] \in Callers
                      /\ frame'[ready'[2]] = Call("register", ready'[1].load, "persist", "initializing", TRUE)
    BY DEF LoadsFirst
  <2>1. i \in 1..Len(others) /\ ready'[i] = others[i]
    BY <1>6, <1>8, <1>9
  <2>2. \A j \in 1..Len(ready) : ready[j] \in Loader =>
          /\ j = 1 /\ Len(ready) >= 2 /\ ready[2] \in Callers
          /\ frame[ready[2]] = Call("register", ready[1].load, "persist", "initializing", TRUE)
    BY <1>8 DEF RegistryInv, LoadsFirst
  <2>3. CASE others = ready /\ frame[c] = NoFrame
    <3>1. /\ i = 1 /\ Len(ready) >= 2 /\ ready[2] \in Callers
          /\ frame[ready[2]] = Call("register", ready[1].load, "persist", "initializing", TRUE)
      BY <2>1, <2>2, <2>3
    <3>2. Call("register", ready[1].load, "persist", "initializing", TRUE).at = "persist" /\ NoFrame.at = "none"
      BY DEF Call, NoFrame
    <3>3. ready[2] # c
      BY <3>1, <3>2, <2>3
    <3>4. frame'[ready[2]] = frame[ready[2]]
      BY <3>1, <3>3, <1>2
    <3>5. 1 \in 1..Len(others) /\ 2 \in 1..Len(others) /\ Len(others) \in Nat /\ Len(ready') \in Nat
      BY <3>1, <2>3, <1>4, <1>5
    <3>6. ready'[1] = ready[1] /\ ready'[2] = ready[2] /\ Len(ready') >= 2
      BY <3>1, <3>5, <2>3, <1>5
    <3> QED
      BY <3>1, <3>4, <3>6
  <2>4. CASE ready # <<>> /\ Head(ready) = c /\ others = Tail(ready)
    <3>1. PICK j \in 1..Len(ready) : others[i] = ready[j]
      BY <2>1, <1>7
    <3>2. j = 1
      BY <3>1, <2>1, <2>2
    <3>3. ready[1] = c
      BY <2>4, <1>1
    <3> QED
      BY <3>1, <3>2, <3>3, <2>1, <1>9
  <2> QED
    BY <2>3, <2>4 DEF Turns
<1> QED
  BY <1>5, <1>10, <1>11, <1>12

\* The pending saves and the storage are as they were, with more to wake at most.
TimersKept(m) ==
  /\ saved' = saved
  /\ LastSaved(m) => LastSaved(m)'
  /\ (\A i \in DOMAIN timers : timers[i].wakes) => (\A i \in DOMAIN timers' : timers'[i].wakes)

\* A step of call c, after which it stands at f: the state of its machine m changes
\* only if that will be saved, and the call does not lose what it is about to do.
Proceeds(c, f, m) ==
  /\ frame' = [frame EXCEPT ![c] = f]
  /\ \A n \in Machines : machine'[n].state # machine[n].state =>
       n = m /\ Saves(f, m) /\ (machine'[m].state = "stopped" => Forgetting(f))
  /\ Waits(f) => /\ f.to # "stopped"
                 /\ environment.serial => <<machine'[f.m].state, f.to>> \in Transitions
  /\ f.at = "sleep" => f.op = "slowStop"
  /\ environment.serial => frame[c] # NoFrame \/ \A d \in Callers : frame[d] = NoFrame
  /\ Forgetting(frame[c]) => Forgetting(f)
  /\ \/ Forgetting(f)
     \/ Running(frame[c]) /\ frame[c].m # registered
     \/ /\ Running(f) => f.m = registered
        /\ LastSaved(registered)' \/ (TimersKept(registered) /\ ~Saves(frame[c], registered))

\* Such a step keeps what concerns the frames.
LEMMA ProceedsKeeps ==
  ASSUME RegistryInv, NEW c \in Callers, NEW f \in Frame, NEW m \in Machines, Proceeds(c, f, m),
         UNCHANGED <<registered, created, environment>>
  PROVE  NotToStopped' /\ Alone' /\ Stopping' /\ StorageKept'
<1>1. frame \in [Callers -> Frame] /\ (registered # 0 => registered \in Machines)
  BY DEF RegistryInv, Ranges, TypeOK, Machines
<1>2. frame'[c] = f /\ \A d \in Callers : d # c => frame'[d] = frame[d]
  BY <1>1 DEF Proceeds
<1>3. NotToStopped'
  BY <1>2 DEF NotToStopped, RegistryInv, Proceeds
<1>4. Alone'
  <2> SUFFICES ASSUME environment.serial
               PROVE  /\ \A d, e \in Callers : frame'[d] # NoFrame /\ frame'[e] # NoFrame => d = e
                      /\ \A d \in Callers : Waits(frame'[d]) => <<machine'[frame'[d].m].state, frame'[d].to>> \in Transitions
    BY DEF Alone
  <2>1. \A d \in Callers : d # c => frame[d] = NoFrame
    BY DEF RegistryInv, Alone, Proceeds
  <2>2. \A d \in Callers : d # c => frame'[d] = NoFrame
    BY <2>1, <1>2
  <2>3. ~Waits(NoFrame)
    BY FrameKinds
  <2>4. Waits(f) => <<machine'[f.m].state, f.to>> \in Transitions
    BY DEF Proceeds
  <2> QED
    BY <2>2, <2>3, <2>4, <1>2
<1>5. Stopping'
  <2> SUFFICES ASSUME registered # 0, machine'[registered].state = "stopped"
               PROVE  \E d \in Callers : Forgetting(frame'[d])
    BY DEF Stopping, Agent
  <2>1. CASE machine[registered].state = "stopped"
    <3>1. PICK d \in Callers : Forgetting(frame[d])
      BY <2>1 DEF RegistryInv, Stopping, Agent
    <3> QED
      BY <3>1, <1>2 DEF Proceeds
  <2>2. CASE machine[registered].state # "stopped"
    <3>1. Forgetting(f)
      BY <2>2, <1>1 DEF Proceeds
    <3> QED
      BY <3>1, <1>2
  <2> QED
    BY <2>1, <2>2
<1>6. StorageKept'
  <2> SUFFICES ASSUME environment.settled, registered # 0, \A d \in Callers : ~Forgetting(frame'[d])
               PROVE  /\ \A d \in Callers : Running(frame'[d]) => frame'[d].m = registered
                      /\ (\E d \in Callers : Saves(frame'[d], registered)) \/ LastSaved(registered)' \/ Agrees'
    BY DEF StorageKept
  <2>1. ~Forgetting(f) /\ \A d \in Callers : ~Forgetting(frame[d])
    BY <1>2 DEF Proceeds
  <2>2. /\ \A d \in Callers : Running(frame[d]) => frame[d].m = registered
        /\ (\E d \in Callers : Saves(frame[d], registered)) \/ LastSaved(registered) \/ Agrees
    BY <2>1 DEF RegistryInv, StorageKept
  <2>3. Running(f) => f.m = registered
    BY <2>1, <2>2 DEF Proceeds
  <2>4. \A d \in Callers : Running(frame'[d]) => frame'[d].m = registered
    BY <2>2, <2>3, <1>2
  <2>5. CASE LastSaved(registered)'
    BY <2>4, <2>5
  <2>6. CASE TimersKept(registered) /\ ~Saves(frame[c], registered)
    <3>1. CASE \E d \in Callers : Saves(frame[d], registered)
      <4>1. PICK d \in Callers : Saves(frame[d], registered)
        BY <3>1
      <4>2. d # c
        BY <4>1, <2>6
      <4> QED
        BY <4>1, <4>2, <1>2, <2>4
    <3>2. CASE LastSaved(registered)
      BY <3>2, <2>6, <2>4 DEF TimersKept
    <3>3. CASE Agrees
      <4>1. CASE machine'[registered].state = machine[registered].state
        BY <3>3, <4>1, <2>6, <2>4 DEF Agrees, TimersKept, Agent
      <4>2. CASE machine'[registered].state # machine[registered].state
        <5>1. Saves(f, registered)
          BY <4>2, <1>1 DEF Proceeds
        <5> QED
          BY <5>1, <1>2, <2>4
      <4> QED
        BY <4>1, <4>2
    <3> QED
      BY <3>1, <3>2, <3>3, <2>2
  <2> QED
    BY <2>1, <2>2, <2>5, <2>6 DEF Proceeds
<1> QED
  BY <1>3, <1>4, <1>5, <1>6

\* What becomes of a call that begins a transition of machine m: it fails, waits, or
\* is in the new state.
Begins(c, op, m, to, f) ==
  /\ frame' = [frame EXCEPT ![c] = f]
  /\ machine' \in [Machines -> Machine]
  /\ \/ f = NoFrame /\ \A n \in Machines : machine'[n].state = machine[n].state
     \/ /\ f \in Frame /\ Waits(f) /\ f.op = op /\ f.m = m /\ f.to = to /\ to # "stopped"
        /\ <<machine[m].state, to>> \in Transitions
        /\ \A n \in Machines : machine'[n].state = machine[n].state
     \/ /\ f = Call(op, m, "persist", to, TRUE) /\ machine'[m].state = to
        /\ <<machine[m].state, to>> \in Transitions
        /\ \A n \in Machines : n # m => machine'[n].state = machine[n].state

\* What Begin does is one of these.
LEMMA BeginBegins ==
  ASSUME NEW c \in Callers, NEW op \in Operations, NEW m \in Machines, NEW to \in States, NEW machines, NEW others,
         Ranges, machines \in [Machines -> Machine], \A n \in Machines : machines[n].state = machine[n].state,
         Begin(c, op, m, to, machines, others)
  PROVE  \E f : /\ Begins(c, op, m, to, f)
                /\ ready' = Append(others, c) \/ (ready' = others /\ ~Running(f))
                /\ entry' \in [status : {"idle", "busy", "unhealthy", "offline"}, load : 0..1]
<1>1. /\ created \in Nat /\ m \in Nat /\ machine[m].state \in States
      /\ entry \in [status : {"idle", "busy", "unhealthy", "offline"}, load : 0..1]
  BY DEF Ranges, TypeOK, Machines, Machine
<1>2. CASE ~CanTransition(m, to) /\ End(c, others) /\ machine' = machines /\ UNCHANGED entry
  <2>1. Begins(c, op, m, to, NoFrame)
    BY <1>2 DEF Begins, End, Goto
  <2>2. ~Running(NoFrame) /\ ready' = others
    BY <1>2, FrameKinds DEF End
  <2> QED
    BY <2>1, <2>2, <1>1, <1>2
<1>3. ASSUME NEW at \in {"guard", "action"}, NEW ok \in BOOLEAN,
             CanTransition(m, to), <<machine[m].state, to>> \in Guarded \cup {<<"busy", "idle">>},
             Tick(c, Call(op, m, at, to, ok), others), machine' = machines, UNCHANGED entry
      PROVE  \E f : /\ Begins(c, op, m, to, f)
                    /\ ready' = Append(others, c) \/ (ready' = others /\ ~Running(f))
                    /\ entry' \in [status : {"idle", "busy", "unhealthy", "offline"}, load : 0..1]
  <2>1. PICK f : f = Call(op, m, at, to, ok)
    OBVIOUS
  <2>2. f \in Frame /\ f.op = op /\ f.m = m /\ f.to = to /\ f.at = at
    BY <2>1, <1>1, CallFrame
  <2>3. to # "stopped"
    BY <1>3 DEF Guarded
  <2>4. <<machine[m].state, to>> \in Transitions
    BY <1>3 DEF CanTransition
  <2>5. frame' = [frame EXCEPT ![c] = f] /\ ready' = Append(others, c)
    BY <2>1, <1>3 DEF Tick, Goto
  <2>6. Begins(c, op, m, to, f)
    BY <2>2, <2>3, <2>4, <2>5, <1>3 DEF Begins, Waits
  <2> QED
    BY <2>5, <2>6, <1>1, <1>3
<1>4. Guard(m, to) \in BOOLEAN
  BY DEF Guard
<1>5. CASE /\ CanTransition(m, to) /\ <<machine[m].state, to>> \notin Guarded \cup {<<"busy", "idle">>}
           /\ Tick(c, Call(op, m, "persist", to, TRUE), others)
           /\ Enter(m, to, machines)
  <2>1. PICK f : f = Call(op, m, "persist", to, TRUE)
    OBVIOUS
  <2>2. frame' = [frame EXCEPT ![c] = f] /\ ready' = Append(others, c)
    BY <2>1, <1>5 DEF Tick, Goto
  <2>3. machine' = [machines EXCEPT ![m].state = to]
    BY <1>5 DEF Enter
  <2>4. machines[m] \in Machine
    OBVIOUS
  <2>5. PICK r : r = [machines[m] EXCEPT !.state = to]
    OBVIOUS
  <2>6. r \in Machine /\ r.state = to
    BY <2>4, <2>5 DEF Machine
  <2>7. machine' = [machines EXCEPT ![m] = r]
    BY <2>3, <2>5
  <2>8. machine' \in [Machines -> Machine] /\ machine'[m].state = to
        /\ \A n \in Machines : n # m => machine'[n].state = machine[n].state
    BY <2>6, <2>7
  <2>9. <<machine[m].state, to>> \in Transitions
    BY <1>5 DEF CanTransition
  <2>10. Begins(c, op, m, to, f)
    BY <2>1, <2>2, <2>8, <2>9 DEF Begins
  <2>11. StatusOf(to) \in {"idle", "busy", "unhealthy", "offline"}
    BY DEF StatusOf
  <2>12. [entry EXCEPT !.status = StatusOf(to)] \in [status : {"idle", "busy", "unhealthy", "offline"}, load : 0..1]
    BY <1>1, <2>11
  <2>13. entry' \in [status : {"idle", "busy", "unhealthy", "offline"}, load : 0..1]
    BY <1>5, <1>1, <2>12 DEF Enter
  <2> QED
    BY <2>2, <2>10, <2>13
<1> QED
  BY <1>2, <1>3, <1>4, <1>5 DEF Begin

\* The frame of a call that has made its transition.
Made(g, op, m, to) ==
  /\ g = Call(op, m, "persist", to, TRUE) /\ g \in Frame /\ g # NoFrame
  /\ g.op = op /\ g.m = m /\ g.at = "persist" /\ g.to = to /\ g.ok = TRUE
LEMMA PersistFrame ==
  ASSUME NEW op \in Operations, NEW m \in Nat, NEW to \in States
  PROVE  Made(Call(op, m, "persist", to, TRUE), op, m, to)
<1>1. PICK at : at = "persist"
  OBVIOUS
<1>2. PICK ok : ok = TRUE
  OBVIOUS
<1>3. at \in {"guard", "action", "persist", "back", "sleep", "delete", "deleted"} /\ ok \in BOOLEAN
  BY <1>1, <1>2
<1>4. /\ Call(op, m, at, to, ok) \in Frame /\ Call(op, m, at, to, ok) # NoFrame
      /\ Call(op, m, at, to, ok).op = op /\ Call(op, m, at, to, ok).m = m
      /\ Call(op, m, at, to, ok).at = at /\ Call(op, m, at, to, ok).to = to
      /\ Call(op, m, at, to, ok).ok = ok
  BY <1>3, CallFrame
<1> QED
  BY <1>1, <1>2, <1>4 DEF Made

\* A transition that a call begins keeps the invariant: a new call on the registered
\* machine, or one that goes on to stopped or from its registration to idle.
LEMMA TransitionKeeps ==
  ASSUME NamesAssumption, RegistryInv, NEW c \in Callers, NEW op \in Operations, NEW m \in Machines, NEW to \in States,
         NEW machines, NEW others,
         machines \in [Machines -> Machine], \A n \in Machines : machines[n].state = machine[n].state,
         Begin(c, op, m, to, machines, others),
         \/ others = ready /\ frame[c] = NoFrame /\ m = registered
         \/ others = Tail(ready) /\ Runs(c, "back") /\ m = frame[c].m /\ frame[c].to # "stopped"
         \/ others = Tail(ready) /\ Runs(c, "sleep") /\ to = "stopped",
         environment.serial => frame[c] # NoFrame \/ \A d \in Callers : frame[d] = NoFrame,
         to = "stopped" => op \in {"stop", "slowStop"},
         turn' \subseteq Callers,
         UNCHANGED <<registered, created, saved, timers, environment>>
  PROVE  RegistryInv'
<1>1. PICK f : /\ Begins(c, op, m, to, f)
               /\ ready' = Append(others, c) \/ (ready' = others /\ ~Running(f))
               /\ entry' \in [status : {"idle", "busy", "unhealthy", "offline"}, load : 0..1]
  BY BeginBegins DEF RegistryInv
<1>2. created \in Nat /\ m \in Nat
  BY DEF RegistryInv, Ranges, Machines
<1>12. PICK g : g = Call(op, m, "persist", to, TRUE)
  OBVIOUS
<1>13. Made(g, op, m, to)
  BY <1>2, <1>12, PersistFrame
<1>14. /\ g \in Frame /\ g # NoFrame
       /\ g.op = op /\ g.m = m /\ g.at = "persist" /\ g.to = to /\ g.ok = TRUE
  BY <1>13 DEF Made
<1>3. f \in Frame /\ (f # NoFrame => f.m = m) /\ (f = NoFrame => ~Running(f) /\ ~Waits(f))
  BY <1>1, <1>12, <1>14, FrameKinds DEF Begins
<1>4. Turns(c, f, others)
  BY <1>1 DEF Turns, Begins, Runs
<1>5. /\ ready' \in Seq(Callers \cup Loader)
      /\ \A i \in DOMAIN ready' : ready'[i] \in Loader => ready'[i].load \in Machines'
      /\ Queued' /\ LoadsFirst'
  BY <1>2, <1>4, TurnsKeep
<1>6. frame \in [Callers -> Frame] /\ frame[c] \in Frame /\ machine \in [Machines -> Machine]
  BY DEF RegistryInv, Ranges, TypeOK
<1>7. ~Forgetting(frame[c]) /\ ~Saves(frame[c], registered)
  BY FrameKinds DEF Runs, Forgetting, Saves
<1>8. TimersKept(registered)
  BY DEF TimersKept, LastSaved
<1>9. Proceeds(c, f, m)
  <2>1. \A n \in Machines : machine'[n].state # machine[n].state =>
          n = m /\ Saves(f, m) /\ (machine'[m].state = "stopped" => Forgetting(f))
    <3>1. CASE f = Call(op, m, "persist", to, TRUE) /\ machine'[m].state = to
               /\ \A n \in Machines : n # m => machine'[n].state = machine[n].state
      <4>1. f.at = "persist" /\ f.ok = TRUE /\ f.m = m /\ f.op = op /\ f.to = to
        BY <3>1, <1>12, <1>14
      <4> QED
        BY <3>1, <4>1 DEF Saves, Forgetting
    <3> QED
      BY <3>1, <1>1 DEF Begins
  <2>2. Waits(f) => /\ f.to # "stopped"
                    /\ environment.serial => <<machine'[f.m].state, f.to>> \in Transitions
    <3>1. f = Call(op, m, "persist", to, TRUE) => f.at = "persist"
      BY <1>12, <1>14
    <3> QED
      BY <3>1, <1>1, <1>3 DEF Begins, Waits
  <2>3. \/ Forgetting(f)
        \/ Running(frame[c]) /\ frame[c].m # registered
        \/ Running(f) => f.m = registered
    <3>1. CASE m = registered
      BY <3>1, <1>3
    <3>2. CASE Runs(c, "back") /\ m = frame[c].m
      BY <3>2, <3>1, <1>3 DEF Runs, Running
    <3>3. CASE Runs(c, "sleep") /\ to = "stopped"
      <4>1. f = NoFrame \/ f = Call(op, m, "persist", to, TRUE)
        BY <3>3, <1>1 DEF Begins
      <4>2. f = Call(op, m, "persist", to, TRUE) => f.at = "persist" /\ f.op = op /\ f.to = to
        BY <1>12, <1>14
      <4> QED
        BY <3>3, <4>1, <4>2, <1>3 DEF Forgetting
    <3> QED
      BY <3>1, <3>2, <3>3
  <2>4. f.at # "sleep"
    BY <1>1, <1>12, <1>14, FrameKinds DEF Begins, Waits
  <2> QED
    BY <2>1, <2>2, <2>3, <2>4, <1>1, <1>7, <1>8 DEF Proceeds, Begins
<1>10. NotToStopped' /\ Alone' /\ Stopping' /\ StorageKept'
  BY <1>3, <1>9, ProceedsKeeps
<1>11. Ranges'
  <2>1. frame' = [frame EXCEPT ![c] = f] /\ machine' \in [Machines -> Machine]
    BY <1>1 DEF Begins
  <2>2. frame' \in [Callers -> Frame]
    BY <2>1, <1>3, <1>6
  <2>3. \A d \in Callers : frame'[d] # NoFrame => frame'[d].m \in Machines
    BY <2>1, <1>3, <1>6 DEF RegistryInv, Ranges
  <2>4. Machines' = Machines /\ Machine' = Machine
    BY DEF Machines
  <2>5. TypeOK'
    BY <2>1, <2>2, <2>4, <1>1, <1>5 DEF TypeOK, RegistryInv, Ranges
  <2> QED
    BY <2>3, <2>4, <2>5, <1>5 DEF RegistryInv, Ranges
<1> QED
  BY <1>5, <1>10, <1>11 DEF RegistryInv

\* The types of what a step of a call changes besides its frame.
Typed ==
  /\ machine' \in [Machines -> Machine]
  /\ entry' \in [status : {"idle", "busy", "unhealthy", "offline"}, load : 0..1]
  /\ saved' \in Saved \cup {Null}
  /\ timers' \in Seq(Timer) /\ \A i \in DOMAIN timers' : ~timers'[i].wakes => timers'[i].who \in Machines
  /\ turn' \subseteq Callers
  /\ UNCHANGED <<registered, created, environment>>

\* A step of one call keeps the invariant.
LEMMA CallKeeps ==
  ASSUME NamesAssumption, RegistryInv, NEW c \in Callers, NEW f \in Frame, NEW m \in Machines, NEW others,
         Turns(c, f, others), Proceeds(c, f, m), f # NoFrame => f.m \in Machines, Typed
  PROVE  RegistryInv'
<1>1. created \in Nat /\ created' = created /\ created <= created'
  BY DEF RegistryInv, Ranges, Typed
<1>2. /\ ready' \in Seq(Callers \cup Loader)
      /\ \A i \in DOMAIN ready' : ready'[i] \in Loader => ready'[i].load \in Machines'
      /\ Queued' /\ LoadsFirst'
  BY <1>1, TurnsKeep DEF Typed
<1>3. NotToStopped' /\ Alone' /\ Stopping' /\ StorageKept'
  BY ProceedsKeeps DEF Typed
<1>4. frame' = [frame EXCEPT ![c] = f] /\ frame \in [Callers -> Frame]
  BY DEF Turns, RegistryInv, Ranges, TypeOK
<1>5. frame' \in [Callers -> Frame]
  BY <1>4
<1>6. \A d \in Callers : frame'[d] # NoFrame => frame'[d].m \in Machines
  BY <1>4 DEF RegistryInv, Ranges
<1>7. Machines' = Machines /\ Machine' = Machine
  BY <1>1 DEF Machines
<1>8. TypeOK'
  BY <1>1, <1>2, <1>5, <1>7 DEF TypeOK, RegistryInv, Ranges, Typed
<1>9. Ranges'
  BY <1>1, <1>2, <1>6, <1>7, <1>8 DEF Ranges, Typed
<1> QED
  BY <1>2, <1>3, <1>9 DEF RegistryInv

\* What is so before a step.
LEMMA Before ==
  ASSUME RegistryInv
  PROVE  /\ created \in Nat /\ registered \in 0..created /\ Machines = 1..created
         /\ (registered # 0 => registered \in Machines)
         /\ machine \in [Machines -> Machine]
         /\ entry \in [status : {"idle", "busy", "unhealthy", "offline"}, load : 0..1]
         /\ saved \in Saved \cup {Null} /\ turn \subseteq Callers
         /\ timers \in Seq(Timer) /\ \A i \in DOMAIN timers : ~timers[i].wakes => timers[i].who \in Machines
         /\ ready \in Seq(Callers \cup Loader) /\ frame \in [Callers -> Frame]
         /\ \A c \in Callers : frame[c] # NoFrame => frame[c].m \in Machines
BY DEF RegistryInv, Ranges, TypeOK, Machines

\* turn, after a step.
LEMMA TurnTyped == ASSUME turn \subseteq Callers, NEW S \in SUBSET Callers, Turn(S) PROVE turn' \subseteq Callers
BY DEF Turn

\* A call whose turn it is.
LEMMA RunsFrame ==
  ASSUME RegistryInv, NEW c \in Callers, NEW label \in {"guard", "action", "persist", "back", "sleep", "delete", "deleted"},
         Runs(c, label)
  PROVE  /\ ready # <<>> /\ Head(ready) = c
         /\ frame[c] \in Frame /\ frame[c] # NoFrame /\ frame[c].at = label
         /\ frame[c].m \in Machines /\ frame[c].op \in Operations /\ frame[c].to \in States /\ frame[c].ok \in BOOLEAN
<1>1. frame[c] \in Frame /\ frame[c].at = label
  BY Before DEF Runs
<1>2. frame[c] # NoFrame
  BY <1>1 DEF NoFrame
<1> QED
  BY <1>1, <1>2, Before, FrameKinds DEF Runs

\* The end of transition().
LEMMA ConcludeKeeps == ASSUME NamesAssumption, RegistryInv, NEW c \in Callers, Conclude(c) PROVE RegistryInv'
<1>1. PICK f : f = frame[c]
  OBVIOUS
<1>2. /\ ready # <<>> /\ Head(ready) = c /\ f \in Frame /\ f # NoFrame /\ Waits(f)
      /\ f.m \in Machines /\ f.op \in Operations /\ f.to \in States /\ f.ok \in BOOLEAN
  <2>1. CASE Runs(c, "guard")
    BY <2>1, <1>1, RunsFrame DEF Waits
  <2>2. CASE Runs(c, "action")
    BY <2>2, <1>1, RunsFrame DEF Waits
  <2> QED
    BY <2>1, <2>2 DEF Conclude
<1>3. PICK g : g = [f EXCEPT !.at = "persist"]
  OBVIOUS
<1>4. g \in Frame /\ g # NoFrame /\ g.at = "persist" /\ g.op = f.op /\ g.m = f.m /\ g.to = f.to /\ g.ok = f.ok
  BY <1>2, <1>3, FrameMoves
<1>5. /\ Tick(c, g, rest) /\ Turn({})
      /\ IF f.ok THEN Enter(f.m, f.to, machine) ELSE UNCHANGED <<machine, entry>>
      /\ UNCHANGED <<registered, created, saved, timers, environment>>
  BY <1>1, <1>3 DEF Conclude
<1>6. Turns(c, g, rest)
  BY <1>2, <1>5 DEF Turns, Tick, Goto, rest
<1>7. f.to # "stopped"
  BY <1>1, <1>2 DEF RegistryInv, NotToStopped
<1>8. machine \in [Machines -> Machine] /\ entry \in [status : {"idle", "busy", "unhealthy", "offline"}, load : 0..1]
  BY Before
<1>9. /\ machine' \in [Machines -> Machine]
      /\ entry' \in [status : {"idle", "busy", "unhealthy", "offline"}, load : 0..1]
      /\ \A n \in Machines : machine'[n].state # machine[n].state => n = f.m /\ f.ok /\ machine'[f.m].state = f.to
  <2>1. CASE ~f.ok
    BY <2>1, <1>5, <1>8
  <2>2. CASE f.ok
    <3>1. machine' = [machine EXCEPT ![f.m].state = f.to]
      BY <2>2, <1>5 DEF Enter
    <3>2. PICK r : r = [machine[f.m] EXCEPT !.state = f.to]
      OBVIOUS
    <3>3. machine[f.m] \in Machine
      BY <1>2, <1>8
    <3>4. r \in Machine /\ r.state = f.to
      BY <3>2, <3>3, <1>2 DEF Machine
    <3>5. machine' = [machine EXCEPT ![f.m] = r]
      BY <3>1, <3>2
    <3>6. StatusOf(f.to) \in {"idle", "busy", "unhealthy", "offline"}
      BY DEF StatusOf
    <3>7. [entry EXCEPT !.status = StatusOf(f.to)] \in [status : {"idle", "busy", "unhealthy", "offline"}, load : 0..1]
      BY <3>6, <1>8
    <3>8. entry' \in [status : {"idle", "busy", "unhealthy", "offline"}, load : 0..1]
      BY <3>7, <2>2, <1>5, <1>8 DEF Enter
    <3> QED
      BY <3>4, <3>5, <3>8, <1>2, <1>8, <2>2
  <2> QED
    BY <2>1, <2>2, <1>2
<1>10. Typed
  BY <1>5, <1>9, Before, TurnTyped DEF Typed
<1>11. Proceeds(c, g, f.m)
  <2>1. ~Waits(g) /\ ~Forgetting(frame[c]) /\ ~Saves(frame[c], registered)
    BY <1>1, <1>2, <1>4 DEF Waits, Forgetting, Saves
  <2>2. TimersKept(registered)
    BY <1>5 DEF TimersKept, LastSaved
  <2>3. f.ok => Saves(g, f.m)
    BY <1>4, <1>2 DEF Saves
  <2>4. Running(frame[c])
    BY <1>1, <1>2 DEF Running, Waits
  <2> QED
    BY <2>1, <2>2, <2>3, <2>4, <1>1, <1>2, <1>4, <1>6, <1>7, <1>9 DEF Proceeds, Turns
<1> QED
  BY <1>2, <1>4, <1>6, <1>10, <1>11, CallKeeps

\* A save that is started over.
LEMMA ClearedTyped ==
  ASSUME NEW t, timers \in Seq(Timer)
  PROVE  /\ Cleared(t) \in Seq(Timer)
         /\ \A i \in DOMAIN Cleared(t) : \E j \in DOMAIN timers : Cleared(t)[i] = timers[j]
<1>1. CASE \E i \in DOMAIN timers : timers[i] = t
  <2>1. PICK i : i = CHOOSE j \in DOMAIN timers : timers[j] = t
    OBVIOUS
  <2>2. i \in DOMAIN timers
    BY <1>1, <2>1
  <2>3. PICK s : s = RemoveAt(timers, i)
    OBVIOUS
  <2>4. s = SubSeq(timers, 1, i - 1) \o SubSeq(timers, i + 1, Len(timers))
    BY <2>3 DEF RemoveAt
  <2>5. DOMAIN timers = 1..Len(timers) /\ Len(timers) \in Nat /\ i \in 1..Len(timers)
    BY <2>2
  <2>6. PICK p : p = SubSeq(timers, 1, i - 1)
    OBVIOUS
  <2>7. p \in Seq(Timer) /\ Len(p) = i - 1 /\ \A k \in 1..Len(p) : p[k] = timers[k]
    BY <2>5, <2>6
  <2>8. PICK q : q = SubSeq(timers, i + 1, Len(timers))
    OBVIOUS
  <2>9. q \in Seq(Timer) /\ Len(q) = Len(timers) - i /\ \A k \in 1..Len(q) : q[k] = timers[i + k]
    <3>1. i + 1 \in Int /\ Len(timers) \in Int /\ \A j \in (i + 1)..Len(timers) : timers[j] \in Timer
      BY <2>5
    <3>2. /\ q \in Seq(Timer)
          /\ Len(q) = IF i + 1 <= Len(timers) THEN Len(timers) - (i + 1) + 1 ELSE 0
          /\ \A k \in 1..(Len(timers) - (i + 1) + 1) : q[k] = timers[(i + 1) + k - 1]
      BY <2>8, <3>1, SubSeqProperties
    <3>4. Len(timers) - (i + 1) + 1 = Len(timers) - i /\ (~(i + 1 <= Len(timers)) => Len(timers) - i = 0)
      <4>1. PICK n : n = Len(timers)
        OBVIOUS
      <4>2. n \in Nat /\ i \in 1..n
        BY <2>5, <4>1
      <4>3. n - (i + 1) + 1 = n - i
        BY <4>2
      <4>4. ~(i + 1 <= n) => n - i = 0
        BY <4>2
      <4> QED
        BY <4>1, <4>3, <4>4
    <3>5. Len(q) = Len(timers) - i
      <4>1. CASE i + 1 <= Len(timers)
        BY <4>1, <3>2, <3>4
      <4>2. CASE ~(i + 1 <= Len(timers))
        BY <4>2, <3>2, <3>4
      <4> QED
        BY <4>1, <4>2
    <3>3. \A k \in 1..Len(q) : (i + 1) + k - 1 = i + k
      BY <2>5
    <3> QED
      BY <3>2, <3>3, <3>4, <3>5
  <2>10. s \in Seq(Timer) /\ Len(s) = Len(p) + Len(q)
         /\ \A k \in 1..Len(s) : s[k] = IF k <= Len(p) THEN p[k] ELSE q[k - Len(p)]
    <3>1. s = p \o q
      BY <2>4, <2>6, <2>8
    <3>2. p \in Seq(Timer) /\ q \in Seq(Timer)
      BY <2>7, <2>9
    <3> QED
      BY <3>1, <3>2
  <2>11. \A k \in 1..Len(s) : \E j \in 1..Len(timers) : s[k] = timers[j]
    <3> SUFFICES ASSUME NEW k \in 1..Len(s) PROVE \E j \in 1..Len(timers) : s[k] = timers[j]
      OBVIOUS
    <3>1. Len(p) \in Nat /\ Len(q) \in Nat /\ k \in Nat
      BY <2>7, <2>9, <2>10
    <3>2. CASE k <= Len(p)
      <4>1. k \in 1..Len(p) /\ k \in 1..Len(timers)
        BY <3>1, <3>2, <2>5, <2>7
      <4> QED
        BY <3>2, <4>1, <2>7, <2>10
    <3>3. CASE ~(k <= Len(p))
      <4>1. k - Len(p) \in 1..Len(q)
        BY <3>1, <3>3, <2>10
      <4>2. s[k] = timers[i + (k - Len(p))]
        BY <3>3, <4>1, <2>9, <2>10
      <4>3. i + (k - Len(p)) \in 1..Len(timers)
        BY <4>1, <2>5, <2>9
      <4> QED
        BY <4>2, <4>3
    <3> QED
      BY <3>2, <3>3
  <2>12. Cleared(t) = s
    BY <1>1, <2>1, <2>3 DEF Cleared
  <2> QED
    BY <2>5, <2>10, <2>11, <2>12
<1>2. CASE ~\E i \in DOMAIN timers : timers[i] = t
  BY <1>2 DEF Cleared
<1> QED
  BY <1>1, <1>2

\* A timer is added behind the others.
LEMMA AddTimer ==
  ASSUME NEW s \in Seq(Timer), \A i \in DOMAIN s : ~s[i].wakes => s[i].who \in Machines,
         NEW t \in Timer, ~t.wakes => t.who \in Machines
  PROVE  /\ Append(s, t) \in Seq(Timer) /\ DOMAIN Append(s, t) = 1..(Len(s) + 1) /\ Len(s) \in Nat
         /\ DOMAIN s = 1..Len(s)
         /\ Append(s, t)[Len(s) + 1] = t /\ \A i \in 1..Len(s) : Append(s, t)[i] = s[i]
         /\ \A i \in DOMAIN Append(s, t) : ~Append(s, t)[i].wakes => Append(s, t)[i].who \in Machines
<1>1. PICK r : r = Append(s, t)
  OBVIOUS
<1>2. r \in Seq(Timer) /\ DOMAIN r = 1..(Len(s) + 1) /\ Len(s) \in Nat /\ DOMAIN s = 1..Len(s)
      /\ r[Len(s) + 1] = t /\ \A i \in 1..Len(s) : r[i] = s[i]
  BY <1>1
<1>3. \A i \in DOMAIN r : i \in 1..Len(s) \/ i = Len(s) + 1
  BY <1>2
<1>4. \A i \in DOMAIN r : ~r[i].wakes => r[i].who \in Machines
  BY <1>2, <1>3
<1> QED
  BY <1>1, <1>2, <1>4

\* A save is started over.
LEMMA PersistStateKeeps == ASSUME NamesAssumption, RegistryInv, NEW c \in Callers, PersistState(c) PROVE RegistryInv'
<1>1. PICK f : f = frame[c]
  OBVIOUS
<1>2. /\ ready # <<>> /\ Head(ready) = c /\ f \in Frame /\ f # NoFrame /\ f.at = "persist"
      /\ f.m \in Machines /\ f.op \in Operations /\ f.to \in States /\ f.ok \in BOOLEAN
  BY <1>1, RunsFrame DEF PersistState
<1>3. PICK g : g = [f EXCEPT !.at = "back"]
  OBVIOUS
<1>4. g \in Frame /\ g # NoFrame /\ g.at = "back" /\ g.op = f.op /\ g.m = f.m /\ g.to = f.to /\ g.ok = f.ok
  BY <1>2, <1>3, FrameMoves
<1>5. /\ timers' = IF f.ok THEN Append(Cleared(Pending(f.m)), Pending(f.m)) ELSE timers
      /\ Tick(c, g, rest) /\ Turn({})
      /\ UNCHANGED <<books, machine, saved, environment>>
  BY <1>1, <1>3 DEF PersistState
<1>6. Turns(c, g, rest)
  BY <1>2, <1>5 DEF Turns, Tick, Goto, rest
<1>7. Pending(f.m) \in Timer /\ ~Pending(f.m).wakes /\ Pending(f.m).who = f.m
  <2>1. f.m \in Nat
    BY <1>2, Before
  <2> QED
    BY <2>1 DEF Pending, Timer
<1>8. f.ok => /\ timers' \in Seq(Timer) /\ LastSaved(f.m)'
              /\ \A i \in DOMAIN timers' : ~timers'[i].wakes => timers'[i].who \in Machines
  <2> SUFFICES ASSUME f.ok
               PROVE  /\ timers' \in Seq(Timer) /\ LastSaved(f.m)'
                      /\ \A i \in DOMAIN timers' : ~timers'[i].wakes => timers'[i].who \in Machines
    OBVIOUS
  <2>1. PICK s : s = Cleared(Pending(f.m))
    OBVIOUS
  <2>2. s \in Seq(Timer) /\ \A i \in DOMAIN s : \E j \in DOMAIN timers : s[i] = timers[j]
    BY <2>1, ClearedTyped, Before
  <2>3. \A i \in DOMAIN s : ~s[i].wakes => s[i].who \in Machines
    BY <2>2, Before
  <2>4. timers' = Append(s, Pending(f.m))
    BY <1>5, <2>1
  <2>5. /\ timers' \in Seq(Timer) /\ DOMAIN timers' = 1..(Len(s) + 1) /\ Len(s) \in Nat
        /\ timers'[Len(s) + 1] = Pending(f.m)
        /\ \A i \in DOMAIN timers' : ~timers'[i].wakes => timers'[i].who \in Machines
    BY <2>2, <2>3, <2>4, <1>7, <1>2, AddTimer
  <2>6. Len(s) + 1 \in DOMAIN timers' /\ \A j \in DOMAIN timers' : ~(j > Len(s) + 1)
    BY <2>5
  <2>7. LastSaved(f.m)'
    BY <2>5, <2>6 DEF LastSaved, Pending
  <2> QED
    BY <2>5, <2>7
<1>9. Typed
  <2>1. timers' \in Seq(Timer) /\ \A i \in DOMAIN timers' : ~timers'[i].wakes => timers'[i].who \in Machines
    BY <1>5, <1>8, Before
  <2> QED
    BY <2>1, <1>5, Before, TurnTyped DEF Typed, books
<1>10. Proceeds(c, g, f.m)
  <2>1. ~Waits(g) /\ (Forgetting(frame[c]) => Forgetting(g)) /\ Running(frame[c])
    BY <1>1, <1>2, <1>4 DEF Waits, Forgetting, Running
  <2>2. ~f.ok => TimersKept(registered) /\ ~Saves(frame[c], registered)
    BY <1>1, <1>5 DEF TimersKept, LastSaved, Saves, books
  <2>4. machine' = machine /\ g.at # "sleep"
    BY <1>4, <1>5
  <2>3. \/ frame[c].m # registered
        \/ /\ Running(g) => g.m = registered
           /\ LastSaved(registered)' \/ (TimersKept(registered) /\ ~Saves(frame[c], registered))
    BY <2>2, <1>1, <1>4, <1>5, <1>8 DEF books
  <2> QED
    BY <2>1, <2>3, <2>4, <1>1, <1>2, <1>6 DEF Proceeds, Turns
<1> QED
  BY <1>2, <1>4, <1>6, <1>9, <1>10, CallKeeps

\* A step after which no call of the machines goes on and no state changes.
LEMMA StandsKeeps ==
  ASSUME NamesAssumption, RegistryInv, NEW c \in Callers, NEW f \in Frame, NEW others, NEW m \in Machines,
         Turns(c, f, others), Typed, machine' = machine, ~Waits(f), f.at = "sleep" => f.op = "slowStop", f # NoFrame => f.m \in Machines,
         environment.serial => frame[c] # NoFrame \/ \A d \in Callers : frame[d] = NoFrame,
         Forgetting(frame[c]) => Forgetting(f),
         \/ Forgetting(f)
         \/ Running(frame[c]) /\ frame[c].m # registered
         \/ /\ Running(f) => f.m = registered
            /\ ~Saves(frame[c], registered) /\ TimersKept(registered)
  PROVE  RegistryInv'
<1>1. Proceeds(c, f, m)
  BY DEF Proceeds, Turns
<1> QED
  BY <1>1, CallKeeps

\* A call returns.
LEMMA ReportKeeps == ASSUME NamesAssumption, RegistryInv, NEW c \in Callers, Report(c) PROVE RegistryInv'
<1>1. /\ ready # <<>> /\ Head(ready) = c /\ frame[c] # NoFrame /\ frame[c].at = "back"
      /\ frame[c].m \in Machines /\ frame[c].op \in Operations
  BY RunsFrame DEF Report
<1>2. Turns(c, NoFrame, rest)
  BY <1>1, FrameKinds DEF Report, End, Goto, Turns, rest
<1>3. entry \in [status : {"idle", "busy", "unhealthy", "offline"}, load : 0..1]
  BY Before
<1>4. /\ [entry EXCEPT !.load = 1] \in [status : {"idle", "busy", "unhealthy", "offline"}, load : 0..1]
      /\ [entry EXCEPT !.load = 0] \in [status : {"idle", "busy", "unhealthy", "offline"}, load : 0..1]
  BY <1>3
<1>5. entry' \in {entry, [entry EXCEPT !.load = 1], [entry EXCEPT !.load = 0]}
  BY DEF Report
<1>6. Typed
  BY <1>3, <1>4, <1>5, Before, TurnTyped DEF Report, Typed
<1>7. ~Forgetting(frame[c]) /\ ~Saves(frame[c], registered)
  BY <1>1 DEF Forgetting, Saves, Report
<1>8. TimersKept(registered) /\ machine' = machine
  BY DEF Report, TimersKept, LastSaved
<1> QED
  BY <1>1, <1>2, <1>6, <1>7, <1>8, FrameKinds, StandsKeeps

\* A stop waits.
LEMMA SleepKeeps == ASSUME NamesAssumption, RegistryInv, NEW c \in Callers, Sleep(c) PROVE RegistryInv'
<1>1. PICK f : f = frame[c]
  OBVIOUS
<1>2. /\ ready # <<>> /\ Head(ready) = c /\ f \in Frame /\ f # NoFrame /\ f.at = "back" /\ f.to = "stopping"
      /\ f.op = "slowStop" /\ f.m \in Machines /\ f.op \in Operations
  BY <1>1, RunsFrame DEF Sleep
<1>3. PICK g : g = [f EXCEPT !.at = "sleep"]
  OBVIOUS
<1>4. g \in Frame /\ g # NoFrame /\ g.at = "sleep" /\ g.m = f.m /\ g.op = f.op
  BY <1>2, <1>3, FrameMoves
<1>5. /\ Goto(c, g) /\ timers' = Append(timers, Sleeper(c)) /\ ready' = rest /\ Turn({})
      /\ UNCHANGED <<books, machine, saved, environment>>
  BY <1>1, <1>3 DEF Sleep
<1>6. Turns(c, g, rest)
  BY <1>2, <1>4, <1>5 DEF Turns, Goto, rest, Running
<1>7. Sleeper(c) \in Timer /\ Sleeper(c).wakes
  BY DEF Sleeper, Timer
<1>8. timers \in Seq(Timer) /\ \A i \in DOMAIN timers : ~timers[i].wakes => timers[i].who \in Machines
  BY Before
<1>9. /\ timers' \in Seq(Timer) /\ DOMAIN timers' = 1..(Len(timers) + 1) /\ Len(timers) \in Nat
      /\ DOMAIN timers = 1..Len(timers)
      /\ timers'[Len(timers) + 1] = Sleeper(c) /\ \A i \in 1..Len(timers) : timers'[i] = timers[i]
      /\ \A i \in DOMAIN timers' : ~timers'[i].wakes => timers'[i].who \in Machines
  BY <1>5, <1>7, <1>8, AddTimer
<1>10. \A i \in DOMAIN timers' : i \in DOMAIN timers \/ timers'[i].wakes
  BY <1>7, <1>9
<1>11. Typed
  BY <1>5, <1>9, Before, TurnTyped DEF Typed, books
<1>12. TimersKept(registered)
  <2>1. registered' = registered /\ saved' = saved
    BY <1>5 DEF books
  <2>2. ASSUME LastSaved(registered) PROVE LastSaved(registered)'
    <3>1. PICK i \in DOMAIN timers : timers[i] = Pending(registered) /\ \A j \in DOMAIN timers : j > i => timers[j].wakes
      BY <2>2 DEF LastSaved
    <3>2. i \in DOMAIN timers' /\ timers'[i] = Pending(registered)
      BY <3>1, <1>9
    <3>3. \A j \in DOMAIN timers' : j > i => timers'[j].wakes
      BY <3>1, <1>9, <1>10
    <3>4. \E k \in DOMAIN timers' : timers'[k] = Pending(registered) /\ \A j \in DOMAIN timers' : j > k => timers'[j].wakes
      BY <3>2, <3>3
    <3> QED
      BY <3>4, <2>1 DEF LastSaved, Pending
  <2>3. (\A i \in DOMAIN timers : timers[i].wakes) => (\A i \in DOMAIN timers' : timers'[i].wakes)
    BY <1>9, <1>10
  <2> QED
    BY <2>1, <2>2, <2>3 DEF TimersKept
<1>13. ~Forgetting(frame[c]) /\ ~Saves(frame[c], registered) /\ ~Waits(g) /\ ~Running(g)
  BY <1>1, <1>2, <1>4 DEF Forgetting, Saves, Waits, Running
<1> QED
  BY <1>1, <1>2, <1>4, <1>5, <1>6, <1>11, <1>12, <1>13, StandsKeeps

\* A stop deletes what is saved.
LEMMA CleanUpKeeps ==
  ASSUME NamesAssumption, RegistryInv, NEW c \in Callers, NEW m \in Machines, NEW others,
         CleanUp(c, m, others), turn' \subseteq Callers, UNCHANGED <<books, machine, timers, environment>>,
         \/ others = ready /\ frame[c] = NoFrame
         \/ ready # <<>> /\ Head(ready) = c /\ others = Tail(ready),
         environment.serial => frame[c] # NoFrame \/ \A d \in Callers : frame[d] = NoFrame
  PROVE  RegistryInv'
<1>1. PICK at : at = "delete"
  OBVIOUS
<1>2. PICK ok : ok = TRUE
  OBVIOUS
<1>3. PICK g : g = Call("stop", m, at, "stopped", ok)
  OBVIOUS
<1>4. g \in Frame /\ g # NoFrame /\ g.op = "stop" /\ g.m = m /\ g.at = "delete" /\ g.to = "stopped"
  <2>1. at \in {"guard", "action", "persist", "back", "sleep", "delete", "deleted"} /\ ok \in BOOLEAN
        /\ m \in Nat /\ "stop" \in Operations /\ "stopped" \in States
    BY <1>1, <1>2, Before DEF Operations, States
  <2>2. /\ Call("stop", m, at, "stopped", ok) \in Frame /\ Call("stop", m, at, "stopped", ok) # NoFrame
        /\ Call("stop", m, at, "stopped", ok).op = "stop" /\ Call("stop", m, at, "stopped", ok).m = m
        /\ Call("stop", m, at, "stopped", ok).at = at /\ Call("stop", m, at, "stopped", ok).to = "stopped"
    BY <2>1, CallFrame
  <2> QED
    BY <2>2, <1>1, <1>3
<1>5. Tick(c, g, others) /\ saved' = Null
  BY <1>1, <1>2, <1>3 DEF CleanUp
<1>6. Turns(c, g, others)
  BY <1>5 DEF Turns, Tick, Goto
<1>7. Typed
  BY <1>5, Before DEF Typed, books
<1>8. Forgetting(g) /\ ~Waits(g)
  BY <1>4 DEF Forgetting, Waits
<1> QED
  BY <1>4, <1>6, <1>7, <1>8, StandsKeeps

\* A stop goes on to delete.
LEMMA StopAnywayKeeps == ASSUME NamesAssumption, RegistryInv, NEW c \in Callers, StopAnyway(c) PROVE RegistryInv'
<1>1. ready # <<>> /\ Head(ready) = c /\ frame[c] # NoFrame /\ frame[c].m \in Machines
  BY RunsFrame DEF StopAnyway
<1>2. CleanUp(c, frame[c].m, rest) /\ Turn({}) /\ UNCHANGED <<books, machine, timers, environment>>
  BY DEF StopAnyway
<1>3. turn' \subseteq Callers
  BY <1>2, Before, TurnTyped
<1> QED
  BY <1>1, <1>2, <1>3, CleanUpKeeps DEF rest

\* What is saved is deleted.
LEMMA DeletedKeeps == ASSUME NamesAssumption, RegistryInv, NEW c \in Callers, Deleted(c) PROVE RegistryInv'
<1>1. PICK f : f = frame[c]
  OBVIOUS
<1>2. /\ ready # <<>> /\ Head(ready) = c /\ f \in Frame /\ f # NoFrame /\ f.at = "delete"
      /\ f.m \in Machines /\ f.op \in Operations
  BY <1>1, RunsFrame DEF Deleted
<1>3. PICK g : g = [f EXCEPT !.at = "deleted"]
  OBVIOUS
<1>4. g \in Frame /\ g # NoFrame /\ g.at = "deleted" /\ g.op = f.op /\ g.m = f.m /\ g.to = f.to
  BY <1>2, <1>3, FrameMoves
<1>5. Tick(c, g, rest) /\ Turn({}) /\ UNCHANGED <<books, machine, saved, timers, environment>>
  BY <1>1, <1>3 DEF Deleted
<1>6. Turns(c, g, rest)
  BY <1>2, <1>5 DEF Turns, Tick, Goto, rest
<1>7. Typed
  BY <1>5, Before, TurnTyped DEF Typed, books
<1>8. ~Saves(frame[c], registered) /\ ~Waits(g) /\ (Forgetting(frame[c]) => Forgetting(g))
  BY <1>1, <1>2, <1>4 DEF Forgetting, Saves, Waits
<1>9. TimersKept(registered)
  BY <1>5 DEF TimersKept, LastSaved, books
<1>10. \/ Running(frame[c]) /\ frame[c].m # registered
       \/ Running(g) => g.m = registered
  BY <1>1, <1>2, <1>4 DEF Running
<1> QED
  BY <1>1, <1>2, <1>4, <1>5, <1>6, <1>7, <1>8, <1>9, <1>10, StandsKeeps

\* The machines are forgotten.
LEMMA ForgetKeeps == ASSUME NamesAssumption, RegistryInv, NEW c \in Callers, Forget(c) PROVE RegistryInv'
<1>1. ready # <<>> /\ Head(ready) = c /\ frame[c] # NoFrame
  BY RunsFrame DEF Forget
<1>2. /\ registered' = 0 /\ entry' = NoEntry /\ Goto(c, NoFrame) /\ ready' = Tail(ready) /\ Turn({})
      /\ UNCHANGED <<created, machine, saved, timers, environment>>
  BY DEF Forget, End, rest
<1>3. created \in Nat /\ created' = created /\ created <= created'
  BY <1>2, Before
<1>4. Turns(c, NoFrame, Tail(ready))
  BY <1>1, <1>2, FrameKinds DEF Turns, Goto
<1>5. /\ ready' \in Seq(Callers \cup Loader)
      /\ \A i \in DOMAIN ready' : ready'[i] \in Loader => ready'[i].load \in Machines'
      /\ Queued' /\ LoadsFirst'
  BY <1>2, <1>3, <1>4, TurnsKeep
<1>6. frame \in [Callers -> Frame] /\ frame' = [frame EXCEPT ![c] = NoFrame]
  BY <1>2, Before DEF Goto
<1>7. /\ frame' \in [Callers -> Frame]
      /\ \A d \in Callers : frame'[d] = NoFrame \/ frame'[d] = frame[d]
  BY <1>6, FrameKinds
<1>8. NotToStopped'
  BY <1>7, FrameKinds DEF RegistryInv, NotToStopped
<1>9. Alone'
  BY <1>2, <1>7, FrameKinds DEF RegistryInv, Alone
<1>10. Stopping' /\ StorageKept'
  BY <1>2 DEF Stopping, StorageKept
<1>11. Machines' = Machines /\ Machine' = Machine
  BY <1>2 DEF Machines
<1>12. TypeOK'
  <2>1. registered' \in 0..created' /\ NoEntry \in [status : {"idle", "busy", "unhealthy", "offline"}, load : 0..1]
    BY <1>2, <1>3 DEF NoEntry
  <2>2. turn' \subseteq Callers
    BY <1>2, Before, TurnTyped
  <2> QED
    BY <1>2, <1>5, <1>7, <1>11, <2>1, <2>2 DEF RegistryInv, Ranges, TypeOK
<1>13. Ranges'
  BY <1>2, <1>3, <1>5, <1>7, <1>11, <1>12 DEF RegistryInv, Ranges
<1> QED
  BY <1>5, <1>8, <1>9, <1>10, <1>13 DEF RegistryInv

\* An agent is unregistered.
LEMMA UnregisterKeeps == ASSUME RegistryInv, NEW c \in Callers, Unregister(c) PROVE RegistryInv'
<1>1. /\ registered' = 0 /\ entry' = NoEntry /\ saved' = Null /\ Turn({c})
      /\ UNCHANGED <<created, machine, frame, ready, timers, environment>>
  BY DEF Unregister
<1>2. Machines' = Machines /\ Machine' = Machine
  BY <1>1 DEF Machines
<1>3. registered' \in 0..created' /\ NoEntry \in [status : {"idle", "busy", "unhealthy", "offline"}, load : 0..1]
  BY <1>1, Before DEF NoEntry
<1>4. turn' \subseteq Callers
  BY <1>1, Before, TurnTyped
<1>5. TypeOK'
  BY <1>1, <1>2, <1>3, <1>4 DEF RegistryInv, Ranges, TypeOK
<1>6. Ranges'
  BY <1>1, <1>2, <1>5 DEF RegistryInv, Ranges
<1>7. Queued' /\ NotToStopped' /\ LoadsFirst' /\ Alone'
  BY <1>1 DEF RegistryInv, Queued, NotToStopped, LoadsFirst, Alone
<1>8. Stopping' /\ StorageKept'
  BY <1>1 DEF Stopping, StorageKept
<1> QED
  BY <1>6, <1>7, <1>8 DEF RegistryInv

\* What is saved replaces the state.
LEMMA RestoringKeeps == ASSUME NamesAssumption, RegistryInv, Restore PROVE RegistryInv'
<1>1. PICK l : l = Head(ready)
  OBVIOUS
<1>2. ready # <<>> /\ l \in Loader /\ ready \in Seq(Callers \cup Loader) /\ l = ready[1] /\ 1 \in DOMAIN ready
  BY <1>1, Before DEF Restore
<1>3. /\ machine' = IF l.read = Null \/ (l.read # Null /\ l.read.state \in Terminal) THEN machine
                    ELSE [machine EXCEPT ![l.load].state = l.read.state, ![l.load].errors = l.read.errors]
      /\ ready' = Tail(ready) /\ Turn({})
      /\ UNCHANGED <<books, saved, frame, timers, environment>>
  BY <1>1 DEF Restore, rest
<1>4. l.load \in Machines /\ l.read \in Saved \cup {Null} /\ machine \in [Machines -> Machine]
  BY <1>2, Before DEF RegistryInv, Ranges, Loader
<1>5. /\ machine' \in [Machines -> Machine]
      /\ \A n \in Machines : machine'[n].state # machine[n].state => n = l.load /\ machine'[n].state # "stopped"
  <2>1. CASE l.read = Null \/ (l.read # Null /\ l.read.state \in Terminal)
    BY <2>1, <1>3, <1>4
  <2>2. CASE ~(l.read = Null \/ (l.read # Null /\ l.read.state \in Terminal))
    <3>1. l.read \in Saved /\ l.read.state # "stopped"
      BY <2>2, <1>4 DEF Terminal
    <3>2. PICK r : r = [machine[l.load] EXCEPT !.state = l.read.state, !.errors = l.read.errors]
      OBVIOUS
    <3>3. machine[l.load] \in Machine
      BY <1>4
    <3>4. r \in Machine /\ r.state = l.read.state
      BY <3>1, <3>2, <3>3 DEF Machine, Saved
    <3>5. machine' = [machine EXCEPT ![l.load] = r]
      BY <2>2, <1>3, <1>4, <3>2, <3>3 DEF Machine
    <3> QED
      BY <3>1, <3>4, <3>5, <1>4
  <2> QED
    BY <2>1, <2>2
<1>6. ready' \in Seq(Callers \cup Loader) /\ Len(ready') = Len(ready) - 1 /\ Len(ready) \in Nat
      /\ \A i \in 1..Len(ready') : ready'[i] = ready[i + 1]
  BY <1>2, <1>3
<1>7. DOMAIN ready = 1..Len(ready) /\ DOMAIN ready' = 1..Len(ready')
  BY <1>2, <1>6
<1>8. \A i \in DOMAIN ready' : i + 1 \in DOMAIN ready /\ i + 1 # 1
  BY <1>6, <1>7
<1>9. Queued'
  <2> SUFFICES ASSUME NEW c \in Callers, Running(frame[c])
               PROVE  \E i \in DOMAIN ready' : ready'[i] = c
    BY <1>3 DEF Queued
  <2>1. PICK i \in DOMAIN ready : ready[i] = c
    BY DEF RegistryInv, Queued
  <2>2. i # 1
    BY <2>1, <1>2 DEF NamesAssumption
  <2>3. i - 1 \in 1..Len(ready') /\ (i - 1) + 1 = i
    BY <2>1, <2>2, <1>6, <1>7
  <2>4. ready'[i - 1] = c
    BY <2>1, <2>3, <1>6
  <2> QED
    BY <2>3, <2>4, <1>7
<1>10. LoadsFirst'
  BY <1>3, <1>6, <1>7, <1>8 DEF RegistryInv, LoadsFirst
<1>11. NotToStopped'
  BY <1>3 DEF RegistryInv, NotToStopped
<1>12. environment.serial \/ environment.settled =>
         /\ ready[2] \in Callers /\ Made(frame[ready[2]], "register", l.load, "initializing")
  <2> SUFFICES ASSUME environment.serial \/ environment.settled
               PROVE  ready[2] \in Callers /\ Made(frame[ready[2]], "register", l.load, "initializing")
    OBVIOUS
  <2>1. ready[2] \in Callers /\ frame[ready[2]] = Call("register", l.load, "persist", "initializing", TRUE)
    BY <1>2 DEF RegistryInv, LoadsFirst
  <2>2. "register" \in Operations /\ "initializing" \in States /\ l.load \in Nat
    BY <1>4, Before DEF Operations, States
  <2> QED
    BY <2>1, <2>2, PersistFrame
<1>13. Alone'
  <2> SUFFICES ASSUME environment.serial
               PROVE  /\ \A c, d \in Callers : frame[c] # NoFrame /\ frame[d] # NoFrame => c = d
                      /\ \A c \in Callers : Waits(frame[c]) => <<machine'[frame[c].m].state, frame[c].to>> \in Transitions
    BY <1>3 DEF Alone
  <2>1. \A c, d \in Callers : frame[c] # NoFrame /\ frame[d] # NoFrame => c = d
    BY DEF RegistryInv, Alone
  <2>2. ready[2] \in Callers /\ frame[ready[2]] # NoFrame /\ frame[ready[2]].at = "persist"
    BY <1>12 DEF Made
  <2>3. \A c \in Callers : ~Waits(frame[c])
    BY <2>1, <2>2, FrameKinds DEF Waits
  <2> QED
    BY <2>1, <2>3
<1>14. Stopping'
  BY <1>3, <1>5, Before DEF RegistryInv, Stopping, Agent, books
<1>15. StorageKept'
  <2> SUFFICES ASSUME environment.settled, registered # 0, \A c \in Callers : ~Forgetting(frame[c])
               PROVE  /\ \A c \in Callers : Running(frame[c]) => frame[c].m = registered
                      /\ \E c \in Callers : Saves(frame[c], registered)
    BY <1>3 DEF StorageKept, books
  <2>1. \A c \in Callers : Running(frame[c]) => frame[c].m = registered
    BY DEF RegistryInv, StorageKept
  <2>2. ready[2] \in Callers /\ Running(frame[ready[2]]) /\ Saves(frame[ready[2]], l.load) /\ frame[ready[2]].m = l.load
    BY <1>12 DEF Made, Running, Saves
  <2> QED
    BY <2>1, <2>2
<1>16. Machines' = Machines /\ Machine' = Machine
  BY <1>3 DEF Machines, books
<1>17. \A i \in DOMAIN ready' : ready'[i] \in Loader => ready'[i].load \in Machines
  BY <1>6, <1>7, <1>8 DEF RegistryInv, Ranges
<1>18. TypeOK'
  <2>1. turn' \subseteq Callers
    BY <1>3, Before, TurnTyped
  <2> QED
    BY <1>3, <1>5, <1>6, <1>16, <2>1 DEF RegistryInv, Ranges, TypeOK, books
<1>19. Ranges'
  BY <1>3, <1>16, <1>17, <1>18 DEF RegistryInv, Ranges, books
<1> QED
  BY <1>9, <1>10, <1>11, <1>13, <1>14, <1>15, <1>19 DEF RegistryInv

\* An agent is registered.
LEMMA RegisterKeeps == ASSUME NamesAssumption, RegistryInv, NEW c \in Callers, Register(c) PROVE RegistryInv'
<1>1. PICK n : n = created + 1
  OBVIOUS
<1>2. PICK f : f = Call("register", n, "persist", "initializing", TRUE)
  OBVIOUS
<1>3. PICK l : l = [load |-> n, read |-> saved]
  OBVIOUS
<1>4. PICK r : r = [state |-> "initializing", task |-> Null, errors |-> 0]
  OBVIOUS
<1>5. /\ MayCall(c) /\ registered = 0 /\ (environment.settled => ready = <<>>)
      /\ created' = n /\ registered' = n /\ machine' = Append(machine, r)
      /\ entry' = [status |-> "idle", load |-> 0]
      /\ frame' = [frame EXCEPT ![c] = f] /\ ready' = Append(Append(ready, l), c)
      /\ Turn({c}) /\ UNCHANGED <<saved, timers, environment>>
  BY <1>1, <1>2, <1>3, <1>4 DEF Register, Tick, Goto
<1>6. /\ created \in Nat /\ n \in Nat /\ n = created + 1 /\ Machines = 1..created /\ Machines' = 1..n
      /\ machine \in [1..created -> Machine]
      /\ ready \in Seq(Callers \cup Loader) /\ frame \in [Callers -> Frame] /\ saved \in Saved \cup {Null}
  BY <1>1, <1>5, Before DEF Machines
<1>7. Made(f, "register", n, "initializing")
  <2>1. "register" \in Operations /\ "initializing" \in States
    BY DEF Operations, States
  <2> QED
    BY <1>2, <1>6, <2>1, PersistFrame
<1>8. l \in Loader /\ l.load = n
  BY <1>3, <1>6 DEF Loader
<1>9. r \in Machine
  BY <1>4 DEF Machine, States
<1>10. machine' \in [1..n -> Machine] /\ \A m \in 1..created : machine'[m] = machine[m]
  <2>1. machine \in Seq(Machine) /\ Len(machine) = created
    BY <1>6, SeqDef
  <2>2. machine' \in Seq(Machine) /\ Len(machine') = n /\ \A m \in 1..created : machine'[m] = machine[m]
    <3>1. machine' = Append(machine, r)
      BY <1>5
    <3>2. machine' \in Seq(Machine) /\ Len(machine') = Len(machine) + 1
      BY <3>1, <2>1, <1>9
    <3>3. \A m \in 1..Len(machine) : machine'[m] = machine[m]
      BY <3>1, <2>1
    <3> QED
      BY <3>2, <3>3, <2>1, <1>1
  <2>3. machine' \in [1..Len(machine') -> Machine]
    BY <2>2
  <2> QED
    BY <2>2, <2>3
<1>11. machine'[n] = r
  <2>1. machine \in Seq(Machine) /\ Len(machine) = created
    BY <1>6, SeqDef
  <2> QED
    BY <1>5, <1>6, <1>9, <2>1
<1>12. /\ ready' \in Seq(Callers \cup Loader) /\ DOMAIN ready = 1..Len(ready) /\ Len(ready) \in Nat
       /\ DOMAIN ready' = 1..(Len(ready) + 2) /\ Len(ready') = Len(ready) + 2
       /\ \A i \in 1..Len(ready) : ready'[i] = ready[i]
       /\ ready'[Len(ready) + 1] = l /\ ready'[Len(ready) + 2] = c
  <2>1. PICK s : s = Append(ready, l)
    OBVIOUS
  <2>2. s \in Seq(Callers \cup Loader) /\ Len(s) = Len(ready) + 1 /\ Len(ready) \in Nat
        /\ s[Len(ready) + 1] = l /\ \A i \in 1..Len(ready) : s[i] = ready[i]
    BY <2>1, <1>6, <1>8
  <2>3. ready' \in Seq(Callers \cup Loader) /\ Len(ready') = Len(s) + 1 /\ ready'[Len(s) + 1] = c
        /\ \A i \in 1..Len(s) : ready'[i] = s[i]
    BY <2>1, <2>2, <1>5
  <2>4. Len(s) + 1 = Len(ready) + 2
    BY <2>2
  <2>5. Len(ready) + 1 \in 1..Len(s) /\ \A i \in 1..Len(ready) : i \in 1..Len(s)
    BY <2>2
  <2> QED
    BY <2>2, <2>3, <2>4, <2>5, <1>6
<1>13. \A i \in DOMAIN ready' : i \in DOMAIN ready \/ i = Len(ready) + 1 \/ i = Len(ready) + 2
  BY <1>12
<1>14. f \in Frame /\ f # NoFrame /\ f.m = n /\ f.at = "persist" /\ f.op = "register" /\ f.to = "initializing" /\ f.ok
  BY <1>7 DEF Made
<1>15. \A d \in Callers : frame'[d] = IF d = c THEN f ELSE frame[d]
  BY <1>5, <1>6
<1>16. frame[c] = NoFrame /\ c \notin Loader
  BY <1>5 DEF MayCall, NamesAssumption
<1>17. Queued'
  <2> SUFFICES ASSUME NEW d \in Callers, Running(frame'[d])
               PROVE  \E i \in DOMAIN ready' : ready'[i] = d
    BY DEF Queued
  <2>1. CASE d = c
    BY <2>1, <1>12
  <2>2. CASE d # c
    <3>1. PICK i \in DOMAIN ready : ready[i] = d
      BY <2>2, <1>15 DEF RegistryInv, Queued
    <3> QED
      BY <3>1, <1>12
  <2> QED
    BY <2>1, <2>2
<1>18. NotToStopped'
  BY <1>14, <1>15 DEF RegistryInv, NotToStopped, Waits
<1>19. environment.serial \/ environment.settled => ready = <<>>
  BY <1>5 DEF MayCall
<1>20. LoadsFirst'
  <2> SUFFICES ASSUME environment.serial \/ environment.settled, NEW i \in DOMAIN ready', ready'[i] \in Loader
               PROVE  /\ i = 1 /\ Len(ready') >= 2 /\ ready'[2] \in Callers
                      /\ frame'[ready'[2]] = Call("register", ready'[1].load, "persist", "initializing", TRUE)
    BY <1>5 DEF LoadsFirst
  <2>1. Len(ready) = 0
    BY <1>19
  <2>2. i = 1 /\ ready'[1] = l /\ ready'[2] = c /\ Len(ready') = 2
    BY <2>1, <1>12, <1>13, <1>16
  <2>3. frame'[c] = f
    BY <1>15
  <2> QED
    BY <2>2, <2>3, <1>2, <1>8
<1>21. Alone'
  <2> SUFFICES ASSUME environment.serial
               PROVE  /\ \A d, e \in Callers : frame'[d] # NoFrame /\ frame'[e] # NoFrame => d = e
                      /\ \A d \in Callers : ~Waits(frame'[d])
    BY <1>5 DEF Alone
  <2>1. \A d \in Callers : frame[d] = NoFrame
    BY <1>5 DEF MayCall
  <2> QED
    BY <2>1, <1>14, <1>15, FrameKinds DEF Waits
<1>22. Stopping'
  <2>1. r.state = "initializing"
    BY <1>4
  <2>2. machine'[registered'].state # "stopped"
    BY <2>1, <1>5, <1>11
  <2> QED
    BY <2>2 DEF Stopping, Agent
<1>23. StorageKept'
  <2> SUFFICES ASSUME environment.settled
               PROVE  /\ \A d \in Callers : Running(frame'[d]) => frame'[d].m = n
                      /\ \E d \in Callers : Saves(frame'[d], n)
    BY <1>5 DEF StorageKept
  <2>1. \A d \in Callers : ~Running(frame[d])
    BY <1>19 DEF RegistryInv, Queued
  <2> QED
    BY <2>1, <1>14, <1>15 DEF Saves
<1>24. TypeOK'
  <2>1. entry' \in [status : {"idle", "busy", "unhealthy", "offline"}, load : 0..1]
    BY <1>5
  <2>2. frame' \in [Callers -> Frame]
    BY <1>5, <1>6, <1>14
  <2>3. turn' \subseteq Callers
    BY <1>5, Before, TurnTyped
  <2>4. registered' \in 0..created' /\ Machine' = Machine
    BY <1>5, <1>6
  <2>5. machine' \in [Machines' -> Machine']
    BY <1>6, <1>10, <2>4
  <2> QED
    BY <1>5, <1>12, <2>1, <2>2, <2>3, <2>4, <2>5 DEF RegistryInv, Ranges, TypeOK
<1>25. Ranges'
  <2>1. \A d \in Callers : frame'[d] # NoFrame => frame'[d].m \in Machines'
    BY <1>6, <1>14, <1>15, Before
  <2>2. \A i \in DOMAIN ready' : ready'[i] \in Loader => ready'[i].load \in Machines'
    <3> SUFFICES ASSUME NEW i \in DOMAIN ready', ready'[i] \in Loader PROVE ready'[i].load \in Machines'
      OBVIOUS
    <3>1. CASE i \in DOMAIN ready
      BY <3>1, <1>6, <1>12 DEF RegistryInv, Ranges
    <3>2. CASE i = Len(ready) + 1
      BY <3>2, <1>6, <1>8, <1>12
    <3>3. CASE i = Len(ready) + 2
      BY <3>3, <1>12, <1>16
    <3> QED
      BY <3>1, <3>2, <3>3, <1>13
  <2>3. \A i \in DOMAIN timers' : ~timers'[i].wakes => timers'[i].who \in Machines'
    BY <1>5, <1>6, Before
  <2> QED
    BY <1>5, <1>6, <1>24, <2>1, <2>2, <2>3 DEF Ranges
<1> QED
  BY <1>17, <1>18, <1>20, <1>21, <1>22, <1>23, <1>25 DEF RegistryInv

\* A timer fires.
LEMMA FireKeeps == ASSUME NamesAssumption, RegistryInv, Fire PROVE RegistryInv'
<1>1. PICK t : t = Head(timers)
  OBVIOUS
<1>2. /\ ready = <<>> /\ timers # <<>> /\ timers' = Tail(timers) /\ Turn({})
      /\ \/ /\ ~t.wakes /\ saved' = [state |-> machine[t.who].state, errors |-> machine[t.who].errors]
            /\ UNCHANGED ready
         \/ t.wakes /\ ready' = <<t.who>> /\ UNCHANGED saved
      /\ UNCHANGED <<books, machine, frame, environment>>
  BY <1>1 DEF Fire
<1>3. /\ timers \in Seq(Timer) /\ Len(timers) \in Nat /\ t = timers[1] /\ t \in Timer
      /\ timers' \in Seq(Timer) /\ Len(timers') = Len(timers) - 1
      /\ DOMAIN timers = 1..Len(timers) /\ DOMAIN timers' = 1..Len(timers') /\ 1 \in 1..Len(timers)
      /\ \A i \in 1..Len(timers') : timers'[i] = timers[i + 1]
  BY <1>1, <1>2, Before
<1>4. \A i \in DOMAIN timers' : i + 1 \in DOMAIN timers /\ i \in Nat
  BY <1>3
<1>5. ~t.wakes => t.who \in Machines
  BY <1>3, Before
<1>6. t.wakes => t.who \in Callers
  <2>1. \A x \in [wakes : {FALSE}, who : Nat] : ~x.wakes
    OBVIOUS
  <2>2. \A x \in [wakes : {TRUE}, who : Callers] : x.who \in Callers
    OBVIOUS
  <2> QED
    BY <1>3, <2>1, <2>2 DEF Timer
<1>7. \A c \in Callers : ~Running(frame[c])
  BY <1>2 DEF RegistryInv, Queued
<1>8. saved' \in Saved \cup {Null}
  <2>1. ASSUME ~t.wakes PROVE [state |-> machine[t.who].state, errors |-> machine[t.who].errors] \in Saved
    <3>1. machine[t.who] \in Machine
      BY <2>1, <1>5, Before
    <3> QED
      BY <3>1 DEF Machine, Saved
  <2> QED
    BY <2>1, <1>2, Before
<1>9. ready' \in Seq(Callers \cup Loader) /\ \A i \in DOMAIN ready' : ready'[i] \in Callers
  <2>1. CASE t.wakes
    <3>1. ready' = <<t.who>> /\ t.who \in Callers
      BY <2>1, <1>2, <1>6
    <3> QED
      BY <3>1
  <2>2. CASE ~t.wakes
    <3>1. ready' = <<>>
      BY <2>2, <1>2
    <3> QED
      BY <3>1
  <2> QED
    BY <2>1, <2>2
<1>10. \A i \in DOMAIN ready' : ready'[i] \notin Loader
  BY <1>9 DEF NamesAssumption
<1>11. Queued' /\ LoadsFirst' /\ NotToStopped' /\ Alone'
  BY <1>2, <1>7, <1>10 DEF RegistryInv, Queued, LoadsFirst, NotToStopped, Alone
<1>12. Stopping'
  BY <1>2 DEF RegistryInv, Stopping, Agent, books
<1>13. StorageKept'
  <2> SUFFICES ASSUME environment.settled, registered # 0
               PROVE  /\ \A c \in Callers : Running(frame[c]) => frame[c].m = registered
                      /\ LastSaved(registered)' \/ Agrees'
    BY <1>2 DEF StorageKept, books
  <2>1. registered' = registered /\ machine' = machine
    BY <1>2 DEF books
  <2>2. \A c \in Callers : ~Forgetting(frame[c]) /\ ~Saves(frame[c], registered)
    BY <1>7 DEF Running, Forgetting, Saves
  <2>3. LastSaved(registered) \/ Agrees
    BY <2>2 DEF RegistryInv, StorageKept
  <2>4. CASE LastSaved(registered)
    <3>1. PICK i \in DOMAIN timers : timers[i] = Pending(registered) /\ \A j \in DOMAIN timers : j > i => timers[j].wakes
      BY <2>4 DEF LastSaved
    <3>2. CASE i = 1
      <4>1. ~t.wakes /\ t.who = registered
        BY <3>1, <3>2, <1>3 DEF Pending
      <4>2. PICK s : s = [state |-> machine[registered].state, errors |-> machine[registered].errors]
        OBVIOUS
      <4>3. machine[registered] \in Machine
        BY Before
      <4>4. s \in Saved /\ s.state = machine[registered].state
        BY <4>2, <4>3 DEF Machine, Saved
      <4>5. saved' = s
        BY <4>1, <4>2, <1>2
      <4>6. \A k \in DOMAIN timers' : timers'[k].wakes
        <5> SUFFICES ASSUME NEW k \in DOMAIN timers' PROVE timers'[k].wakes
          OBVIOUS
        <5>1. k \in 1..Len(timers') /\ k + 1 \in DOMAIN timers /\ k + 1 > 1
          BY <1>3, <1>4
        <5> QED
          BY <5>1, <3>1, <3>2, <1>3
      <4>7. saved' # Null
        BY <4>4, <4>5 DEF NamesAssumption
      <4>8. Agrees'
        BY <4>4, <4>5, <4>6, <4>7, <2>1 DEF Agrees, Agent
      <4> QED
        BY <4>8, <1>7
    <3>3. CASE i # 1
      <4>1. PICK k : k = i - 1
        OBVIOUS
      <4>2. k \in DOMAIN timers' /\ k + 1 = i /\ k \in 1..Len(timers')
        BY <4>1, <3>1, <3>3, <1>3
      <4>3. timers'[k] = Pending(registered)
        BY <4>2, <3>1, <1>3
      <4>4. \A j \in DOMAIN timers' : j > k => timers'[j].wakes
        <5> SUFFICES ASSUME NEW j \in DOMAIN timers', j > k PROVE timers'[j].wakes
          OBVIOUS
        <5>1. j \in 1..Len(timers') /\ j + 1 \in DOMAIN timers /\ j + 1 > i
          BY <4>2, <1>3, <1>4
        <5> QED
          BY <5>1, <3>1, <1>3
      <4>5. LastSaved(registered)'
        BY <4>2, <4>3, <4>4, <2>1 DEF LastSaved, Pending
      <4> QED
        BY <4>5, <1>7
    <3> QED
      BY <3>2, <3>3
  <2>5. CASE Agrees
    <3>1. t.wakes
      BY <2>5, <1>3 DEF Agrees
    <3>2. \A k \in DOMAIN timers' : timers'[k].wakes
      BY <2>5, <1>3, <1>4 DEF Agrees
    <3>3. Agrees'
      BY <2>5, <3>1, <3>2, <2>1, <1>2 DEF Agrees, Agent
    <3> QED
      BY <3>3, <1>7
  <2> QED
    BY <2>3, <2>4, <2>5
<1>14. Machines' = Machines /\ Machine' = Machine
  BY <1>2 DEF Machines, books
<1>15. \A i \in DOMAIN timers' : ~timers'[i].wakes => timers'[i].who \in Machines
  BY <1>3, <1>4, Before
<1>16. TypeOK'
  <2>1. turn' \subseteq Callers
    BY <1>2, Before, TurnTyped
  <2> QED
    BY <1>2, <1>3, <1>8, <1>9, <1>14, <2>1 DEF RegistryInv, Ranges, TypeOK, books
<1>17. Ranges'
  BY <1>2, <1>10, <1>14, <1>15, <1>16 DEF RegistryInv, Ranges, books
<1> QED
  BY <1>11, <1>12, <1>13, <1>17 DEF RegistryInv

\* A call on the registered machine: the invariant, and the changes of state.
OnTable ==
  \A m \in Machines : machine'[m].state # machine[m].state => <<machine[m].state, machine'[m].state>> \in Transitions

\* What a transition that begins changes is in the table.
LEMMA BeginOnTable ==
  ASSUME RegistryInv, NEW c \in Callers, NEW op \in Operations, NEW m \in Machines, NEW to \in States, NEW machines, NEW others,
         machines \in [Machines -> Machine], \A n \in Machines : machines[n].state = machine[n].state,
         Begin(c, op, m, to, machines, others)
  PROVE  OnTable
<1>1. PICK f : Begins(c, op, m, to, f)
  BY BeginBegins DEF RegistryInv
<1> QED
  BY <1>1 DEF Begins, OnTable

\* A call whose context becomes ctx.
LEMMA OperateKeeps ==
  ASSUME NamesAssumption, RegistryInv, NEW c \in Callers, NEW op \in Operations, NEW to \in States, NEW ctx \in Machine,
         registered # 0, ctx.state = Agent.state, to = "stopped" => op \in {"stop", "slowStop"},
         Operate(c, op, to, ctx)
  PROVE  RegistryInv' /\ OnTable
<1>1. PICK machines : machines = [machine EXCEPT ![registered] = ctx]
  OBVIOUS
<1>2. registered \in Machines /\ machine \in [Machines -> Machine]
  BY Before
<1>3. machines \in [Machines -> Machine] /\ \A n \in Machines : machines[n].state = machine[n].state
  BY <1>1, <1>2 DEF Agent
<1>4. /\ MayCall(c) /\ Begin(c, op, registered, to, machines, ready) /\ Turn({c})
      /\ UNCHANGED <<registered, created, saved, timers, environment>>
  BY <1>1 DEF Operate
<1>5. frame[c] = NoFrame /\ (environment.serial => frame[c] # NoFrame \/ \A d \in Callers : frame[d] = NoFrame)
  BY <1>4 DEF MayCall
<1>6. turn' \subseteq Callers
  BY <1>4, Before, TurnTyped
<1>7. RegistryInv'
  BY <1>2, <1>3, <1>4, <1>5, <1>6, TransitionKeeps
<1>8. OnTable
  BY <1>2, <1>3, <1>4, BeginOnTable
<1> QED
  BY <1>7, <1>8

\* The calls that make one transition.
LEMMA MovesKeep ==
  ASSUME NamesAssumption, RegistryInv, NEW c \in Callers,
         \/ \E t \in TaskKinds : AssignWork(c, t)
         \/ CompleteWork(c) \/ FailWork(c) \/ PauseAgent(c) \/ ResumeAgent(c) \/ RecoverAgent(c) \/ MakeReady(c)
  PROVE  RegistryInv' /\ OnTable
<1>1. registered # 0
  BY DEF AssignWork, CompleteWork, FailWork, PauseAgent, ResumeAgent, RecoverAgent, MakeReady
<1>2. Agent \in Machine
  BY <1>1, Before DEF Agent
<1>3. ASSUME NEW op \in {"assign", "end", "move"}, NEW to \in {"idle", "busy", "paused", "error", "initializing"},
             NEW ctx \in Machine, ctx.state = Agent.state, Operate(c, op, to, ctx)
      PROVE  RegistryInv' /\ OnTable
  <2>1. op \in Operations /\ to \in States /\ to # "stopped"
    BY DEF Operations, States
  <2> QED
    BY <1>1, <1>3, <2>1, OperateKeeps
<1>4. CASE \E t \in TaskKinds : AssignWork(c, t)
  <2>1. PICK t \in TaskKinds : AssignWork(c, t)
    BY <1>4
  <2>2. PICK ctx : ctx = [Agent EXCEPT !.task = t]
    OBVIOUS
  <2>3. ctx \in Machine /\ ctx.state = Agent.state
    BY <1>2, <2>2 DEF Machine
  <2>4. Operate(c, "assign", "busy", ctx)
    BY <2>1, <2>2 DEF AssignWork
  <2> QED
    BY <1>3, <2>3, <2>4
<1>5. CASE CompleteWork(c)
  <2>1. PICK ctx : ctx = [Agent EXCEPT !.task = Null]
    OBVIOUS
  <2>2. ctx \in Machine /\ ctx.state = Agent.state
    BY <1>2, <2>1 DEF Machine
  <2>3. Operate(c, "end", "idle", ctx)
    BY <1>5, <2>1 DEF CompleteWork
  <2> QED
    BY <1>3, <2>2, <2>3
<1>6. CASE FailWork(c)
  <2>1. PICK ctx : ctx = [Agent EXCEPT !.errors = @ + 1]
    OBVIOUS
  <2>2. ctx \in Machine /\ ctx.state = Agent.state
    BY <1>2, <2>1 DEF Machine
  <2>3. Operate(c, "end", "error", ctx)
    BY <1>6, <2>1 DEF FailWork
  <2> QED
    BY <1>3, <2>2, <2>3
<1>7. CASE PauseAgent(c)
  <2>1. Operate(c, "move", "paused", Agent)
    BY <1>7 DEF PauseAgent
  <2> QED
    BY <1>2, <1>3, <2>1
<1>8. CASE ResumeAgent(c) \/ MakeReady(c)
  <2>1. Operate(c, "move", "idle", Agent)
    BY <1>8 DEF ResumeAgent, MakeReady
  <2> QED
    BY <1>2, <1>3, <2>1
<1>9. CASE RecoverAgent(c)
  <2>1. Operate(c, "move", "initializing", Agent)
    BY <1>9 DEF RecoverAgent
  <2> QED
    BY <1>2, <1>3, <2>1
<1> QED
  BY <1>4, <1>5, <1>6, <1>7, <1>8, <1>9

\* An agent is stopped.
LEMMA StopAgentKeeps == ASSUME NamesAssumption, RegistryInv, NEW c \in Callers, StopAgent(c) PROVE RegistryInv' /\ OnTable
<1>1. registered # 0 /\ registered \in Machines
  BY Before DEF StopAgent
<1>2. PICK op \in {"stop", "slowStop"} :
        \/ \E to \in {"stopping", "stopped"} : Operate(c, op, to, Agent)
        \/ MayCall(c) /\ CleanUp(c, registered, ready) /\ Turn({c}) /\ UNCHANGED <<books, machine, timers, environment>>
  BY DEF StopAgent
<1>3. CASE \E to \in {"stopping", "stopped"} : Operate(c, op, to, Agent)
  <2>1. PICK to \in {"stopping", "stopped"} : Operate(c, op, to, Agent)
    BY <1>3
  <2>2. op \in Operations /\ to \in States /\ Agent \in Machine
    BY <1>1, Before DEF Operations, States, Agent
  <2> QED
    BY <1>1, <2>1, <2>2, OperateKeeps
<1>4. CASE MayCall(c) /\ CleanUp(c, registered, ready) /\ Turn({c}) /\ UNCHANGED <<books, machine, timers, environment>>
  <2>1. turn' \subseteq Callers
    BY <1>4, Before, TurnTyped
  <2>2. frame[c] = NoFrame /\ (environment.serial => frame[c] # NoFrame \/ \A d \in Callers : frame[d] = NoFrame)
    BY <1>4 DEF MayCall
  <2>3. RegistryInv'
    BY <1>1, <1>4, <2>1, <2>2, CleanUpKeeps
  <2>4. OnTable
    BY <1>4 DEF OnTable
  <2> QED
    BY <2>3, <2>4
<1> QED
  BY <1>2, <1>3, <1>4

\* A call goes on to its second transition.
LEMMA FurtherKeeps ==
  ASSUME NamesAssumption, RegistryInv, NEW c \in Callers, NextTransition(c) \/ StopFurther(c)
  PROVE  RegistryInv' /\ OnTable
<1>1. machine \in [Machines -> Machine] /\ \A n \in Machines : machine[n].state = machine[n].state
  BY Before
<1>2. CASE NextTransition(c)
  <2>1. frame[c].m \in Machines /\ frame[c] # NoFrame
    BY <1>2, RunsFrame DEF NextTransition
  <2>2. /\ Runs(c, "back") /\ frame[c].to = "initializing" /\ Begin(c, "register", frame[c].m, "idle", machine, Tail(ready))
        /\ Turn({}) /\ UNCHANGED <<registered, created, saved, timers, environment>>
    BY <1>2 DEF NextTransition, rest
  <2>3. "register" \in Operations /\ "idle" \in States
    BY DEF Operations, States
  <2>4. turn' \subseteq Callers
    BY <2>2, Before, TurnTyped
  <2>5. RegistryInv'
    BY <1>1, <2>1, <2>2, <2>3, <2>4, TransitionKeeps
  <2>6. OnTable
    BY <1>1, <2>1, <2>2, <2>3, BeginOnTable
  <2> QED
    BY <2>5, <2>6
<1>3. CASE StopFurther(c)
  <2>1. /\ \/ Runs(c, "back") /\ frame[c].op = "stop" /\ frame[c].to = "stopping"
           \/ Runs(c, "sleep")
        /\ Begin(c, frame[c].op, frame[c].m, "stopped", machine, Tail(ready)) /\ Turn({})
        /\ UNCHANGED <<registered, created, saved, timers, environment>>
    BY <1>3 DEF StopFurther, rest
  <2>2. frame[c].m \in Machines /\ frame[c] # NoFrame /\ frame[c].op \in Operations
    BY <2>1, RunsFrame
  <2>3. "stopped" \in States
    BY DEF States
  <2>4. turn' \subseteq Callers
    BY <2>1, Before, TurnTyped
  <2>5. OnTable
    BY <1>1, <2>1, <2>2, <2>3, BeginOnTable
  <2>6. Runs(c, "sleep") => frame[c].op \in {"stop", "slowStop"}
    BY DEF RegistryInv, NotToStopped, Runs
  <2>7. RegistryInv'
    BY <1>1, <2>1, <2>2, <2>3, <2>4, <2>6, TransitionKeeps
  <2> QED
    BY <2>5, <2>7
<1> QED
  BY <1>2, <1>3

\* Every step keeps the invariant, and in a run whose calls do not overlap a state
\* changes along the table or is loaded.
LEMMA RegistryStep ==
  ASSUME NamesAssumption, RegistryInv, Next
  PROVE  /\ RegistryInv'
         /\ environment.serial => OnTable \/ (ready # <<>> /\ Head(ready) \in Loader)
<1>1. CASE Restore
  BY <1>1, RestoringKeeps DEF Restore
<1>2. CASE Fire
  BY <1>2, FireKeeps DEF Fire, OnTable
<1>3. CASE \E c \in Callers : NextTransition(c) \/ StopFurther(c)
  BY <1>3, FurtherKeeps
<1>4. CASE \E c \in Callers : \/ \E t \in TaskKinds : AssignWork(c, t)
                              \/ CompleteWork(c) \/ FailWork(c) \/ PauseAgent(c) \/ ResumeAgent(c)
                              \/ RecoverAgent(c) \/ MakeReady(c)
  BY <1>4, MovesKeep
<1>5. CASE \E c \in Callers : StopAgent(c)
  BY <1>5, StopAgentKeeps
<1>6. CASE \E c \in Callers : PersistState(c) \/ Report(c) \/ Sleep(c) \/ StopAnyway(c) \/ Deleted(c) \/ Forget(c) \/ Unregister(c)
  <2>1. PICK c \in Callers : PersistState(c) \/ Report(c) \/ Sleep(c) \/ StopAnyway(c) \/ Deleted(c) \/ Forget(c) \/ Unregister(c)
    BY <1>6
  <2>2. RegistryInv'
    BY <2>1, PersistStateKeeps, ReportKeeps, SleepKeeps, StopAnywayKeeps, DeletedKeeps, ForgetKeeps, UnregisterKeeps
  <2>3. machine' = machine
    BY <2>1 DEF PersistState, Report, Sleep, StopAnyway, Deleted, Forget, Unregister
  <2> QED
    BY <2>2, <2>3 DEF OnTable
<1>7. CASE \E c \in Callers : Register(c)
  <2>1. PICK c \in Callers : Register(c)
    BY <1>7
  <2>2. RegistryInv'
    BY <2>1, RegisterKeeps
  <2>3. \A m \in Machines : machine'[m] = machine[m]
    <3>1. PICK r \in Machine : machine' = Append(machine, r)
      <4>1. [state |-> "initializing", task |-> Null, errors |-> 0] \in Machine
        BY DEF Machine, States
      <4> QED
        BY <2>1, <4>1 DEF Register
    <3>2. machine \in Seq(Machine) /\ Len(machine) = created
      BY Before, SeqDef
    <3>3. Machines = 1..Len(machine)
      BY <3>2, Before
    <3> QED
      BY <3>1, <3>2, <3>3
  <2> QED
    BY <2>2, <2>3 DEF OnTable
<1>8. CASE \E c \in Callers : Conclude(c)
  <2>1. PICK c \in Callers : Conclude(c)
    BY <1>8
  <2>2. RegistryInv'
    BY <2>1, ConcludeKeeps
  <2>3. ASSUME environment.serial PROVE OnTable
    <3>1. PICK f : f = frame[c]
      OBVIOUS
    <3>2. Waits(f) /\ f.m \in Machines
      BY <2>1, <3>1, RunsFrame DEF Conclude, Runs, Waits
    <3>3. <<machine[f.m].state, f.to>> \in Transitions
      BY <2>3, <3>1, <3>2 DEF RegistryInv, Alone
    <3>4. machine \in [Machines -> Machine]
      BY Before
    <3>5. machine' = machine \/ machine' = [machine EXCEPT ![f.m].state = f.to]
      BY <2>1, <3>1 DEF Conclude, Enter
    <3>6. ASSUME machine' = [machine EXCEPT ![f.m].state = f.to]
          PROVE  machine'[f.m].state = f.to /\ \A n \in Machines : n # f.m => machine'[n] = machine[n]
      BY <3>2, <3>4, <3>6 DEF Machine
    <3> QED
      BY <3>3, <3>5, <3>6 DEF OnTable
  <2> QED
    BY <2>2, <2>3
<1> QED
  BY <1>1, <1>2, <1>3, <1>4, <1>5, <1>6, <1>7, <1>8 DEF Next, Microtask

\* A step that changes nothing.
LEMMA RegistryStutter == ASSUME RegistryInv, UNCHANGED vars PROVE RegistryInv'
BY DEF RegistryInv, Ranges, TypeOK, Machines, Queued, NotToStopped, LoadsFirst, Alone, Stopping, Agent, StorageKept, LastSaved,
       Agrees, vars, books, queues

\* The invariant holds at the start.
LEMMA RegistryInitially == ASSUME Init PROVE RegistryInv
<1>1. \A c \in Callers : frame[c] = NoFrame
  BY DEF Init
<1>2. frame \in [Callers -> Frame] /\ created = 0 /\ Machines = {} /\ registered = 0
  BY FrameKinds DEF Init, Machines
<1>3. machine \in [Machines -> Machine]
  BY <1>2 DEF Init
<1>4. TypeOK
  BY <1>2, <1>3 DEF Init, TypeOK, NoEntry
<1>5. Ranges
  BY <1>1, <1>2, <1>4 DEF Ranges, Init
<1>6. Queued /\ NotToStopped /\ Alone
  BY <1>1, FrameKinds DEF Queued, NotToStopped, Alone
<1>7. LoadsFirst /\ Stopping /\ StorageKept
  BY <1>2 DEF Init, LoadsFirst, Stopping, StorageKept
<1> QED
  BY <1>5, <1>6, <1>7 DEF RegistryInv

\* What the invariant says of the registry.
LEMMA RegistryImplies == ASSUME RegistryInv PROVE RegistryAgrees
<1>1. TypeOK
  BY DEF RegistryInv, Ranges
<1>2. StoppedIsForgotten
  BY FrameKinds DEF RegistryInv, Stopping, StoppedIsForgotten, Forgetting
<1>3. PersistedAgrees
  <2> SUFFICES ASSUME environment.settled, registered # 0, ready = <<>>, timers = <<>>
               PROVE  saved # Null /\ saved.state = machine[registered].state
    BY DEF PersistedAgrees
  <2>1. \A c \in Callers : ~Running(frame[c])
    BY DEF RegistryInv, Queued
  <2>2. \A c \in Callers : ~Forgetting(frame[c]) /\ ~Saves(frame[c], registered)
    BY <2>1 DEF Running, Forgetting, Saves
  <2>3. LastSaved(registered) \/ Agrees
    BY <2>2 DEF RegistryInv, StorageKept
  <2>4. ~LastSaved(registered)
    BY DEF LastSaved
  <2> QED
    BY <2>3, <2>4 DEF Agrees, Agent
<1> QED
  BY <1>1, <1>2, <1>3 DEF RegistryAgrees

\* The registry, its stored entry and its machines agree, whoever calls: a stopped
\* machine is about to be forgotten, and where an agent is registered again only
\* when no call runs, the storage settles on the state of its machine.
THEOREM RegistryIsKept == Spec => []RegistryAgrees
<1>1. Init => RegistryInv
  BY RegistryInitially
<1>2. RegistryInv /\ [Next]_vars => RegistryInv'
  BY NamesAssumption, RegistryStep, RegistryStutter
<1>3. RegistryInv => RegistryAgrees
  BY RegistryImplies
<1> QED
  BY <1>1, <1>2, <1>3, PTL DEF Spec

\* Calls that do not overlap change the state along the table of transitions, or to
\* what was saved.
THEOREM RegistryChangesLegally == Spec => LegalSerially
<1>1. Init => RegistryInv
  BY RegistryInitially
<1>2. RegistryInv /\ [Next]_vars => RegistryInv'
  BY NamesAssumption, RegistryStep, RegistryStutter
<1>3. RegistryInv /\ [Next]_vars =>
        [\A m \in Machines :
           LET from == machine[m].state
               to == machine'[m].state
           IN environment.serial /\ from # to
              => <<from, to>> \in Transitions \/ (ready # <<>> /\ Head(ready) \in Loader)]_vars
  BY NamesAssumption, RegistryStep DEF OnTable
<1> QED
  BY <1>1, <1>2, <1>3, PTL DEF Spec, LegalSerially
=============================================================================
