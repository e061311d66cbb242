------------------------ MODULE AgentManagementProofs ------------------------
(***************************************************************************)
(* For any number of agents, nodes, calls and requests, and any settings:  *)
(* the record of an agent agrees with its state and its operations take    *)
(* turns; the books of the nodes agree with the records of the agents as   *)
(* long as calls do not overlap; and requests that nobody has answered are *)
(* within reach of the override.                                           *)
(*                                                                         *)
(* For any number of tasks, lists and calls: both sides of a dependency    *)
(* agree, a blocked task has a cause and a task is in one list, where      *)
(* calls do not overlap.                                                   *)
(***************************************************************************)
EXTENDS AgentManagement, TaskLists, InductionLemmas, SequenceTheorems, FiniteSetTheorems, TLAPS

-----------------------------------------------------------------------------
(* The approvals.                                                          *)

\* A request that the monitor denied has left the queue, or the override
\* would find it there.
DeniedIsOut ==
  \A r \in Requests : Safety!Is(r, "denied") /\ request[r].by = "system" => r \notin pendingQueue

SafetyInv == Safety!TypeOK /\ Safety!UnansweredQueued /\ DeniedIsOut

\* The step changes one request, to a value of its type.
LEMMA OneRequest ==
  ASSUME Safety!TypeOK, NEW r \in Requests, NEW q \in Safety!Request, request' = [request EXCEPT ![r] = q]
  PROVE  /\ request' \in [Requests -> Safety!Request \cup {None}]
         /\ request'[r] = q
         /\ \A s \in Requests : s # r => request'[s] = request[s]
BY DEF Safety!TypeOK

\* What the handlers make of a request that is there.
LEMMA HandledType ==
  ASSUME Safety!NoneAssumption, Safety!EscalationsAssumption, Safety!CountAssumption, Safety!TypeOK,
         NEW r \in Requests, request[r] # None, NEW denied
  PROVE  /\ Safety!Handled(r, denied) \in Safety!Request
         /\ Safety!MayEscalate(r) => Safety!Handled(r, denied).status = "escalated"
         /\ ~Safety!MayEscalate(r) /\ r \in denied => Safety!Handled(r, denied).status = "denied"
         /\ ~Safety!MayEscalate(r) /\ r \notin denied => Safety!Handled(r, denied) = request[r]
<1> DEFINE q == request[r]
<1>1. q \in Safety!Request
  BY DEF Safety!TypeOK
<1>2. ASSUME Safety!MayEscalate(r) PROVE Safety!Escalated(q) \in Safety!Request
  <2>1. q.count < MaxEscalations[q.risk] /\ MaxEscalations[q.risk] \in Nat /\ MaxEscalations[q.risk] <= MaxCount
    BY <1>1, <1>2 DEF Safety!MayEscalate, Safety!EscalationsAssumption, Safety!CountAssumption, Safety!Request
  <2>2. q.count + 1 \in 0..MaxCount
    BY <1>1, <2>1 DEF Safety!Request, Safety!CountAssumption
  <2> HIDE DEF q
  <2> QED
    BY <1>1, <2>2 DEF Safety!Escalated, Safety!Request, Safety!Answers
<1>3. Safety!AutoDenied(q) \in Safety!Request
  BY <1>1 DEF Safety!AutoDenied, Safety!Request, Safety!Answers
<1> QED
  BY <1>1, <1>2, <1>3 DEF Safety!Handled, Safety!Escalated, Safety!AutoDenied, Safety!Request

LEMMA SafetyInitially == Safety!Init => SafetyInv
BY DEF Safety!Init, SafetyInv, Safety!TypeOK, Safety!UnansweredQueued, DeniedIsOut, Safety!Is, Safety!Answered

\* A pass of the monitor over some of the expired requests.
LEMMA HandleExpiredKeeps ==
  ASSUME Safety!NoneAssumption, Safety!EscalationsAssumption, Safety!CountAssumption, SafetyInv,
         NEW expired \in SUBSET Safety!ExpiredRequests, Safety!HandleExpired(expired)
  PROVE  SafetyInv' /\ \A r \in Requests : Safety!Is(r, "denied") => request'[r] = request[r]
<1> DEFINE denied == Safety!DeniedAmong(expired)
<1>1. expired \subseteq Requests /\ \A r \in expired : request[r] # None /\ request[r].status = "pending"
  BY DEF Safety!ExpiredRequests, Safety!Is
<1>2. \A r \in Requests : request'[r] = IF r \in expired THEN Safety!Handled(r, denied) ELSE request[r]
  BY DEF Safety!HandleExpired
<1>3. pendingQueue' = (pendingQueue \cup (expired \ denied)) \ denied
  BY DEF Safety!HandleExpired, Safety!QueueAfter
<1>4. denied \subseteq expired /\ \A r \in denied : ~Safety!MayEscalate(r)
  BY DEF Safety!DeniedAmong
<1>5. \A r \in expired : Safety!Handled(r, denied) \in Safety!Request
  BY <1>1, HandledType DEF SafetyInv
<1>6. \A r \in expired : request'[r] # None
  BY <1>1, <1>2, <1>5 DEF Safety!NoneAssumption
<1> HIDE DEF denied
<1>7. Safety!TypeOK'
  <2>1. request' \in [Requests -> Safety!Request \cup {None}]
    BY <1>2, <1>5 DEF Safety!HandleExpired, SafetyInv, Safety!TypeOK
  <2>2. pendingQueue' \subseteq {r \in Requests : request'[r] # None}
    BY <1>1, <1>2, <1>3, <1>4, <1>6 DEF SafetyInv, Safety!TypeOK
  <2> QED
    BY <2>1, <2>2 DEF Safety!HandleExpired, SafetyInv, Safety!TypeOK
<1>8. Safety!UnansweredQueued'
  <2> SUFFICES ASSUME NEW r \in Requests, request'[r] # None, ~Safety!Answered(r)'
               PROVE  r \in pendingQueue'
    BY DEF Safety!UnansweredQueued
  <2>1. CASE r \in denied
    <3>1. request'[r].status = "denied"
      BY <1>1, <1>2, <1>4, <2>1, HandledType DEF SafetyInv
    <3> QED
      BY <3>1 DEF Safety!Answered, Safety!Is
  <2>2. CASE r \in expired \ denied
    BY <1>3, <2>2
  <2>3. CASE r \notin expired
    BY <1>2, <1>3, <1>4, <2>3 DEF SafetyInv, Safety!UnansweredQueued, Safety!Answered, Safety!Is
  <2> QED
    BY <2>1, <2>2, <2>3
<1>9. DeniedIsOut'
  <2> SUFFICES ASSUME NEW r \in Requests, Safety!Is(r, "denied")', request'[r].by = "system", r \in pendingQueue'
               PROVE  FALSE
    BY DEF DeniedIsOut
  <2>1. CASE r \in expired
    <3>1. r \notin denied
      BY <1>3
    <3>2. Safety!Handled(r, denied).status \in {"escalated", "pending"}
      BY <1>1, <2>1, <3>1, HandledType DEF SafetyInv
    <3> QED
      BY <1>2, <2>1, <3>2 DEF Safety!Is
  <2>2. CASE r \notin expired
    BY <1>2, <1>3, <2>2 DEF SafetyInv, DeniedIsOut, Safety!Is
  <2> QED
    BY <2>1, <2>2
<1>10. \A r \in Requests : Safety!Is(r, "denied") => request'[r] = request[r]
  BY <1>1, <1>2 DEF Safety!Is
<1> QED
  BY <1>7, <1>8, <1>9, <1>10 DEF SafetyInv

\* Every step keeps the invariant and, of a request that is denied and not in
\* the queue, the answer.
LEMMA SafetyStep ==
  ASSUME Safety!NoneAssumption, Safety!EscalationsAssumption, Safety!CountAssumption, SafetyInv, [Safety!Next]_(Safety!vars)
  PROVE  /\ SafetyInv'
         /\ \A r \in Requests : (Safety!Is(r, "denied") /\ request[r].by = "system") => Safety!Is(r, "denied")'
<1> USE DEF SafetyInv, Safety!TypeOK, Safety!UnansweredQueued, DeniedIsOut, Safety!Answered, Safety!Is
<1>1. ASSUME NEW r \in Requests, NEW risk \in Risks, Safety!Create(r, risk)
      PROVE  SafetyInv' /\ \A s \in Requests : Safety!Is(s, "denied") => Safety!Is(s, "denied")'
  <2> DEFINE q == [risk |-> risk, status |-> "pending", by |-> "nobody", count |-> 0, expired |-> FALSE]
  <2>1. q \in Safety!Request /\ q.status = "pending"
    BY DEF Safety!Request, Safety!CountAssumption
  <2> HIDE DEF q
  <2>2. request' = [request EXCEPT ![r] = q] /\ request[r] = None
    BY <1>1 DEF Safety!Create, q
  <2>3. /\ request' \in [Requests -> Safety!Request \cup {None}] /\ request'[r] = q
        /\ \A s \in Requests : s # r => request'[s] = request[s]
    BY <2>1, <2>2, OneRequest
  <2>4. pendingQueue' = pendingQueue \cup {r} /\ UNCHANGED <<monitoring, enableAutoDeny>>
    BY <1>1 DEF Safety!Create
  <2> QED
    BY <2>1, <2>2, <2>3, <2>4 DEF Safety!NoneAssumption
<1>2. ASSUME NEW r \in Requests, Safety!Expire(r)
      PROVE  SafetyInv' /\ \A s \in Requests : Safety!Is(s, "denied") => Safety!Is(s, "denied")'
  <2> DEFINE q == [request[r] EXCEPT !.expired = TRUE]
  <2>1. request[r] \in Safety!Request
    BY <1>2 DEF Safety!Expire
  <2>2. q \in Safety!Request /\ q.status = request[r].status /\ q.by = request[r].by
    BY <2>1 DEF Safety!Request
  <2>3. request' = [request EXCEPT ![r] = q]
    BY <1>2 DEF Safety!Expire
  <2> HIDE DEF q
  <2>4. UNCHANGED <<pendingQueue, monitoring, enableAutoDeny>> /\ request[r] # None
    BY <1>2 DEF Safety!Expire
  <2>5. /\ request' \in [Requests -> Safety!Request \cup {None}] /\ request'[r] = q
        /\ \A s \in Requests : s # r => request'[s] = request[s]
    BY <2>2, <2>3, OneRequest
  <2>6. \A s \in Requests : /\ request'[s] # None <=> request[s] # None
                            /\ request'[s] # None => /\ request'[s].status = request[s].status
                                                     /\ request'[s].by = request[s].by
    BY <2>1, <2>2, <2>4, <2>5 DEF Safety!NoneAssumption
  <2> QED
    BY <2>4, <2>5, <2>6
<1>3. ASSUME NEW r \in Requests, NEW answer \in Safety!Answers \cup {"escalated"}, Safety!Respond(r, answer)
      PROVE  SafetyInv' /\ \A s \in Requests : Safety!Is(s, "denied") => Safety!Is(s, "denied")'
  <2> DEFINE n == IF answer = "escalated" THEN request[r].count + 1 ELSE request[r].count
             q == [request[r] EXCEPT !.status = answer, !.by = "human", !.count = n]
  <2>1. request[r] \in Safety!Request /\ request[r].status = "pending" /\ request[r].count \in 0..MaxCount
    BY <1>3 DEF Safety!Respond, Safety!Request
  <2>2. n \in 0..MaxCount
    BY <1>3, <2>1 DEF Safety!CountAssumption, Safety!Respond
  <2>3. request' = [request EXCEPT ![r] = q]
    BY <1>3 DEF Safety!Respond
  <2> HIDE DEF n
  <2>4. q \in Safety!Request /\ q.status = answer /\ q.by = "human"
    BY <2>1, <2>2 DEF Safety!Request, Safety!Answers
  <2> HIDE DEF q
  <2> QED
    BY <1>3, <2>1, <2>3, <2>4, OneRequest DEF Safety!Respond, Safety!NoneAssumption
<1>4. ASSUME NEW r \in Requests, Safety!Escalate(r)
      PROVE  SafetyInv' /\ \A s \in Requests : Safety!Is(s, "denied") => Safety!Is(s, "denied")'
  <2> DEFINE q == Safety!Escalated(request[r])
  <2>1. request[r] \in Safety!Request /\ request[r].status \in {"pending", "escalated"}
    BY <1>4 DEF Safety!Escalate
  <2>2. request[r].count + 1 \in 0..MaxCount
    BY <1>4, <2>1 DEF Safety!Request, Safety!CountAssumption, Safety!Escalate
  <2>3. q \in Safety!Request /\ q.status = "escalated"
    BY <2>1, <2>2 DEF Safety!Request, Safety!Answers, Safety!Escalated
  <2>4. request' = [request EXCEPT ![r] = q] /\ pendingQueue' = pendingQueue \cup {r}
    BY <1>4 DEF Safety!Escalate
  <2> HIDE DEF q
  <2> QED
    BY <1>4, <2>1, <2>3, <2>4, OneRequest DEF Safety!Escalate, Safety!NoneAssumption
<1>5. ASSUME NEW r \in Requests, Safety!EmergencyOverride(r)
      PROVE  /\ SafetyInv'
             /\ \A s \in Requests : (Safety!Is(s, "denied") /\ request[s].by = "system") => Safety!Is(s, "denied")'
  <2> DEFINE q == [request[r] EXCEPT !.status = "approved", !.by = "human"]
  <2>1. request[r] \in Safety!Request /\ r \in pendingQueue
    BY <1>5 DEF Safety!EmergencyOverride
  <2>2. q \in Safety!Request /\ q.status = "approved"
    BY <2>1 DEF Safety!Request, Safety!Answers
  <2>3. request' = [request EXCEPT ![r] = q] /\ pendingQueue' = pendingQueue \ {r}
    BY <1>5 DEF Safety!EmergencyOverride
  <2> HIDE DEF q
  <2> QED
    BY <1>5, <2>1, <2>2, <2>3, OneRequest DEF Safety!EmergencyOverride, Safety!NoneAssumption
<1>6. CASE Safety!CheckTimeouts \/ Safety!ExpireOld
  BY <1>6, HandleExpiredKeeps DEF Safety!CheckTimeouts, Safety!ExpireOld
<1>7. ASSUME NEW on \in BOOLEAN, Safety!Monitor(on)
      PROVE  SafetyInv' /\ \A s \in Requests : Safety!Is(s, "denied") => Safety!Is(s, "denied")'
  BY <1>7 DEF Safety!Monitor
<1>8. CASE UNCHANGED Safety!vars
  BY <1>8 DEF Safety!vars
<1> QED
  BY <1>1, <1>2, <1>3, <1>4, <1>5, <1>6, <1>7, <1>8 DEF Safety!Next

-----------------------------------------------------------------------------
(* The lifecycle of an agent.                                              *)

Places == {"runtime", "session", "waiting", "killSession", "terminate", "delay", "inside", "returned"}
\* Where a call has its token in a mutex.
Needy == {"waiting", "killSession", "terminate", "delay", "inside"}
Token == Nat \X {"outer", "inner"}

LifecycleTyped ==
  /\ active \in BOOLEAN /\ retried \in BOOLEAN /\ session \in BOOLEAN /\ runtimeId \in BOOLEAN
  /\ state \in {"none", "spawning", "running", "paused", "retrying"} \cup Lifecycle!Dead
  /\ stored \in {"none", "pending", "running", "paused"} \cup Lifecycle!Dead
  /\ runtime \in {"none", "up", "down"}
  /\ retryCount \in Nat
  /\ op \in Seq([kind : Lifecycle!Kinds \cup {"toggle"}, at : Places])
  /\ queue \in Seq(Seq(Token)) /\ mutex \in 0..Len(queue)

InQueue(token) == \E g \in 1..Len(queue) : \E i \in 1..Len(queue[g]) : queue[g][i] = token
Queued == \A c \in 1..Len(op) : op[c].at \in Needy => InQueue(<<c, "outer">>)

\* Where a call stands, the agent is known to exist, to be retried or to have ended.
Begun ==
  \A c \in 1..Len(op) :
    /\ op[c].at # "returned" => state # "none"
    /\ op[c].at \in {"delay", "inside"} => retried
    /\ op[c].at = "terminate" => op[c].kind = "kill"
    /\ op[c].kind = "kill" /\ op[c].at \in {"terminate", "killSession"} =>
         state \in Lifecycle!Dead \/ retried

\* Until the agent ends or is retried there is one mutex, the one spawn() made.
OneMutex ==
  state \notin Lifecycle!Dead /\ ~retried =>
    IF state = "none" THEN queue = <<>> /\ mutex = 0 ELSE Len(queue) = 1 /\ mutex = 1

LifecycleInv == LifecycleTyped /\ Queued /\ Begun /\ OneMutex /\ Lifecycle!StoredAgrees

LEMMA LifecycleInitially == Lifecycle!Init => LifecycleInv
<1> SUFFICES ASSUME Lifecycle!Init PROVE LifecycleInv
  OBVIOUS
<1>1. LifecycleTyped
  <2>1. op = <<>> /\ queue = <<>> /\ mutex = 0 /\ Len(queue) = 0
    BY DEF Lifecycle!Init
  <2>2. \A S : <<>> \in Seq(S)
    OBVIOUS
  <2>3. op \in Seq([kind : Lifecycle!Kinds \cup {"toggle"}, at : Places]) /\ queue \in Seq(Seq(Token))
    BY <2>1, <2>2
  <2>4. /\ active \in BOOLEAN /\ retried \in BOOLEAN /\ session \in BOOLEAN /\ runtimeId \in BOOLEAN
        /\ state = "none" /\ stored = "none" /\ runtime = "none"
    BY DEF Lifecycle!Init
  <2>5. retryCount \in Nat /\ mutex \in 0..Len(queue)
    BY <2>1 DEF Lifecycle!Init
  <2> QED
    BY <2>3, <2>4, <2>5 DEF LifecycleTyped
<1>2. Queued /\ Begun /\ OneMutex /\ Lifecycle!StoredAgrees
  BY DEF Lifecycle!Init, Queued, Begun, OneMutex, Lifecycle!StoredAgrees
<1> QED
  BY <1>1, <1>2 DEF LifecycleInv

\* A call that returns leaves the tokens of the others where they wait.
LEMMA ReleasedKeeps ==
  ASSUME LifecycleTyped, NEW c, queue' = Lifecycle!Released(c)
  PROVE  /\ queue' \in Seq(Seq(Token)) /\ Len(queue') = Len(queue)
         /\ \A d, place : d # c /\ InQueue(<<d, place>>) => InQueue(<<d, place>>)'
<1> DEFINE left(g) == IF queue[g] # <<>> /\ Head(queue[g])[1] = c THEN Tail(queue[g]) ELSE queue[g]
<1>1. queue \in Seq(Seq(Token)) /\ DOMAIN queue = 1..Len(queue) /\ Len(queue) \in Nat
  BY DEF LifecycleTyped
<1>2. queue' = [g \in 1..Len(queue) |-> left(g)]
  BY <1>1 DEF Lifecycle!Released
<1>3. ASSUME NEW g \in 1..Len(queue)
      PROVE  /\ left(g) \in Seq(Token)
             /\ \A i \in 1..Len(queue[g]) : queue[g][i][1] # c => \E j \in 1..Len(left(g)) : left(g)[j] = queue[g][i]
  <2>1. queue[g] \in Seq(Token)
    BY <1>1
  <2>2. CASE queue[g] # <<>> /\ Head(queue[g])[1] = c
    <3>1. /\ Tail(queue[g]) \in Seq(Token) /\ Len(Tail(queue[g])) = Len(queue[g]) - 1
          /\ \A i \in 1..Len(Tail(queue[g])) : Tail(queue[g])[i] = queue[g][i + 1]
      BY <2>1, <2>2, HeadTailProperties
    <3>2. ASSUME NEW i \in 1..Len(queue[g]), queue[g][i][1] # c
          PROVE  \E j \in 1..Len(Tail(queue[g])) : Tail(queue[g])[j] = queue[g][i]
      <4>1. Head(queue[g]) = queue[g][1] /\ Len(queue[g]) \in Nat
        BY <2>1, <2>2
      <4>2. i # 1
        BY <2>2, <3>2, <4>1
      <4>3. i - 1 \in 1..Len(Tail(queue[g])) /\ (i - 1) + 1 = i
        BY <3>1, <4>1, <4>2
      <4> QED
        BY <3>1, <4>3
    <3> QED
      BY <2>2, <3>1, <3>2
  <2>3. CASE ~(queue[g] # <<>> /\ Head(queue[g])[1] = c)
    BY <2>1, <2>3
  <2> QED
    BY <2>2, <2>3
<1> HIDE DEF left
<1>4. queue' \in Seq(Seq(Token)) /\ Len(queue') = Len(queue) /\ \A g \in 1..Len(queue) : queue'[g] = left(g)
  <2>1. [g \in 1..Len(queue) |-> left(g)] \in Seq(Seq(Token))
    BY <1>1, <1>3, IsASeq
  <2> QED
    BY <1>1, <1>2, <2>1
<1>5. ASSUME NEW d, NEW place, d # c, InQueue(<<d, place>>)
      PROVE  InQueue(<<d, place>>)'
  <2>1. PICK g \in 1..Len(queue) : (\E i \in 1..Len(queue[g]) : queue[g][i] = <<d, place>>)
    BY <1>5 DEF InQueue
  <2>2. \E j \in 1..Len(left(g)) : left(g)[j] = <<d, place>>
    <3>1. PICK i \in 1..Len(queue[g]) : queue[g][i] = <<d, place>>
      BY <2>1
    <3>2. queue[g][i][1] # c
      BY <1>5, <3>1
    <3>3. \E j \in 1..Len(left(g)) : left(g)[j] = queue[g][i]
      BY <1>3, <3>2
    <3> QED
      BY <3>1, <3>3
  <2> QED
    BY <1>4, <2>1, <2>2 DEF InQueue
<1> QED
  BY <1>4, <1>5

\* One that waits for the mutex joins its queue, behind those that are there.
LEMMA EnqueuedKeeps ==
  ASSUME LifecycleTyped, NEW token \in Token, Lifecycle!Enqueued(queue, token)
  PROVE  /\ queue' \in Seq(Seq(Token)) /\ mutex' \in 0..Len(queue')
         /\ mutex # 0 => mutex' = mutex /\ Len(queue') = Len(queue)
         /\ InQueue(token)'
         /\ \A other : InQueue(other) => InQueue(other)'
<1>1. queue \in Seq(Seq(Token)) /\ Len(queue) \in Nat /\ mutex \in 0..Len(queue)
  BY DEF LifecycleTyped
<1>2. CASE mutex = 0
  <2>1. queue' = Append(queue, <<token>>) /\ mutex' = Len(queue) + 1
    BY <1>2 DEF Lifecycle!Enqueued
  <2>2. <<token>> \in Seq(Token) /\ Len(<<token>>) = 1 /\ <<token>>[1] = token
    OBVIOUS
  <2>3. /\ queue' \in Seq(Seq(Token)) /\ Len(queue') = Len(queue) + 1
        /\ \A g \in 1..Len(queue) : queue'[g] = queue[g]
        /\ queue'[Len(queue) + 1] = <<token>>
    BY <1>1, <2>1, <2>2
  <2>4. InQueue(token)'
    <3>1. Len(queue) + 1 \in 1..Len(queue') /\ 1 \in 1..Len(queue'[Len(queue) + 1])
      BY <1>1, <2>2, <2>3
    <3>2. queue'[Len(queue) + 1][1] = token
      BY <2>2, <2>3
    <3> QED
      BY <3>1, <3>2 DEF InQueue
  <2>5. ASSUME NEW other, InQueue(other) PROVE InQueue(other)'
    <3>1. PICK g \in 1..Len(queue) : \E i \in 1..Len(queue[g]) : queue[g][i] = other
      BY <2>5 DEF InQueue
    <3>2. g \in 1..Len(queue') /\ queue'[g] = queue[g]
      BY <1>1, <2>3
    <3> QED
      BY <3>1, <3>2 DEF InQueue
  <2> QED
    BY <1>1, <1>2, <2>1, <2>3, <2>4, <2>5
<1>3. CASE mutex # 0
  <2>1. mutex \in 1..Len(queue) /\ queue[mutex] \in Seq(Token) /\ Len(queue[mutex]) \in Nat
    BY <1>1, <1>3
  <2> DEFINE longer == Append(queue[mutex], token)
  <2>2. /\ longer \in Seq(Token) /\ Len(longer) = Len(queue[mutex]) + 1
        /\ \A i \in 1..Len(queue[mutex]) : longer[i] = queue[mutex][i]
        /\ longer[Len(queue[mutex]) + 1] = token
    BY <2>1
  <2>3. queue' = [queue EXCEPT ![mutex] = longer] /\ mutex' = mutex
    BY <1>3 DEF Lifecycle!Enqueued
  <2> HIDE DEF longer
  <2>4. /\ queue' \in Seq(Seq(Token)) /\ Len(queue') = Len(queue)
        /\ \A g \in 1..Len(queue) : queue'[g] = IF g = mutex THEN longer ELSE queue[g]
    BY <1>1, <2>1, <2>2, <2>3, ExceptSeq
  <2>5. InQueue(token)'
    <3>1. Len(queue[mutex]) + 1 \in 1..Len(longer) /\ queue'[mutex] = longer
      BY <2>1, <2>2, <2>4
    <3> QED
      BY <2>1, <2>2, <2>4, <3>1 DEF InQueue
  <2>6. ASSUME NEW other, InQueue(other) PROVE InQueue(other)'
    <3>1. PICK g \in 1..Len(queue) : \E i \in 1..Len(queue[g]) : queue[g][i] = other
      BY <2>6 DEF InQueue
    <3>2. PICK i \in 1..Len(queue[g]) : queue[g][i] = other
      BY <3>1
    <3>3. i \in 1..Len(queue'[g]) /\ queue'[g][i] = other
      <4>1. CASE g = mutex
        <5>1. queue'[g] = longer /\ i \in 1..Len(queue[mutex])
          BY <2>4, <3>2, <4>1
        <5>2. i \in 1..Len(longer) /\ longer[i] = queue[mutex][i]
          BY <2>1, <2>2, <5>1
        <5> QED
          BY <3>2, <4>1, <5>1, <5>2
      <4>2. CASE g # mutex
        BY <2>4, <3>2, <4>2
      <4> QED
        BY <4>1, <4>2
    <3> QED
      BY <2>4, <3>1, <3>3 DEF InQueue
  <2> QED
    BY <1>1, <2>3, <2>4, <2>5, <2>6
<1> QED
  BY <1>2, <1>3

\* What the turn of a call may do: the call moves on with the queues as they are,
\* returns, or waits for a mutex, and the agent does not come back to life.
Moved(c, place) == op' = [op EXCEPT ![c].at = place]
Effect(c, place) ==
  \/ queue' = queue /\ mutex' = mutex /\ (place \in Needy => op[c].at \in Needy)
  \/ /\ place = "returned" /\ queue' = Lifecycle!Released(c)
     /\ mutex' = mutex \/ (mutex' = 0 /\ (state' \in Lifecycle!Dead \/ retried'))
  \/ place = "waiting" /\ op[c].at = "session" /\ Lifecycle!Enqueued(queue, <<c, "outer">>)
  \/ place = "inside" /\ op[c].at \in Needy /\ Lifecycle!Enqueued(queue, <<c, "inner">>)
AgentStays ==
  /\ active' \in BOOLEAN /\ retried' \in BOOLEAN /\ session' \in BOOLEAN /\ runtimeId' \in BOOLEAN
  /\ state' \in {"spawning", "running", "paused", "retrying"} \cup Lifecycle!Dead
  /\ stored' \in {"none", "pending", "running", "paused"} \cup Lifecycle!Dead
  /\ runtime' \in {"none", "up", "down"} /\ retryCount' \in Nat
  /\ retried => retried'
  /\ state \in Lifecycle!Dead /\ ~retried' => state' \in Lifecycle!Dead
  /\ Lifecycle!StoredAgrees'
LEMMA TurnDoes ==
  ASSUME LifecycleInv, NEW c, Lifecycle!Turn(c)
  PROVE  /\ c \in 1..Len(op) /\ op[c].at # "returned"
         /\ \E place \in Places :
              /\ Moved(c, place) /\ Effect(c, place)
              /\ place \in {"delay", "inside"} => retried'
              /\ place = "terminate" => op[c].kind = "kill"
              /\ op[c].kind = "kill" /\ place \in {"terminate", "killSession"} =>
                   state' \in Lifecycle!Dead \/ retried'
         /\ AgentStays
<1> USE DEF Lifecycle!Dead, Lifecycle!Returns, Lifecycle!CleanupMutex, Lifecycle!At, Lifecycle!Calls
<1>1. c \in 1..Len(op) /\ op[c].at # "returned" /\ op[c].at \in Places
  BY DEF Lifecycle!Turn, Lifecycle!RuntimeSpawned, Lifecycle!SessionSpawned, Lifecycle!Start,
     Lifecycle!Pause, Lifecycle!Resume, Lifecycle!Complete, Lifecycle!MarkFailed, Lifecycle!Kill,
     Lifecycle!RuntimeTerminated, Lifecycle!SessionKilled, Lifecycle!Retry, Lifecycle!Fail,
     Lifecycle!DelayOver, Lifecycle!StartInside, Lifecycle!Entered, LifecycleInv, LifecycleTyped, Places
<1>2. /\ state # "none"
      /\ op[c].at \in {"delay", "inside"} => retried
      /\ op[c].at = "terminate" => op[c].kind = "kill"
      /\ op[c].kind = "kill" /\ op[c].at \in {"terminate", "killSession"} => state \in Lifecycle!Dead \/ retried
  BY <1>1 DEF LifecycleInv, Begun
<1>3. LifecycleTyped /\ Lifecycle!StoredAgrees
  BY DEF LifecycleInv
<1> USE <1>1, <1>2, <1>3 DEF LifecycleTyped, Lifecycle!StoredAgrees, AgentStays, Moved, Effect, Places, Needy,
      Lifecycle!agentVars, Lifecycle!Entered
<1>4. CASE Lifecycle!RuntimeSpawned(c)
  BY <1>4 DEF Lifecycle!RuntimeSpawned
<1>5. CASE Lifecycle!SessionSpawned(c)
  BY <1>5 DEF Lifecycle!SessionSpawned
<1>6. CASE Lifecycle!Start(c)
  BY <1>6 DEF Lifecycle!Start, Lifecycle!Startable
<1>7. CASE Lifecycle!Pause(c)
  BY <1>7 DEF Lifecycle!Pause, Lifecycle!Pausable
<1>8. CASE Lifecycle!Resume(c)
  BY <1>8 DEF Lifecycle!Resume
<1>9. CASE Lifecycle!Complete(c)
  BY <1>9 DEF Lifecycle!Complete, Lifecycle!Ends, Lifecycle!AlreadyEnded
<1>10. CASE Lifecycle!MarkFailed(c)
  BY <1>10 DEF Lifecycle!MarkFailed, Lifecycle!Ends
<1>11. CASE Lifecycle!Kill(c)
  BY <1>11 DEF Lifecycle!Kill, Lifecycle!Ends, Lifecycle!AlreadyEnded
<1>12. CASE Lifecycle!RuntimeTerminated(c)
  BY <1>12 DEF Lifecycle!RuntimeTerminated
<1>13. CASE Lifecycle!SessionKilled(c)
  <2>1. /\ op[c].at = "killSession" /\ session' \in {FALSE, session} /\ Moved(c, "returned")
        /\ queue' = Lifecycle!Released(c) /\ mutex' = IF op[c].kind = "kill" THEN 0 ELSE mutex
        /\ UNCHANGED <<active, state, stored, runtime, runtimeId, retryCount, retried>>
    BY <1>13 DEF Lifecycle!SessionKilled
  <2>2. AgentStays
    BY <2>1
  <2>3. Effect(c, "returned")
    BY <2>1
  <2> HIDE DEF Moved, Effect, AgentStays
  <2> QED
    BY <2>1, <2>2, <2>3
<1>14. CASE Lifecycle!Retry(c)
  BY <1>14 DEF Lifecycle!Retry
<1>15. CASE Lifecycle!Fail(c)
  <2>1. CASE Lifecycle!Ends(c, "failed") /\ retryCount' = retryCount + 1 /\ UNCHANGED retried
    BY <1>15, <2>1 DEF Lifecycle!Fail, Lifecycle!Ends
  <2>2. CASE /\ Lifecycle!StartsInside(c) /\ retryCount' = 0 /\ retried' = TRUE
             /\ UNCHANGED <<state, stored>>
    <3>1. AgentStays
      BY <1>15, <2>2 DEF Lifecycle!Fail
    <3>2. Moved(c, "inside") /\ Effect(c, "inside")
      BY <1>15, <2>2 DEF Lifecycle!Fail, Lifecycle!StartsInside
    <3> QED
      BY <2>2, <3>1, <3>2
  <2> QED
    BY <1>15, <2>1, <2>2 DEF Lifecycle!Fail
<1>16. CASE Lifecycle!DelayOver(c)
  BY <1>16 DEF Lifecycle!DelayOver, Lifecycle!StartsInside
<1>17. CASE Lifecycle!StartInside(c)
  BY <1>17 DEF Lifecycle!StartInside, Lifecycle!Startable
<1> QED
  BY <1>4, <1>5, <1>6, <1>7, <1>8, <1>9, <1>10, <1>11, <1>12, <1>13, <1>14, <1>15, <1>16, <1>17
     DEF Lifecycle!Turn

LEMMA TurnKeeps ==
  ASSUME LifecycleInv, NEW c, Lifecycle!Turn(c)
  PROVE  LifecycleInv'
<1>1. /\ c \in 1..Len(op) /\ op[c].at # "returned" /\ AgentStays
      /\ \E place \in Places :
           /\ Moved(c, place) /\ Effect(c, place)
           /\ place \in {"delay", "inside"} => retried'
           /\ place = "terminate" => op[c].kind = "kill"
           /\ op[c].kind = "kill" /\ place \in {"terminate", "killSession"} =>
                state' \in Lifecycle!Dead \/ retried'
  BY TurnDoes
<1>2. PICK place \in Places :
        /\ Moved(c, place) /\ Effect(c, place)
        /\ place \in {"delay", "inside"} => retried'
        /\ place = "terminate" => op[c].kind = "kill"
        /\ op[c].kind = "kill" /\ place \in {"terminate", "killSession"} =>
             state' \in Lifecycle!Dead \/ retried'
  BY <1>1
<1>3. op \in Seq([kind : Lifecycle!Kinds \cup {"toggle"}, at : Places]) /\ Len(op) \in Nat
  BY DEF LifecycleInv, LifecycleTyped
<1>4. /\ op' \in Seq([kind : Lifecycle!Kinds \cup {"toggle"}, at : Places]) /\ Len(op') = Len(op)
      /\ \A d \in 1..Len(op) : /\ op'[d].kind = op[d].kind
                               /\ op'[d].at = IF d = c THEN place ELSE op[d].at
  <2> DEFINE k == Lifecycle!Kinds \cup {"toggle"}
  <2> HIDE DEF k
  <2>1. op \in Seq([kind : k, at : Places])
    BY <1>3 DEF k
  <2>2. op[c] \in [kind : k, at : Places]
    BY <1>1, <1>3, <2>1, ElementOfSeq
  <2>3. op' = [op EXCEPT ![c] = [op[c] EXCEPT !.at = place]]
    BY <1>2 DEF Moved
  <2>4. PICK r : r = [op[c] EXCEPT !.at = place]
    OBVIOUS
  <2>5. r \in [kind : k, at : Places] /\ r.kind = op[c].kind /\ r.at = place
    BY <2>2, <2>4
  <2>6. /\ op' \in Seq([kind : k, at : Places]) /\ Len(op') = Len(op)
        /\ \A d \in 1..Len(op) : op'[d] = IF d = c THEN r ELSE op[d]
    BY <1>1, <2>1, <2>3, <2>4, <2>5, ExceptSeq
  <2> QED
    BY <2>5, <2>6 DEF k
<1>5. /\ queue' \in Seq(Seq(Token)) /\ mutex' \in 0..Len(queue')
      /\ \A d, t : d # c /\ InQueue(<<d, t>>) => InQueue(<<d, t>>)'
      /\ place \in Needy => InQueue(<<c, "outer">>)'
      /\ mutex # 0 /\ state' \notin Lifecycle!Dead /\ ~retried' => mutex' = mutex /\ Len(queue') = Len(queue)
  <2>0. LifecycleTyped /\ queue \in Seq(Seq(Token)) /\ mutex \in 0..Len(queue) /\ Len(queue) \in Nat
        /\ (op[c].at \in Needy => InQueue(<<c, "outer">>))
    BY <1>1 DEF LifecycleInv, LifecycleTyped, Queued
  <2>1. CASE queue' = queue /\ mutex' = mutex /\ (place \in Needy => op[c].at \in Needy)
    BY <2>0, <2>1 DEF InQueue
  <2>2. CASE /\ place = "returned" /\ queue' = Lifecycle!Released(c)
             /\ mutex' = mutex \/ (mutex' = 0 /\ (state' \in Lifecycle!Dead \/ retried'))
    <3>1. place \notin Needy
      BY <2>2 DEF Needy
    <3>2. mutex' \in 0..Len(queue)
      BY <2>0, <2>2
    <3>3. mutex # 0 /\ state' \notin Lifecycle!Dead /\ ~retried' => mutex' = mutex
      BY <2>2
    <3> QED
      BY <2>0, <2>2, <3>1, <3>2, <3>3, ReleasedKeeps
  <2>3. CASE /\ Lifecycle!Enqueued(queue, <<c, "outer">>)
    <3>1. <<c, "outer">> \in Token
      BY <1>1, <1>3 DEF Token
    <3> QED
      BY <2>0, <2>3, <3>1, EnqueuedKeeps
  <2>4. CASE op[c].at \in Needy /\ Lifecycle!Enqueued(queue, <<c, "inner">>)
    <3>1. <<c, "inner">> \in Token
      BY <1>1, <1>3 DEF Token
    <3> QED
      BY <2>0, <2>4, <3>1, EnqueuedKeeps
  <2> QED
    BY <1>2, <2>1, <2>2, <2>3, <2>4 DEF Effect
<1>6. LifecycleTyped'
  BY <1>1, <1>4, <1>5 DEF AgentStays, LifecycleTyped
<1>7. Queued'
  <2> SUFFICES ASSUME NEW d \in 1..Len(op), op'[d].at \in Needy
               PROVE  InQueue(<<d, "outer">>)'
    BY <1>4 DEF Queued
  <2>1. CASE d = c
    BY <1>4, <1>5, <2>1
  <2>2. CASE d # c
    <3>1. InQueue(<<d, "outer">>)
      BY <1>4, <2>2 DEF LifecycleInv, Queued
    <3> QED
      BY <1>5, <2>2, <3>1
  <2> QED
    BY <2>1, <2>2
<1>8. state' # "none" /\ (retried => retried') /\ (state \in Lifecycle!Dead /\ ~retried' => state' \in Lifecycle!Dead)
  BY <1>1 DEF AgentStays, Lifecycle!Dead
<1>9. Begun'
  <2> SUFFICES ASSUME NEW d \in 1..Len(op)
               PROVE  /\ op'[d].at # "returned" => state' # "none"
                      /\ op'[d].at \in {"delay", "inside"} => retried'
                      /\ op'[d].at = "terminate" => op'[d].kind = "kill"
                      /\ op'[d].kind = "kill" /\ op'[d].at \in {"terminate", "killSession"} =>
                           state' \in Lifecycle!Dead \/ retried'
    BY <1>4 DEF Begun, Lifecycle!Dead
  <2>1. CASE d = c
    BY <1>2, <1>4, <1>8, <2>1
  <2>2. CASE d # c
    <3>1. /\ op[d].at \in {"delay", "inside"} => retried
          /\ op[d].at = "terminate" => op[d].kind = "kill"
          /\ op[d].kind = "kill" /\ op[d].at \in {"terminate", "killSession"} =>
               state \in Lifecycle!Dead \/ retried
      BY DEF LifecycleInv, Begun
    <3> QED
      BY <1>4, <1>8, <2>2, <3>1
  <2> QED
    BY <2>1, <2>2
<1>10. OneMutex'
  <2> SUFFICES ASSUME state' \notin Lifecycle!Dead, ~retried'
               PROVE  Len(queue') = 1 /\ mutex' = 1
    BY <1>8 DEF OneMutex, Lifecycle!Dead
  <2>1. state \notin Lifecycle!Dead /\ ~retried /\ state # "none"
    BY <1>1, <1>8 DEF LifecycleInv, Begun
  <2>2. Len(queue) = 1 /\ mutex = 1
    BY <2>1 DEF LifecycleInv, OneMutex
  <2> QED
    BY <1>5, <2>2
<1> QED
  BY <1>1, <1>6, <1>7, <1>9, <1>10 DEF LifecycleInv, AgentStays

LEMMA CallKeeps ==
  ASSUME LifecycleInv, NEW kind \in Lifecycle!Kinds, Lifecycle!Call(kind)
  PROVE  LifecycleInv'
<1> DEFINE k == Lifecycle!Kinds \cup {"toggle"}
<1>0. PICK n : n = Len(op) + 1
  OBVIOUS
<1>1. /\ state # "none" /\ op' = Append(op, [kind |-> kind, at |-> "waiting"])
      /\ Lifecycle!Enqueued(queue, <<n, "outer">>)
      /\ UNCHANGED <<active, state, stored, runtime, runtimeId, session, retryCount, retried>>
  BY <1>0 DEF Lifecycle!Call, Lifecycle!agentVars
<1>2. LifecycleTyped /\ op \in Seq([kind : k, at : Places]) /\ Len(op) \in Nat /\ kind \in k
  BY DEF LifecycleInv, LifecycleTyped
<1> HIDE DEF k
<1>3. /\ op' \in Seq([kind : k, at : Places]) /\ Len(op') = n /\ n \in 1..Len(op')
      /\ \A d \in 1..Len(op) : op'[d] = op[d]
      /\ op'[n] = [kind |-> kind, at |-> "waiting"]
  <2>1. [kind |-> kind, at |-> "waiting"] \in [kind : k, at : Places]
    BY <1>2 DEF Places
  <2> QED
    BY <1>0, <1>1, <1>2, <2>1
<1>4. \A d \in 1..Len(op') : d = n \/ d \in 1..Len(op)
  BY <1>0, <1>2, <1>3
<1>5. <<n, "outer">> \in Token
  BY <1>0, <1>2 DEF Token
<1>6. /\ queue' \in Seq(Seq(Token)) /\ mutex' \in 0..Len(queue')
      /\ mutex # 0 => mutex' = mutex /\ Len(queue') = Len(queue)
      /\ InQueue(<<n, "outer">>)'
      /\ \A other : InQueue(other) => InQueue(other)'
  BY <1>1, <1>2, <1>5, EnqueuedKeeps
<1>7. LifecycleTyped'
  <2>1. op' \in Seq([kind : Lifecycle!Kinds \cup {"toggle"}, at : Places])
    BY <1>3 DEF k
  <2>2. queue' \in Seq(Seq(Token)) /\ mutex' \in 0..Len(queue')
    BY <1>6
  <2> QED
    BY <1>1, <1>2, <2>1, <2>2 DEF LifecycleTyped, Lifecycle!Dead
<1>8. Queued'
  BY <1>3, <1>4, <1>6 DEF LifecycleInv, Queued
<1>9. Begun'
  <2>1. op'[n].at = "waiting" /\ op'[n].kind = kind
    BY <1>3
  <2> QED
    BY <1>1, <1>3, <1>4, <2>1 DEF LifecycleInv, Begun, Lifecycle!Dead
<1>10. OneMutex' /\ Lifecycle!StoredAgrees'
  BY <1>1, <1>6 DEF LifecycleInv, OneMutex, Lifecycle!StoredAgrees, Lifecycle!Dead
<1> QED
  BY <1>7, <1>8, <1>9, <1>10 DEF LifecycleInv

LEMMA SpawnKeeps ==
  ASSUME LifecycleInv, Lifecycle!Spawn \/ Lifecycle!Toggle
  PROVE  LifecycleInv'
<1> DEFINE k == Lifecycle!Kinds \cup {"toggle"}
           n == Len(op) + 1
<1>1. \E kind \in k, place \in {"runtime", "returned"} : op' = Append(op, [kind |-> kind, at |-> place])
  BY DEF Lifecycle!Spawn, Lifecycle!Toggle, Lifecycle!Kinds
<1>2. PICK kind \in k, place \in {"runtime", "returned"} : op' = Append(op, [kind |-> kind, at |-> place])
  BY <1>1
<1>3. LifecycleTyped /\ op \in Seq([kind : k, at : Places]) /\ Len(op) \in Nat
  BY DEF LifecycleInv, LifecycleTyped
<1> HIDE DEF k
<1>4. /\ op' \in Seq([kind : k, at : Places]) /\ Len(op') = n
      /\ \A d \in 1..Len(op) : op'[d] = op[d]
      /\ op'[n] = [kind |-> kind, at |-> place]
  <2>1. [kind |-> kind, at |-> place] \in [kind : k, at : Places]
    BY DEF Places
  <2> QED
    BY <1>2, <1>3, <2>1
<1>5. /\ \A d \in 1..Len(op') : d = n \/ d \in 1..Len(op)
      /\ op'[n].at = place /\ n \in 1..Len(op')
  BY <1>3, <1>4
<1> HIDE DEF n
<1>6. CASE Lifecycle!Toggle
  <2>1. UNCHANGED <<state, stored, runtime, runtimeId, session, retryCount, mutex, queue, retried>>
        /\ active' = ~active /\ place = "returned"
    <3>1. op' = Append(op, [kind |-> "toggle", at |-> "returned"]) /\ Len(op) + 1 = n
      BY <1>6 DEF Lifecycle!Toggle, n
    <3>2. op'[n] = [kind |-> "toggle", at |-> "returned"]
      BY <1>3, <3>1
    <3>3. place = "returned"
      BY <1>5, <3>2
    <3> QED
      BY <1>6, <3>3 DEF Lifecycle!Toggle, Lifecycle!agentVars
  <2>2. LifecycleTyped'
    BY <1>3, <1>4, <2>1 DEF LifecycleTyped, k
  <2>3. Queued'
    BY <1>4, <1>5, <2>1 DEF LifecycleInv, Queued, InQueue, Needy
  <2>4. Begun'
    BY <1>4, <1>5, <2>1 DEF LifecycleInv, Begun
  <2>5. OneMutex' /\ Lifecycle!StoredAgrees'
    BY <2>1 DEF LifecycleInv, OneMutex, Lifecycle!StoredAgrees
  <2> QED
    BY <2>2, <2>3, <2>4, <2>5 DEF LifecycleInv
<1>7. CASE Lifecycle!Spawn
  <2>1. /\ state = "none" /\ state' = "spawning" /\ stored' = "pending" /\ mutex' = 1 /\ queue' = << <<>> >>
        /\ UNCHANGED <<active, runtime, runtimeId, session, retryCount, retried>>
    BY <1>7 DEF Lifecycle!Spawn
  <2>2. \A d \in 1..Len(op) : op[d].at = "returned"
    BY <2>1 DEF LifecycleInv, Begun
  <2>3. queue' \in Seq(Seq(Token)) /\ Len(queue') = 1
    <3>1. <<>> \in Seq(Token)
      OBVIOUS
    <3> QED
      BY <2>1, <3>1
  <2>4. LifecycleTyped'
    BY <1>3, <1>4, <2>1, <2>3 DEF LifecycleTyped, k
  <2>5. \A d \in 1..Len(op') : op'[d].at \in {"runtime", "returned"}
    BY <1>4, <1>5, <2>2
  <2>6. Queued' /\ Begun'
    BY <2>1, <2>5 DEF Queued, Begun, Needy
  <2>7. OneMutex' /\ Lifecycle!StoredAgrees'
    BY <2>1, <2>3 DEF OneMutex, Lifecycle!StoredAgrees
  <2> QED
    BY <2>4, <2>6, <2>7 DEF LifecycleInv
<1> QED
  BY <1>6, <1>7

LEMMA LifecycleStep ==
  ASSUME LifecycleInv, [Lifecycle!Next]_(Lifecycle!vars)
  PROVE  LifecycleInv' /\ (state \in Lifecycle!Dead /\ ~retried' => state' \in Lifecycle!Dead)
<1>1. CASE UNCHANGED Lifecycle!vars
  <2>1. /\ UNCHANGED <<active, state, stored, runtime, runtimeId, session, retryCount, mutex, queue, op, retried>>
    BY <1>1 DEF Lifecycle!vars, Lifecycle!agentVars
  <2>2. LifecycleTyped'
    BY <2>1 DEF LifecycleInv, LifecycleTyped
  <2>3. Queued'
    BY <2>1 DEF LifecycleInv, Queued, InQueue
  <2>4. Begun' /\ OneMutex' /\ Lifecycle!StoredAgrees'
    BY <2>1 DEF LifecycleInv, Begun, OneMutex, Lifecycle!StoredAgrees
  <2> QED
    BY <2>1, <2>2, <2>3, <2>4 DEF LifecycleInv
<1>2. CASE Lifecycle!Spawn \/ Lifecycle!Toggle
  <2>1. state \in Lifecycle!Dead => state' \in Lifecycle!Dead
    BY <1>2 DEF Lifecycle!Spawn, Lifecycle!Toggle, Lifecycle!agentVars, Lifecycle!Dead
  <2> QED
    BY <1>2, <2>1, SpawnKeeps
<1>3. ASSUME NEW kind \in Lifecycle!Kinds, Lifecycle!Call(kind)
      PROVE  LifecycleInv' /\ (state \in Lifecycle!Dead => state' \in Lifecycle!Dead)
  <2>1. state' = state
    BY <1>3 DEF Lifecycle!Call, Lifecycle!agentVars
  <2> QED
    BY <1>3, <2>1, CallKeeps
<1>4. ASSUME NEW c \in 1..LifecycleCalls, Lifecycle!Turn(c)
      PROVE  LifecycleInv' /\ (state \in Lifecycle!Dead /\ ~retried' => state' \in Lifecycle!Dead)
  BY <1>4, TurnDoes, TurnKeeps DEF AgentStays
<1> QED
  BY <1>1, <1>2, <1>3, <1>4 DEF Lifecycle!Next

\* What the runs check of the lifecycle.
LEMMA LifecycleImplies ==
  ASSUME LifecycleInv
  PROVE  Lifecycle!TypeOK /\ Lifecycle!StoredAgrees /\ Lifecycle!OneAtATime
<1>1. LifecycleTyped /\ Lifecycle!StoredAgrees
  BY DEF LifecycleInv
<1>2. Lifecycle!TypeOK
  <2>1. ASSUME NEW c \in 1..Len(op), op[c].at \in {"waiting", "killSession", "terminate", "delay", "inside"}
        PROVE  \E g \in DOMAIN queue : Lifecycle!Contains(queue[g], <<c, "outer">>)
    <3>1. InQueue(<<c, "outer">>)
      BY <2>1 DEF LifecycleInv, Queued, Needy
    <3>2. DOMAIN queue = 1..Len(queue)
      BY <1>1 DEF LifecycleTyped
    <3> QED
      BY <3>1, <3>2 DEF InQueue, Lifecycle!Contains
  <2> QED
    BY <1>1, <2>1 DEF LifecycleTyped, Lifecycle!TypeOK, Lifecycle!Calls
<1>3. Lifecycle!OneAtATime
  <2> SUFFICES ASSUME state \notin Lifecycle!Dead, ~retried, NEW c \in 1..Len(op), NEW d \in 1..Len(op),
                      Lifecycle!Holds(c, "outer"), Lifecycle!Holds(d, "outer")
               PROVE  c = d
    BY DEF Lifecycle!OneAtATime, Lifecycle!Calls
  <2>1. \A g \in DOMAIN queue : g = 1
    <3>1. queue = <<>> \/ Len(queue) = 1
      BY DEF LifecycleInv, OneMutex
    <3>2. queue \in Seq(Seq(Token))
      BY <1>1 DEF LifecycleTyped
    <3> QED
      BY <3>1, <3>2
  <2>2. Head(queue[1]) = <<c, "outer">> /\ Head(queue[1]) = <<d, "outer">>
    BY <2>1 DEF Lifecycle!Holds
  <2> QED
    BY <2>2
<1> QED
  BY <1>1, <1>2, <1>3

-----------------------------------------------------------------------------
(* The scheduler.                                                          *)

\* The calls that look for a place keep the same fields throughout.
Searching == {"check", "read", "select", "readVictim"}
Search(at) ==
  [at : at, agent : Agents, nodes : Seq(Nodes), next : Seq(Nodes), victims : Seq(Agents), again : BOOLEAN]
Releasing ==
  [at : {"release"}, agent : Agents, nodes : Seq(Nodes), next : Seq(Nodes), victims : Seq(Agents), again : BOOLEAN,
   node : Nodes, listed : SUBSET Agents]
Changing == [at : {"write", "releaseOwn"}, agent : Agents, node : Nodes, listed : SUBSET Agents]
SomeCall ==
  {Scheduler!Idle} \cup Search(Searching) \cup Releasing \cup Changing \cup [at : {"readOwn"}, agent : Agents]

\* A call has a node to try, or a victim, where it uses one.
Supplied(c) ==
  /\ c.at = "read" => c.next # <<>>
  /\ c.at \in {"readVictim", "release"} => c.victims # <<>>

SchedulerTyped ==
  /\ used \in [Nodes -> Int] /\ listed \in [Nodes -> SUBSET Agents]
  /\ record \in [Agents -> Nodes \cup {None}]
  /\ known \subseteq Agents /\ preempted \subseteq Agents
  /\ call \in [Workers -> SomeCall] /\ \A w \in Workers : Supplied(call[w])
  /\ calls \in 0..SchedulerCalls /\ serial \in BOOLEAN

\* Calls that wait for each other: one at a time, on books that agree.
Alone == \A v, w \in Workers : call[v] # Scheduler!Idle /\ call[w] # Scheduler!Idle => v = w
Books ==
  \A n \in Nodes :
    /\ used[n] = Scheduler!Total(Scheduler!On(n)) /\ listed[n] = Scheduler!On(n)
    /\ used[n] <= Capacity
Out == \A a \in preempted : record[a] = None

\* What a call has read is still so.
Current(c) ==
  /\ c.at \in Searching \cup {"write", "release"} => record[c.agent] = None /\ c.agent \notin preempted
  /\ c.at \in {"readVictim", "release"} => \A i \in 1..Len(c.victims) : c.victims[i] # c.agent
  /\ c.at = "write" => c.listed = listed[c.node] /\ used[c.node] + Size[c.agent] <= Capacity
  /\ c.at = "release" => record[Head(c.victims)] = c.node /\ c.listed = listed[c.node]
  /\ c.at = "releaseOwn" => record[c.agent] = c.node /\ c.listed = listed[c.node]

SchedulerInv ==
  /\ SchedulerTyped
  /\ serial => Alone /\ Books /\ Out /\ \A w \in Workers : Current(call[w])

\* The finite sets of the scheduler are those of the library.
LEMMA SameCardinality ==
  /\ IsFiniteSet(Agents) /\ IsFiniteSet(Nodes)
  /\ \A S : Scheduler!Cardinality(S) = Cardinality(S)
<1>1. \A S : Scheduler!Cardinality(S) = Cardinality(S)
  BY DEF Scheduler!Cardinality, Cardinality
<1>2. Scheduler!IsFiniteSet(Agents) /\ Scheduler!IsFiniteSet(Nodes)
  BY PartsAssumption DEF Scheduler!AgentsAssumption
<1>3. IsFiniteSet(Agents) /\ IsFiniteSet(Nodes)
  BY <1>2 DEF Scheduler!IsFiniteSet, IsFiniteSet
<1> QED
  BY <1>1, <1>3

\* What the agents of a set take: none takes nothing, and one more adds its size.
LEMMA TotalAdds ==
  /\ Scheduler!Total({}) = 0
  /\ \A S \in SUBSET Agents : Scheduler!Total(S) \in Int
  /\ \A S \in SUBSET Agents : \A a \in Agents \ S : Scheduler!Total(S \cup {a}) = Scheduler!Total(S) + Size[a]
<1>1. IsFiniteSet(Agents) /\ Size \in [Agents -> Nat \ {0}]
  BY PartsAssumption, SameCardinality DEF Scheduler!AgentsAssumption
<1>2. Size \in [Agents -> Int]
  BY <1>1
<1>3. ASSUME NEW S
      PROVE  Scheduler!Total(S) =
               (CHOOSE iter : iter = [s \in SUBSET S |->
                  IF s = {} THEN 0
                  ELSE Size[CHOOSE y \in s : TRUE] + iter[s \ {CHOOSE y \in s : TRUE}]])[S]
  BY DEF Scheduler!Total, Scheduler!MapThenSumSet, Scheduler!MapThenFoldSet
<1>4. ASSUME NEW S
      PROVE  Scheduler!Total(S) = Sums(S, Size)[S]
  BY <1>3 DEF Sums, SumStep, AnyOf
<1>5. \A S \in SUBSET Agents : Sums(S, Size)[S] = Sums(Agents, Size)[S]
  BY <1>1, <1>2, SumsAgree
<1>6. PICK h : h = Sums(Agents, Size)
  OBVIOUS
<1>7. Additive(Agents, Size, h)
  BY <1>1, <1>2, <1>6, SumsAdd
<1>8. \A S \in SUBSET Agents : Scheduler!Total(S) = h[S]
  BY <1>4, <1>5, <1>6
<1>9. h \in [SUBSET Agents -> Int] /\ h[{}] = 0
  BY <1>7 DEF Additive
<1>10. \A S \in SUBSET Agents : \A a \in Agents \ S : h[S \cup {a}] = h[S] + Size[a]
  BY <1>7 DEF Additive
<1>11. ASSUME NEW S \in SUBSET Agents, NEW a \in Agents \ S
       PROVE  Scheduler!Total(S \cup {a}) = Scheduler!Total(S) + Size[a]
  <2>1. PICK T : T = S \cup {a}
    OBVIOUS
  <2>2. T \in SUBSET Agents /\ h[T] = h[S] + Size[a]
    BY <1>10, <2>1
  <2> QED
    BY <1>8, <2>1, <2>2
<1> QED
  BY <1>8, <1>9, <1>11

\* The nodes in an order, and the victims in theirs.
LEMMA RankedNodes ==
  ASSUME NEW nodes \in Scheduler!SetToSeqs(Nodes)
  PROVE  nodes \in Seq(Nodes)
<1>1. Cardinality(Nodes) \in Nat
  BY SameCardinality, FS_CardinalityType
<1>2. nodes \in [1..Cardinality(Nodes) -> Nodes]
  BY SameCardinality DEF Scheduler!SetToSeqs
<1> QED
  BY <1>1, <1>2, SeqDef

LEMMA Victims ==
  ASSUME SchedulerTyped, NEW a \in Agents, NEW s \in Scheduler!Selections(a), Scheduler!Sufficient(a, s) # {}
  PROVE  /\ SubSeq(s, 1, Scheduler!Min(Scheduler!Sufficient(a, s))) \in Seq(Agents)
         /\ SubSeq(s, 1, Scheduler!Min(Scheduler!Sufficient(a, s))) # <<>>
         /\ record[a] = None =>
              \A i \in 1..Len(SubSeq(s, 1, Scheduler!Min(Scheduler!Sufficient(a, s)))) :
                SubSeq(s, 1, Scheduler!Min(Scheduler!Sufficient(a, s)))[i] # a
<1>1. Scheduler!Candidates(a) \in SUBSET Agents /\ \A v \in Scheduler!Candidates(a) : record[v] # None
  BY DEF Scheduler!Candidates, SchedulerTyped
<1>2. PICK C : C = Scheduler!Candidates(a)
  OBVIOUS
<1>3. IsFiniteSet(C) /\ Cardinality(C) \in Nat
  BY <1>1, <1>2, SameCardinality, FS_Subset, FS_CardinalityType
<1>4. s \in [1..Cardinality(C) -> C]
  BY <1>2, SameCardinality DEF Scheduler!Selections, Scheduler!SetToSeqs
<1>5. s \in Seq(C)
  BY <1>3, <1>4, SeqDef
<1>6. PICK n : n = Scheduler!Min(Scheduler!Sufficient(a, s))
  OBVIOUS
<1>7. Scheduler!Sufficient(a, s) \subseteq Nat
  BY <1>5 DEF Scheduler!Sufficient
<1>8. n \in Scheduler!Sufficient(a, s)
  <2>1. \E m \in Scheduler!Sufficient(a, s) : \A k \in Scheduler!Sufficient(a, s) : m <= k
    BY <1>7, LeastNumber
  <2> QED
    BY <1>6, <2>1 DEF Scheduler!Min
<1>9. n \in 0..Len(s) /\ Scheduler!Enough(a, SubSeq(s, 1, n))
  BY <1>8 DEF Scheduler!Sufficient
<1>10. PICK t : t = SubSeq(s, 1, n)
  OBVIOUS
<1>11. t \in Seq(C) /\ Len(t) = n /\ \A i \in 1..n : t[i] = s[i]
  BY <1>5, <1>9, <1>10
<1>12. t # <<>>
  <2> SUFFICES ASSUME t = <<>> PROVE FALSE
    OBVIOUS
  <2>1. Scheduler!ToSet(t) = {}
    BY DEF Scheduler!ToSet
  <2>2. Scheduler!Total({}) >= Size[a]
    BY <1>9, <1>10, <2>1 DEF Scheduler!Enough
  <2> QED
    BY <2>2, TotalAdds, PartsAssumption DEF Scheduler!AgentsAssumption
<1>13. t \in Seq(Agents)
  BY <1>1, <1>2, <1>11, SeqMonotonic
<1>14. \A i \in 1..Len(t) : record[t[i]] # None
  BY <1>1, <1>2, <1>11, ElementOfSeq
<1> QED
  BY <1>6, <1>10, <1>12, <1>13, <1>14

\* An agent that takes a place, or leaves it, changes what one node holds.
LEMMA Occupied ==
  ASSUME SchedulerTyped, NEW a \in Agents, NEW m \in Nodes, record[a] = None,
         record' = [record EXCEPT ![a] = m],
         used' = [used EXCEPT ![m] = @ + Size[a]],
         listed' = [listed EXCEPT ![m] = listed[m] \cup {a}],
         Books, used[m] + Size[a] <= Capacity
  PROVE  Books'
<1>1. None \notin Nodes /\ Size \in [Agents -> Nat \ {0}]
  BY PartsAssumption DEF Scheduler!AgentsAssumption
<1> SUFFICES ASSUME NEW n \in Nodes
             PROVE  /\ used'[n] = Scheduler!Total(Scheduler!On(n))' /\ listed'[n] = Scheduler!On(n)'
                    /\ used'[n] <= Capacity
  BY DEF Books
<1>2. PICK S : S = Scheduler!On(n)
  OBVIOUS
<1>3. S \in SUBSET Agents /\ used[n] = Scheduler!Total(S) /\ listed[n] = S /\ used[n] <= Capacity /\ used[n] \in Int
  BY <1>2 DEF Scheduler!On, Books, SchedulerTyped
<1>4. CASE n = m
  <2>1. a \in Agents \ S /\ Scheduler!On(n)' = S \cup {a}
    BY <1>1, <1>2, <1>4 DEF Scheduler!On, SchedulerTyped
  <2>2. Scheduler!Total(S \cup {a}) = Scheduler!Total(S) + Size[a]
    BY <1>3, <2>1, TotalAdds
  <2>3. used'[n] = used[n] + Size[a] /\ listed'[n] = S \cup {a}
    BY <1>3, <1>4 DEF SchedulerTyped
  <2> QED
    BY <1>3, <1>4, <2>1, <2>2, <2>3
<1>5. CASE n # m
  <2>1. Scheduler!On(n)' = S
    BY <1>1, <1>2, <1>5 DEF Scheduler!On, SchedulerTyped
  <2>2. used'[n] = used[n] /\ listed'[n] = S
    BY <1>3, <1>5 DEF SchedulerTyped
  <2> QED
    BY <1>3, <2>1, <2>2
<1> QED
  BY <1>4, <1>5

LEMMA Vacated ==
  ASSUME SchedulerTyped, NEW a \in Agents, NEW m \in Nodes, record[a] = m,
         Scheduler!Freed(m, listed[m], a), Books
  PROVE  Books'
<1>1. None \notin Nodes /\ Size \in [Agents -> Nat \ {0}]
  BY PartsAssumption DEF Scheduler!AgentsAssumption
<1>2. /\ record' = [record EXCEPT ![a] = None]
      /\ used' = [used EXCEPT ![m] = @ - Size[a]]
      /\ listed' = [listed EXCEPT ![m] = listed[m] \ {a}]
  BY DEF Scheduler!Freed, Scheduler!Without
<1> SUFFICES ASSUME NEW n \in Nodes
             PROVE  /\ used'[n] = Scheduler!Total(Scheduler!On(n))' /\ listed'[n] = Scheduler!On(n)'
                    /\ used'[n] <= Capacity
  BY DEF Books
<1>3. PICK S : S = Scheduler!On(n)
  OBVIOUS
<1>4. /\ S \in SUBSET Agents /\ used[n] = Scheduler!Total(S) /\ listed[n] = S /\ used[n] <= Capacity
      /\ used[n] \in Int /\ Capacity \in Int
  BY <1>3, PartsAssumption DEF Scheduler!On, Books, SchedulerTyped, Scheduler!SettingsAssumption
<1>5. CASE n = m
  <2>1. PICK T : T = S \ {a}
    OBVIOUS
  <2>2. a \in S /\ Scheduler!On(n)' = T /\ T \in SUBSET Agents /\ a \in Agents \ T /\ S = T \cup {a}
    BY <1>1, <1>2, <1>3, <1>4, <1>5, <2>1 DEF Scheduler!On, SchedulerTyped
  <2>3. Scheduler!Total(S) = Scheduler!Total(T) + Size[a] /\ Scheduler!Total(T) \in Int
    BY <2>2, TotalAdds
  <2>4. used'[n] = used[n] - Size[a] /\ listed'[n] = T
    BY <1>2, <1>4, <1>5, <2>1 DEF SchedulerTyped
  <2>5. Size[a] \in Nat
    BY <1>1
  <2>6. used'[n] = Scheduler!Total(T) /\ used'[n] <= Capacity
    BY <1>4, <2>3, <2>4, <2>5
  <2> QED
    BY <2>2, <2>4, <2>6
<1>6. CASE n # m
  <2>1. Scheduler!On(n)' = S
    BY <1>1, <1>2, <1>3, <1>6 DEF Scheduler!On, SchedulerTyped
  <2>2. used'[n] = used[n] /\ listed'[n] = S
    BY <1>2, <1>4, <1>6 DEF SchedulerTyped
  <2> QED
    BY <1>4, <2>1, <2>2
<1> QED
  BY <1>5, <1>6

\* A step of one call keeps what is known of the others, which have not begun
\* if calls wait for each other.
LEMMA CallMoves ==
  ASSUME SchedulerInv, NEW w \in Workers, NEW c \in SomeCall, Supplied(c),
         call' = [call EXCEPT ![w] = c], serial' = serial,
         serial => \A v \in Workers \ {w} : call[v] = Scheduler!Idle,
         used' \in [Nodes -> Int], listed' \in [Nodes -> SUBSET Agents],
         record' \in [Agents -> Nodes \cup {None}],
         known' \subseteq Agents, preempted' \subseteq Agents, calls' \in 0..SchedulerCalls,
         serial => Books' /\ Out' /\ Current(c)'
  PROVE  SchedulerInv'
<1>1. SchedulerTyped
  BY DEF SchedulerInv
<1>2. call' \in [Workers -> SomeCall] /\ \A v \in Workers : call'[v] = IF v = w THEN c ELSE call[v]
  BY <1>1 DEF SchedulerTyped
<1>3. \A v \in Workers : Supplied(call'[v])
  BY <1>1, <1>2 DEF SchedulerTyped
<1>4. SchedulerTyped'
  BY <1>1, <1>2, <1>3 DEF SchedulerTyped, Supplied
<1>5. ASSUME serial
      PROVE  Alone' /\ \A v \in Workers : Current(call[v])'
  <2>1. Alone'
    BY <1>2, <1>5 DEF Alone, Scheduler!Idle
  <2>2. ASSUME NEW v \in Workers
        PROVE  Current(call[v])'
    <3>1. CASE v = w
      <4>1. call'[v] = c
        BY <1>2, <3>1
      <4> QED
        BY <1>5, <4>1 DEF Current
    <3>2. CASE v # w
      <4>1. call'[v] = [at |-> "idle"]
        BY <1>2, <1>5, <3>2 DEF Scheduler!Idle
      <4>2. call'[v].at = "idle"
        BY <4>1
      <4> QED
        BY <4>2 DEF Current, Searching
    <3> QED
      BY <3>1, <3>2
  <2> QED
    BY <2>1, <2>2
<1> QED
  BY <1>4, <1>5 DEF SchedulerInv

\* A call that has returned.
LEMMA IdleCall == Scheduler!Idle \in SomeCall /\ Supplied(Scheduler!Idle) /\ Current(Scheduler!Idle)
<1>1. Scheduler!Idle.at = "idle"
  BY DEF Scheduler!Idle
<1> QED
  BY <1>1 DEF SomeCall, Supplied, Current, Searching

LEMMA SchedulerInitially == Scheduler!Init => SchedulerInv
<1> SUFFICES ASSUME Scheduler!Init PROVE SchedulerInv
  OBVIOUS
<1>1. None \notin Nodes /\ Capacity \in Nat /\ SchedulerCalls \in Nat
  BY PartsAssumption DEF Scheduler!AgentsAssumption, Scheduler!SettingsAssumption
<1>2. SchedulerTyped
  BY <1>1, IdleCall DEF Scheduler!Init, SchedulerTyped, SomeCall
<1>3. Alone /\ Out /\ \A w \in Workers : Current(call[w])
  BY IdleCall DEF Scheduler!Init, Alone, Out
<1>4. Books
  <2> SUFFICES ASSUME NEW n \in Nodes
               PROVE  used[n] = Scheduler!Total(Scheduler!On(n)) /\ listed[n] = Scheduler!On(n) /\ used[n] <= Capacity
    BY DEF Books
  <2>1. Scheduler!On(n) = {}
    BY <1>1 DEF Scheduler!Init, Scheduler!On
  <2> QED
    BY <1>1, <2>1, TotalAdds DEF Scheduler!Init
<1> QED
  BY <1>2, <1>3, <1>4 DEF SchedulerInv

\* A call begins: schedule(), reschedule(), or unschedule().
LEMMA BeginsKeeps ==
  ASSUME SchedulerInv, NEW w \in Workers, NEW a \in Agents,
         Scheduler!Schedule(w, a) \/ Scheduler!Reschedule(w, a) \/ Scheduler!Unschedule(w, a)
  PROVE  SchedulerInv'
<1>1. Scheduler!Begins(w) /\ UNCHANGED <<used, listed, record>>
  BY DEF Scheduler!Schedule, Scheduler!Reschedule, Scheduler!Unschedule
<1>2. /\ serial' = serial /\ calls' \in 0..SchedulerCalls
      /\ serial => \A v \in Workers : call[v] = Scheduler!Idle
  BY <1>1, PartsAssumption DEF Scheduler!Begins, Scheduler!SettingsAssumption, SchedulerInv, SchedulerTyped
<1>3. SchedulerTyped /\ (serial => Books /\ Out)
  BY DEF SchedulerInv
<1>4. Books => Books'
  BY <1>1 DEF Books, Scheduler!On
<1>5. ASSUME Scheduler!Ranked(w, a), preempted' \in SUBSET preempted, a \notin preempted', serial => record[a] = None
      PROVE  SchedulerInv'
  <2>1. PICK nodes \in Scheduler!SetToSeqs(Nodes) :
          call' = [call EXCEPT ![w] = [at |-> "check", agent |-> a, nodes |-> nodes, next |-> nodes,
                                       victims |-> <<>>, again |-> FALSE]]
    BY <1>5 DEF Scheduler!Ranked
  <2>2. PICK c : c = [at |-> "check", agent |-> a, nodes |-> nodes, next |-> nodes, victims |-> <<>>, again |-> FALSE]
    OBVIOUS
  <2>3. nodes \in Seq(Nodes)
    BY RankedNodes
  <2>4. c \in SomeCall /\ Supplied(c) /\ c.at = "check" /\ c.agent = a
    BY <2>2, <2>3 DEF SomeCall, Search, Searching, Supplied
  <2>5. known' \subseteq Agents /\ preempted' \subseteq Agents
    BY <1>3, <1>5 DEF SchedulerTyped, Scheduler!Ranked
  <2>6. serial => Books' /\ Out' /\ Current(c)'
    BY <1>1, <1>3, <1>4, <1>5, <2>4 DEF Out, Current
  <2> QED
    BY <1>1, <1>2, <1>3, <2>1, <2>2, <2>4, <2>5, <2>6, CallMoves DEF SchedulerTyped
<1>6. CASE Scheduler!Schedule(w, a)
  BY <1>5, <1>6 DEF Scheduler!Schedule
<1>7. CASE Scheduler!Reschedule(w, a)
  <2>1. serial => record[a] = None
    BY <1>3, <1>7 DEF Scheduler!Reschedule, Out
  <2> QED
    BY <1>5, <1>7, <2>1 DEF Scheduler!Reschedule, Scheduler!Resumed
<1>8. CASE Scheduler!Unschedule(w, a)
  <2>1. PICK c : c = [at |-> "readOwn", agent |-> a]
    OBVIOUS
  <2>2. c \in SomeCall /\ Supplied(c) /\ c.at = "readOwn"
    BY <2>1 DEF SomeCall, Supplied
  <2>3. call' = [call EXCEPT ![w] = c] /\ known' = known /\ preempted' = preempted
    BY <1>8, <2>1 DEF Scheduler!Unschedule
  <2>4. serial => Books' /\ Out' /\ Current(c)'
    BY <1>1, <1>3, <1>4, <2>2, <2>3 DEF Out, Current, Searching
  <2> QED
    BY <1>1, <1>2, <1>3, <2>2, <2>3, <2>4, CallMoves DEF SchedulerTyped
<1> QED
  BY <1>6, <1>7, <1>8

\* A call that is under way has the scheduler to itself where calls wait for
\* each other.
LEMMA UnderWay ==
  ASSUME SchedulerInv, NEW w \in Workers, call[w].at # "idle"
  PROVE  /\ serial => \A v \in Workers \ {w} : call[v] = Scheduler!Idle
         /\ call[w] \in SomeCall /\ Supplied(call[w])
         /\ SchedulerTyped /\ (serial => Books /\ Out /\ Current(call[w]))
<1>1. call[w] # Scheduler!Idle
  BY DEF Scheduler!Idle
<1> QED
  BY <1>1 DEF SchedulerInv, SchedulerTyped, Alone

\* What the fields of a call are, by where it stands.
LEMMA Fields ==
  ASSUME NEW c \in SomeCall
  PROVE  /\ c.at \in Searching => c \in Search(Searching)
         /\ c.at = "release" => c \in Releasing
         /\ c.at \in {"write", "releaseOwn"} => c \in Changing
         /\ c.at = "readOwn" => c.agent \in Agents
<1>1. CASE c = Scheduler!Idle
  <2>1. c.at = "idle"
    BY <1>1 DEF Scheduler!Idle
  <2> QED
    BY <2>1 DEF Searching
<1>2. CASE c # Scheduler!Idle
  BY <1>2 DEF SomeCall, Search, Searching, Releasing, Changing
<1> QED
  BY <1>1, <1>2

\* The call only reads.
LEMMA LookKeeps ==
  ASSUME SchedulerInv, NEW w \in Workers, NEW c \in SomeCall, Supplied(c), call[w].at # "idle",
         call' = [call EXCEPT ![w] = c],
         UNCHANGED <<used, listed, record, preempted, calls, serial>>, known' \subseteq Agents,
         serial => Current(c)
  PROVE  SchedulerInv'
<1>1. /\ serial => \A v \in Workers \ {w} : call[v] = Scheduler!Idle
      /\ SchedulerTyped /\ (serial => Books /\ Out)
  BY UnderWay
<1>2. serial => Books' /\ Out'
  BY <1>1 DEF Books, Out, Scheduler!On
<1>3. serial => Current(c)'
  BY DEF Current
<1> QED
  BY <1>1, <1>2, <1>3, CallMoves DEF SchedulerTyped

LEMMA CheckKeeps ==
  ASSUME SchedulerInv, NEW w \in Workers, Scheduler!Check(w)
  PROVE  SchedulerInv'
<1>1. PICK c : c = call[w]
  OBVIOUS
<1>2. c.at = "check" /\ c \in SomeCall /\ SchedulerTyped /\ (serial => Current(c))
  BY <1>1, UnderWay DEF Scheduler!Check
<1>3. c \in Search(Searching)
  BY <1>2, Fields DEF Searching
<1>4. PICK d : d = IF c.next = <<>> THEN Scheduler!NoRoom(c)
                   ELSE IF Capacity - used[Head(c.next)] >= Size[c.agent] THEN [c EXCEPT !.at = "read"]
                   ELSE [c EXCEPT !.next = Tail(@)]
  OBVIOUS
<1>5. call' = [call EXCEPT ![w] = d] /\ UNCHANGED <<used, listed, record, known, preempted, calls, serial>>
  BY <1>1, <1>4 DEF Scheduler!Check
<1>6. d \in SomeCall /\ Supplied(d) /\ (serial => Current(d))
  <2>1. CASE d = Scheduler!Idle
    BY <2>1, IdleCall
  <2>2. CASE c.next = <<>> /\ d = [c EXCEPT !.at = "select"]
    <3>1. d \in Search(Searching) /\ d.at = "select" /\ d.agent = c.agent
      BY <1>3, <2>2 DEF Search, Searching
    <3> QED
      BY <1>2, <3>1 DEF SomeCall, Supplied, Current, Searching
  <2>3. CASE c.next # <<>> /\ d = [c EXCEPT !.at = "read"]
    <3>1. d \in Search(Searching) /\ d.at = "read" /\ d.agent = c.agent /\ d.next # <<>>
      BY <1>3, <2>3 DEF Search, Searching
    <3> QED
      BY <1>2, <3>1 DEF SomeCall, Supplied, Current, Searching
  <2>4. CASE c.next # <<>> /\ d = [c EXCEPT !.next = Tail(@)]
    <3>1. Tail(c.next) \in Seq(Nodes)
      BY <1>3, <2>4, HeadTailProperties DEF Search
    <3>2. d \in Search(Searching) /\ d.at = "check" /\ d.agent = c.agent
      BY <1>2, <1>3, <2>4, <3>1 DEF Search, Searching
    <3> QED
      BY <1>2, <3>2 DEF SomeCall, Supplied, Current, Searching
  <2> QED
    BY <1>4, <2>1, <2>2, <2>3, <2>4 DEF Scheduler!NoRoom
<1>7. call[w].at # "idle" /\ known' \subseteq Agents
  BY <1>1, <1>2, <1>5 DEF SchedulerTyped
<1> QED
  BY <1>5, <1>6, <1>7, LookKeeps

LEMMA ReadKeeps ==
  ASSUME SchedulerInv, NEW w \in Workers, Scheduler!Read(w)
  PROVE  SchedulerInv'
<1>1. PICK c : c = call[w]
  OBVIOUS
<1>2. c.at = "read" /\ c \in SomeCall /\ Supplied(c) /\ SchedulerTyped /\ (serial => Current(c) /\ Books)
  BY <1>1, UnderWay DEF Scheduler!Read
<1>3. c \in Search(Searching)
  BY <1>2, Fields DEF Searching
<1>4. PICK n : n = Head(c.next)
  OBVIOUS
<1>5. n \in Nodes /\ c.agent \in Agents
  BY <1>2, <1>3, <1>4, HeadTailProperties DEF Search, Supplied
<1>6. PICK d : d = IF Scheduler!Exceeds(n, c.agent) THEN Scheduler!Idle
                   ELSE [at |-> "write", agent |-> c.agent, node |-> n, listed |-> listed[n]]
  OBVIOUS
<1>7. call' = [call EXCEPT ![w] = d] /\ UNCHANGED <<used, listed, record, known, preempted, calls, serial>>
  BY <1>1, <1>4, <1>6 DEF Scheduler!Read
<1>8. d \in SomeCall /\ Supplied(d) /\ (serial => Current(d))
  <2>1. CASE Scheduler!Exceeds(n, c.agent)
    BY <1>6, <2>1, IdleCall
  <2>2. CASE ~Scheduler!Exceeds(n, c.agent)
    <3>1. d = [at |-> "write", agent |-> c.agent, node |-> n, listed |-> listed[n]]
      BY <1>6, <2>2
    <3>2. d \in Changing /\ d.at = "write" /\ d.agent = c.agent /\ d.node = n /\ d.listed = listed[n]
      BY <1>2, <1>5, <3>1 DEF Changing, SchedulerTyped
    <3>3. used[n] + Size[c.agent] <= Capacity
      <4>1. used[n] \in Int /\ Size[c.agent] \in Int /\ Capacity \in Int
        BY <1>2, <1>5, PartsAssumption DEF SchedulerTyped, Scheduler!AgentsAssumption, Scheduler!SettingsAssumption
      <4> QED
        BY <2>2, <4>1 DEF Scheduler!Exceeds
    <3> QED
      BY <1>2, <3>2, <3>3 DEF SomeCall, Supplied, Current, Searching
  <2> QED
    BY <2>1, <2>2
<1>9. call[w].at # "idle" /\ known' \subseteq Agents
  BY <1>1, <1>2, <1>7 DEF SchedulerTyped
<1> QED
  BY <1>7, <1>8, <1>9, LookKeeps

LEMMA WriteKeeps ==
  ASSUME SchedulerInv, NEW w \in Workers, Scheduler!Write(w)
  PROVE  SchedulerInv'
<1>1. PICK c : c = call[w]
  OBVIOUS
<1>2. /\ c.at = "write" /\ c \in SomeCall /\ SchedulerTyped /\ (serial => Current(c) /\ Books /\ Out)
      /\ serial => \A v \in Workers \ {w} : call[v] = Scheduler!Idle
  BY <1>1, UnderWay DEF Scheduler!Write
<1>3. c \in Changing
  BY <1>2, Fields
<1>4. c.agent \in Agents /\ c.node \in Nodes /\ c.listed \in SUBSET Agents
  BY <1>3 DEF Changing
<1>5. /\ used' = [used EXCEPT ![c.node] = @ + Size[c.agent]]
      /\ listed' = [listed EXCEPT ![c.node] = c.listed \cup {c.agent}]
      /\ record' = [record EXCEPT ![c.agent] = c.node]
      /\ call' = [call EXCEPT ![w] = Scheduler!Idle]
      /\ UNCHANGED <<known, preempted, calls, serial>>
  BY <1>1 DEF Scheduler!Write
<1>6. used' \in [Nodes -> Int] /\ listed' \in [Nodes -> SUBSET Agents] /\ record' \in [Agents -> Nodes \cup {None}]
  <2>1. Size[c.agent] \in Int
    BY <1>4, PartsAssumption DEF Scheduler!AgentsAssumption
  <2> QED
    BY <1>2, <1>4, <1>5, <2>1 DEF SchedulerTyped
<1>7. ASSUME serial PROVE Books' /\ Out'
  <2>1. /\ record[c.agent] = None /\ c.agent \notin preempted
        /\ c.listed = listed[c.node] /\ used[c.node] + Size[c.agent] <= Capacity
    BY <1>2, <1>7 DEF Current
  <2>2. Books'
    BY <1>2, <1>4, <1>5, <1>7, <2>1, Occupied
  <2>3. Out'
    BY <1>2, <1>4, <1>5, <1>7, <2>1 DEF Out, SchedulerTyped
  <2> QED
    BY <2>2, <2>3
<1>8. Current(Scheduler!Idle)'
  <2>1. Scheduler!Idle.at = "idle"
    BY DEF Scheduler!Idle
  <2> QED
    BY <2>1 DEF Current, Searching
<1> QED
  BY <1>2, <1>5, <1>6, <1>7, <1>8, IdleCall, CallMoves DEF SchedulerTyped

LEMMA SelectKeeps ==
  ASSUME SchedulerInv, NEW w \in Workers, Scheduler!Select(w)
  PROVE  SchedulerInv'
<1>1. PICK c : c = call[w]
  OBVIOUS
<1>2. c.at = "select" /\ c \in SomeCall /\ SchedulerTyped /\ (serial => Current(c))
  BY <1>1, UnderWay DEF Scheduler!Select
<1>3. c \in Search(Searching) /\ c.agent \in Agents
  BY <1>2, Fields DEF Searching, Search
<1>4. PICK s \in Scheduler!Selections(c.agent) :
        call' = [call EXCEPT ![w] =
          IF Scheduler!Sufficient(c.agent, s) = {} THEN Scheduler!Idle
          ELSE [c EXCEPT !.at = "readVictim",
                         !.victims = SubSeq(s, 1, Scheduler!Min(Scheduler!Sufficient(c.agent, s)))]]
  BY <1>1 DEF Scheduler!Select
<1>5. UNCHANGED <<used, listed, record, known, preempted, calls, serial>>
  BY DEF Scheduler!Select
<1>6. PICK t : t = SubSeq(s, 1, Scheduler!Min(Scheduler!Sufficient(c.agent, s)))
  OBVIOUS
<1>7. PICK d : d = IF Scheduler!Sufficient(c.agent, s) = {} THEN Scheduler!Idle
                   ELSE [c EXCEPT !.at = "readVictim", !.victims = t]
  OBVIOUS
<1>8. call' = [call EXCEPT ![w] = d]
  BY <1>4, <1>6, <1>7
<1>9. d \in SomeCall /\ Supplied(d) /\ (serial => Current(d))
  <2>1. CASE Scheduler!Sufficient(c.agent, s) = {}
    BY <1>7, <2>1, IdleCall
  <2>2. CASE Scheduler!Sufficient(c.agent, s) # {}
    <3>1. t \in Seq(Agents) /\ t # <<>> /\ (record[c.agent] = None => \A i \in 1..Len(t) : t[i] # c.agent)
      BY <1>2, <1>3, <1>6, <2>2, Victims
    <3>2. d = [c EXCEPT !.at = "readVictim", !.victims = t]
      BY <1>7, <2>2
    <3>3. d \in Search(Searching) /\ d.at = "readVictim" /\ d.victims = t /\ d.agent = c.agent
      BY <1>3, <3>1, <3>2 DEF Search, Searching
    <3> QED
      BY <1>2, <3>1, <3>3 DEF SomeCall, Supplied, Current, Searching
  <2> QED
    BY <2>1, <2>2
<1>10. call[w].at # "idle" /\ known' \subseteq Agents
  BY <1>1, <1>2, <1>5 DEF SchedulerTyped
<1> QED
  BY <1>5, <1>8, <1>9, <1>10, LookKeeps

\* What follows the last step of a preemption: the next victim, or another
\* look for a place.
LEMMA NextVictimKeeps ==
  ASSUME NEW c \in Search({"readVictim", "release"}), c.victims # <<>>
  PROVE  /\ Scheduler!NextVictim(c) \in SomeCall /\ Supplied(Scheduler!NextVictim(c))
         /\ Scheduler!NextVictim(c).agent = c.agent /\ Scheduler!NextVictim(c).at \in {"readVictim", "check"}
         /\ (\A i \in 1..Len(c.victims) : c.victims[i] # c.agent) =>
              \A i \in 1..Len(Scheduler!NextVictim(c).victims) : Scheduler!NextVictim(c).victims[i] # c.agent
<1>1. c.victims \in Seq(Agents)
  BY DEF Search
<1>2. /\ Tail(c.victims) \in Seq(Agents) /\ Len(Tail(c.victims)) = Len(c.victims) - 1
      /\ \A i \in 1..Len(Tail(c.victims)) : Tail(c.victims)[i] = c.victims[i + 1]
      /\ Len(c.victims) \in Nat
  BY <1>1, HeadTailProperties
<1>3. CASE Len(c.victims) > 1
  <2>1. PICK d : d = [c EXCEPT !.at = "readVictim", !.victims = Tail(@)]
    OBVIOUS
  <2>2. Scheduler!NextVictim(c) = d
    BY <1>3, <2>1 DEF Scheduler!NextVictim
  <2>3. /\ d \in Search(Searching) /\ d.at = "readVictim" /\ d.agent = c.agent /\ d.victims = Tail(c.victims)
    <3>1. d = [at |-> "readVictim", agent |-> c.agent, nodes |-> c.nodes, next |-> c.next,
               victims |-> Tail(c.victims), again |-> c.again]
      BY <2>1 DEF Search
    <3>2. /\ c.agent \in Agents /\ c.nodes \in Seq(Nodes) /\ c.next \in Seq(Nodes) /\ c.again \in BOOLEAN
          /\ Tail(c.victims) \in Seq(Agents)
      BY <1>2 DEF Search
    <3> QED
      BY <3>1, <3>2 DEF Search, Searching
  <2>4. Tail(c.victims) # <<>>
    <3>1. PICK k, s : k = Len(c.victims) /\ s = Tail(c.victims)
      OBVIOUS
    <3>2. Len(s) = k - 1 /\ k \in Nat /\ k > 1
      BY <1>2, <1>3, <3>1, Zenon
    <3>3. s # <<>>
      BY <3>2
    <3> QED
      BY <3>1, <3>3
  <2>5. d \in SomeCall /\ Supplied(d)
    BY <2>3, <2>4 DEF SomeCall, Supplied
  <2>6. ASSUME \A i \in 1..Len(c.victims) : c.victims[i] # c.agent
        PROVE  \A i \in 1..Len(d.victims) : d.victims[i] # c.agent
    BY <1>2, <2>3, <2>6
  <2> QED
    BY <2>2, <2>3, <2>5, <2>6
<1>4. CASE ~(Len(c.victims) > 1)
  <2>1. PICK d : d = [c EXCEPT !.at = "check", !.victims = <<>>, !.next = c.nodes, !.again = TRUE]
    OBVIOUS
  <2>2. Scheduler!NextVictim(c) = d
    BY <1>4, <2>1 DEF Scheduler!NextVictim
  <2>3. d \in Search(Searching) /\ d.at = "check" /\ d.agent = c.agent /\ d.victims = <<>>
    <3>1. d = [at |-> "check", agent |-> c.agent, nodes |-> c.nodes, next |-> c.nodes,
               victims |-> <<>>, again |-> TRUE]
      BY <2>1 DEF Search
    <3>2. <<>> \in Seq(Agents)
      OBVIOUS
    <3> QED
      BY <3>1, <3>2 DEF Search, Searching
  <2>4. d \in SomeCall /\ Supplied(d) /\ Len(d.victims) = 0
    BY <2>3 DEF SomeCall, Supplied
  <2> QED
    BY <2>2, <2>3, <2>4
<1> QED
  BY <1>3, <1>4

LEMMA ReadVictimKeeps ==
  ASSUME SchedulerInv, NEW w \in Workers, Scheduler!ReadVictim(w)
  PROVE  SchedulerInv'
<1>1. PICK c : c = call[w]
  OBVIOUS
<1>2. PICK v : v = Head(c.victims)
  OBVIOUS
<1>3. /\ c.at = "readVictim" /\ c \in SomeCall /\ Supplied(c) /\ SchedulerTyped
      /\ (serial => Current(c) /\ Books /\ Out)
      /\ serial => \A u \in Workers \ {w} : call[u] = Scheduler!Idle
  BY <1>1, UnderWay DEF Scheduler!ReadVictim
<1>4. c \in Search(Searching) /\ c.victims # <<>> /\ c.victims \in Seq(Agents) /\ c.agent \in Agents
  BY <1>3, Fields DEF Searching, Search, Supplied
<1>5. v \in Agents /\ Len(c.victims) \in Nat /\ 1 \in 1..Len(c.victims) /\ v = c.victims[1]
  BY <1>2, <1>4, HeadTailProperties
<1>6. UNCHANGED <<used, listed, record, known, calls, serial>>
  BY DEF Scheduler!ReadVictim
<1>7. Books => Books'
  BY <1>6 DEF Books, Scheduler!On
<1>8. CASE record[v] = None
  <2>1. call' = [call EXCEPT ![w] = Scheduler!NextVictim(c)] /\ preempted' = preempted \cup {v}
    BY <1>1, <1>2, <1>8 DEF Scheduler!ReadVictim
  <2>2. c \in Search({"readVictim", "release"})
    BY <1>3, <1>4 DEF Search
  <2>3. PICK d : d = Scheduler!NextVictim(c)
    OBVIOUS
  <2>4. /\ d \in SomeCall /\ Supplied(d) /\ d.agent = c.agent /\ d.at \in {"readVictim", "check"}
        /\ (\A i \in 1..Len(c.victims) : c.victims[i] # c.agent) =>
             \A i \in 1..Len(d.victims) : d.victims[i] # c.agent
    BY <1>4, <2>2, <2>3, NextVictimKeeps
  <2>5. ASSUME serial PROVE Books' /\ Out' /\ Current(d)'
    <3>1. /\ record[c.agent] = None /\ c.agent \notin preempted
          /\ \A i \in 1..Len(c.victims) : c.victims[i] # c.agent
      BY <1>3, <2>5 DEF Current, Searching
    <3>2. v # c.agent
      BY <1>5, <3>1
    <3>3. Out'
      BY <1>3, <1>6, <1>8, <2>1, <2>5 DEF Out
    <3>4. c.agent \notin preempted' /\ record'[c.agent] = None
      BY <1>6, <2>1, <3>1, <3>2
    <3>5. Current(d)'
      BY <2>4, <3>1, <3>4 DEF Current
    <3> QED
      BY <1>3, <1>7, <2>5, <3>3, <3>5
  <2>6. preempted' \subseteq Agents
    BY <1>3, <1>5, <2>1 DEF SchedulerTyped
  <2> QED
    BY <1>3, <1>6, <2>1, <2>3, <2>4, <2>5, <2>6, CallMoves DEF SchedulerTyped
<1>9. CASE record[v] # None
  <2>1. PICK d : d = [at |-> "release", agent |-> c.agent, nodes |-> c.nodes, next |-> c.next,
                      victims |-> c.victims, again |-> c.again, node |-> record[v], listed |-> listed[record[v]]]
    OBVIOUS
  <2>2. call' = [call EXCEPT ![w] = d] /\ preempted' = preempted
    BY <1>1, <1>2, <1>9, <2>1 DEF Scheduler!ReadVictim
  <2>3. record[v] \in Nodes /\ listed[record[v]] \in SUBSET Agents
    BY <1>3, <1>5, <1>9 DEF SchedulerTyped
  <2>4. d \in Releasing
    BY <1>4, <2>1, <2>3 DEF Releasing, Search
  <2>5. /\ d.at = "release" /\ d.agent = c.agent /\ d.victims = c.victims /\ d.node = record[v]
        /\ d.listed = listed[record[v]]
    BY <2>1
  <2>6. d \in SomeCall /\ Supplied(d)
    BY <1>4, <2>4, <2>5 DEF SomeCall, Supplied
  <2>7. ASSUME serial PROVE Current(d)
    <3>1. /\ record[c.agent] = None /\ c.agent \notin preempted
          /\ \A i \in 1..Len(c.victims) : c.victims[i] # c.agent
      BY <1>3, <2>7 DEF Current, Searching
    <3> QED
      BY <1>2, <2>5, <3>1 DEF Current, Searching
  <2>8. call[w].at # "idle" /\ known' \subseteq Agents
    BY <1>1, <1>3, <1>6 DEF SchedulerTyped
  <2> QED
    BY <1>6, <2>2, <2>6, <2>7, <2>8, LookKeeps
<1> QED
  BY <1>8, <1>9

\* What is released was taken.
LEMMA FreedKeeps ==
  ASSUME SchedulerTyped, NEW n \in Nodes, NEW a \in Agents, NEW seen \in SUBSET Agents,
         Scheduler!Freed(n, seen, a)
  PROVE  /\ used' \in [Nodes -> Int] /\ listed' \in [Nodes -> SUBSET Agents]
         /\ record' \in [Agents -> Nodes \cup {None}]
         /\ record' = [record EXCEPT ![a] = None]
<1>1. Size[a] \in Int
  BY PartsAssumption DEF Scheduler!AgentsAssumption
<1> QED
  BY <1>1 DEF SchedulerTyped, Scheduler!Freed, Scheduler!Without

LEMMA ReleaseKeeps ==
  ASSUME SchedulerInv, NEW w \in Workers, Scheduler!Release(w)
  PROVE  SchedulerInv'
<1>1. PICK c : c = call[w]
  OBVIOUS
<1>2. PICK v : v = Head(c.victims)
  OBVIOUS
<1>3. /\ c.at = "release" /\ c \in SomeCall /\ Supplied(c) /\ SchedulerTyped
      /\ (serial => Current(c) /\ Books /\ Out)
      /\ serial => \A u \in Workers \ {w} : call[u] = Scheduler!Idle
  BY <1>1, UnderWay DEF Scheduler!Release
<1>4. /\ c \in Releasing /\ c.victims # <<>> /\ c.victims \in Seq(Agents) /\ c.agent \in Agents
      /\ c.node \in Nodes /\ c.listed \in SUBSET Agents
  BY <1>3, Fields DEF Releasing, Supplied
<1>5. v \in Agents /\ Len(c.victims) \in Nat /\ 1 \in 1..Len(c.victims) /\ v = c.victims[1]
  BY <1>2, <1>4, HeadTailProperties
<1>6. PICK b : b = [at |-> "release", agent |-> c.agent, nodes |-> c.nodes, next |-> c.next,
                    victims |-> c.victims, again |-> c.again]
  OBVIOUS
<1>7. /\ Scheduler!Freed(c.node, c.listed, v) /\ preempted' = preempted \cup {v}
      /\ call' = [call EXCEPT ![w] = Scheduler!NextVictim(b)]
      /\ UNCHANGED <<known, calls, serial>>
  BY <1>1, <1>2, <1>6 DEF Scheduler!Release
<1>8. b \in Search({"readVictim", "release"}) /\ b.agent = c.agent /\ b.victims = c.victims
  BY <1>4, <1>6 DEF Search, Releasing
<1>9. PICK d : d = Scheduler!NextVictim(b)
  OBVIOUS
<1>10. /\ d \in SomeCall /\ Supplied(d) /\ d.agent = c.agent /\ d.at \in {"readVictim", "check"}
       /\ (\A i \in 1..Len(c.victims) : c.victims[i] # c.agent) =>
            \A i \in 1..Len(d.victims) : d.victims[i] # c.agent
  BY <1>4, <1>8, <1>9, NextVictimKeeps
<1>11. /\ used' \in [Nodes -> Int] /\ listed' \in [Nodes -> SUBSET Agents]
       /\ record' \in [Agents -> Nodes \cup {None}]
       /\ record' = [record EXCEPT ![v] = None]
  BY <1>3, <1>4, <1>5, <1>7, FreedKeeps
<1>12. ASSUME serial PROVE Books' /\ Out' /\ Current(d)'
  <2>1. /\ record[c.agent] = None /\ c.agent \notin preempted
        /\ \A i \in 1..Len(c.victims) : c.victims[i] # c.agent
        /\ record[v] = c.node /\ c.listed = listed[c.node]
    BY <1>2, <1>3, <1>12 DEF Current, Searching
  <2>2. Books'
    BY <1>3, <1>4, <1>5, <1>7, <1>12, <2>1, Vacated
  <2>3. Out'
    BY <1>3, <1>5, <1>7, <1>11, <1>12 DEF Out, SchedulerTyped
  <2>4. v # c.agent
    BY <1>5, <2>1
  <2>5. c.agent \notin preempted' /\ record'[c.agent] = None
    BY <1>3, <1>4, <1>5, <1>7, <1>11, <2>1, <2>4 DEF SchedulerTyped
  <2>6. Current(d)'
    BY <1>10, <2>1, <2>5 DEF Current
  <2> QED
    BY <2>2, <2>3, <2>6
<1>13. preempted' \subseteq Agents
  BY <1>3, <1>5, <1>7 DEF SchedulerTyped
<1> QED
  BY <1>3, <1>7, <1>9, <1>10, <1>11, <1>12, <1>13, CallMoves DEF SchedulerTyped

LEMMA ReadOwnKeeps ==
  ASSUME SchedulerInv, NEW w \in Workers, Scheduler!ReadOwn(w)
  PROVE  SchedulerInv'
<1>1. PICK c : c = call[w]
  OBVIOUS
<1>2. PICK a : a = c.agent
  OBVIOUS
<1>3. c.at = "readOwn" /\ c \in SomeCall /\ SchedulerTyped
  BY <1>1, UnderWay DEF Scheduler!ReadOwn
<1>4. a \in Agents
  BY <1>2, <1>3, Fields
<1>5. UNCHANGED <<used, listed, record, preempted, calls, serial>> /\ call[w].at # "idle"
  BY <1>1, <1>3 DEF Scheduler!ReadOwn
<1>6. CASE record[a] = None
  <2>1. call' = [call EXCEPT ![w] = Scheduler!Idle] /\ known' = known \ {a}
    BY <1>1, <1>2, <1>6 DEF Scheduler!ReadOwn
  <2>2. known' \subseteq Agents
    BY <1>3, <2>1 DEF SchedulerTyped
  <2> QED
    BY <1>5, <2>1, <2>2, IdleCall, LookKeeps
<1>7. CASE record[a] # None
  <2>1. PICK d : d = [at |-> "releaseOwn", agent |-> a, node |-> record[a], listed |-> listed[record[a]]]
    OBVIOUS
  <2>2. call' = [call EXCEPT ![w] = d] /\ known' = known
    BY <1>1, <1>2, <1>7, <2>1 DEF Scheduler!ReadOwn
  <2>3. record[a] \in Nodes /\ listed[record[a]] \in SUBSET Agents
    BY <1>3, <1>4, <1>7 DEF SchedulerTyped
  <2>4. d \in Changing /\ d.at = "releaseOwn" /\ d.agent = a /\ d.node = record[a] /\ d.listed = listed[record[a]]
    BY <1>4, <2>1, <2>3 DEF Changing
  <2>5. d \in SomeCall /\ Supplied(d) /\ Current(d)
    BY <2>4 DEF SomeCall, Supplied, Current, Searching
  <2>6. known' \subseteq Agents
    BY <1>3, <2>2 DEF SchedulerTyped
  <2> QED
    BY <1>5, <2>2, <2>5, <2>6, LookKeeps
<1> QED
  BY <1>6, <1>7

LEMMA ReleaseOwnKeeps ==
  ASSUME SchedulerInv, NEW w \in Workers, Scheduler!ReleaseOwn(w)
  PROVE  SchedulerInv'
<1>1. PICK c : c = call[w]
  OBVIOUS
<1>2. /\ c.at = "releaseOwn" /\ c \in SomeCall /\ SchedulerTyped
      /\ (serial => Current(c) /\ Books /\ Out)
      /\ serial => \A u \in Workers \ {w} : call[u] = Scheduler!Idle
  BY <1>1, UnderWay DEF Scheduler!ReleaseOwn
<1>3. c.agent \in Agents /\ c.node \in Nodes /\ c.listed \in SUBSET Agents
  BY <1>2, Fields DEF Changing
<1>4. /\ Scheduler!Freed(c.node, c.listed, c.agent)
      /\ call' = [call EXCEPT ![w] = Scheduler!Idle]
      /\ known' = known \ {c.agent}
      /\ UNCHANGED <<preempted, calls, serial>>
  BY <1>1 DEF Scheduler!ReleaseOwn
<1>5. /\ used' \in [Nodes -> Int] /\ listed' \in [Nodes -> SUBSET Agents]
      /\ record' \in [Agents -> Nodes \cup {None}]
      /\ record' = [record EXCEPT ![c.agent] = None]
  BY <1>2, <1>3, <1>4, FreedKeeps
<1>6. ASSUME serial PROVE Books' /\ Out'
  <2>1. record[c.agent] = c.node /\ c.listed = listed[c.node]
    BY <1>2, <1>6 DEF Current
  <2>2. Books'
    BY <1>2, <1>3, <1>4, <1>6, <2>1, Vacated
  <2>3. Out'
    BY <1>2, <1>3, <1>4, <1>5, <1>6 DEF Out, SchedulerTyped
  <2> QED
    BY <2>2, <2>3
<1>7. Current(Scheduler!Idle)'
  <2>1. Scheduler!Idle.at = "idle"
    BY DEF Scheduler!Idle
  <2> QED
    BY <2>1 DEF Current, Searching
<1>8. known' \subseteq Agents
  BY <1>2, <1>4 DEF SchedulerTyped
<1> QED
  BY <1>2, <1>4, <1>5, <1>6, <1>7, <1>8, IdleCall, CallMoves DEF SchedulerTyped

LEMMA SchedulerStep ==
  ASSUME SchedulerInv, [Scheduler!Next]_(Scheduler!vars)
  PROVE  SchedulerInv'
<1>1. CASE UNCHANGED Scheduler!vars
  <2>1. UNCHANGED <<used, listed, record, known, preempted, call, calls, serial>>
    BY <1>1 DEF Scheduler!vars
  <2>2. SchedulerTyped'
    BY <2>1 DEF SchedulerInv, SchedulerTyped
  <2>3. serial => Alone' /\ Books' /\ Out' /\ \A w \in Workers : Current(call[w])'
    BY <2>1 DEF SchedulerInv, Alone, Books, Out, Current, Scheduler!On
  <2> QED
    BY <2>1, <2>2, <2>3 DEF SchedulerInv
<1>2. CASE Scheduler!Next
  <2>1. PICK w \in Workers :
          (\E a \in Agents : Scheduler!Schedule(w, a) \/ Scheduler!Reschedule(w, a) \/ Scheduler!Unschedule(w, a))
          \/ Scheduler!Step(w)
    BY <1>2 DEF Scheduler!Next
  <2> QED
    BY <2>1, BeginsKeeps, CheckKeeps, ReadKeeps, WriteKeeps, SelectKeeps, ReadVictimKeeps, ReleaseKeeps,
       ReadOwnKeeps, ReleaseOwnKeeps DEF Scheduler!Step
<1> QED
  BY <1>1, <1>2

\* What the runs check of the scheduler.
LEMMA SchedulerImplies ==
  ASSUME SchedulerInv
  PROVE  Scheduler!TypeOK /\ Scheduler!LedgerAgrees /\ Scheduler!PreemptedIsOut
<1>1. SchedulerTyped
  BY DEF SchedulerInv
<1>2. Scheduler!TypeOK
  <2>1. ASSUME NEW w \in Workers
        PROVE  /\ call[w].at \in {"idle"} \cup Scheduler!Schedules \cup Scheduler!Unschedules
               /\ call[w].at \in {"readVictim", "release"} => call[w].victims # <<>>
    <3>1. call[w] \in SomeCall /\ Supplied(call[w])
      BY <1>1 DEF SchedulerTyped
    <3>2. CASE call[w] = Scheduler!Idle
      BY <3>2 DEF Scheduler!Idle
    <3>3. CASE call[w] # Scheduler!Idle
      BY <3>1, <3>3 DEF SomeCall, Search, Searching, Releasing, Changing, Supplied, Scheduler!Schedules,
         Scheduler!Unschedules
    <3> QED
      BY <3>2, <3>3
  <2> QED
    BY <1>1, <2>1 DEF SchedulerTyped, Scheduler!TypeOK
<1>3. Scheduler!LedgerAgrees
  <2> SUFFICES ASSUME serial
               PROVE  \A n \in Nodes : /\ used[n] = Scheduler!Total(Scheduler!On(n)) /\ listed[n] = Scheduler!On(n)
                                       /\ Scheduler!Total(Scheduler!On(n)) <= Capacity
    BY DEF Scheduler!LedgerAgrees, Scheduler!NeverOverallocated
  <2> QED
    BY DEF SchedulerInv, Books
<1>4. Scheduler!PreemptedIsOut
  BY DEF Scheduler!PreemptedIsOut, SchedulerInv, Out
<1> QED
  BY <1>2, <1>3, <1>4

-----------------------------------------------------------------------------
(* The parts together.                                                     *)

Inv == LifecycleInv /\ SchedulerInv /\ SafetyInv

LEMMA Initially == MCInit => Inv
BY LifecycleInitially, SchedulerInitially, SafetyInitially, PartsAssumption DEF MCInit, Inv

\* A part that is not the one that runs stays as it is.
LEMMA Steps ==
  ASSUME Inv, [MCNext]_MCVars
  PROVE  [Lifecycle!Next]_(Lifecycle!vars) /\ [Scheduler!Next]_(Scheduler!vars) /\ [Safety!Next]_(Safety!vars)
<1>1. CASE part = "lifecycle" /\ Lifecycle!Next /\ UNCHANGED <<schedulerVars, safetyVars>>
  BY <1>1 DEF schedulerVars, safetyVars, Scheduler!vars, Safety!vars
<1>2. CASE part = "scheduler" /\ Scheduler!Next /\ UNCHANGED <<lifecycleVars, safetyVars>>
  BY <1>2 DEF lifecycleVars, safetyVars, Lifecycle!vars, Lifecycle!agentVars, Safety!vars
<1>3. CASE part = "safety" /\ Safety!Next /\ UNCHANGED <<lifecycleVars, schedulerVars>>
  BY <1>3 DEF lifecycleVars, schedulerVars, Lifecycle!vars, Lifecycle!agentVars, Scheduler!vars
<1>4. CASE UNCHANGED MCVars
  BY <1>4 DEF MCVars, lifecycleVars, schedulerVars, safetyVars, Lifecycle!vars, Lifecycle!agentVars,
     Scheduler!vars, Safety!vars
<1> QED
  BY <1>1, <1>2, <1>3, <1>4 DEF MCNext

LEMMA EveryStep ==
  ASSUME Inv, [MCNext]_MCVars
  PROVE  Inv'
BY Steps, LifecycleStep, SchedulerStep, SafetyStep, PartsAssumption DEF Inv

\* The record of an agent agrees with its state, and while the agent has not
\* ended one operation at a time has its mutex, whatever is called and in
\* whichever order the runtime and the sessions answer.
THEOREM AgentsAreKept == MCSpec => []LifecycleKept
<1>1. Inv => LifecycleKept
  BY LifecycleImplies DEF Inv, LifecycleKept
<1> QED
  BY <1>1, Initially, EveryStep, PTL DEF MCSpec

\* Where calls of the scheduler do not overlap, the books of every node agree
\* with the records of the agents after any sequence of placements,
\* preemptions and releases, no node has more than its capacity, and an agent
\* that counts as preempted has no place.
THEOREM NodesAreKept == MCSpec => []NodesKept
<1>1. Inv => NodesKept
  BY SchedulerImplies DEF Inv, NodesKept
<1> QED
  BY <1>1, Initially, EveryStep, PTL DEF MCSpec

\* A request that nobody has answered is within reach of the override.
THEOREM UnansweredAreQueued == MCSpec => []UnansweredQueued
<1>1. Inv => UnansweredQueued
  BY DEF Inv, SafetyInv, UnansweredQueued
<1> QED
  BY <1>1, Initially, EveryStep, PTL DEF MCSpec

\* No operation that was waiting and none that is called later brings back an
\* agent that ended and that nobody retries, and nothing changes a request
\* that the monitor denied.
THEOREM EndsRemain == MCSpec => EndsAreFinal
<1>1. ASSUME Inv, [MCNext]_MCVars
      PROVE  /\ [(state \in Lifecycle!Dead /\ ~retried') => state' \in Lifecycle!Dead]_(Lifecycle!vars)
             /\ [\A r \in Requests : (Safety!Is(r, "denied") /\ request[r].by = "system")
                                       => Safety!Is(r, "denied")']_(Safety!vars)
  <2>1. (state \in Lifecycle!Dead /\ ~retried') => state' \in Lifecycle!Dead
    BY <1>1, Steps, LifecycleStep DEF Inv
  <2>2. \A r \in Requests : (Safety!Is(r, "denied") /\ request[r].by = "system") => Safety!Is(r, "denied")'
    BY <1>1, Steps, SafetyStep, PartsAssumption DEF Inv
  <2> QED
    BY <2>1, <2>2
<1> QED
  BY <1>1, Initially, EveryStep, PTL DEF MCSpec, EndsAreFinal, Lifecycle!EndedStaysEnded, Safety!AutoDeniedIsFinal

(* The task lists (TaskLists).                                             *)

\* What a file may contain; a task does not depend on itself.
Fits(f, c) ==
  \/ f \in Tasks /\ c \in Task \cup {Never, Deleted} /\ (c \notin {Never, Deleted} => f \notin c.dependsOn)
  \/ f \in Lists /\ c \in [tasks : SUBSET Tasks]
Content == Task \cup {Never, Deleted} \cup [tasks : SUBSET Tasks]
Stored(fs) == fs \in [Tasks \cup Lists -> Content] /\ \A f \in Tasks \cup Lists : Fits(f, fs[f])

\* What a call has still to write, and to read.
Saving == {x \in [file : Tasks \cup Lists, content : Content] : Fits(x.file, x.content)}
Want(what, t, other) == [do |-> what, task |-> t, other |-> other]
Wanted == [do : {"link", "unlink", "undepend", "block", "unblock", "drop"}, task : Tasks, other : Tasks]
Elements(s) == {s[i] : i \in DOMAIN s}

TasksTyped ==
  /\ Stored(files)
  /\ pending \in [Users -> [writes : Seq(Saving), todo : Seq(Wanted)]]
  /\ begun \in 0..MaxCalls
  /\ inTurn \in BOOLEAN

\* The files, once some writes are made.
LastOf(writes, f) ==
  CHOOSE i \in DOMAIN writes : writes[i].file = f /\ \A j \in DOMAIN writes : writes[j].file = f => j <= i
After(fs, writes) ==
  [f \in Tasks \cup Lists |->
    IF \E i \in DOMAIN writes : writes[i].file = f THEN writes[LastOf(writes, f)].content ELSE fs[f]]

\* One file with other contents.
Put(fs, f, c) == [fs EXCEPT ![f] = c]

There(fs, t) == fs[t] \notin {Never, Deleted}
DoneIn(fs, t) == There(fs, t) /\ fs[t].status = "done"
Fulfilled(fs, t) == \A d \in fs[t].dependsOn : DoneIn(fs, d)
ListsWith(fs, t) == {l \in Lists : t \in fs[l].tasks}

\* Both sides of a dependency agree, but for what a call is about to link and
\* for the task that it is about to delete.
LinksMeet(fs, P) ==
  \A t, d \in Tasks :
    /\ There(fs, t) /\ d \in fs[t].dependsOn =>
         There(fs, d) /\ (t \in fs[d].blocks \/ Want("link", d, t) \in P \/ Want("drop", t, t) \in P)
    /\ There(fs, d) /\ t \in fs[d].blocks =>
         There(fs, t) /\ (d \in fs[t].dependsOn \/ Want("drop", d, d) \in P)

\* Nobody will refer to the task that is deleted.
DeletesAll(fs, P) ==
  \A t \in Tasks : Want("drop", t, t) \in P =>
    /\ There(fs, t)
    /\ \A b \in Tasks : There(fs, b) =>
         /\ t \in fs[b].blocks => Want("unlink", b, t) \in P
         /\ t \in fs[b].dependsOn => Want("undepend", b, t) \in P

\* What is to be done later still makes sense.
Sensible(fs, P, X) ==
  \A e \in P :
    /\ e.do = "link" => There(fs, e.other) /\ e.task \in fs[e.other].dependsOn
    /\ e.do = "block" => There(fs, e.task) /\ e.other \in fs[e.task].dependsOn /\ ~DoneIn(fs, e.other)
    /\ e.do = "undepend" => <<e.task, "held">> \in X

\* A blocked task has a cause or is about to be looked at.
Caused(fs, P, X) ==
  \A t \in Tasks : There(fs, t) /\ fs[t].status = "blocked" =>
    <<t, "held">> \in X \/ ~Fulfilled(fs, t) \/ \E y \in Tasks : Want("unblock", t, y) \in P

\* A task is in one list.
Placed(fs, X) ==
  \A t \in Tasks :
    \/ There(fs, t) /\ \E l \in Lists : ListsWith(fs, t) = {l}
    \/ ListsWith(fs, t) = {} /\ (There(fs, t) => <<t, "moved">> \in X)

\* A call does one thing later, or deletes a task.
OneKind(P) ==
  \/ \E t \in Tasks :
       /\ Want("drop", t, t) \in P
       /\ \A e \in P : e = Want("drop", t, t) \/ (e.do \in {"unlink", "undepend"} /\ e.other = t)
  \/ \E what \in {"link", "block", "unblock"} : \A e \in P : e.do = what
DropsLast(todo) == \A i \in DOMAIN todo : todo[i].do = "drop" => i = Len(todo)

Consistent(fs, P, X) ==
  LinksMeet(fs, P) /\ DeletesAll(fs, P) /\ Sensible(fs, P, X) /\ Caused(fs, P, X) /\ Placed(fs, X) /\ OneKind(P)

\* The inductive invariant: where calls do not overlap, the files are consistent
\* once the one call that runs has made its writes.
TasksInv ==
  /\ TasksTyped
  /\ inTurn =>
       /\ \A w \in Users \ {1} : pending[w] = Idle
       /\ DropsLast(pending[1].todo)
       /\ Consistent(After(files, pending[1].writes), Elements(pending[1].todo), excused)

\* A nonempty set of positions of a sequence has a last one.
LEMMA LastPosition ==
  ASSUME NEW n \in Nat, NEW S \in SUBSET (1..n), S # {}
  PROVE  \E i \in S : \A j \in S : j <= i
<1> DEFINE D == {k \in Nat : \E i \in S : k = n - i}
<1>1. D # {} /\ D \subseteq Nat
  <2>1. PICK i \in S : TRUE
    OBVIOUS
  <2>2. n - i \in D
    BY <2>1
  <2> QED
    BY <2>2
<1>2. PICK k \in D : \A m \in D : k <= m
  <2> HIDE DEF D
  <2> QED
    BY <1>1, LeastNumber
<1>3. PICK i \in S : k = n - i
  BY <1>2
<1>4. ASSUME NEW j \in S PROVE j <= i
  <2>1. n - j \in D
    OBVIOUS
  <2>2. k <= n - j
    BY <1>2, <2>1
  <2> QED
    BY <1>3, <2>2
<1> QED
  BY <1>4

\* The last write of a file decides.
LEMMA LastDecides ==
  ASSUME NEW writes \in Seq(Saving), NEW f, NEW k \in DOMAIN writes, writes[k].file = f
  PROVE  /\ LastOf(writes, f) \in DOMAIN writes
         /\ writes[LastOf(writes, f)].file = f
         /\ \A j \in DOMAIN writes : writes[j].file = f => j <= LastOf(writes, f)
<1> DEFINE S == {i \in DOMAIN writes : writes[i].file = f}
<1>1. DOMAIN writes = 1..Len(writes) /\ Len(writes) \in Nat
  OBVIOUS
<1>2. S \in SUBSET (1..Len(writes)) /\ k \in S
  BY <1>1
<1>3. \E i \in S : \A j \in S : j <= i
  <2> HIDE DEF S
  <2> QED
    BY <1>1, <1>2, LastPosition
<1>4. \E i \in DOMAIN writes : writes[i].file = f /\ \A j \in DOMAIN writes : writes[j].file = f => j <= i
  BY <1>3
<1> QED
  BY <1>4 DEF LastOf

\* Where all writes of a file agree, that is what it will contain.
AgreeOn(writes, f, c) ==
  /\ \E k \in DOMAIN writes : writes[k].file = f
  /\ \A i \in DOMAIN writes : writes[i].file = f => writes[i].content = c

LEMMA AfterAgreed ==
  ASSUME NEW fs, NEW writes \in Seq(Saving), NEW f \in Tasks \cup Lists, NEW c, AgreeOn(writes, f, c)
  PROVE  After(fs, writes)[f] = c
<1>1. PICK k \in DOMAIN writes : writes[k].file = f
  BY DEF AgreeOn
<1>2. LastOf(writes, f) \in DOMAIN writes /\ writes[LastOf(writes, f)].file = f
  BY <1>1, LastDecides
<1>3. writes[LastOf(writes, f)].content = c
  BY <1>2 DEF AgreeOn
<1> QED
  BY <1>2, <1>3 DEF After

\* No write, no change.
LEMMA AfterNothing ==
  ASSUME NEW fs, Stored(fs)
  PROVE  After(fs, <<>>) = fs
BY DEF After, Stored

\* A write that is made is as good as one that is to be made.
LEMMA AfterFirst ==
  ASSUME NEW fs, Stored(fs), NEW writes \in Seq(Saving), writes # <<>>
  PROVE  /\ Stored(Put(fs, Head(writes).file, Head(writes).content))
         /\ After(fs, writes) = After(Put(fs, Head(writes).file, Head(writes).content), Tail(writes))
<1> DEFINE h == Head(writes)
           gs == Put(fs, h.file, h.content)
           rest == Tail(writes)
<1>1. PICK n \in Nat : n = Len(writes)
  OBVIOUS
<1>2. /\ n > 0 /\ DOMAIN writes = 1..n /\ h = writes[1] /\ h \in Saving
      /\ rest \in Seq(Saving) /\ DOMAIN rest = 1..(n - 1) /\ \A i \in 1..(n - 1) : rest[i] = writes[i + 1]
  BY <1>1
<1>3. h.file \in Tasks \cup Lists /\ h.content \in Content /\ Fits(h.file, h.content)
  BY <1>2 DEF Saving
<1>4. Stored(gs)
  BY <1>3 DEF Stored, Put
<1>5. ASSUME NEW f \in Tasks \cup Lists PROVE After(fs, writes)[f] = After(gs, rest)[f]
  <2>1. CASE \E i \in DOMAIN rest : rest[i].file = f
    <3>1. PICK i \in DOMAIN rest : rest[i].file = f
      BY <2>1
    <3>2. PICK k \in DOMAIN rest : k = LastOf(rest, f) /\ rest[k].file = f /\ \A j \in DOMAIN rest : rest[j].file = f => j <= k
      BY <1>2, <3>1, LastDecides
    <3>3. k + 1 \in DOMAIN writes /\ writes[k + 1].file = f
      BY <1>2, <3>2
    <3>4. PICK m \in DOMAIN writes : m = LastOf(writes, f) /\ writes[m].file = f /\ \A j \in DOMAIN writes : writes[j].file = f => j <= m
      BY <3>3, LastDecides
    <3>5. m = k + 1
      <4>1. k + 1 <= m
        BY <3>3, <3>4
      <4>2. m - 1 \in DOMAIN rest /\ rest[m - 1] = writes[m]
        BY <1>2, <3>2, <3>4, <4>1
      <4>3. m - 1 <= k
        BY <3>2, <3>4, <4>2
      <4> QED
        BY <1>2, <3>2, <3>4, <4>1, <4>3
    <3>6. writes[m] = rest[k]
      BY <1>2, <3>2, <3>5
    <3> QED
      BY <2>1, <3>2, <3>3, <3>4, <3>6 DEF After
  <2>2. CASE ~\E i \in DOMAIN rest : rest[i].file = f
    <3>1. \A i \in DOMAIN writes : writes[i].file = f => i = 1
      <4>1. SUFFICES ASSUME NEW i \in DOMAIN writes, writes[i].file = f, i # 1 PROVE FALSE
        OBVIOUS
      <4>2. i - 1 \in DOMAIN rest /\ rest[i - 1] = writes[i]
        BY <1>2, <4>1
      <4> QED
        BY <2>2, <4>1, <4>2
    <3>2. After(gs, rest)[f] = gs[f]
      BY <2>2 DEF After
    <3>3. CASE h.file = f
      <4>1. 1 \in DOMAIN writes /\ writes[1] = h
        BY <1>2
      <4>2. \A i \in DOMAIN writes : writes[i].file = f => writes[i].content = h.content
        BY <3>1, <4>1
      <4>3. writes[1].file = f
        BY <3>3, <4>1
      <4> HIDE DEF h
      <4>4. LastOf(writes, f) \in DOMAIN writes /\ writes[LastOf(writes, f)].file = f
        BY <4>1, <4>3, LastDecides
      <4>5. writes[LastOf(writes, f)].content = h.content
        BY <4>2, <4>4
      <4>6. After(fs, writes)[f] = h.content
        BY <4>4, <4>5 DEF After
      <4> QED
        BY <1>3, <3>2, <3>3, <4>6 DEF Stored, Put, h
    <3>4. CASE h.file # f
      <4>1. ~\E i \in DOMAIN writes : writes[i].file = f
        BY <1>2, <3>1, <3>4
      <4>2. After(fs, writes)[f] = fs[f]
        BY <4>1 DEF After
      <4> QED
        BY <3>2, <3>4, <4>2 DEF Stored, Put
    <3> QED
      BY <3>3, <3>4
  <2> QED
    BY <2>1, <2>2
<1>6. After(fs, writes) = After(gs, rest)
  BY <1>5 DEF After
<1> QED
  BY <1>4, <1>6

\* The first write of several, and a single one.
LEMMA AfterSave ==
  ASSUME NEW fs, Stored(fs), NEW f \in Tasks \cup Lists, NEW c \in Content, Fits(f, c), NEW writes \in Seq(Saving)
  PROVE  /\ Save(f, c) \o writes \in Seq(Saving)
         /\ After(fs, Save(f, c) \o writes) = After(Put(fs, f, c), writes)
<1>1. PICK x : x = [file |-> f, content |-> c]
  OBVIOUS
<1>2. x \in Saving /\ x.file = f /\ x.content = c /\ Save(f, c) = <<x>>
  BY <1>1 DEF Saving, Save
<1>3. PICK all : all = <<x>> \o writes
  OBVIOUS
<1>4. all \in Seq(Saving) /\ all # <<>> /\ Head(all) = x /\ Tail(all) = writes
  BY <1>2, <1>3
<1>5. After(fs, all) = After(Put(fs, x.file, x.content), writes)
  BY <1>4, AfterFirst
<1> QED
  BY <1>2, <1>3, <1>4, <1>5

LEMMA AfterOne ==
  ASSUME NEW fs, Stored(fs), NEW f \in Tasks \cup Lists, NEW c \in Content, Fits(f, c)
  PROVE  Save(f, c) \in Seq(Saving) /\ Stored(Put(fs, f, c)) /\ After(fs, Save(f, c)) = Put(fs, f, c)
<1>1. PICK x : x = [file |-> f, content |-> c]
  OBVIOUS
<1>2. x \in Saving /\ x.file = f /\ x.content = c /\ Save(f, c) = <<x>>
  BY <1>1 DEF Saving, Save
<1>3. PICK one : one = <<x>>
  OBVIOUS
<1>4. one \in Seq(Saving) /\ one # <<>> /\ Head(one) = x /\ Tail(one) = <<>>
  BY <1>2, <1>3
<1>5. After(fs, one) = After(Put(fs, x.file, x.content), <<>>) /\ Stored(Put(fs, x.file, x.content))
  BY <1>4, AfterFirst
<1>6. Stored(Put(fs, f, c)) /\ After(Put(fs, f, c), <<>>) = Put(fs, f, c)
  BY <1>2, <1>5, AfterNothing
<1> QED
  BY <1>2, <1>3, <1>4, <1>5, <1>6

\* Both orders of going through a set meet each of its elements.
LEMMA OrderMeetsAll ==
  ASSUME NEW S, IsFiniteSet(S), NEW order \in SetToSeqs(S)
  PROVE  order \in Seq(S) /\ \A x \in S : \E i \in DOMAIN order : order[i] = x
<1>1. PICK n \in Nat : n = Cardinality(S)
  BY FS_CardinalityType
<1>2. order \in [1..n -> S] /\ \A i, j \in 1..n : i # j => order[i] # order[j]
  BY <1>1 DEF SetToSeqs
<1>3. order \in Injection(1..n, S)
  BY <1>2 DEF Injection, IsInjective
<1>4. Cardinality(1..n) = n
  BY FS_Interval
<1>5. order \in Surjection(1..n, S)
  BY <1>1, <1>3, <1>4, FS_Injection
<1> QED
  BY <1>1, <1>2, <1>5 DEF Surjection

LEMMA SomeOrder ==
  ASSUME NEW S, IsFiniteSet(S)
  PROVE  SetToSeq(S) \in Seq(S) /\ \A x \in S : \E i \in DOMAIN SetToSeq(S) : SetToSeq(S)[i] = x
<1>1. PICK n \in Nat : n = Cardinality(S) /\ ExistsBijection(1..n, S)
  BY FS_CardinalityType
<1>2. PICK f \in Bijection(1..n, S) : TRUE
  BY <1>1 DEF ExistsBijection
<1>3. f \in [1..n -> S] /\ IsInjective(f)
  BY <1>2 DEF Bijection, Injection
<1>4. PICK order : order = SetToSeq(S)
  OBVIOUS
<1>5. order \in [1..n -> S] /\ IsInjective(order)
  BY <1>1, <1>3, <1>4 DEF SetToSeq
<1>6. order \in SetToSeqs(S)
  BY <1>1, <1>5 DEF SetToSeqs, IsInjective
<1> QED
  BY <1>4, <1>6, OrderMeetsAll

\* What is to be read later, as a set.
LEMMA EachMeans ==
  ASSUME NEW S, S \subseteq Tasks, NEW order \in Seq(S), \A x \in S : \E i \in DOMAIN order : order[i] = x,
         NEW what \in {"link", "unlink", "undepend", "block", "unblock", "drop"}, NEW t \in Tasks
  PROVE  /\ Each(what, order, t) \in Seq(Wanted)
         /\ Elements(Each(what, order, t)) = {Want(what, x, t) : x \in S}
         /\ Len(Each(what, order, t)) = Len(order)
<1>1. PICK n \in Nat : n = Len(order)
  OBVIOUS
<1>2. PICK s : s = Each(what, order, t)
  OBVIOUS
<1>3. DOMAIN order = 1..n /\ \A i \in 1..n : order[i] \in S
  BY <1>1
<1>4. s = [i \in 1..n |-> [do |-> what, task |-> order[i], other |-> t]]
  BY <1>2, <1>3 DEF Each
<1>5. \A i \in 1..n : s[i] = Want(what, order[i], t) /\ s[i] \in Wanted
  BY <1>3, <1>4 DEF Want, Wanted
<1>6. s \in Seq(Wanted) /\ DOMAIN s = 1..n /\ Len(s) = n
  BY <1>4, <1>5
<1>7. Elements(s) = {Want(what, x, t) : x \in S}
  BY <1>3, <1>5, <1>6 DEF Elements
<1> QED
  BY <1>1, <1>2, <1>6, <1>7

\* v is s, of n things, and then u, of m things.
Joins(v, s, u, n, m) ==
  /\ DOMAIN v = 1..(n + m) /\ DOMAIN s = 1..n /\ DOMAIN u = 1..m
  /\ \A i \in 1..(n + m) : v[i] = IF i <= n THEN s[i] ELSE u[i - n]

LEMMA JoinMeans ==
  ASSUME NEW S, NEW s \in Seq(S), NEW u \in Seq(S)
  PROVE  s \o u \in Seq(S) /\ \E n \in Nat, m \in Nat : n = Len(s) /\ m = Len(u) /\ Joins(s \o u, s, u, n, m)
<1>1. PICK n \in Nat, m \in Nat : n = Len(s) /\ m = Len(u)
  OBVIOUS
<1>2. PICK v : v = s \o u
  OBVIOUS
<1>3. /\ v \in Seq(S) /\ DOMAIN v = 1..(n + m) /\ DOMAIN s = 1..n /\ DOMAIN u = 1..m
      /\ \A i \in 1..(n + m) : v[i] = IF i <= n THEN s[i] ELSE u[i - n]
  BY <1>1, <1>2
<1>4. Joins(v, s, u, n, m)
  BY <1>3 DEF Joins
<1> QED
  BY <1>1, <1>2, <1>3, <1>4

LEMMA ElementsJoin ==
  ASSUME NEW S, NEW s \in Seq(S), NEW u \in Seq(S)
  PROVE  s \o u \in Seq(S) /\ Elements(s \o u) = Elements(s) \cup Elements(u)
<1>1. PICK v : v = s \o u
  OBVIOUS
<1>2. v \in Seq(S) /\ \E n \in Nat, m \in Nat : n = Len(s) /\ m = Len(u) /\ Joins(v, s, u, n, m)
  BY <1>1, JoinMeans
<1>11. PICK n \in Nat, m \in Nat : n = Len(s) /\ m = Len(u) /\ Joins(v, s, u, n, m)
  BY <1>2
<1>3. /\ v \in Seq(S) /\ DOMAIN v = 1..(n + m) /\ DOMAIN s = 1..n /\ DOMAIN u = 1..m
      /\ \A i \in 1..(n + m) : v[i] = IF i <= n THEN s[i] ELSE u[i - n]
  BY <1>2, <1>11 DEF Joins
<1>4. ASSUME NEW i \in 1..(n + m) PROVE v[i] \in Elements(s) \cup Elements(u)
  <2>1. CASE i <= n
    <3>1. i \in DOMAIN s /\ v[i] = s[i]
      BY <1>3, <2>1
    <3> QED
      BY <3>1 DEF Elements
  <2>2. CASE ~(i <= n)
    <3>1. i - n \in DOMAIN u /\ v[i] = u[i - n]
      BY <1>3, <2>2
    <3> QED
      BY <3>1 DEF Elements
  <2> QED
    BY <2>1, <2>2
<1>5. \A x \in Elements(v) : x \in Elements(s) \cup Elements(u)
  BY <1>3, <1>4 DEF Elements
<1>6. ASSUME NEW i \in 1..n PROVE s[i] \in Elements(v)
  <2>1. i \in 1..(n + m) /\ v[i] = s[i]
    BY <1>3
  <2> QED
    BY <1>3, <2>1 DEF Elements
<1>7. \A x \in Elements(s) : x \in Elements(v)
  BY <1>3, <1>6 DEF Elements
<1>8. ASSUME NEW j \in 1..m PROVE u[j] \in Elements(v)
  <2>1. n + j \in 1..(n + m) /\ v[n + j] = u[j]
    BY <1>3
  <2> QED
    BY <1>3, <2>1 DEF Elements
<1>9. \A x \in Elements(u) : x \in Elements(v)
  BY <1>3, <1>8 DEF Elements
<1> QED
  BY <1>1, <1>3, <1>9, <1>5, <1>7

\* v is s with one thing more at the end.
Longer(v, s, x) ==
  /\ Len(v) = Len(s) + 1 /\ DOMAIN v = 1..(Len(s) + 1)
  /\ (\A i \in 1..Len(s) : v[i] = s[i]) /\ v[Len(s) + 1] = x

LEMMA EndsWith ==
  ASSUME NEW S, NEW s \in Seq(S), NEW u \in Seq(S), Len(u) = 1
  PROVE  s \o u \in Seq(S) /\ Longer(s \o u, s, u[1])
<1>1. PICK v : v = s \o u
  OBVIOUS
<1>2. v \in Seq(S) /\ \E n \in Nat, m \in Nat : n = Len(s) /\ m = Len(u) /\ Joins(v, s, u, n, m)
  BY <1>1, JoinMeans
<1>3. PICK n \in Nat : n = Len(s) /\ Joins(v, s, u, n, 1)
  BY <1>2
<1>4. DOMAIN v = 1..(n + 1) /\ \A i \in 1..(n + 1) : v[i] = IF i <= n THEN s[i] ELSE u[i - n]
  BY <1>3 DEF Joins
<1>5. Len(v) = n + 1
  BY <1>2, <1>4
<1>6. \A i \in 1..n : v[i] = s[i]
  BY <1>4
<1>7. v[n + 1] = u[1]
  BY <1>4
<1> QED
  BY <1>1, <1>2, <1>3, <1>4, <1>5, <1>6, <1>7 DEF Longer

LEMMA ElementsTail ==
  ASSUME NEW S, NEW s \in Seq(S), s # <<>>
  PROVE  /\ Tail(s) \in Seq(S) /\ Head(s) \in S
         /\ Elements(s) = Elements(Tail(s)) \cup {Head(s)} /\ Elements(s) \subseteq S
<1>1. PICK n \in Nat : n = Len(s)
  OBVIOUS
<1>2. PICK u : u = Tail(s)
  OBVIOUS
<1>3. /\ n > 0 /\ DOMAIN s = 1..n /\ u \in Seq(S) /\ DOMAIN u = 1..(n - 1)
      /\ (\A i \in 1..(n - 1) : u[i] = s[i + 1]) /\ Head(s) = s[1] /\ (\A i \in 1..n : s[i] \in S)
  BY <1>1, <1>2
<1>4. \A x \in Elements(u) : x \in Elements(s)
  BY <1>3 DEF Elements
<1>5. ASSUME NEW i \in 1..n PROVE s[i] \in Elements(u) \cup {Head(s)}
  <2>1. CASE i = 1
    BY <1>3, <2>1
  <2>2. CASE i # 1
    <3>1. i - 1 \in 1..(n - 1) /\ u[i - 1] = s[i]
      BY <1>3, <2>2
    <3> QED
      BY <1>3, <3>1 DEF Elements
  <2> QED
    BY <2>1, <2>2
<1>6. Elements(s) \subseteq Elements(u) \cup {Head(s)}
  BY <1>3, <1>5 DEF Elements
<1>7. s[1] \in Elements(s) /\ Elements(s) \subseteq S
  BY <1>3 DEF Elements
<1> QED
  BY <1>2, <1>3, <1>4, <1>6, <1>7

\* Two contents of the files have the same tasks, with the same fields, or lists.
SameTasks(fs, gs) == \A t \in Tasks : There(gs, t) <=> There(fs, t)
SameStatus(fs, gs) == \A t \in Tasks : There(fs, t) => gs[t].status = fs[t].status
SameDependsOn(fs, gs) == \A t \in Tasks : There(fs, t) => gs[t].dependsOn = fs[t].dependsOn
SameBlocks(fs, gs) == \A t \in Tasks : There(fs, t) => gs[t].blocks = fs[t].blocks
SameLists(fs, gs) == \A l \in Lists : gs[l] = fs[l]

\* A task that is there has the fields of one.
LEMMA TaskFields ==
  ASSUME NEW fs, Stored(fs), NEW t \in Tasks, There(fs, t), NamesAssumption
  PROVE  /\ fs[t] \in Task /\ t \notin fs[t].dependsOn
         /\ fs[t].status \in {"open", "in-progress", "blocked", "done"}
         /\ fs[t].dependsOn \subseteq Tasks /\ fs[t].blocks \subseteq Tasks
<1>1. Fits(t, fs[t]) /\ t \notin Lists
  BY DEF Stored, NamesAssumption
<1>2. fs[t] \in Task /\ t \notin fs[t].dependsOn
  BY <1>1 DEF Fits, There
<1> QED
  BY <1>2 DEF Task

LEMMA ListFields ==
  ASSUME NEW fs, Stored(fs), NEW l \in Lists, NamesAssumption
  PROVE  fs[l] \in [tasks : SUBSET Tasks] /\ fs[l].tasks \subseteq Tasks
<1>1. Fits(l, fs[l]) /\ l \notin Tasks
  BY DEF Stored, NamesAssumption
<1>2. fs[l] \in [tasks : SUBSET Tasks]
  BY <1>1 DEF Fits
<1> QED
  BY <1>2

\* What becomes of the files when a task is written.
LEMMA TaskWritten ==
  ASSUME NEW fs, Stored(fs), NEW t \in Tasks, NEW r \in Task, t \notin r.dependsOn, NamesAssumption, NeverAssumption
  PROVE  /\ Stored(Put(fs, t, r)) /\ r \in Content /\ Fits(t, r)
         /\ Put(fs, t, r)[t] = r /\ There(Put(fs, t, r), t)
         /\ \A f \in Tasks \cup Lists : f # t => Put(fs, t, r)[f] = fs[f]
         /\ There(fs, t) => SameTasks(fs, Put(fs, t, r))
         /\ SameLists(fs, Put(fs, t, r))
<1> DEFINE gs == Put(fs, t, r)
<1>1. r \in Content /\ Fits(t, r) /\ r \notin {Never, Deleted}
  BY DEF Content, Fits, NeverAssumption
<1>2. gs[t] = r /\ \A f \in Tasks \cup Lists : f # t => gs[f] = fs[f]
  BY DEF Stored, Put
<1>3. Stored(gs)
  BY <1>1, <1>2 DEF Stored, Put
<1> HIDE DEF gs
<1>4. There(gs, t) /\ SameLists(fs, gs)
  BY <1>1, <1>2 DEF There, SameLists, NamesAssumption
<1>5. There(fs, t) => SameTasks(fs, gs)
  BY <1>2, <1>4 DEF There, SameTasks
<1> QED
  BY <1>1, <1>2, <1>3, <1>4, <1>5 DEF gs

\* What a property of the files rests on.
LEMMA CausesRemain ==
  ASSUME NEW fs, Stored(fs), NEW gs, NEW P, NEW X, NamesAssumption,
         SameTasks(fs, gs), SameStatus(fs, gs), SameDependsOn(fs, gs), Caused(fs, P, X), LinksMeet(fs, P)
  PROVE  /\ Caused(gs, P, X)
         /\ \A t \in Tasks : DoneIn(gs, t) <=> DoneIn(fs, t)
         /\ \A t \in Tasks : There(fs, t) => (Fulfilled(gs, t) <=> Fulfilled(fs, t))
<1>1. \A t \in Tasks : DoneIn(gs, t) <=> DoneIn(fs, t)
  BY DEF DoneIn, SameTasks, SameStatus
<1>2. \A t \in Tasks : There(fs, t) => (Fulfilled(gs, t) <=> Fulfilled(fs, t))
  <2>1. SUFFICES ASSUME NEW t \in Tasks, There(fs, t) PROVE Fulfilled(gs, t) <=> Fulfilled(fs, t)
    OBVIOUS
  <2>2. fs[t].dependsOn \subseteq Tasks /\ gs[t].dependsOn = fs[t].dependsOn
    BY <2>1, TaskFields DEF SameDependsOn
  <2> QED
    BY <1>1, <2>2 DEF Fulfilled
<1>3. Caused(gs, P, X)
  BY <1>2 DEF Caused, SameTasks, SameStatus
<1> QED
  BY <1>1, <1>2, <1>3

LEMMA PlacesRemain ==
  ASSUME NEW fs, NEW gs, NEW X, SameTasks(fs, gs), SameLists(fs, gs), Placed(fs, X)
  PROVE  Placed(gs, X)
<1>1. \A t \in Tasks : ListsWith(gs, t) = ListsWith(fs, t)
  BY DEF ListsWith, SameLists
<1> QED
  BY <1>1 DEF Placed, SameTasks

\* A part of what a call has to do is of one kind too.
LEMMA KindRemains ==
  ASSUME NEW P, NEW Q, Q \subseteq P, NEW e \in P, P = Q \cup {e}, e.do # "drop", OneKind(P)
  PROVE  OneKind(Q)
<1>1. CASE \E what \in {"link", "block", "unblock"} : \A x \in P : x.do = what
  BY <1>1 DEF OneKind
<1>2. CASE \E t \in Tasks : Want("drop", t, t) \in P /\ \A x \in P : x = Want("drop", t, t) \/ (x.do \in {"unlink", "undepend"} /\ x.other = t)
  <2>1. PICK t \in Tasks : Want("drop", t, t) \in P /\ \A x \in P : x = Want("drop", t, t) \/ (x.do \in {"unlink", "undepend"} /\ x.other = t)
    BY <1>2
  <2>2. Want("drop", t, t) # e
    BY DEF Want
  <2> QED
    BY <2>1, <2>2 DEF OneKind
<1> QED
  BY <1>1, <1>2 DEF OneKind

\* The task of a link is not deleted by the same call.
LEMMA KindsApart ==
  ASSUME NEW P, OneKind(P), NEW e \in P, e.do \in {"link", "block", "unblock"}
  PROVE  \A x \in P : x.do = e.do
<1>1. CASE \E what \in {"link", "block", "unblock"} : \A x \in P : x.do = what
  BY <1>1
<1>2. CASE \E t \in Tasks : Want("drop", t, t) \in P /\ \A x \in P : x = Want("drop", t, t) \/ (x.do \in {"unlink", "undepend"} /\ x.other = t)
  <2>1. PICK t \in Tasks : e = Want("drop", t, t) \/ e.do \in {"unlink", "undepend"}
    BY <1>2
  <2>2. e.do \in {"drop", "unlink", "undepend"}
    BY <2>1 DEF Want
  <2> QED
    BY <2>2
<1> QED
  BY <1>1, <1>2 DEF OneKind

\* What a call reads next, and what is left to be read.
Reads(P, e, Q) == e \in P /\ P \subseteq Wanted /\ Q \subseteq P /\ P = Q \cup {e}

\* A task is told that another depends on it.
LEMMA LinkRead ==
  ASSUME NamesAssumption, NEW fs, Stored(fs), NEW P, NEW Q, NEW X, Consistent(fs, P, X),
         NEW d \in Tasks, NEW t \in Tasks, Reads(P, Want("link", d, t), Q),
         NEW gs, SameTasks(fs, gs), SameStatus(fs, gs), SameDependsOn(fs, gs), SameLists(fs, gs),
         \A x \in Tasks \ {d} : There(fs, x) => gs[x].blocks = fs[x].blocks,
         There(fs, d) => gs[d].blocks = fs[d].blocks \cup {t}
  PROVE  There(fs, d) /\ Consistent(gs, Q, X)
<1> DEFINE e == Want("link", d, t)
<1>1. /\ e \in P /\ e.do = "link" /\ e.task = d /\ e.other = t /\ Q \subseteq P /\ P = Q \cup {e}
      /\ LinksMeet(fs, P) /\ DeletesAll(fs, P) /\ Sensible(fs, P, X) /\ Caused(fs, P, X) /\ Placed(fs, X) /\ OneKind(P)
  BY DEF Reads, Want, Consistent
<1>2. \A x \in P : x.do = "link"
  BY <1>1, KindsApart
<1>3. There(fs, t) /\ d \in fs[t].dependsOn /\ There(fs, d)
  <2>1. There(fs, e.other) /\ e.task \in fs[e.other].dependsOn
    BY <1>1 DEF Sensible
  <2>2. There(fs, t) /\ d \in fs[t].dependsOn
    BY <1>1, <2>1
  <2> QED
    BY <1>1, <2>2 DEF LinksMeet
<1>4. LinksMeet(gs, Q)
  <2>1. SUFFICES ASSUME NEW x \in Tasks, NEW y \in Tasks
        PROVE  /\ There(gs, x) /\ y \in gs[x].dependsOn =>
                    There(gs, y) /\ (x \in gs[y].blocks \/ Want("link", y, x) \in Q \/ Want("drop", x, x) \in Q)
               /\ There(gs, y) /\ x \in gs[y].blocks => There(gs, x) /\ (y \in gs[x].dependsOn \/ Want("drop", y, y) \in Q)
    BY DEF LinksMeet
  <2>2. Want("drop", x, x) \notin P /\ Want("drop", y, y) \notin P
    BY <1>2 DEF Want
  <2>3. Want("link", y, x) = e => y = d /\ x = t
    BY DEF Want
  <2>4. ASSUME There(gs, x), y \in gs[x].dependsOn PROVE There(gs, y) /\ (x \in gs[y].blocks \/ Want("link", y, x) \in Q)
    <3>1. There(fs, x) /\ y \in fs[x].dependsOn
      BY <2>4 DEF SameTasks, SameDependsOn
    <3>2. There(fs, y) /\ (x \in fs[y].blocks \/ Want("link", y, x) \in P)
      BY <1>1, <2>2, <3>1 DEF LinksMeet
    <3>3. x \in fs[y].blocks => x \in gs[y].blocks
      BY <3>2
    <3> QED
      BY <1>1, <1>3, <2>3, <3>2, <3>3 DEF SameTasks
  <2>5. ASSUME There(gs, y), x \in gs[y].blocks PROVE There(gs, x) /\ y \in gs[x].dependsOn
    <3>1. There(fs, y) /\ (x \in fs[y].blocks \/ (y = d /\ x = t))
      BY <2>5 DEF SameTasks
    <3>2. There(fs, x) /\ y \in fs[x].dependsOn
      BY <1>1, <1>3, <2>2, <3>1 DEF LinksMeet
    <3> QED
      BY <3>2 DEF SameTasks, SameDependsOn
  <2> QED
    BY <2>4, <2>5
<1>5. DeletesAll(gs, Q)
  BY <1>1, <1>2 DEF DeletesAll, Want
<1>6. Sensible(gs, Q, X)
  <2>1. SUFFICES ASSUME NEW x \in Q PROVE x.do = "link" /\ There(gs, x.other) /\ x.task \in gs[x.other].dependsOn
    BY DEF Sensible
  <2>2. x.do = "link" /\ There(fs, x.other) /\ x.task \in fs[x.other].dependsOn /\ x.other \in Tasks
    BY <1>1, <1>2 DEF Sensible, Reads, Wanted
  <2> QED
    BY <2>2 DEF SameTasks, SameDependsOn
<1>7. Caused(gs, Q, X)
  <2>1. Caused(gs, P, X)
    BY <1>1, CausesRemain
  <2>2. \A x, y \in Tasks : Want("unblock", x, y) \notin P
    BY <1>2 DEF Want
  <2> QED
    BY <2>1, <2>2 DEF Caused
<1>8. Placed(gs, X)
  BY <1>1, PlacesRemain
<1>9. OneKind(Q)
  BY <1>1, KindRemains
<1> QED
  BY <1>3, <1>4, <1>5, <1>6, <1>7, <1>8, <1>9 DEF Consistent

\* A task is told that another, which is deleted, depends on it no more.
LEMMA UnlinkRead ==
  ASSUME NamesAssumption, NEW fs, Stored(fs), NEW P, NEW Q, NEW X, Consistent(fs, P, X),
         NEW d \in Tasks, NEW t \in Tasks, Reads(P, Want("unlink", d, t), Q),
         NEW gs, SameTasks(fs, gs), SameStatus(fs, gs), SameDependsOn(fs, gs), SameLists(fs, gs),
         \A x \in Tasks \ {d} : There(fs, x) => gs[x].blocks = fs[x].blocks,
         There(fs, d) => gs[d].blocks = fs[d].blocks \ {t}
  PROVE  Consistent(gs, Q, X)
<1> DEFINE e == Want("unlink", d, t)
<1>1. /\ e \in P /\ e.do = "unlink" /\ e.task = d /\ e.other = t /\ Q \subseteq P /\ P = Q \cup {e}
      /\ LinksMeet(fs, P) /\ DeletesAll(fs, P) /\ Sensible(fs, P, X) /\ Caused(fs, P, X) /\ Placed(fs, X) /\ OneKind(P)
  BY DEF Reads, Want, Consistent
<1>2. Want("drop", t, t) \in P /\ \A x \in P : x = Want("drop", t, t) \/ (x.do \in {"unlink", "undepend"} /\ x.other = t)
  <2>1. PICK u \in Tasks : Want("drop", u, u) \in P /\ \A x \in P : x = Want("drop", u, u) \/ (x.do \in {"unlink", "undepend"} /\ x.other = u)
    BY <1>1 DEF OneKind
  <2>2. e # Want("drop", u, u)
    BY <1>1 DEF Want
  <2> QED
    BY <1>1, <2>1, <2>2
<1>3. /\ Want("drop", t, t) \in Q
      /\ \A x, y \in Tasks : Want("link", x, y) \notin P /\ Want("unblock", x, y) \notin P
      /\ \A x \in Tasks : Want("drop", x, x) \in P <=> x = t
      /\ \A x \in P : x.do \in {"drop", "unlink", "undepend"}
  BY <1>1, <1>2 DEF Want
<1>4. LinksMeet(gs, Q)
  <2>1. SUFFICES ASSUME NEW x \in Tasks, NEW y \in Tasks
        PROVE  /\ There(gs, x) /\ y \in gs[x].dependsOn =>
                    There(gs, y) /\ (x \in gs[y].blocks \/ Want("link", y, x) \in Q \/ Want("drop", x, x) \in Q)
               /\ There(gs, y) /\ x \in gs[y].blocks => There(gs, x) /\ (y \in gs[x].dependsOn \/ Want("drop", y, y) \in Q)
    BY DEF LinksMeet
  <2>4. ASSUME There(gs, x), y \in gs[x].dependsOn PROVE There(gs, y) /\ (x \in gs[y].blocks \/ Want("drop", x, x) \in Q)
    <3>1. There(fs, x) /\ y \in fs[x].dependsOn
      BY <2>4 DEF SameTasks, SameDependsOn
    <3>2. There(fs, y) /\ (x \in fs[y].blocks \/ x = t)
      BY <1>1, <1>3, <3>1 DEF LinksMeet
    <3>3. x # t /\ x \in fs[y].blocks => x \in gs[y].blocks
      BY <3>2
    <3> QED
      BY <1>3, <3>2, <3>3 DEF SameTasks
  <2>5. ASSUME There(gs, y), x \in gs[y].blocks PROVE There(gs, x) /\ (y \in gs[x].dependsOn \/ Want("drop", y, y) \in Q)
    <3>1. There(fs, y) /\ x \in fs[y].blocks
      BY <2>5 DEF SameTasks
    <3>2. There(fs, x) /\ (y \in fs[x].dependsOn \/ y = t)
      BY <1>1, <1>3, <3>1 DEF LinksMeet
    <3> QED
      BY <1>3, <3>2 DEF SameTasks, SameDependsOn
  <2> QED
    BY <2>4, <2>5
<1>5. DeletesAll(gs, Q)
  <2>1. SUFFICES ASSUME NEW b \in Tasks, There(gs, b)
        PROVE  /\ There(gs, t)
               /\ t \in gs[b].blocks => Want("unlink", b, t) \in Q
               /\ t \in gs[b].dependsOn => Want("undepend", b, t) \in Q
    <3>1. \A x \in Tasks : Want("drop", x, x) \in Q => x = t
      BY <1>1, <1>3
    <3>2. There(gs, t)
      BY <1>1, <1>3 DEF DeletesAll, SameTasks
    <3> QED
      BY <3>1, <3>2 DEF DeletesAll
  <2>2. /\ There(fs, t) /\ There(fs, b)
        /\ t \in fs[b].blocks => Want("unlink", b, t) \in P
        /\ t \in fs[b].dependsOn => Want("undepend", b, t) \in P
    BY <1>1, <1>3, <2>1 DEF DeletesAll, SameTasks
  <2>3. Want("undepend", b, t) # e /\ (Want("unlink", b, t) = e => b = d)
    BY DEF Want
  <2> QED
    BY <1>1, <2>2, <2>3 DEF SameTasks, SameDependsOn
<1>6. Sensible(gs, Q, X)
  BY <1>1, <1>3 DEF Sensible
<1>7. Caused(gs, Q, X)
  <2>1. Caused(gs, P, X)
    BY <1>1, CausesRemain
  <2> QED
    BY <1>3, <2>1 DEF Caused
<1>8. Placed(gs, X)
  BY <1>1, PlacesRemain
<1>9. OneKind(Q)
  BY <1>1, KindRemains
<1> QED
  BY <1>4, <1>5, <1>6, <1>7, <1>8, <1>9 DEF Consistent

\* What a call that deletes a task has still to do.
LEMMA Deletes ==
  ASSUME NEW P, OneKind(P), NEW e \in P, e.do \in {"drop", "unlink", "undepend"}
  PROVE  \E t \in Tasks :
           /\ Want("drop", t, t) \in P /\ e.other = t
           /\ \A x \in P : x = Want("drop", t, t) \/ (x.do \in {"unlink", "undepend"} /\ x.other = t)
           /\ \A x, y \in Tasks : Want("link", x, y) \notin P /\ Want("unblock", x, y) \notin P
           /\ \A x \in Tasks : Want("drop", x, x) \in P <=> x = t
           /\ \A x \in P : x.do \in {"drop", "unlink", "undepend"}
<1>1. CASE \E what \in {"link", "block", "unblock"} : \A x \in P : x.do = what
  BY <1>1
<1>2. CASE \E t \in Tasks : Want("drop", t, t) \in P /\ \A x \in P : x = Want("drop", t, t) \/ (x.do \in {"unlink", "undepend"} /\ x.other = t)
  <2>1. PICK t \in Tasks : Want("drop", t, t) \in P /\ \A x \in P : x = Want("drop", t, t) \/ (x.do \in {"unlink", "undepend"} /\ x.other = t)
    BY <1>2
  <2>2. \A x \in P : x.do \in {"drop", "unlink", "undepend"} /\ x.other = t
    BY <2>1 DEF Want
  <2>3. \A x, y \in Tasks : Want("link", x, y) \notin P /\ Want("unblock", x, y) \notin P
    BY <2>2 DEF Want
  <2>4. \A x \in Tasks : Want("drop", x, x) \in P => x = t
    BY <2>2 DEF Want
  <2> QED
    BY <2>1, <2>2, <2>3, <2>4
<1> QED
  BY <1>1, <1>2 DEF OneKind

\* A task no longer depends on the one that is deleted.
LEMMA UndependRead ==
  ASSUME NamesAssumption, NEW fs, Stored(fs), NEW P, NEW Q, NEW X, Consistent(fs, P, X),
         NEW b \in Tasks, NEW t \in Tasks, Reads(P, Want("undepend", b, t), Q),
         NEW gs, SameTasks(fs, gs), SameStatus(fs, gs), SameBlocks(fs, gs), SameLists(fs, gs),
         \A x \in Tasks \ {b} : There(fs, x) => gs[x].dependsOn = fs[x].dependsOn,
         There(fs, b) => gs[b].dependsOn = fs[b].dependsOn \ {t}
  PROVE  Consistent(gs, Q, X)
<1> DEFINE e == Want("undepend", b, t)
<1>1. /\ e \in P /\ e.do = "undepend" /\ e.task = b /\ e.other = t /\ Q \subseteq P /\ P = Q \cup {e}
      /\ LinksMeet(fs, P) /\ DeletesAll(fs, P) /\ Sensible(fs, P, X) /\ Caused(fs, P, X) /\ Placed(fs, X) /\ OneKind(P)
  BY DEF Reads, Want, Consistent
<1>2. /\ Want("drop", t, t) \in P
      /\ \A x, y \in Tasks : Want("link", x, y) \notin P /\ Want("unblock", x, y) \notin P
      /\ \A x \in Tasks : Want("drop", x, x) \in P <=> x = t
      /\ \A x \in P : x.do \in {"drop", "unlink", "undepend"}
  BY <1>1, Deletes
<1>3. Want("drop", t, t) \in Q
  BY <1>1, <1>2 DEF Want
<1>4. LinksMeet(gs, Q)
  <2>1. SUFFICES ASSUME NEW x \in Tasks, NEW y \in Tasks
        PROVE  /\ There(gs, x) /\ y \in gs[x].dependsOn =>
                    There(gs, y) /\ (x \in gs[y].blocks \/ Want("link", y, x) \in Q \/ Want("drop", x, x) \in Q)
               /\ There(gs, y) /\ x \in gs[y].blocks => There(gs, x) /\ (y \in gs[x].dependsOn \/ Want("drop", y, y) \in Q)
    BY DEF LinksMeet
  <2>4. ASSUME There(gs, x), y \in gs[x].dependsOn PROVE There(gs, y) /\ (x \in gs[y].blocks \/ Want("drop", x, x) \in Q)
    <3>1. There(fs, x) /\ y \in fs[x].dependsOn
      BY <2>4 DEF SameTasks
    <3>2. There(fs, y) /\ (x \in fs[y].blocks \/ x = t)
      BY <1>1, <1>2, <3>1 DEF LinksMeet
    <3> QED
      BY <1>3, <3>2 DEF SameTasks, SameBlocks
  <2>5. ASSUME There(gs, y), x \in gs[y].blocks PROVE There(gs, x) /\ (y \in gs[x].dependsOn \/ Want("drop", y, y) \in Q)
    <3>1. There(fs, y) /\ x \in fs[y].blocks
      BY <2>5 DEF SameTasks, SameBlocks
    <3>2. There(fs, x) /\ (y \in fs[x].dependsOn \/ y = t)
      BY <1>1, <1>2, <3>1 DEF LinksMeet
    <3>3. y \in fs[x].dependsOn /\ y # t => y \in gs[x].dependsOn
      BY <3>2
    <3> QED
      BY <1>3, <3>2, <3>3 DEF SameTasks
  <2> QED
    BY <2>4, <2>5
<1>5. DeletesAll(gs, Q)
  <2>1. SUFFICES ASSUME NEW x \in Tasks, There(gs, x)
        PROVE  /\ There(gs, t)
               /\ t \in gs[x].blocks => Want("unlink", x, t) \in Q
               /\ t \in gs[x].dependsOn => Want("undepend", x, t) \in Q
    <3>1. \A y \in Tasks : Want("drop", y, y) \in Q => y = t
      BY <1>1, <1>2
    <3>2. There(gs, t)
      BY <1>1, <1>2 DEF DeletesAll, SameTasks
    <3> QED
      BY <3>1, <3>2 DEF DeletesAll
  <2>2. /\ There(fs, t) /\ There(fs, x)
        /\ t \in fs[x].blocks => Want("unlink", x, t) \in P
        /\ t \in fs[x].dependsOn => Want("undepend", x, t) \in P
    BY <1>1, <1>2, <2>1 DEF DeletesAll, SameTasks
  <2>3. Want("unlink", x, t) # e /\ (Want("undepend", x, t) = e => x = b)
    BY DEF Want
  <2>4. t \in gs[x].dependsOn => x # b /\ t \in fs[x].dependsOn
    BY <2>2
  <2> QED
    BY <1>1, <2>2, <2>3, <2>4 DEF SameTasks, SameBlocks
<1>6. Sensible(gs, Q, X)
  BY <1>1, <1>2 DEF Sensible
<1>7. Caused(gs, Q, X)
  <2>1. <<b, "held">> \in X
    BY <1>1 DEF Sensible
  <2>2. SUFFICES ASSUME NEW x \in Tasks, There(gs, x), gs[x].status = "blocked", x # b PROVE <<x, "held">> \in X \/ ~Fulfilled(gs, x)
    BY <2>1 DEF Caused
  <2>3. There(fs, x) /\ fs[x].status = "blocked" /\ gs[x].dependsOn = fs[x].dependsOn
    BY <2>2 DEF SameTasks, SameStatus
  <2>4. <<x, "held">> \in X \/ ~Fulfilled(fs, x)
    BY <1>1, <1>2, <2>3 DEF Caused
  <2>5. fs[x].dependsOn \subseteq Tasks
    BY <2>3, TaskFields
  <2>6. \A y \in Tasks : DoneIn(gs, y) <=> DoneIn(fs, y)
    BY DEF DoneIn, SameTasks, SameStatus
  <2> QED
    BY <2>3, <2>4, <2>5, <2>6 DEF Fulfilled
<1>8. Placed(gs, X)
  BY <1>1, PlacesRemain
<1>9. OneKind(Q)
  BY <1>1, KindRemains
<1> QED
  BY <1>4, <1>5, <1>6, <1>7, <1>8, <1>9 DEF Consistent

\* The status of a task changes, of none that is deleted or linked.
LEMMA StatusRead ==
  ASSUME NamesAssumption, NEW fs, Stored(fs), NEW P, NEW Q, NEW X, Consistent(fs, P, X),
         NEW what \in {"block", "unblock"}, NEW b \in Tasks, NEW t \in Tasks, Reads(P, Want(what, b, t), Q),
         NEW gs, SameTasks(fs, gs), SameDependsOn(fs, gs), SameBlocks(fs, gs), SameLists(fs, gs),
         \A x \in Tasks \ {b} : There(fs, x) => gs[x].status = fs[x].status,
         There(fs, b) /\ gs[b].status = "done" => fs[b].status = "done",
         what = "unblock" /\ There(fs, b) /\ Fulfilled(fs, b) => gs[b].status # "blocked"
  PROVE  Consistent(gs, Q, X)
<1> DEFINE e == Want(what, b, t)
<1>1. /\ e \in P /\ e.do = what /\ e.task = b /\ e.other = t /\ Q \subseteq P /\ P = Q \cup {e} /\ P \subseteq Wanted
      /\ LinksMeet(fs, P) /\ DeletesAll(fs, P) /\ Sensible(fs, P, X) /\ Caused(fs, P, X) /\ Placed(fs, X) /\ OneKind(P)
  BY DEF Reads, Want, Consistent
<1>2. \A x \in P : x.do = what
  BY <1>1, KindsApart
<1>3. \A x, y \in Tasks : Want("link", x, y) \notin P /\ Want("drop", x, y) \notin P
  BY <1>2 DEF Want
<1>4. LinksMeet(gs, Q)
  BY <1>1, <1>3 DEF LinksMeet, SameTasks, SameDependsOn, SameBlocks
<1>5. DeletesAll(gs, Q)
  BY <1>1, <1>3 DEF DeletesAll
<1>6. \A x \in Tasks : DoneIn(gs, x) => DoneIn(fs, x)
  <2>1. SUFFICES ASSUME NEW x \in Tasks, DoneIn(gs, x) PROVE DoneIn(fs, x)
    OBVIOUS
  <2>2. There(fs, x) /\ gs[x].status = "done"
    BY <2>1 DEF DoneIn, SameTasks
  <2> QED
    BY <2>2 DEF DoneIn
<1>7. \A x \in Tasks : There(fs, x) /\ Fulfilled(gs, x) => Fulfilled(fs, x)
  <2>1. SUFFICES ASSUME NEW x \in Tasks, There(fs, x), Fulfilled(gs, x) PROVE Fulfilled(fs, x)
    OBVIOUS
  <2>2. fs[x].dependsOn \subseteq Tasks /\ gs[x].dependsOn = fs[x].dependsOn
    BY <2>1, TaskFields DEF SameDependsOn
  <2> QED
    BY <1>6, <2>1, <2>2 DEF Fulfilled
<1>8. Sensible(gs, Q, X)
  <2>1. SUFFICES ASSUME NEW x \in Q, x.do = "block"
                 PROVE  There(gs, x.task) /\ x.other \in gs[x.task].dependsOn /\ ~DoneIn(gs, x.other)
    <3>1. \A x \in Q : x.do \notin {"link", "undepend"}
      BY <1>1, <1>2
    <3> QED
      BY <3>1 DEF Sensible
  <2>2. /\ x.task \in Tasks /\ x.other \in Tasks
        /\ There(fs, x.task) /\ x.other \in fs[x.task].dependsOn /\ ~DoneIn(fs, x.other)
    BY <1>1, <2>1 DEF Sensible, Wanted
  <2> QED
    BY <1>6, <2>2 DEF SameTasks, SameDependsOn
<1>9. Caused(gs, Q, X)
  <2>1. SUFFICES ASSUME NEW x \in Tasks, There(gs, x), gs[x].status = "blocked", Fulfilled(gs, x), <<x, "held">> \notin X
                 PROVE  \E y \in Tasks : Want("unblock", x, y) \in Q
    BY DEF Caused
  <2>2. There(fs, x) /\ Fulfilled(fs, x)
    BY <1>7, <2>1 DEF SameTasks
  <2>3. CASE x # b
    <3>1. fs[x].status = "blocked"
      BY <2>1, <2>2, <2>3
    <3>2. PICK y \in Tasks : Want("unblock", x, y) \in P
      BY <1>1, <2>1, <2>2, <3>1 DEF Caused
    <3>3. Want("unblock", x, y) # e
      BY <2>3 DEF Want
    <3> QED
      BY <1>1, <3>2, <3>3
  <2>4. CASE x = b /\ what = "unblock"
    BY <2>1, <2>2, <2>4
  <2>5. CASE x = b /\ what = "block"
    <3>1. e.other \in fs[e.task].dependsOn /\ ~DoneIn(fs, e.other)
      BY <1>1, <2>5 DEF Sensible
    <3>2. t \in fs[b].dependsOn /\ ~DoneIn(fs, t)
      BY <1>1, <3>1
    <3> QED
      BY <2>2, <2>5, <3>2 DEF Fulfilled
  <2> QED
    BY <2>3, <2>4, <2>5
<1>10. Placed(gs, X)
  BY <1>1, PlacesRemain
<1>11. OneKind(Q)
  BY <1>1, KindRemains
<1> QED
  BY <1>4, <1>5, <1>8, <1>9, <1>10, <1>11 DEF Consistent

\* A task is deleted and taken from its lists.
LEMMA DropRead ==
  ASSUME NamesAssumption, NeverAssumption, NEW fs, Stored(fs), NEW P, NEW X, Consistent(fs, P, X),
         NEW t \in Tasks, P = {Want("drop", t, t)},
         NEW gs, gs[t] = Deleted, \A x \in Tasks \ {t} : gs[x] = fs[x],
         \A l \in Lists : gs[l].tasks = fs[l].tasks \ {t}
  PROVE  Consistent(gs, {}, X)
<1>1. LinksMeet(fs, P) /\ DeletesAll(fs, P) /\ Caused(fs, P, X) /\ Placed(fs, X)
  BY DEF Consistent
<1>2. /\ ~There(gs, t)
      /\ \A x \in Tasks \ {t} : There(gs, x) <=> There(fs, x)
  BY DEF There
<1>3. \A x, y \in Tasks : Want("link", x, y) \notin P /\ Want("unblock", x, y) \notin P /\ Want("undepend", x, y) \notin P /\ Want("unlink", x, y) \notin P
  BY DEF Want
<1>4. \A x \in Tasks : Want("drop", x, x) \in P <=> x = t
  BY DEF Want
<1>5. \A x \in Tasks : There(fs, x) => t \notin fs[x].blocks /\ t \notin fs[x].dependsOn
  BY <1>1, <1>3, <1>4 DEF DeletesAll
<1>6. LinksMeet(gs, {})
  <2>1. SUFFICES ASSUME NEW x \in Tasks, NEW y \in Tasks
        PROVE  /\ There(gs, x) /\ y \in gs[x].dependsOn => There(gs, y) /\ x \in gs[y].blocks
               /\ There(gs, y) /\ x \in gs[y].blocks => There(gs, x) /\ y \in gs[x].dependsOn
    BY DEF LinksMeet
  <2>2. ASSUME There(gs, x), y \in gs[x].dependsOn PROVE There(gs, y) /\ x \in gs[y].blocks
    <3>1. x # t /\ There(fs, x) /\ y \in fs[x].dependsOn /\ y # t
      BY <1>2, <1>5, <2>2
    <3> QED
      BY <1>1, <1>2, <1>3, <1>4, <3>1 DEF LinksMeet
  <2>3. ASSUME There(gs, y), x \in gs[y].blocks PROVE There(gs, x) /\ y \in gs[x].dependsOn
    <3>1. y # t /\ There(fs, y) /\ x \in fs[y].blocks /\ x # t
      BY <1>2, <1>5, <2>3
    <3> QED
      BY <1>1, <1>2, <1>4, <3>1 DEF LinksMeet
  <2> QED
    BY <2>2, <2>3
<1>7. DeletesAll(gs, {}) /\ Sensible(gs, {}, X) /\ OneKind({})
  BY DEF DeletesAll, Sensible, OneKind
<1>8. Caused(gs, {}, X)
  <2>1. SUFFICES ASSUME NEW x \in Tasks, There(gs, x), gs[x].status = "blocked", <<x, "held">> \notin X PROVE ~Fulfilled(gs, x)
    BY DEF Caused
  <2>2. x # t /\ There(fs, x) /\ gs[x] = fs[x]
    BY <1>2, <2>1
  <2>3. ~Fulfilled(fs, x) /\ t \notin fs[x].dependsOn
    BY <1>1, <1>3, <1>5, <2>1, <2>2 DEF Caused
  <2>4. fs[x].dependsOn \subseteq Tasks
    BY <2>2, TaskFields
  <2>5. \A y \in Tasks \ {t} : DoneIn(gs, y) <=> DoneIn(fs, y)
    BY <1>2 DEF DoneIn
  <2> QED
    BY <2>2, <2>3, <2>4, <2>5 DEF Fulfilled
<1>9. Placed(gs, X)
  <2>1. ListsWith(gs, t) = {}
    BY DEF ListsWith
  <2>2. \A x \in Tasks \ {t} : ListsWith(gs, x) = ListsWith(fs, x)
    BY DEF ListsWith
  <2> QED
    BY <1>1, <1>2, <2>1, <2>2 DEF Placed
<1> QED
  BY <1>6, <1>7, <1>8, <1>9 DEF Consistent

\* With nothing left to do, both sides of every dependency agree.
LEMMA NothingLeft ==
  ASSUME NEW fs, NEW X, Consistent(fs, {}, X), NEW t \in Tasks, NEW d \in Tasks
  PROVE  /\ There(fs, t) /\ d \in fs[t].dependsOn => There(fs, d) /\ t \in fs[d].blocks
         /\ There(fs, d) /\ t \in fs[d].blocks => There(fs, t) /\ d \in fs[t].dependsOn
BY DEF Consistent, LinksMeet

\* A new task is made and put on a list; its dependencies will be told.
LEMMA CreateBegins ==
  ASSUME NamesAssumption, NEW fs, Stored(fs), NEW X, Consistent(fs, {}, X),
         NEW t \in Tasks, ~There(fs, t), NEW l \in Lists, NEW deps \in SUBSET Tasks, \A d \in deps : There(fs, d),
         NEW gs, There(gs, t), gs[t] = NewTask(deps), \A x \in Tasks \ {t} : gs[x] = fs[x],
         gs[l].tasks = fs[l].tasks \cup {t}, \A k \in Lists \ {l} : gs[k] = fs[k],
         NEW P, P = {Want("link", d, t) : d \in deps}
  PROVE  Consistent(gs, P, X)
<1>1. LinksMeet(fs, {}) /\ Caused(fs, {}, X) /\ Placed(fs, X)
  BY DEF Consistent
<1>2. gs[t].status = "open" /\ gs[t].dependsOn = deps /\ gs[t].blocks = {}
  BY DEF NewTask
<1>3. /\ \A x \in Tasks \ {t} : There(gs, x) <=> There(fs, x)
      /\ \A d \in deps : d # t /\ There(gs, d)
  BY DEF There
<1>4. \A e \in P : e.do = "link" /\ e.other = t /\ e.task \in deps
  BY DEF Want
<1>5. LinksMeet(gs, P)
  <2>1. SUFFICES ASSUME NEW x \in Tasks, NEW y \in Tasks
        PROVE  /\ There(gs, x) /\ y \in gs[x].dependsOn => There(gs, y) /\ (x \in gs[y].blocks \/ Want("link", y, x) \in P)
               /\ There(gs, y) /\ x \in gs[y].blocks => There(gs, x) /\ y \in gs[x].dependsOn
    BY DEF LinksMeet
  <2>2. ASSUME There(gs, x), y \in gs[x].dependsOn PROVE There(gs, y) /\ (x \in gs[y].blocks \/ Want("link", y, x) \in P)
    <3>1. CASE x = t
      BY <1>2, <1>3, <2>2, <3>1
    <3>2. CASE x # t
      <4>1. There(fs, x) /\ y \in fs[x].dependsOn
        BY <1>3, <2>2, <3>2
      <4>2. There(fs, y) /\ x \in fs[y].blocks
        BY <4>1, NothingLeft
      <4> QED
        BY <1>3, <4>2
    <3> QED
      BY <3>1, <3>2
  <2>3. ASSUME There(gs, y), x \in gs[y].blocks PROVE There(gs, x) /\ y \in gs[x].dependsOn
    <3>1. y # t /\ There(fs, y) /\ x \in fs[y].blocks
      BY <1>2, <1>3, <2>3
    <3>2. There(fs, x) /\ y \in fs[x].dependsOn
      BY <3>1, NothingLeft
    <3> QED
      BY <1>3, <3>2
  <2> QED
    BY <2>2, <2>3
<1>6. DeletesAll(gs, P)
  BY <1>4 DEF DeletesAll, Want
<1>7. Sensible(gs, P, X)
  BY <1>2, <1>4 DEF Sensible
<1>8. Caused(gs, P, X)
  <2>1. SUFFICES ASSUME NEW x \in Tasks, There(gs, x), gs[x].status = "blocked", <<x, "held">> \notin X PROVE ~Fulfilled(gs, x)
    BY DEF Caused
  <2>2. x # t /\ There(fs, x) /\ gs[x] = fs[x]
    BY <1>2, <1>3, <2>1
  <2>3. PICK d \in fs[x].dependsOn : ~DoneIn(fs, d)
    BY <1>1, <2>1, <2>2 DEF Caused, Fulfilled
  <2>4. d \in Tasks
    BY <2>2, <2>3, TaskFields
  <2>5. There(fs, d)
    BY <2>2, <2>3, <2>4, NothingLeft
  <2>6. ~DoneIn(gs, d)
    BY <1>3, <2>3, <2>4, <2>5 DEF DoneIn
  <2> QED
    BY <2>2, <2>3, <2>6 DEF Fulfilled
<1>9. Placed(gs, X)
  <2>1. ListsWith(fs, t) = {}
    BY <1>1 DEF Placed
  <2>2. ListsWith(gs, t) = {l}
    BY <2>1 DEF ListsWith
  <2>3. \A x \in Tasks \ {t} : ListsWith(gs, x) = ListsWith(fs, x)
    BY DEF ListsWith
  <2> QED
    BY <1>1, <1>3, <2>2, <2>3 DEF Placed
<1>10. OneKind(P)
  BY <1>4 DEF OneKind
<1> QED
  BY <1>5, <1>6, <1>7, <1>8, <1>9, <1>10 DEF Consistent

\* A task is started, completed or blocked; those that it blocks are looked at
\* when it is done.
LEMMA StatusBegins ==
  ASSUME NamesAssumption, NEW fs, Stored(fs), NEW X, Consistent(fs, {}, X), NEW Y, X \subseteq Y, NEW t \in Tasks,
         NEW gs, SameTasks(fs, gs), SameDependsOn(fs, gs), SameBlocks(fs, gs), SameLists(fs, gs),
         \A x \in Tasks \ {t} : There(fs, x) => gs[x].status = fs[x].status,
         There(fs, t),
         gs[t].status = "blocked" => <<t, "held">> \in Y,
         NEW P, \A e \in P : e.do = "unblock",
         gs[t].status = "done" => \A b \in fs[t].blocks : \E y \in Tasks : Want("unblock", b, y) \in P
  PROVE  Consistent(gs, P, Y)
<1>1. LinksMeet(fs, {}) /\ Caused(fs, {}, X) /\ Placed(fs, X)
  BY DEF Consistent
<1>2. LinksMeet(gs, P)
  BY <1>1 DEF LinksMeet, SameTasks, SameDependsOn, SameBlocks
<1>3. DeletesAll(gs, P) /\ Sensible(gs, P, Y) /\ OneKind(P)
  BY DEF DeletesAll, Sensible, OneKind, Want
<1>4. Caused(gs, P, Y)
  <2>1. SUFFICES ASSUME NEW x \in Tasks, There(gs, x), gs[x].status = "blocked", <<x, "held">> \notin Y, Fulfilled(gs, x)
                 PROVE  \E y \in Tasks : Want("unblock", x, y) \in P
    BY DEF Caused
  <2>2. x # t /\ There(fs, x) /\ fs[x].status = "blocked" /\ <<x, "held">> \notin X
    BY <2>1 DEF SameTasks
  <2>3. PICK d \in fs[x].dependsOn : ~DoneIn(fs, d)
    BY <1>1, <2>2 DEF Caused, Fulfilled
  <2>4. d \in Tasks /\ d \in gs[x].dependsOn
    BY <2>2, <2>3, TaskFields DEF SameDependsOn
  <2>5. DoneIn(gs, d)
    BY <2>1, <2>4 DEF Fulfilled
  <2>6. d = t /\ gs[t].status = "done"
    BY <2>3, <2>4, <2>5 DEF DoneIn, SameTasks
  <2>7. x \in fs[t].blocks
    BY <2>2, <2>3, <2>4, <2>6, NothingLeft
  <2> QED
    BY <2>6, <2>7
<1>5. Placed(gs, X)
  BY <1>1, PlacesRemain
<1>6. Placed(gs, Y)
  BY <1>5 DEF Placed
<1> QED
  BY <1>2, <1>3, <1>4, <1>6 DEF Consistent

\* A dependency is added on both sides; the task will be blocked if it is not done.
LEMMA AddBegins ==
  ASSUME NamesAssumption, NEW fs, Stored(fs), NEW X, Consistent(fs, {}, X),
         NEW t \in Tasks, NEW d \in Tasks, There(fs, t), There(fs, d),
         NEW gs, SameTasks(fs, gs), SameStatus(fs, gs), SameLists(fs, gs),
         \A x \in Tasks \ {t} : There(fs, x) => gs[x].dependsOn = fs[x].dependsOn,
         \A x \in Tasks \ {d} : There(fs, x) => gs[x].blocks = fs[x].blocks,
         gs[t].dependsOn = fs[t].dependsOn \cup {d}, gs[d].blocks = fs[d].blocks \cup {t},
         NEW P, P = IF DoneIn(fs, d) THEN {} ELSE {Want("block", t, d)}
  PROVE  Consistent(gs, P, X)
<1>1. LinksMeet(fs, {}) /\ Caused(fs, {}, X) /\ Placed(fs, X)
  BY DEF Consistent
<1>2. \A e \in P : e.do = "block" /\ e.task = t /\ e.other = d /\ ~DoneIn(fs, d)
  BY DEF Want
<1>3. \A x \in Tasks : DoneIn(gs, x) <=> DoneIn(fs, x)
  BY DEF DoneIn, SameTasks, SameStatus
<1>4. LinksMeet(gs, P)
  <2>1. SUFFICES ASSUME NEW x \in Tasks, NEW y \in Tasks
        PROVE  /\ There(gs, x) /\ y \in gs[x].dependsOn => There(gs, y) /\ x \in gs[y].blocks
               /\ There(gs, y) /\ x \in gs[y].blocks => There(gs, x) /\ y \in gs[x].dependsOn
    BY DEF LinksMeet
  <2>2. ASSUME There(gs, x), y \in gs[x].dependsOn PROVE There(gs, y) /\ x \in gs[y].blocks
    <3>1. There(fs, x) /\ (y \in fs[x].dependsOn \/ (x = t /\ y = d))
      BY <2>2 DEF SameTasks
    <3>2. There(fs, y) /\ (x \in fs[y].blocks \/ (x = t /\ y = d))
      BY <3>1, NothingLeft
    <3> QED
      BY <3>2 DEF SameTasks
  <2>3. ASSUME There(gs, y), x \in gs[y].blocks PROVE There(gs, x) /\ y \in gs[x].dependsOn
    <3>1. There(fs, y) /\ (x \in fs[y].blocks \/ (x = t /\ y = d))
      BY <2>3 DEF SameTasks
    <3>2. There(fs, x) /\ (y \in fs[x].dependsOn \/ (x = t /\ y = d))
      BY <3>1, NothingLeft
    <3> QED
      BY <3>2 DEF SameTasks
  <2> QED
    BY <2>2, <2>3
<1>5. DeletesAll(gs, P) /\ OneKind(P)
  BY <1>2 DEF DeletesAll, OneKind, Want
<1>6. Sensible(gs, P, X)
  BY <1>2, <1>3 DEF Sensible, SameTasks
<1>7. Caused(gs, P, X)
  <2>1. SUFFICES ASSUME NEW x \in Tasks, There(gs, x), gs[x].status = "blocked", <<x, "held">> \notin X PROVE ~Fulfilled(gs, x)
    BY DEF Caused
  <2>2. There(fs, x) /\ fs[x].status = "blocked"
    BY <2>1 DEF SameTasks, SameStatus
  <2>3. PICK y \in fs[x].dependsOn : ~DoneIn(fs, y)
    BY <1>1, <2>1, <2>2 DEF Caused, Fulfilled
  <2>4. y \in Tasks
    BY <2>2, <2>3, TaskFields
  <2>5. y \in gs[x].dependsOn
    BY <2>2, <2>3
  <2> QED
    BY <1>3, <2>3, <2>4, <2>5 DEF Fulfilled
<1>8. Placed(gs, X)
  BY <1>1, PlacesRemain
<1> QED
  BY <1>4, <1>5, <1>6, <1>7, <1>8 DEF Consistent

\* A dependency is removed on both sides; a blocked task will be looked at.
LEMMA RemoveBegins ==
  ASSUME NamesAssumption, NEW fs, Stored(fs), NEW X, Consistent(fs, {}, X),
         NEW t \in Tasks, NEW d \in Tasks, There(fs, t), There(fs, d),
         NEW gs, SameTasks(fs, gs), SameStatus(fs, gs), SameLists(fs, gs),
         \A x \in Tasks \ {t} : There(fs, x) => gs[x].dependsOn = fs[x].dependsOn,
         \A x \in Tasks \ {d} : There(fs, x) => gs[x].blocks = fs[x].blocks,
         gs[t].dependsOn = fs[t].dependsOn \ {d}, gs[d].blocks = fs[d].blocks \ {t},
         NEW P, P = IF fs[t].status = "blocked" THEN {Want("unblock", t, d)} ELSE {}
  PROVE  Consistent(gs, P, X)
<1>1. LinksMeet(fs, {}) /\ Caused(fs, {}, X) /\ Placed(fs, X)
  BY DEF Consistent
<1>2. \A e \in P : e.do = "unblock"
  BY DEF Want
<1>3. \A x \in Tasks : DoneIn(gs, x) <=> DoneIn(fs, x)
  BY DEF DoneIn, SameTasks, SameStatus
<1>4. LinksMeet(gs, P)
  <2>1. SUFFICES ASSUME NEW x \in Tasks, NEW y \in Tasks
        PROVE  /\ There(gs, x) /\ y \in gs[x].dependsOn => There(gs, y) /\ x \in gs[y].blocks
               /\ There(gs, y) /\ x \in gs[y].blocks => There(gs, x) /\ y \in gs[x].dependsOn
    BY DEF LinksMeet
  <2>2. ASSUME There(gs, x), y \in gs[x].dependsOn PROVE There(gs, y) /\ x \in gs[y].blocks
    <3>1. There(fs, x) /\ y \in fs[x].dependsOn /\ ~(x = t /\ y = d)
      BY <2>2 DEF SameTasks
    <3>2. There(fs, y) /\ x \in fs[y].blocks
      BY <3>1, NothingLeft
    <3>3. x \in gs[y].blocks
      BY <3>1, <3>2
    <3> QED
      BY <3>2, <3>3 DEF SameTasks
  <2>3. ASSUME There(gs, y), x \in gs[y].blocks PROVE There(gs, x) /\ y \in gs[x].dependsOn
    <3>1. There(fs, y) /\ x \in fs[y].blocks /\ ~(x = t /\ y = d)
      BY <2>3 DEF SameTasks
    <3>2. There(fs, x) /\ y \in fs[x].dependsOn
      BY <3>1, NothingLeft
    <3>3. y \in gs[x].dependsOn
      BY <3>1, <3>2
    <3> QED
      BY <3>2, <3>3 DEF SameTasks
  <2> QED
    BY <2>2, <2>3
<1>5. DeletesAll(gs, P) /\ OneKind(P) /\ Sensible(gs, P, X)
  BY <1>2 DEF DeletesAll, OneKind, Want, Sensible
<1>7. Caused(gs, P, X)
  <2>1. SUFFICES ASSUME NEW x \in Tasks, There(gs, x), gs[x].status = "blocked", <<x, "held">> \notin X
                 PROVE  ~Fulfilled(gs, x) \/ \E y \in Tasks : Want("unblock", x, y) \in P
    BY DEF Caused
  <2>2. There(fs, x) /\ fs[x].status = "blocked"
    BY <2>1 DEF SameTasks, SameStatus
  <2>3. PICK y \in fs[x].dependsOn : ~DoneIn(fs, y)
    BY <1>1, <2>1, <2>2 DEF Caused, Fulfilled
  <2>4. y \in Tasks
    BY <2>2, <2>3, TaskFields
  <2>5. CASE x = t
    BY <2>2, <2>5
  <2>6. CASE x # t
    BY <1>3, <2>2, <2>3, <2>4, <2>6 DEF Fulfilled
  <2> QED
    BY <2>5, <2>6
<1>8. Placed(gs, X)
  BY <1>1, PlacesRemain
<1> QED
  BY <1>4, <1>5, <1>7, <1>8 DEF Consistent

\* A task is to be deleted: all that refer to it will be told.
LEMMA DeleteBegins ==
  ASSUME NamesAssumption, NEW fs, Stored(fs), NEW X, Consistent(fs, {}, X), NEW t \in Tasks, There(fs, t),
         NEW P, P = {Want("unlink", x, t) : x \in fs[t].dependsOn} \cup {Want("undepend", x, t) : x \in fs[t].blocks}
                      \cup {Want("drop", t, t)}
  PROVE  Consistent(fs, P, X \cup {<<b, "held">> : b \in fs[t].blocks})
<1>1. LinksMeet(fs, {}) /\ Caused(fs, {}, X) /\ Placed(fs, X)
  BY DEF Consistent
<1>2. Want("drop", t, t) \in P /\ \A e \in P : e = Want("drop", t, t) \/ (e.do \in {"unlink", "undepend"} /\ e.other = t)
  BY DEF Want
<1>3. OneKind(P)
  BY <1>2 DEF OneKind
<1>4. LinksMeet(fs, P)
  BY <1>1 DEF LinksMeet
<1>5. DeletesAll(fs, P)
  <2>1. \A x \in Tasks : Want("drop", x, x) \in P => x = t
    BY <1>2 DEF Want
  <2>2. SUFFICES ASSUME NEW b \in Tasks, There(fs, b)
                 PROVE  /\ t \in fs[b].blocks => Want("unlink", b, t) \in P
                        /\ t \in fs[b].dependsOn => Want("undepend", b, t) \in P
    BY <2>1 DEF DeletesAll
  <2> QED
    BY <2>2, NothingLeft
<1>6. Sensible(fs, P, X \cup {<<b, "held">> : b \in fs[t].blocks})
  <2>1. SUFFICES ASSUME NEW e \in P
                 PROVE  e.do \notin {"link", "block"} /\ (e.do = "undepend" => e.task \in fs[t].blocks)
    BY DEF Sensible
  <2> QED
    BY <2>1 DEF Want
<1>7. Caused(fs, P, X \cup {<<b, "held">> : b \in fs[t].blocks}) /\ Placed(fs, X \cup {<<b, "held">> : b \in fs[t].blocks})
  BY <1>1 DEF Caused, Placed
<1> QED
  BY <1>3, <1>4, <1>5, <1>6, <1>7 DEF Consistent

\* A task goes to another list, or to none.
LEMMA MoveBegins ==
  ASSUME NamesAssumption, NEW fs, Stored(fs), NEW X, Consistent(fs, {}, X), NEW Y, X \subseteq Y, NEW t \in Tasks, There(fs, t),
         NEW gs, \A x \in Tasks : gs[x] = fs[x],
         \A l \in Lists : \A x \in Tasks \ {t} : x \in gs[l].tasks <=> x \in fs[l].tasks,
         (\E l \in Lists : ListsWith(gs, t) = {l}) \/ (ListsWith(gs, t) = {} /\ <<t, "moved">> \in Y)
  PROVE  Consistent(gs, {}, Y)
<1>1. LinksMeet(fs, {}) /\ Caused(fs, {}, X) /\ Placed(fs, X)
  BY DEF Consistent
<1>2. SameTasks(fs, gs) /\ SameStatus(fs, gs) /\ SameDependsOn(fs, gs) /\ SameBlocks(fs, gs)
  BY DEF SameTasks, SameStatus, SameDependsOn, SameBlocks, There
<1>3. LinksMeet(gs, {})
  BY <1>1, <1>2 DEF LinksMeet, SameTasks, SameDependsOn, SameBlocks
<1>4. DeletesAll(gs, {}) /\ Sensible(gs, {}, Y) /\ OneKind({})
  BY DEF DeletesAll, Sensible, OneKind
<1>5. Caused(gs, {}, X)
  BY <1>1, <1>2, CausesRemain
<1>6. Caused(gs, {}, Y)
  BY <1>5 DEF Caused
<1>7. Placed(gs, Y)
  <2>1. \A x \in Tasks \ {t} : ListsWith(gs, x) = ListsWith(fs, x)
    BY DEF ListsWith
  <2> QED
    BY <1>1, <1>2, <2>1 DEF Placed, SameTasks
<1> QED
  BY <1>3, <1>4, <1>6, <1>7 DEF Consistent

\* What becomes of the files when a list is written, or a task deleted.
LEMMA ListWritten ==
  ASSUME NEW fs, Stored(fs), NEW l \in Lists, NEW r \in [tasks : SUBSET Tasks], NamesAssumption
  PROVE  /\ Stored(Put(fs, l, r)) /\ r \in Content /\ Fits(l, r)
         /\ Put(fs, l, r)[l] = r /\ \A t \in Tasks : Put(fs, l, r)[t] = fs[t]
         /\ \A k \in Lists : k # l => Put(fs, l, r)[k] = fs[k]
<1> DEFINE gs == Put(fs, l, r)
<1>1. r \in Content /\ Fits(l, r)
  BY DEF Content, Fits
<1>2. gs[l] = r /\ \A f \in Tasks \cup Lists : f # l => gs[f] = fs[f]
  BY DEF Stored, Put
<1>3. Stored(gs)
  BY <1>1, <1>2 DEF Stored, Put
<1> QED
  BY <1>1, <1>2, <1>3 DEF NamesAssumption

LEMMA NoWrites == <<>> \in Seq(Saving) /\ <<>> \in Seq(Wanted) /\ Elements(<<>>) = {} /\ DropsLast(<<>>)
BY DEF Elements, DropsLast

\* When no call runs, the files are consistent as they are.
LEMMA IdleConsistent ==
  ASSUME TasksInv, inTurn, NEW w \in Users, w = 1, pending[w] = Idle
  PROVE  Consistent(files, {}, excused)
<1>1. Consistent(After(files, <<>>), Elements(<<>>), excused) /\ Stored(files)
  BY DEF TasksInv, Idle, TasksTyped
<1> QED
  BY <1>1, AfterNothing, NoWrites

\* A call begins.
LEMMA OperationBegins ==
  ASSUME TasksInv, CallsAssumption, NEW w \in Users, NEW writes \in Seq(Saving), NEW todo \in Seq(Wanted),
         Begins(w, writes, todo),
         inTurn => Consistent(After(files, writes), Elements(todo), excused') /\ DropsLast(todo)
  PROVE  TasksInv'
<1>1. /\ begun < (IF inTurn THEN MaxCalls ELSE MaxOverlapping) /\ begun' = begun + 1
      /\ inTurn => w = 1
      /\ pending' = [pending EXCEPT ![w] = [writes |-> writes, todo |-> todo]]
      /\ files' = files /\ inTurn' = inTurn
  BY DEF Begins
<1>2. Stored(files) /\ pending \in [Users -> [writes : Seq(Saving), todo : Seq(Wanted)]] /\ begun \in 0..MaxCalls /\ inTurn \in BOOLEAN
  BY DEF TasksInv, TasksTyped
<1>3. begun' \in 0..MaxCalls
  BY <1>1, <1>2 DEF CallsAssumption
<1>4. [writes |-> writes, todo |-> todo] \in [writes : Seq(Saving), todo : Seq(Wanted)]
  OBVIOUS
<1>5. pending' \in [Users -> [writes : Seq(Saving), todo : Seq(Wanted)]]
  BY <1>1, <1>2, <1>4
<1>6. TasksTyped'
  BY <1>1, <1>2, <1>3, <1>5 DEF TasksTyped
<1>7. ASSUME inTurn
      PROVE  /\ \A u \in Users \ {1} : pending'[u] = Idle
             /\ DropsLast(pending'[1].todo)
             /\ Consistent(After(files', pending'[1].writes), Elements(pending'[1].todo), excused')
  <2>1. w = 1 /\ pending'[1].writes = writes /\ pending'[1].todo = todo /\ \A u \in Users \ {1} : pending'[u] = pending[u]
    BY <1>1, <1>2, <1>7
  <2> QED
    BY <1>1, <1>7, <2>1 DEF TasksInv
<1> QED
  BY <1>1, <1>6, <1>7 DEF TasksInv

\* A call writes what it was to write.
LEMMA FileWriteKeeps ==
  ASSUME TasksInv, NEW w \in Users, Write(w)
  PROVE  TasksInv'
<1>1. PICK writes : writes = pending[w].writes
  OBVIOUS
<1>2. Stored(files) /\ pending \in [Users -> [writes : Seq(Saving), todo : Seq(Wanted)]] /\ begun \in 0..MaxCalls /\ inTurn \in BOOLEAN
  BY DEF TasksInv, TasksTyped
<1>3. /\ writes \in Seq(Saving) /\ writes # <<>>
      /\ files' = Put(files, Head(writes).file, Head(writes).content)
      /\ pending' = [pending EXCEPT ![w].writes = Tail(writes)]
      /\ begun' = begun /\ excused' = excused /\ inTurn' = inTurn
  BY <1>1, <1>2 DEF Write, Put
<1>4. Tail(writes) \in Seq(Saving)
  BY <1>3
<1>5. Stored(files') /\ After(files, writes) = After(files', Tail(writes))
  BY <1>2, <1>3, AfterFirst
<1>6. pending' \in [Users -> [writes : Seq(Saving), todo : Seq(Wanted)]]
  BY <1>2, <1>3, <1>4
<1>7. TasksTyped'
  BY <1>2, <1>3, <1>5, <1>6 DEF TasksTyped
<1>8. ASSUME inTurn
      PROVE  /\ \A u \in Users \ {1} : pending'[u] = Idle
             /\ DropsLast(pending'[1].todo)
             /\ Consistent(After(files', pending'[1].writes), Elements(pending'[1].todo), excused')
  <2>1. w = 1
    BY <1>1, <1>3, <1>8 DEF TasksInv, Idle
  <2>2. pending'[1].writes = Tail(writes) /\ pending'[1].todo = pending[1].todo /\ \A u \in Users \ {1} : pending'[u] = pending[u]
    BY <1>2, <1>3, <2>1
  <2> QED
    BY <1>1, <1>3, <1>5, <1>8, <2>1, <2>2 DEF TasksInv
<1> QED
  BY <1>3, <1>7, <1>8 DEF TasksInv

\* Of what is there, by the names of the model and of the proof.
LEMMA SameWords ==
  /\ \A t : Exists(t) <=> There(files, t)
  /\ \A t : Done(t) <=> DoneIn(files, t)
  /\ \A t : Satisfied(t) <=> Fulfilled(files, t)
  /\ \A t : On(t) = ListsWith(files, t)
BY DEF Exists, There, Done, DoneIn, Satisfied, Fulfilled, On, ListsWith

LEMMA CreateTaskKeeps ==
  ASSUME TasksInv, NamesAssumption, NeverAssumption, CallsAssumption, NEW w \in Users,
         NEW t \in Tasks, NEW l \in Lists, NEW deps \in SUBSET Tasks, CreateTask(w, l, t, deps)
  PROVE  TasksInv'
<1>1. /\ files[t] = Never /\ ~There(files, t) /\ excused' = excused
      /\ \A d \in deps : There(files, d)
      /\ Stored(files)
  BY SameWords DEF CreateTask, Fresh, TasksInv, TasksTyped, There
<1>2. PICK order \in SetToSeqs(deps) : Begins(w, Save(t, NewTask(deps)) \o With(l, t), Each("link", order, t))
  BY DEF CreateTask
<1>3. IsFiniteSet(deps)
  BY FS_Subset DEF NamesAssumption
<1>4. /\ Each("link", order, t) \in Seq(Wanted)
      /\ Elements(Each("link", order, t)) = {Want("link", d, t) : d \in deps}
  BY <1>3, OrderMeetsAll, EachMeans
<1>5. NewTask(deps) \in Task /\ t \notin NewTask(deps).dependsOn
  BY <1>1 DEF NewTask, Task
<1>6. PICK r \in Task : r = NewTask(deps)
  BY <1>5
<1>16. PICK gs : gs = Put(files, t, r)
  OBVIOUS
<1>7. /\ Stored(gs) /\ r \in Content /\ Fits(t, r)
      /\ gs[t] = r /\ There(gs, t) /\ \A f \in Tasks \cup Lists : f # t => gs[f] = files[f]
  BY <1>1, <1>5, <1>6, <1>16, TaskWritten
<1>8. PICK c \in [tasks : SUBSET Tasks] : c = [tasks |-> files[l].tasks \cup {t}]
  <2>1. files[l].tasks \cup {t} \in SUBSET Tasks
    BY <1>1, ListFields
  <2> QED
    BY <2>1
<1>9. PICK hs : hs = Put(gs, l, c)
  OBVIOUS
<1>10. /\ c \in Content /\ Fits(l, c)
       /\ hs[l] = c /\ (\A x \in Tasks : hs[x] = gs[x]) /\ \A k \in Lists : k # l => hs[k] = gs[k]
  BY <1>7, <1>9, ListWritten
<1>11. With(l, t) = Save(l, c) /\ Save(l, c) \in Seq(Saving) /\ After(gs, Save(l, c)) = hs
  BY <1>7, <1>8, <1>9, <1>10, AfterOne DEF With
<1>12. PICK writes : writes = Save(t, r) \o With(l, t)
  OBVIOUS
<1>13. writes \in Seq(Saving) /\ After(files, writes) = hs
  BY <1>1, <1>7, <1>11, <1>12, <1>16, AfterSave
<1>14. ASSUME inTurn PROVE Consistent(hs, Elements(Each("link", order, t)), excused)
  <2>1. Consistent(files, {}, excused)
    BY <1>2, <1>14, IdleConsistent DEF Begins
  <2>2. /\ There(hs, t) /\ hs[t] = NewTask(deps) /\ \A x \in Tasks \ {t} : hs[x] = files[x]
        /\ hs[l].tasks = files[l].tasks \cup {t} /\ \A k \in Lists \ {l} : hs[k] = files[k]
    BY <1>6, <1>7, <1>8, <1>10 DEF There, NamesAssumption
  <2> QED
    BY <1>1, <1>4, <2>1, <2>2, CreateBegins
<1>15. DropsLast(Each("link", order, t))
  BY DEF DropsLast, Each
<1> QED
  BY <1>1, <1>2, <1>4, <1>6, <1>12, <1>13, <1>14, <1>15, OperationBegins

\* A task is written with another status.
LEMMA MarkedMeans ==
  ASSUME NamesAssumption, NeverAssumption, NEW t \in Tasks, Stored(files), There(files, t),
         NEW status \in {"open", "in-progress", "blocked", "done"}
  PROVE  /\ Marked(t, status) \in Seq(Saving)
         /\ \E gs :
              /\ After(files, Marked(t, status)) = gs /\ gs[t].status = status
              /\ SameTasks(files, gs) /\ SameDependsOn(files, gs) /\ SameBlocks(files, gs) /\ SameLists(files, gs)
              /\ \A x \in Tasks \ {t} : There(files, x) => gs[x].status = files[x].status
<1>1. files[t] \in Task /\ t \notin files[t].dependsOn
  BY TaskFields
<1>2. PICK r : r = [files[t] EXCEPT !.status = status]
  OBVIOUS
<1>3. r \in Task /\ r.status = status /\ r.dependsOn = files[t].dependsOn /\ r.blocks = files[t].blocks
  BY <1>1, <1>2 DEF Task
<1>4. PICK gs : gs = Put(files, t, r)
  OBVIOUS
<1>5. /\ r \in Content /\ Fits(t, r) /\ gs[t] = r /\ (\A f \in Tasks \cup Lists : f # t => gs[f] = files[f])
      /\ SameTasks(files, gs) /\ SameLists(files, gs)
  BY <1>1, <1>3, <1>4, TaskWritten
<1>6. Marked(t, status) \in Seq(Saving) /\ After(files, Marked(t, status)) = gs
  BY <1>2, <1>4, <1>5, AfterOne DEF Marked
<1>7. SameDependsOn(files, gs) /\ SameBlocks(files, gs) /\ \A x \in Tasks \ {t} : There(files, x) => gs[x].status = files[x].status
  BY <1>3, <1>5 DEF SameDependsOn, SameBlocks
<1> QED
  BY <1>3, <1>5, <1>6, <1>7

LEMMA StatusKeeps ==
  ASSUME TasksInv, NamesAssumption, NeverAssumption, CallsAssumption, NEW w \in Users, NEW t \in Tasks, There(files, t),
         NEW status \in {"open", "in-progress", "blocked", "done"}, NEW todo \in Seq(Wanted), Begins(w, Marked(t, status), todo),
         excused \subseteq excused', status = "blocked" => <<t, "held">> \in excused',
         \A e \in Elements(todo) : e.do = "unblock",
         status = "done" => \A b \in files[t].blocks : \E y \in Tasks : Want("unblock", b, y) \in Elements(todo)
  PROVE  TasksInv'
<1>1. Stored(files)
  BY DEF TasksInv, TasksTyped
<1>2. Marked(t, status) \in Seq(Saving)
  BY <1>1, MarkedMeans
<1>3. PICK gs :
        /\ After(files, Marked(t, status)) = gs /\ gs[t].status = status
        /\ SameTasks(files, gs) /\ SameDependsOn(files, gs) /\ SameBlocks(files, gs) /\ SameLists(files, gs)
        /\ \A x \in Tasks \ {t} : There(files, x) => gs[x].status = files[x].status
  BY <1>1, MarkedMeans
<1>4. PICK P, X : P = Elements(todo) /\ X = excused'
  OBVIOUS
<1>5. ASSUME inTurn PROVE Consistent(gs, P, X)
  <2>1. Consistent(files, {}, excused)
    BY <1>5, IdleConsistent DEF Begins
  <2> QED
    BY <1>1, <1>3, <1>4, <2>1, StatusBegins
<1>6. DropsLast(todo)
  BY DEF DropsLast, Elements
<1> QED
  BY <1>2, <1>3, <1>4, <1>5, <1>6, OperationBegins

LEMMA StartTaskKeeps ==
  ASSUME TasksInv, NamesAssumption, NeverAssumption, CallsAssumption, NEW w \in Users, NEW t \in Tasks, StartTask(w, t)
  PROVE  TasksInv'
BY SameWords, StatusKeeps, NoWrites DEF StartTask

LEMMA BlockTaskKeeps ==
  ASSUME TasksInv, NamesAssumption, NeverAssumption, CallsAssumption, NEW w \in Users, NEW t \in Tasks, BlockTask(w, t)
  PROVE  TasksInv'
BY SameWords, StatusKeeps, NoWrites DEF BlockTask

LEMMA CompleteTaskKeeps ==
  ASSUME TasksInv, NamesAssumption, NeverAssumption, CallsAssumption, NEW w \in Users, NEW t \in Tasks, CompleteTask(w, t)
  PROVE  TasksInv'
<1>1. There(files, t) /\ excused' = excused /\ Stored(files)
  BY SameWords DEF CompleteTask, TasksInv, TasksTyped
<1>2. PICK order \in SetToSeqs(files[t].blocks) : Begins(w, Marked(t, "done"), Each("unblock", order, t))
  BY DEF CompleteTask
<1>3. files[t].blocks \subseteq Tasks
  BY <1>1, TaskFields
<1>4. IsFiniteSet(files[t].blocks)
  BY <1>3, FS_Subset DEF NamesAssumption
<1>5. PICK todo : todo = Each("unblock", order, t)
  OBVIOUS
<1>6. todo \in Seq(Wanted) /\ Elements(todo) = {Want("unblock", x, t) : x \in files[t].blocks}
  BY <1>3, <1>4, <1>5, OrderMeetsAll, EachMeans
<1>7. \A e \in Elements(todo) : e.do = "unblock"
  BY <1>6 DEF Want
<1> QED
  BY <1>1, <1>2, <1>5, <1>6, <1>7, StatusKeeps

\* Two tasks are written, one after the other.
LEMMA TwoWritten ==
  ASSUME NamesAssumption, NeverAssumption, NEW fs, Stored(fs), NEW t \in Tasks, NEW d \in Tasks, t # d, There(fs, t), There(fs, d),
         NEW r \in Task, t \notin r.dependsOn, NEW s \in Task, d \notin s.dependsOn
  PROVE  /\ Save(t, r) \o Save(d, s) \in Seq(Saving) /\ Save(t, r) \o <<>> \in Seq(Saving)
         /\ \E gs :
              /\ After(fs, Save(t, r) \o Save(d, s)) = gs /\ gs[t] = r /\ gs[d] = s
              /\ SameTasks(fs, gs) /\ SameLists(fs, gs) /\ \A x \in Tasks \ {t, d} : gs[x] = fs[x]
         /\ \E gs :
              /\ After(fs, Save(t, r) \o <<>>) = gs /\ gs[t] = r
              /\ SameTasks(fs, gs) /\ SameLists(fs, gs) /\ \A x \in Tasks \ {t} : gs[x] = fs[x]
<1>1. PICK hs, gs : hs = Put(fs, t, r) /\ gs = Put(hs, d, s)
  OBVIOUS
<1>2. /\ Stored(hs) /\ r \in Content /\ Fits(t, r) /\ hs[t] = r /\ (\A f \in Tasks \cup Lists : f # t => hs[f] = fs[f])
      /\ SameTasks(fs, hs) /\ SameLists(fs, hs)
  BY <1>1, TaskWritten
<1>3. There(hs, d)
  BY <1>2 DEF SameTasks
<1>4. /\ Stored(gs) /\ s \in Content /\ Fits(d, s) /\ gs[d] = s /\ (\A f \in Tasks \cup Lists : f # d => gs[f] = hs[f])
      /\ SameTasks(hs, gs) /\ SameLists(hs, gs)
  BY <1>1, <1>2, <1>3, TaskWritten
<1>5. Save(d, s) \in Seq(Saving) /\ After(hs, Save(d, s)) = gs
  BY <1>1, <1>2, <1>4, AfterOne
<1>6. Save(t, r) \o Save(d, s) \in Seq(Saving) /\ After(fs, Save(t, r) \o Save(d, s)) = gs
  BY <1>1, <1>2, <1>5, AfterSave
<1>7. Save(t, r) \o <<>> \in Seq(Saving) /\ After(fs, Save(t, r) \o <<>>) = After(hs, <<>>)
  <2>1. PICK nothing \in Seq(Saving) : nothing = <<>>
    BY NoWrites
  <2>2. Save(t, r) \o nothing \in Seq(Saving) /\ After(fs, Save(t, r) \o nothing) = After(hs, nothing)
    BY <1>1, <1>2, AfterSave
  <2> QED
    BY <2>1, <2>2
<1>8. After(hs, <<>>) = hs
  BY <1>2, AfterNothing
<1>9. SameTasks(fs, gs) /\ SameLists(fs, gs) /\ gs[t] = r /\ \A x \in Tasks \ {t, d} : gs[x] = fs[x]
  BY <1>2, <1>4 DEF SameTasks, SameLists
<1>10. \A x \in Tasks \ {t} : hs[x] = fs[x]
  BY <1>2
<1>11. \E g : /\ After(fs, Save(t, r) \o Save(d, s)) = g /\ g[t] = r /\ g[d] = s
              /\ SameTasks(fs, g) /\ SameLists(fs, g) /\ \A x \in Tasks \ {t, d} : g[x] = fs[x]
  BY <1>4, <1>6, <1>9
<1>12. \E g : /\ After(fs, Save(t, r) \o <<>>) = g /\ g[t] = r
              /\ SameTasks(fs, g) /\ SameLists(fs, g) /\ \A x \in Tasks \ {t} : g[x] = fs[x]
  BY <1>2, <1>7, <1>8, <1>10
<1> QED
  BY <1>6, <1>7, <1>11, <1>12

\* One thing to be done later.
LEMMA OneLater ==
  ASSUME NEW what \in {"link", "unlink", "undepend", "block", "unblock", "drop"}, NEW t \in Tasks, NEW d \in Tasks
  PROVE  Each(what, <<t>>, d) \in Seq(Wanted) /\ Elements(Each(what, <<t>>, d)) = {Want(what, t, d)} /\ Len(Each(what, <<t>>, d)) = 1
<1>1. PICK order : order = <<t>>
  OBVIOUS
<1>2. order \in Seq({t}) /\ Len(order) = 1 /\ 1 \in DOMAIN order /\ order[1] = t
  BY <1>1
<1>3. Each(what, order, d) \in Seq(Wanted) /\ Elements(Each(what, order, d)) = {Want(what, x, d) : x \in {t}} /\ Len(Each(what, order, d)) = Len(order)
  BY <1>2, EachMeans
<1> QED
  BY <1>1, <1>2, <1>3

LEMMA AddDependencyKeeps ==
  ASSUME TasksInv, NamesAssumption, NeverAssumption, CallsAssumption, NEW w \in Users, NEW t \in Tasks, NEW d \in Tasks, AddDependency(w, t, d)
  PROVE  TasksInv'
<1>1. There(files, t) /\ There(files, d) /\ t # d /\ excused' = excused /\ Stored(files)
  BY SameWords DEF AddDependency, CanDepend, TasksInv, TasksTyped
<1>2. PICK r, s, rest, todo :
        /\ r = [files[t] EXCEPT !.dependsOn = @ \cup {d}] /\ s = [files[d] EXCEPT !.blocks = @ \cup {t}]
        /\ rest = (IF t \notin files[d].blocks THEN Save(d, s) ELSE <<>>)
        /\ todo = IF ~DoneIn(files, d) THEN Each("block", <<t>>, d) ELSE <<>>
  OBVIOUS
<1>3. Begins(w, Save(t, r) \o rest, todo)
  BY <1>2, SameWords DEF AddDependency, BlocksIt, If
<1>4. /\ files[t] \in Task /\ t \notin files[t].dependsOn /\ files[d] \in Task /\ d \notin files[d].dependsOn
  BY <1>1, TaskFields
<1>5. /\ r \in Task /\ r.status = files[t].status /\ r.dependsOn = files[t].dependsOn \cup {d} /\ r.blocks = files[t].blocks
      /\ s \in Task /\ s.status = files[d].status /\ s.dependsOn = files[d].dependsOn /\ s.blocks = files[d].blocks \cup {t}
  BY <1>2, <1>4 DEF Task
<1>6. t \notin r.dependsOn /\ d \notin s.dependsOn
  BY <1>1, <1>4, <1>5
<1>7. Save(t, r) \o rest \in Seq(Saving)
  <2>1. Save(t, r) \o Save(d, s) \in Seq(Saving) /\ Save(t, r) \o <<>> \in Seq(Saving)
    BY <1>1, <1>5, <1>6, TwoWritten
  <2> QED
    BY <1>2, <2>1
<1>8. PICK gs :
        /\ After(files, Save(t, r) \o rest) = gs /\ gs[t] = r /\ SameTasks(files, gs) /\ SameLists(files, gs)
        /\ \A x \in Tasks \ {t, d} : gs[x] = files[x]
        /\ gs[d].status = files[d].status /\ gs[d].dependsOn = files[d].dependsOn /\ gs[d].blocks = files[d].blocks \cup {t}
  <2>1. CASE t \notin files[d].blocks
    <3>1. PICK gs :
            /\ After(files, Save(t, r) \o Save(d, s)) = gs /\ gs[t] = r /\ gs[d] = s
            /\ SameTasks(files, gs) /\ SameLists(files, gs) /\ \A x \in Tasks \ {t, d} : gs[x] = files[x]
      BY <1>1, <1>5, <1>6, TwoWritten
    <3> QED
      BY <1>2, <1>5, <2>1, <3>1
  <2>2. CASE t \in files[d].blocks
    <3>1. PICK gs :
            /\ After(files, Save(t, r) \o <<>>) = gs /\ gs[t] = r
            /\ SameTasks(files, gs) /\ SameLists(files, gs) /\ \A x \in Tasks \ {t} : gs[x] = files[x]
      BY <1>1, <1>5, <1>6, TwoWritten
    <3>2. gs[d] = files[d] /\ files[d].blocks = files[d].blocks \cup {t}
      BY <1>1, <2>2, <3>1
    <3> QED
      BY <1>2, <2>2, <3>1, <3>2
  <2> QED
    BY <2>1, <2>2
<1>9. PICK P : P = IF DoneIn(files, d) THEN {} ELSE {Want("block", t, d)}
  OBVIOUS
<1>10. todo \in Seq(Wanted) /\ Elements(todo) = P
  BY <1>2, <1>9, OneLater, NoWrites
<1>11. DropsLast(todo)
  BY <1>2, NoWrites DEF DropsLast, Each
<1>12. ASSUME inTurn PROVE Consistent(gs, P, excused)
  <2>1. Consistent(files, {}, excused)
    BY <1>3, <1>12, IdleConsistent DEF Begins
  <2>2. /\ SameStatus(files, gs)
        /\ \A x \in Tasks \ {t} : There(files, x) => gs[x].dependsOn = files[x].dependsOn
        /\ \A x \in Tasks \ {d} : There(files, x) => gs[x].blocks = files[x].blocks
        /\ gs[t].dependsOn = files[t].dependsOn \cup {d}
    BY <1>1, <1>5, <1>8 DEF SameStatus
  <2> QED
    BY <1>1, <1>8, <1>9, <2>1, <2>2, AddBegins
<1> QED
  BY <1>1, <1>3, <1>7, <1>8, <1>10, <1>11, <1>12, OperationBegins

LEMMA RemoveDependencyKeeps ==
  ASSUME TasksInv, NamesAssumption, NeverAssumption, CallsAssumption, NEW w \in Users, NEW t \in Tasks, NEW d \in Tasks, RemoveDependency(w, t, d)
  PROVE  TasksInv'
<1>1. There(files, t) /\ d \in files[t].dependsOn /\ excused' = excused /\ Stored(files)
  BY SameWords DEF RemoveDependency, TasksInv, TasksTyped
<1>2. PICK r, s, rest, todo :
        /\ r = [files[t] EXCEPT !.dependsOn = @ \ {d}] /\ s = [files[d] EXCEPT !.blocks = @ \ {t}]
        /\ rest = (IF There(files, d) THEN Save(d, s) ELSE <<>>)
        /\ todo = IF files[t].status = "blocked" THEN Each("unblock", <<t>>, d) ELSE <<>>
  OBVIOUS
<1>3. Begins(w, Save(t, r) \o rest, todo)
  BY <1>2, SameWords DEF RemoveDependency, If
<1>4. files[t] \in Task /\ t \notin files[t].dependsOn /\ d # t
  BY <1>1, TaskFields
<1>5. r \in Task /\ r.status = files[t].status /\ r.dependsOn = files[t].dependsOn \ {d} /\ r.blocks = files[t].blocks /\ t \notin r.dependsOn
  BY <1>2, <1>4 DEF Task
<1>6. There(files, d) => /\ s \in Task /\ s.status = files[d].status /\ s.dependsOn = files[d].dependsOn /\ s.blocks = files[d].blocks \ {t}
                         /\ d \notin s.dependsOn
  <2>1. SUFFICES ASSUME There(files, d) PROVE files[d] \in Task /\ d \notin files[d].dependsOn
    BY <1>2 DEF Task
  <2> QED
    BY <1>1, <2>1, TaskFields
<1>7. Save(t, r) \o rest \in Seq(Saving)
  <2>1. CASE There(files, d)
    BY <1>1, <1>2, <1>4, <1>5, <1>6, <2>1, TwoWritten
  <2>2. CASE ~There(files, d)
    <3>1. r \in Content /\ Fits(t, r)
      BY <1>1, <1>5, TaskWritten
    <3> QED
      BY <1>1, <1>2, <2>2, <3>1, AfterSave, NoWrites
  <2> QED
    BY <2>1, <2>2
<1>9. PICK P : P = IF files[t].status = "blocked" THEN {Want("unblock", t, d)} ELSE {}
  OBVIOUS
<1>10. todo \in Seq(Wanted) /\ Elements(todo) = P
  BY <1>2, <1>9, OneLater, NoWrites
<1>11. DropsLast(todo)
  BY <1>2, NoWrites DEF DropsLast, Each
<1>12. ASSUME inTurn PROVE Consistent(After(files, Save(t, r) \o rest), P, excused)
  <2>1. Consistent(files, {}, excused)
    BY <1>3, <1>12, IdleConsistent DEF Begins
  <2>2. There(files, d)
    BY <1>1, <2>1, NothingLeft
  <2>3. PICK gs :
          /\ After(files, Save(t, r) \o Save(d, s)) = gs /\ gs[t] = r /\ gs[d] = s
          /\ SameTasks(files, gs) /\ SameLists(files, gs) /\ \A x \in Tasks \ {t, d} : gs[x] = files[x]
    BY <1>1, <1>4, <1>5, <1>6, <2>2, TwoWritten
  <2>4. /\ SameStatus(files, gs)
        /\ \A x \in Tasks \ {t} : There(files, x) => gs[x].dependsOn = files[x].dependsOn
        /\ \A x \in Tasks \ {d} : There(files, x) => gs[x].blocks = files[x].blocks
        /\ gs[t].dependsOn = files[t].dependsOn \ {d} /\ gs[d].blocks = files[d].blocks \ {t}
    BY <1>1, <1>5, <1>6, <2>2, <2>3 DEF SameStatus
  <2>5. Consistent(gs, P, excused)
    BY <1>1, <1>9, <2>1, <2>2, <2>3, <2>4, RemoveBegins
  <2> QED
    BY <1>2, <2>2, <2>3, <2>5
<1> QED
  BY <1>1, <1>3, <1>7, <1>10, <1>11, <1>12, OperationBegins

LEMMA DeleteTaskKeeps ==
  ASSUME TasksInv, NamesAssumption, NeverAssumption, CallsAssumption, NEW w \in Users, NEW t \in Tasks, DeleteTask(w, t)
  PROVE  TasksInv'
<1>1. There(files, t) /\ Stored(files) /\ excused' = excused \cup {<<b, "held">> : b \in files[t].blocks}
  BY SameWords DEF DeleteTask, TasksInv, TasksTyped
<1>2. PICK dependsOn \in SetToSeqs(files[t].dependsOn), blocks \in SetToSeqs(files[t].blocks) :
        Begins(w, <<>>, Each("unlink", dependsOn, t) \o Each("undepend", blocks, t) \o Each("drop", <<t>>, t))
  BY DEF DeleteTask
<1>3. files[t].dependsOn \subseteq Tasks /\ files[t].blocks \subseteq Tasks
  BY <1>1, TaskFields
<1>4. IsFiniteSet(files[t].dependsOn) /\ IsFiniteSet(files[t].blocks)
  BY <1>3, FS_Subset DEF NamesAssumption
<1>5. PICK s, u, v : s = Each("unlink", dependsOn, t) /\ u = Each("undepend", blocks, t) /\ v = Each("drop", <<t>>, t)
  OBVIOUS
<1>6. s \in Seq(Wanted) /\ Elements(s) = {Want("unlink", x, t) : x \in files[t].dependsOn}
  <2>1. PICK S : S = files[t].dependsOn
    OBVIOUS
  <2>2. dependsOn \in Seq(S) /\ \A x \in S : \E i \in DOMAIN dependsOn : dependsOn[i] = x
    BY <1>4, <2>1, OrderMeetsAll
  <2>3. Each("unlink", dependsOn, t) \in Seq(Wanted) /\ Elements(Each("unlink", dependsOn, t)) = {Want("unlink", x, t) : x \in S}
    BY <1>3, <2>1, <2>2, EachMeans
  <2> QED
    BY <1>5, <2>1, <2>3
<1>7. u \in Seq(Wanted) /\ Elements(u) = {Want("undepend", x, t) : x \in files[t].blocks}
  <2>1. PICK S : S = files[t].blocks
    OBVIOUS
  <2>2. blocks \in Seq(S) /\ \A x \in S : \E i \in DOMAIN blocks : blocks[i] = x
    BY <1>4, <2>1, OrderMeetsAll
  <2>3. Each("undepend", blocks, t) \in Seq(Wanted) /\ Elements(Each("undepend", blocks, t)) = {Want("undepend", x, t) : x \in S}
    BY <1>3, <2>1, <2>2, EachMeans
  <2> QED
    BY <1>5, <2>1, <2>3
<1>8. v \in Seq(Wanted) /\ Elements(v) = {Want("drop", t, t)} /\ Len(v) = 1
  BY <1>5, OneLater
<1>9. PICK p : p = s \o u
  OBVIOUS
<1>10. p \in Seq(Wanted) /\ Elements(p) = Elements(s) \cup Elements(u)
  BY <1>6, <1>7, <1>9, ElementsJoin
<1>11. PICK todo : todo = p \o v
  OBVIOUS
<1>12. todo \in Seq(Wanted) /\ Elements(todo) = Elements(p) \cup Elements(v)
  BY <1>8, <1>10, <1>11, ElementsJoin
<1>14. DropsLast(todo)
  <2>1. PICK n \in Nat : n = Len(p)
    BY <1>10
  <2>2. \A e \in Elements(p) : e.do # "drop"
    BY <1>6, <1>7, <1>10 DEF Want
  <2>3. DOMAIN p = 1..n
    BY <1>10, <2>1
  <2>4. \A i \in 1..n : p[i].do # "drop"
    <3>1. \A i \in 1..n : p[i] \in Elements(p)
      BY <2>3 DEF Elements
    <3> QED
      BY <2>2, <3>1
  <2>5. Len(todo) = n + 1 /\ DOMAIN todo = 1..(n + 1) /\ \A i \in 1..n : todo[i] = p[i]
    <3>1. Longer(p \o v, p, v[1])
      BY <1>8, <1>10, EndsWith
    <3>2. Longer(todo, p, v[1])
      BY <1>11, <3>1
    <3> QED
      BY <2>1, <3>2 DEF Longer
  <2>6. \A i \in 1..(n + 1) : i \in 1..n \/ i = n + 1
    BY <2>1
  <2> QED
    BY <2>4, <2>5, <2>6 DEF DropsLast
<1>13. ASSUME inTurn PROVE Consistent(files, Elements(todo), excused')
  <2>1. Consistent(files, {}, excused)
    BY <1>2, <1>13, IdleConsistent DEF Begins
  <2> QED
    BY <1>1, <1>6, <1>7, <1>8, <1>10, <1>12, <2>1, DeleteBegins
<1>15. Begins(w, <<>>, todo)
  BY <1>2, <1>5, <1>9, <1>11
<1>16. After(files, <<>>) = files
  BY <1>1, AfterNothing
<1> QED
  BY <1>12, <1>13, <1>14, <1>15, <1>16, NoWrites, OperationBegins

LEMMA MoveTaskKeeps ==
  ASSUME TasksInv, NamesAssumption, NeverAssumption, CallsAssumption, NEW w \in Users, NEW t \in Tasks, NEW l \in Lists, MoveTask(w, t, l)
  PROVE  TasksInv'
<1>1. There(files, t) /\ Stored(files) /\ excused' = (IF l \in On(t) THEN excused \cup {<<t, "moved">>} ELSE excused)
  BY SameWords DEF MoveTask, TasksInv, TasksTyped
<1>2. PICK old \in Lists : (old \in On(t) \/ On(t) = {}) /\ Begins(w, MovesTo(t, l, old) \o Save(t, files[t]), <<>>)
  BY DEF MoveTask
<1>3. PICK c \in [tasks : SUBSET Tasks], b \in [tasks : SUBSET Tasks] : c = [tasks |-> files[old].tasks \ {t}] /\ b = [tasks |-> files[l].tasks \cup {t}]
  <2>1. files[l].tasks \cup {t} \in SUBSET Tasks /\ files[old].tasks \ {t} \in SUBSET Tasks
    BY <1>1, ListFields
  <2> QED
    BY <2>1
<1>4. PICK gs : gs = IF old \in On(t) THEN Put(files, old, c) ELSE files
  OBVIOUS
<1>5. PICK hs : hs = IF l \notin On(t) THEN Put(gs, l, b) ELSE gs
  OBVIOUS
<1>6. /\ c \in Content /\ Fits(old, c) /\ b \in Content /\ Fits(l, b) /\ Stored(gs) /\ Stored(hs)
      /\ \A x \in Tasks : gs[x] = files[x] /\ hs[x] = files[x]
      /\ \A k \in Lists : gs[k] = IF k = old /\ old \in On(t) THEN c ELSE files[k]
      /\ \A k \in Lists : hs[k] = IF k = l /\ l \notin On(t) THEN b ELSE gs[k]
  <2>1. /\ c \in Content /\ Fits(old, c) /\ Stored(gs) /\ \A x \in Tasks : gs[x] = files[x]
        /\ \A k \in Lists : gs[k] = IF k = old /\ old \in On(t) THEN c ELSE files[k]
    <3>1. /\ Stored(Put(files, old, c)) /\ c \in Content /\ Fits(old, c)
          /\ Put(files, old, c)[old] = c /\ (\A x \in Tasks : Put(files, old, c)[x] = files[x])
          /\ \A k \in Lists : k # old => Put(files, old, c)[k] = files[k]
      BY <1>1, ListWritten
    <3>2. CASE old \in On(t)
      BY <1>4, <3>1, <3>2
    <3>3. CASE old \notin On(t)
      BY <1>1, <1>4, <3>1, <3>3
    <3> QED
      BY <3>2, <3>3
  <2>2. /\ b \in Content /\ Fits(l, b) /\ Stored(hs) /\ \A x \in Tasks : hs[x] = gs[x]
        /\ \A k \in Lists : hs[k] = IF k = l /\ l \notin On(t) THEN b ELSE gs[k]
    BY <1>5, <2>1, ListWritten
  <2> QED
    BY <2>1, <2>2
<1>7. PICK r \in Task : r = files[t] /\ t \notin r.dependsOn
  BY <1>1, TaskFields
<1>8. Save(t, r) \in Seq(Saving) /\ After(hs, Save(t, r)) = Put(hs, t, r) /\ r \in Content /\ Fits(t, r)
  BY <1>1, <1>6, <1>7, AfterOne, TaskWritten
<1>9. PICK is : is = Put(hs, t, r)
  OBVIOUS
<1>10. (\A x \in Tasks : is[x] = files[x]) /\ \A k \in Lists : is[k] = hs[k]
  BY <1>6, <1>7, <1>9, TaskWritten DEF SameLists
<1>11. PICK one, two : one = (IF old \in On(t) THEN Save(old, c) ELSE <<>>) /\ two = (IF l \notin On(t) THEN Save(l, b) ELSE <<>>)
  OBVIOUS
<1>12. MovesTo(t, l, old) \o Save(t, files[t]) = one \o (two \o Save(t, r)) /\ one \in Seq(Saving) /\ two \in Seq(Saving)
  <2>1. one \in Seq(Saving) /\ two \in Seq(Saving)
    BY <1>1, <1>6, <1>11, AfterOne, NoWrites
  <2>2. MovesTo(t, l, old) = one \o two
    BY <1>3, <1>11 DEF MovesTo, If, Without, With
  <2>3. (one \o two) \o Save(t, r) = one \o (two \o Save(t, r))
    BY <1>8, <2>1
  <2> QED
    BY <1>7, <2>1, <2>2, <2>3
<1>13. two \o Save(t, r) \in Seq(Saving) /\ After(gs, two \o Save(t, r)) = is
  <2>1. CASE l \notin On(t)
    BY <1>5, <1>6, <1>8, <1>9, <1>11, <2>1, AfterSave
  <2>2. CASE l \in On(t)
    <3>1. two \o Save(t, r) = Save(t, r)
      BY <1>8, <1>11, <2>2
    <3> QED
      BY <1>5, <1>8, <1>9, <2>2, <3>1
  <2> QED
    BY <2>1, <2>2
<1>14. PICK last : last = two \o Save(t, r)
  OBVIOUS
<1>15. one \o last \in Seq(Saving) /\ After(files, one \o last) = is
  <2>1. CASE old \in On(t)
    <3>1. one = Save(old, c) /\ gs = Put(files, old, c) /\ last \in Seq(Saving) /\ After(gs, last) = is
      BY <1>4, <1>11, <1>13, <1>14, <2>1
    <3>2. Save(old, c) \o last \in Seq(Saving) /\ After(files, Save(old, c) \o last) = After(Put(files, old, c), last)
      BY <1>1, <1>6, <3>1, AfterSave
    <3> QED
      BY <3>1, <3>2
  <2>2. CASE old \notin On(t)
    <3>1. one \o last = last
      BY <1>11, <1>13, <1>14, <2>2
    <3> QED
      BY <1>4, <1>13, <1>14, <2>2, <3>1
  <2> QED
    BY <2>1, <2>2
<1>16. ASSUME inTurn PROVE Consistent(is, {}, excused')
  <2>1. Consistent(files, {}, excused)
    BY <1>2, <1>16, IdleConsistent DEF Begins
  <2>2. \A k \in Lists : \A x \in Tasks \ {t} : x \in is[k].tasks <=> x \in files[k].tasks
    BY <1>3, <1>6, <1>10
  <2>3. On(t) = ListsWith(files, t)
    BY SameWords
  <2>4. (\E k \in Lists : On(t) = {k}) \/ On(t) = {}
    BY <1>1, <2>1, <2>3 DEF Consistent, Placed
  <2>5. \A k \in Lists : t \in files[k].tasks <=> k \in On(t)
    BY DEF On
  <2>6. CASE l \in On(t)
    <3>1. On(t) = {l} /\ old = l
      BY <1>2, <2>4, <2>6
    <3>2. \A k \in Lists : t \notin is[k].tasks
      BY <1>3, <1>6, <1>10, <2>5, <3>1
    <3>3. ListsWith(is, t) = {} /\ <<t, "moved">> \in excused'
      BY <1>1, <2>6, <3>2 DEF ListsWith
    <3> QED
      BY <1>1, <1>10, <2>1, <2>2, <2>6, <3>3, MoveBegins
  <2>7. CASE l \notin On(t)
    <3>1. \A k \in Lists \ {l} : t \notin is[k].tasks
      BY <1>2, <1>3, <1>6, <1>10, <2>4, <2>5
    <3>2. t \in is[l].tasks
      BY <1>3, <1>6, <1>10, <2>7
    <3>3. ListsWith(is, t) = {l}
      BY <3>1, <3>2 DEF ListsWith
    <3> QED
      BY <1>1, <1>10, <2>1, <2>2, <2>7, <3>3, MoveBegins
  <2> QED
    BY <2>6, <2>7
<1> QED
  BY <1>1, <1>2, <1>12, <1>14, <1>15, <1>16, NoWrites, OperationBegins

\* A task is written with other fields.
LEMMA TaskSaved ==
  ASSUME NamesAssumption, NeverAssumption, Stored(files), NEW t \in Tasks, There(files, t), NEW r \in Task, t \notin r.dependsOn
  PROVE  /\ Save(t, r) \in Seq(Saving)
         /\ \E gs :
              /\ After(files, Save(t, r)) = gs /\ gs[t] = r
              /\ SameTasks(files, gs) /\ SameLists(files, gs) /\ \A x \in Tasks \ {t} : gs[x] = files[x]
<1>1. PICK gs : gs = Put(files, t, r)
  OBVIOUS
<1>2. r \in Content /\ Fits(t, r) /\ gs[t] = r /\ SameTasks(files, gs) /\ SameLists(files, gs)
      /\ \A f \in Tasks \cup Lists : f # t => gs[f] = files[f]
  BY <1>1, TaskWritten
<1>3. Save(t, r) \in Seq(Saving) /\ After(files, Save(t, r)) = gs
  BY <1>1, <1>2, AfterOne
<1> QED
  BY <1>2, <1>3

\* What the files will be like when nothing is written.
LEMMA NothingSaved ==
  ASSUME Stored(files)
  PROVE  /\ <<>> \in Seq(Saving) /\ After(files, <<>>) = files
         /\ SameTasks(files, files) /\ SameStatus(files, files) /\ SameDependsOn(files, files)
         /\ SameBlocks(files, files) /\ SameLists(files, files)
BY AfterNothing, NoWrites DEF SameTasks, SameStatus, SameDependsOn, SameBlocks, SameLists

\* The dependencies, or what it blocks, of one task change.
OthersBlock(fs, gs, d) == \A x \in Tasks \ {d} : There(fs, x) => gs[x].blocks = fs[x].blocks
OthersDepend(fs, gs, d) == \A x \in Tasks \ {d} : There(fs, x) => gs[x].dependsOn = fs[x].dependsOn
OthersStatus(fs, gs, d) == \A x \in Tasks \ {d} : There(fs, x) => gs[x].status = fs[x].status

LEMMA LinkedMeans ==
  ASSUME NamesAssumption, NeverAssumption, Stored(files), NEW d \in Tasks, NEW t \in Tasks
  PROVE  /\ Linked(d, t) \in Seq(Saving)
         /\ \E gs :
              /\ After(files, Linked(d, t)) = gs
              /\ SameTasks(files, gs) /\ SameStatus(files, gs) /\ SameDependsOn(files, gs) /\ SameLists(files, gs)
              /\ OthersBlock(files, gs, d) /\ (There(files, d) => gs[d].blocks = files[d].blocks \cup {t})
<1>1. CASE There(files, d) /\ t \notin files[d].blocks
  <2>1. files[d] \in Task /\ d \notin files[d].dependsOn
    BY <1>1, TaskFields
  <2>2. PICK r : r = [files[d] EXCEPT !.blocks = @ \cup {t}]
    OBVIOUS
  <2>3. r \in Task /\ r.status = files[d].status /\ r.dependsOn = files[d].dependsOn /\ r.blocks = files[d].blocks \cup {t}
    BY <2>1, <2>2 DEF Task
  <2>4. Linked(d, t) = Save(d, r)
    BY <1>1, <2>2, SameWords DEF Linked, If
  <2>5. Save(d, r) \in Seq(Saving)
    BY <1>1, <2>1, <2>3, TaskSaved
  <2>6. PICK gs :
          /\ After(files, Save(d, r)) = gs /\ gs[d] = r
          /\ SameTasks(files, gs) /\ SameLists(files, gs) /\ \A x \in Tasks \ {d} : gs[x] = files[x]
    BY <1>1, <2>1, <2>3, TaskSaved
  <2>7. SameStatus(files, gs) /\ SameDependsOn(files, gs) /\ OthersBlock(files, gs, d) /\ gs[d].blocks = files[d].blocks \cup {t}
    BY <2>3, <2>6 DEF SameStatus, SameDependsOn, OthersBlock
  <2> QED
    BY <2>4, <2>5, <2>6, <2>7
<1>2. CASE ~(There(files, d) /\ t \notin files[d].blocks)
  <2>1. Linked(d, t) = <<>>
    BY <1>2, SameWords DEF Linked, If
  <2>2. There(files, d) => files[d].blocks = files[d].blocks \cup {t}
    BY <1>2
  <2> QED
    BY <2>1, <2>2, NothingSaved DEF OthersBlock
<1> QED
  BY <1>1, <1>2

LEMMA UnlinkedMeans ==
  ASSUME NamesAssumption, NeverAssumption, Stored(files), NEW d \in Tasks, NEW t \in Tasks
  PROVE  /\ Unlinked(d, t) \in Seq(Saving)
         /\ \E gs :
              /\ After(files, Unlinked(d, t)) = gs
              /\ SameTasks(files, gs) /\ SameStatus(files, gs) /\ SameDependsOn(files, gs) /\ SameLists(files, gs)
              /\ OthersBlock(files, gs, d) /\ (There(files, d) => gs[d].blocks = files[d].blocks \ {t})
<1>1. CASE There(files, d)
  <2>1. files[d] \in Task /\ d \notin files[d].dependsOn
    BY <1>1, TaskFields
  <2>2. PICK r : r = [files[d] EXCEPT !.blocks = @ \ {t}]
    OBVIOUS
  <2>3. r \in Task /\ r.status = files[d].status /\ r.dependsOn = files[d].dependsOn /\ r.blocks = files[d].blocks \ {t}
    BY <2>1, <2>2 DEF Task
  <2>4. Unlinked(d, t) = Save(d, r)
    BY <1>1, <2>2, SameWords DEF Unlinked, If
  <2>5. Save(d, r) \in Seq(Saving)
    BY <1>1, <2>1, <2>3, TaskSaved
  <2>6. PICK gs :
          /\ After(files, Save(d, r)) = gs /\ gs[d] = r
          /\ SameTasks(files, gs) /\ SameLists(files, gs) /\ \A x \in Tasks \ {d} : gs[x] = files[x]
    BY <1>1, <2>1, <2>3, TaskSaved
  <2>7. SameStatus(files, gs) /\ SameDependsOn(files, gs) /\ OthersBlock(files, gs, d) /\ gs[d].blocks = files[d].blocks \ {t}
    BY <2>3, <2>6 DEF SameStatus, SameDependsOn, OthersBlock
  <2> QED
    BY <2>4, <2>5, <2>6, <2>7
<1>2. CASE ~There(files, d)
  <2>1. Unlinked(d, t) = <<>>
    BY <1>2, SameWords DEF Unlinked, If
  <2> QED
    BY <1>2, <2>1, NothingSaved DEF OthersBlock
<1> QED
  BY <1>1, <1>2

LEMMA UndependedMeans ==
  ASSUME NamesAssumption, NeverAssumption, Stored(files), NEW d \in Tasks, NEW t \in Tasks
  PROVE  /\ Undepended(d, t) \in Seq(Saving)
         /\ \E gs :
              /\ After(files, Undepended(d, t)) = gs
              /\ SameTasks(files, gs) /\ SameStatus(files, gs) /\ SameBlocks(files, gs) /\ SameLists(files, gs)
              /\ OthersDepend(files, gs, d) /\ (There(files, d) => gs[d].dependsOn = files[d].dependsOn \ {t})
<1>1. CASE There(files, d)
  <2>1. files[d] \in Task /\ d \notin files[d].dependsOn
    BY <1>1, TaskFields
  <2>2. PICK r : r = [files[d] EXCEPT !.dependsOn = @ \ {t}]
    OBVIOUS
  <2>3. r \in Task /\ r.status = files[d].status /\ r.dependsOn = files[d].dependsOn \ {t} /\ r.blocks = files[d].blocks
    BY <2>1, <2>2 DEF Task
  <2>4. Undepended(d, t) = Save(d, r)
    BY <1>1, <2>2, SameWords DEF Undepended, If
  <2>5. d \notin r.dependsOn
    BY <2>1, <2>3
  <2>6. Save(d, r) \in Seq(Saving)
    BY <1>1, <2>3, <2>5, TaskSaved
  <2>7. PICK gs :
          /\ After(files, Save(d, r)) = gs /\ gs[d] = r
          /\ SameTasks(files, gs) /\ SameLists(files, gs) /\ \A x \in Tasks \ {d} : gs[x] = files[x]
    BY <1>1, <2>3, <2>5, TaskSaved
  <2>8. SameStatus(files, gs) /\ SameBlocks(files, gs) /\ OthersDepend(files, gs, d) /\ gs[d].dependsOn = files[d].dependsOn \ {t}
    BY <2>3, <2>7 DEF SameStatus, SameBlocks, OthersDepend
  <2> QED
    BY <2>4, <2>6, <2>7, <2>8
<1>2. CASE ~There(files, d)
  <2>1. Undepended(d, t) = <<>>
    BY <1>2, SameWords DEF Undepended, If
  <2> QED
    BY <1>2, <2>1, NothingSaved DEF OthersDepend
<1> QED
  BY <1>1, <1>2

LEMMA BlockedMeans ==
  ASSUME NamesAssumption, NeverAssumption, Stored(files), NEW b \in Tasks
  PROVE  /\ Blocked(b) \in Seq(Saving)
         /\ \E gs :
              /\ After(files, Blocked(b)) = gs
              /\ SameTasks(files, gs) /\ SameDependsOn(files, gs) /\ SameBlocks(files, gs) /\ SameLists(files, gs)
              /\ OthersStatus(files, gs, b) /\ (There(files, b) => gs[b].status = "blocked")
<1>1. CASE There(files, b)
  <2>1. Blocked(b) = Marked(b, "blocked")
    BY <1>1, SameWords DEF Blocked, If
  <2> QED
    BY <1>1, <2>1, MarkedMeans DEF OthersStatus
<1>2. CASE ~There(files, b)
  <2>1. Blocked(b) = <<>>
    BY <1>2, SameWords DEF Blocked, If
  <2> QED
    BY <1>2, <2>1, NothingSaved DEF OthersStatus, SameStatus
<1> QED
  BY <1>1, <1>2

LEMMA UnblockedMeans ==
  ASSUME NamesAssumption, NeverAssumption, Stored(files), NEW b \in Tasks
  PROVE  /\ Unblocked(b) \in Seq(Saving)
         /\ \E gs :
              /\ After(files, Unblocked(b)) = gs
              /\ SameTasks(files, gs) /\ SameDependsOn(files, gs) /\ SameBlocks(files, gs) /\ SameLists(files, gs)
              /\ OthersStatus(files, gs, b)
              /\ There(files, b) => /\ gs[b].status = "done" => files[b].status = "done"
                                    /\ Fulfilled(files, b) => gs[b].status # "blocked"
<1>1. CASE There(files, b) /\ files[b].status = "blocked"
  <2>1. PICK status \in {"open", "blocked"} : status = IF Satisfied(b) THEN "open" ELSE "blocked"
    OBVIOUS
  <2>2. Unblocked(b) = Marked(b, status)
    BY <1>1, <2>1, SameWords DEF Unblocked, If
  <2>3. Fulfilled(files, b) => status = "open"
    BY <2>1, SameWords
  <2>4. Marked(b, status) \in Seq(Saving)
    BY <1>1, MarkedMeans
  <2>5. PICK gs :
          /\ After(files, Marked(b, status)) = gs /\ gs[b].status = status
          /\ SameTasks(files, gs) /\ SameDependsOn(files, gs) /\ SameBlocks(files, gs) /\ SameLists(files, gs)
          /\ \A x \in Tasks \ {b} : There(files, x) => gs[x].status = files[x].status
    BY <1>1, MarkedMeans
  <2> QED
    BY <2>2, <2>3, <2>4, <2>5 DEF OthersStatus
<1>2. CASE ~(There(files, b) /\ files[b].status = "blocked")
  <2>1. Unblocked(b) = <<>>
    BY <1>2, SameWords DEF Unblocked, If
  <2> QED
    BY <1>2, <2>1, NothingSaved DEF OthersStatus, SameStatus
<1> QED
  BY <1>1, <1>2

LEMMA DroppedMeans ==
  ASSUME NamesAssumption, NeverAssumption, Stored(files), NEW t \in Tasks
  PROVE  /\ Dropped(t) \in Seq(Saving)
         /\ \E gs :
              /\ After(files, Dropped(t)) = gs
              /\ gs[t] = Deleted /\ (\A x \in Tasks \ {t} : gs[x] = files[x])
              /\ \A l \in Lists : gs[l].tasks = files[l].tasks \ {t}
<1>1. PICK on : on = SetToSeq(On(t))
  OBVIOUS
<1>2. PICK S : S = On(t)
  OBVIOUS
<1>3. S \subseteq Lists /\ IsFiniteSet(S) /\ \A l \in Lists : l \in S <=> t \in files[l].tasks
  BY <1>2, FS_Subset DEF On, NamesAssumption
<1>4. on \in Seq(S) /\ \A l \in S : \E i \in DOMAIN on : on[i] = l
  BY <1>1, <1>2, <1>3, SomeOrder
<1>5. PICK n \in Nat : n = Len(on)
  BY <1>4
<1>6. DOMAIN on = 1..n /\ \A i \in 1..n : on[i] \in S
  BY <1>4, <1>5
<1>7. PICK s : s = [i \in 1..n |-> [file |-> on[i], content |-> [tasks |-> files[on[i]].tasks \ {t}]]]
  OBVIOUS
<1>8. PICK x : x = [file |-> t, content |-> Deleted]
  OBVIOUS
<1>9. PICK v : v = s \o <<x>>
  OBVIOUS
<1>10. Dropped(t) = v
  BY <1>1, <1>6, <1>7, <1>8, <1>9 DEF Dropped, Save
<1>11. x \in Saving /\ x.file = t /\ x.content = Deleted
  BY <1>8 DEF Saving, Content, Fits
<1>12. ASSUME NEW i \in 1..n PROVE s[i].file = on[i] /\ s[i].content.tasks = files[on[i]].tasks \ {t} /\ s[i] \in Saving
  <2>1. PICK l \in Lists : l = on[i]
    BY <1>3, <1>6
  <2>2. files[l].tasks \subseteq Tasks
    BY ListFields
  <2>3. PICK c : c = [tasks |-> files[l].tasks \ {t}]
    OBVIOUS
  <2>4. c \in [tasks : SUBSET Tasks] /\ c.tasks = files[l].tasks \ {t}
    BY <2>2, <2>3
  <2>5. c \in Content /\ Fits(l, c)
    BY <2>4, ListWritten
  <2>6. s[i] = [file |-> l, content |-> c]
    BY <1>7, <2>1, <2>3
  <2> QED
    BY <2>1, <2>4, <2>5, <2>6 DEF Saving
<1>13. s \in Seq(Saving) /\ Len(s) = n
  BY <1>7, <1>12
<1>14. v \in Seq(Saving) /\ DOMAIN v = 1..(n + 1) /\ (\A i \in 1..n : v[i] = s[i]) /\ v[n + 1] = x
  <2>1. PICK u : u = <<x>>
    OBVIOUS
  <2>2. u \in Seq(Saving) /\ Len(u) = 1 /\ u[1] = x
    BY <1>11, <2>1
  <2>3. s \o u \in Seq(Saving) /\ Longer(s \o u, s, u[1])
    BY <1>13, <2>2, EndsWith
  <2>4. v \in Seq(Saving) /\ Longer(v, s, x)
    BY <1>9, <2>1, <2>2, <2>3
  <2> QED
    BY <1>13, <2>4 DEF Longer
<1>15. \A i \in 1..(n + 1) : i \in 1..n \/ i = n + 1
  OBVIOUS
<1>16. \A i \in DOMAIN v : (i \in 1..n /\ v[i] = s[i] /\ v[i].file = on[i] /\ on[i] \in S) \/ (i = n + 1 /\ v[i] = x /\ v[i].file = t)
  BY <1>6, <1>11, <1>12, <1>14, <1>15
<1>17. PICK gs : gs = After(files, v)
  OBVIOUS
<1>18. t \notin S /\ Tasks \cap S = {}
  BY <1>3 DEF NamesAssumption
<1>19. gs[t] = Deleted
  <2>1. \E k \in DOMAIN v : v[k].file = t
    BY <1>11, <1>14
  <2>2. \A i \in DOMAIN v : v[i].file = t => v[i].content = Deleted
    BY <1>11, <1>16, <1>18
  <2>3. AgreeOn(v, t, Deleted)
    BY <2>1, <2>2 DEF AgreeOn
  <2>4. After(files, v)[t] = Deleted
    BY <1>14, <2>3, AfterAgreed
  <2> QED
    BY <1>17, <2>4
<1>20. ASSUME NEW f \in Tasks \cup Lists, f # t, f \notin S PROVE gs[f] = files[f]
  <2>1. ~\E i \in DOMAIN v : v[i].file = f
    BY <1>16, <1>20
  <2> QED
    BY <1>17, <2>1 DEF After
<1>21. \A y \in Tasks \ {t} : gs[y] = files[y]
  BY <1>18, <1>20
<1>22. ASSUME NEW l \in Lists PROVE gs[l].tasks = files[l].tasks \ {t}
  <2>1. l # t
    BY DEF NamesAssumption
  <2>2. CASE l \in S
    <3>1. PICK k \in 1..n : on[k] = l
      BY <1>4, <1>6, <2>2
    <3>2. PICK c : c = s[k].content
      OBVIOUS
    <3>3. \A i \in 1..n : on[i] = l => s[i].content = c
      BY <1>7, <3>1, <3>2
    <3>4. \E m \in DOMAIN v : v[m].file = l
      BY <1>12, <1>14, <3>1
    <3>5. \A i \in DOMAIN v : v[i].file = l => v[i].content = c
      BY <1>16, <2>1, <3>3
    <3>6. AgreeOn(v, l, c)
      BY <3>4, <3>5 DEF AgreeOn
    <3>7. After(files, v)[l] = c
      BY <1>14, <3>6, AfterAgreed
    <3> QED
      BY <1>12, <1>17, <3>1, <3>2, <3>7
  <2>3. CASE l \notin S
    <3>1. gs[l] = files[l] /\ t \notin files[l].tasks
      BY <1>3, <1>20, <2>1, <2>3
    <3> QED
      BY <3>1
  <2> QED
    BY <2>2, <2>3
<1> QED
  BY <1>10, <1>14, <1>17, <1>19, <1>21, <1>22

\* The writes that follow a read are those that what was to be read asks for.
ReadsWhat(e) ==
  CASE e.do = "link" -> Linked(e.task, e.other)
    [] e.do = "unlink" -> Unlinked(e.task, e.other)
    [] e.do = "undepend" -> Undepended(e.task, e.other)
    [] e.do = "block" -> Blocked(e.task)
    [] e.do = "unblock" -> Unblocked(e.task)
    [] e.do = "drop" -> Dropped(e.task)

LEMMA EachRead ==
  ASSUME NamesAssumption, NeverAssumption, Stored(files), NEW e \in Wanted, NEW Q, NEW P, NEW X
  PROVE  /\ ReadsWhat(e) \in Seq(Saving)
         /\ Reads(P, e, Q) /\ Consistent(files, P, X) /\ (e.do = "drop" => Q = {}) => Consistent(After(files, ReadsWhat(e)), Q, X)
<1>1. PICK d \in Tasks, t \in Tasks : d = e.task /\ t = e.other
  BY DEF Wanted
<1>2. e.do \in {"link", "unlink", "undepend", "block", "unblock", "drop"} /\ e = Want(e.do, d, t)
  BY <1>1 DEF Wanted, Want
<1>3. CASE e.do = "link"
  <2>1. ReadsWhat(e) = Linked(d, t) /\ e = Want("link", d, t)
    BY <1>1, <1>2, <1>3 DEF ReadsWhat
  <2>2. PICK gs :
          /\ After(files, Linked(d, t)) = gs
          /\ SameTasks(files, gs) /\ SameStatus(files, gs) /\ SameDependsOn(files, gs) /\ SameLists(files, gs)
          /\ OthersBlock(files, gs, d) /\ (There(files, d) => gs[d].blocks = files[d].blocks \cup {t})
    BY LinkedMeans
  <2>3. ASSUME Reads(P, e, Q), Consistent(files, P, X) PROVE Consistent(gs, Q, X)
    BY <2>1, <2>2, <2>3, LinkRead DEF OthersBlock
  <2> QED
    BY <2>1, <2>2, <2>3, LinkedMeans
<1>4. CASE e.do = "unlink"
  <2>1. ReadsWhat(e) = Unlinked(d, t) /\ e = Want("unlink", d, t)
    BY <1>1, <1>2, <1>4 DEF ReadsWhat
  <2>2. PICK gs :
          /\ After(files, Unlinked(d, t)) = gs
          /\ SameTasks(files, gs) /\ SameStatus(files, gs) /\ SameDependsOn(files, gs) /\ SameLists(files, gs)
          /\ OthersBlock(files, gs, d) /\ (There(files, d) => gs[d].blocks = files[d].blocks \ {t})
    BY UnlinkedMeans
  <2>3. ASSUME Reads(P, e, Q), Consistent(files, P, X) PROVE Consistent(gs, Q, X)
    BY <2>1, <2>2, <2>3, UnlinkRead DEF OthersBlock
  <2> QED
    BY <2>1, <2>2, <2>3, UnlinkedMeans
<1>5. CASE e.do = "undepend"
  <2>1. ReadsWhat(e) = Undepended(d, t) /\ e = Want("undepend", d, t)
    BY <1>1, <1>2, <1>5 DEF ReadsWhat
  <2>2. PICK gs :
          /\ After(files, Undepended(d, t)) = gs
          /\ SameTasks(files, gs) /\ SameStatus(files, gs) /\ SameBlocks(files, gs) /\ SameLists(files, gs)
          /\ OthersDepend(files, gs, d) /\ (There(files, d) => gs[d].dependsOn = files[d].dependsOn \ {t})
    BY UndependedMeans
  <2>3. ASSUME Reads(P, e, Q), Consistent(files, P, X) PROVE Consistent(gs, Q, X)
    BY <2>1, <2>2, <2>3, UndependRead DEF OthersDepend
  <2> QED
    BY <2>1, <2>2, <2>3, UndependedMeans
<1>6. CASE e.do = "block"
  <2>1. ReadsWhat(e) = Blocked(d) /\ e = Want("block", d, t)
    BY <1>1, <1>2, <1>6 DEF ReadsWhat
  <2>2. PICK gs :
          /\ After(files, Blocked(d)) = gs
          /\ SameTasks(files, gs) /\ SameDependsOn(files, gs) /\ SameBlocks(files, gs) /\ SameLists(files, gs)
          /\ OthersStatus(files, gs, d) /\ (There(files, d) => gs[d].status = "blocked")
    BY BlockedMeans
  <2>3. ASSUME Reads(P, e, Q), Consistent(files, P, X) PROVE Consistent(gs, Q, X)
    BY <2>1, <2>2, <2>3, StatusRead DEF OthersStatus
  <2> QED
    BY <2>1, <2>2, <2>3, BlockedMeans
<1>7. CASE e.do = "unblock"
  <2>1. ReadsWhat(e) = Unblocked(d) /\ e = Want("unblock", d, t)
    BY <1>1, <1>2, <1>7 DEF ReadsWhat
  <2>2. PICK gs :
          /\ After(files, Unblocked(d)) = gs
          /\ SameTasks(files, gs) /\ SameDependsOn(files, gs) /\ SameBlocks(files, gs) /\ SameLists(files, gs)
          /\ OthersStatus(files, gs, d)
          /\ There(files, d) => /\ gs[d].status = "done" => files[d].status = "done"
                                /\ Fulfilled(files, d) => gs[d].status # "blocked"
    BY UnblockedMeans
  <2>3. ASSUME Reads(P, e, Q), Consistent(files, P, X) PROVE Consistent(gs, Q, X)
    BY <2>1, <2>2, <2>3, StatusRead DEF OthersStatus
  <2> QED
    BY <2>1, <2>2, <2>3, UnblockedMeans
<1>8. CASE e.do = "drop"
  <2>1. ReadsWhat(e) = Dropped(d) /\ e = Want("drop", d, t)
    BY <1>1, <1>2, <1>8 DEF ReadsWhat
  <2>2. PICK gs :
          /\ After(files, Dropped(d)) = gs
          /\ gs[d] = Deleted /\ (\A x \in Tasks \ {d} : gs[x] = files[x])
          /\ \A l \in Lists : gs[l].tasks = files[l].tasks \ {d}
    BY DroppedMeans
  <2>3. ASSUME Reads(P, e, Q), Consistent(files, P, X), Q = {} PROVE Consistent(gs, Q, X)
    <3>1. P = {e} /\ OneKind(P)
      BY <2>3 DEF Reads, Consistent
    <3>2. d = t
      <4>1. \E u \in Tasks : Want("drop", u, u) \in P
        BY <1>8, <3>1 DEF OneKind
      <4>2. PICK u \in Tasks : Want("drop", u, u) = e
        BY <3>1, <4>1
      <4> QED
        BY <1>1, <4>2 DEF Want
    <3> QED
      BY <2>1, <2>2, <2>3, <3>1, <3>2, DropRead
  <2> QED
    BY <1>8, <2>1, <2>2, <2>3, DroppedMeans
<1> QED
  BY <1>2, <1>3, <1>4, <1>5, <1>6, <1>7, <1>8

\* A call reads what it was to read.
LEMMA FileReadKeeps ==
  ASSUME TasksInv, NamesAssumption, NeverAssumption, NEW w \in Users, Read(w)
  PROVE  TasksInv'
<1>1. PICK todo : todo = pending[w].todo
  OBVIOUS
<1>2. Stored(files) /\ pending \in [Users -> [writes : Seq(Saving), todo : Seq(Wanted)]] /\ begun \in 0..MaxCalls /\ inTurn \in BOOLEAN
  BY DEF TasksInv, TasksTyped
<1>3. todo \in Seq(Wanted) /\ todo # <<>> /\ pending[w].writes = <<>>
  BY <1>1, <1>2 DEF Read
<1>4. PICK e \in Wanted : e = Head(todo)
  BY <1>3, ElementsTail
<1>5. PICK later \in Seq(Wanted) : later = Tail(todo) /\ Elements(todo) = Elements(later) \cup {e} /\ Elements(todo) \subseteq Wanted
  BY <1>3, <1>4, ElementsTail
<1>6. PICK writes \in Seq(Saving) : writes = ReadsWhat(e)
  BY <1>2, EachRead
<1>7. /\ pending' = [pending EXCEPT ![w] = [writes |-> writes, todo |-> later]]
      /\ files' = files /\ begun' = begun /\ excused' = excused /\ inTurn' = inTurn
  BY <1>1, <1>2, <1>4, <1>5, <1>6 DEF Read, Rest, ReadsWhat
<1>8. [writes |-> writes, todo |-> later] \in [writes : Seq(Saving), todo : Seq(Wanted)]
  OBVIOUS
<1>9. pending' \in [Users -> [writes : Seq(Saving), todo : Seq(Wanted)]]
  BY <1>2, <1>7, <1>8
<1>10. TasksTyped'
  BY <1>2, <1>7, <1>9 DEF TasksTyped
<1>11. ASSUME inTurn
       PROVE  /\ \A u \in Users \ {1} : pending'[u] = Idle
              /\ DropsLast(pending'[1].todo)
              /\ Consistent(After(files', pending'[1].writes), Elements(pending'[1].todo), excused')
  <2>1. w = 1
    BY <1>1, <1>3, <1>11 DEF TasksInv, Idle
  <2>2. pending'[1].writes = writes /\ pending'[1].todo = later /\ \A u \in Users \ {1} : pending'[u] = pending[u]
    BY <1>2, <1>7, <2>1
  <2>3. Consistent(files, Elements(todo), excused) /\ DropsLast(todo) /\ \A u \in Users \ {1} : pending[u] = Idle
    BY <1>1, <1>2, <1>3, <1>11, <2>1, AfterNothing DEF TasksInv
  <2>4. PICK n \in Nat : n = Len(todo)
    BY <1>3
  <2>5. /\ n > 0 /\ DOMAIN todo = 1..n /\ DOMAIN later = 1..(n - 1) /\ Len(later) = n - 1
        /\ (\A i \in 1..(n - 1) : later[i] = todo[i + 1]) /\ e = todo[1]
    BY <1>3, <1>4, <1>5, <2>4
  <2>6. DropsLast(later)
    <3>1. SUFFICES ASSUME NEW i \in 1..(n - 1), later[i].do = "drop" PROVE i = n - 1
      BY <2>5 DEF DropsLast
    <3>2. i + 1 \in DOMAIN todo /\ todo[i + 1].do = "drop"
      BY <2>5, <3>1
    <3>3. i + 1 = n
      BY <2>3, <2>4, <3>2 DEF DropsLast
    <3> QED
      BY <3>3
  <2>7. e.do = "drop" => Elements(later) = {}
    <3>1. SUFFICES ASSUME e.do = "drop" PROVE Elements(later) = {}
      OBVIOUS
    <3>2. 1 \in DOMAIN todo /\ todo[1].do = "drop"
      BY <2>5, <3>1
    <3>3. n = 1
      BY <2>3, <2>4, <3>2 DEF DropsLast
    <3>4. DOMAIN later = {}
      BY <2>5, <3>3
    <3> QED
      BY <3>4 DEF Elements
  <2>8. Reads(Elements(todo), e, Elements(later))
    BY <1>5 DEF Reads
  <2>9. Consistent(After(files, writes), Elements(later), excused)
    BY <1>2, <1>6, <2>3, <2>7, <2>8, EachRead
  <2> QED
    BY <1>7, <2>2, <2>3, <2>6, <2>9
<1> QED
  BY <1>7, <1>10, <1>11 DEF TasksInv

\* At first every task that is there is open, alone, and in the default list.
LEMMA TasksInitially == ASSUME Init, NamesAssumption, NeverAssumption, CallsAssumption PROVE TasksInv
<1>1. PICK old \in SUBSET Tasks :
        files = [f \in Tasks \cup Lists |->
          IF f \in old THEN NewTask({}) ELSE IF f \in Tasks THEN Never ELSE [tasks |-> IF f = Default THEN old ELSE {}]]
  BY DEF Init
<1>2. pending = [w \in Users |-> Idle] /\ begun = 0 /\ excused = {} /\ inTurn \in BOOLEAN
  BY DEF Init
<1>3. PICK new : new = NewTask({})
  OBVIOUS
<1>4. new \in Task /\ new.status = "open" /\ new.dependsOn = {} /\ new.blocks = {} /\ new \notin {Never, Deleted}
  BY <1>3 DEF NewTask, Task, NeverAssumption
<1>5. \A t \in Tasks : files[t] = IF t \in old THEN new ELSE Never
  BY <1>1, <1>3
<1>6. \A l \in Lists : files[l] = [tasks |-> IF l = Default THEN old ELSE {}]
  BY <1>1 DEF NamesAssumption
<1>7. \A l \in Lists : files[l] \in [tasks : SUBSET Tasks] /\ files[l].tasks = IF l = Default THEN old ELSE {}
  <2>1. SUFFICES ASSUME NEW l \in Lists PROVE files[l] \in [tasks : SUBSET Tasks] /\ files[l].tasks = IF l = Default THEN old ELSE {}
    OBVIOUS
  <2>2. PICK s \in SUBSET Tasks : s = IF l = Default THEN old ELSE {}
    OBVIOUS
  <2>3. files[l] = [tasks |-> s]
    BY <1>6, <2>2
  <2> QED
    BY <2>2, <2>3
<1>8. Stored(files)
  <2>1. \A t \in Tasks : files[t] \in Content /\ Fits(t, files[t])
    BY <1>4, <1>5 DEF Content, Fits
  <2>2. \A l \in Lists : files[l] \in Content /\ Fits(l, files[l])
    BY <1>7 DEF Content, Fits
  <2>3. files = [f \in Tasks \cup Lists |-> files[f]]
    BY <1>1
  <2>4. \A f \in Tasks \cup Lists : files[f] \in Content /\ Fits(f, files[f])
    BY <2>1, <2>2
  <2> QED
    BY <2>3, <2>4 DEF Stored
<1>9. Idle \in [writes : Seq(Saving), todo : Seq(Wanted)]
  BY NoWrites DEF Idle
<1>10. pending \in [Users -> [writes : Seq(Saving), todo : Seq(Wanted)]]
  BY <1>2, <1>9
<1>11. TasksTyped
  BY <1>2, <1>8, <1>10 DEF TasksTyped, CallsAssumption
<1>12. \A t \in Tasks : There(files, t) <=> t \in old
  BY <1>4, <1>5 DEF There
<1>13. Consistent(files, {}, excused)
  <2>1. \A t \in Tasks : There(files, t) => files[t].status = "open" /\ files[t].dependsOn = {} /\ files[t].blocks = {}
    BY <1>4, <1>5, <1>12
  <2>2. LinksMeet(files, {}) /\ DeletesAll(files, {}) /\ Sensible(files, {}, excused) /\ Caused(files, {}, excused) /\ OneKind({})
    BY <2>1 DEF LinksMeet, DeletesAll, Sensible, Caused, OneKind
  <2>3. ASSUME NEW t \in Tasks PROVE ListsWith(files, t) = IF t \in old THEN {Default} ELSE {}
    BY <1>7 DEF ListsWith, NamesAssumption
  <2>4. Placed(files, excused)
    BY <1>12, <2>3 DEF Placed, NamesAssumption
  <2> QED
    BY <2>2, <2>4 DEF Consistent
<1>14. 1 \in Users
  BY DEF Users, CallsAssumption
<1>15. pending[1].writes = <<>> /\ pending[1].todo = <<>> /\ \A w \in Users \ {1} : pending[w] = Idle
  BY <1>2, <1>14 DEF Idle
<1>16. After(files, <<>>) = files
  BY <1>8, AfterNothing
<1> QED
  BY <1>11, <1>13, <1>15, <1>16, NoWrites DEF TasksInv

\* Every operation, write and read of a user keeps the files consistent.
LEMMA TasksStep ==
  ASSUME TasksInv, NamesAssumption, NeverAssumption, CallsAssumption, [Next]_vars
  PROVE  TasksInv'
<1>1. CASE UNCHANGED vars
  <2>1. files' = files /\ pending' = pending /\ begun' = begun /\ excused' = excused /\ inTurn' = inTurn
    BY <1>1 DEF vars
  <2> QED
    BY <2>1 DEF TasksInv, TasksTyped
<1>2. ASSUME NEW w \in Users, NEW t \in Tasks, NEW l \in Lists, NEW deps \in SUBSET Tasks, CreateTask(w, l, t, deps) PROVE TasksInv'
  BY <1>2, CreateTaskKeeps
<1>3. ASSUME NEW w \in Users, NEW t \in Tasks, StartTask(w, t) \/ CompleteTask(w, t) \/ BlockTask(w, t) \/ DeleteTask(w, t) PROVE TasksInv'
  BY <1>3, StartTaskKeeps, CompleteTaskKeeps, BlockTaskKeeps, DeleteTaskKeeps
<1>4. ASSUME NEW w \in Users, NEW t \in Tasks, NEW d \in Tasks, AddDependency(w, t, d) \/ RemoveDependency(w, t, d) PROVE TasksInv'
  BY <1>4, AddDependencyKeeps, RemoveDependencyKeeps
<1>5. ASSUME NEW w \in Users, NEW t \in Tasks, NEW l \in Lists, MoveTask(w, t, l) PROVE TasksInv'
  BY <1>5, MoveTaskKeeps
<1>6. ASSUME NEW w \in Users, Step(w) PROVE TasksInv'
  BY <1>6, FileWriteKeeps, FileReadKeeps DEF Step
<1> QED
  BY <1>1, <1>2, <1>3, <1>4, <1>5, <1>6 DEF Next

\* When no call runs, the consistency of the files is what is promised of them.
LEMMA SettledConsistent ==
  ASSUME TasksInv, CallsAssumption, Settled
  PROVE  Consistent(files, {}, excused)
<1>1. 1 \in Users
  BY DEF Users, CallsAssumption
<1>2. inTurn /\ pending[1] = Idle
  BY <1>1 DEF Settled, Quiet
<1> QED
  BY <1>1, <1>2, IdleConsistent

LEMMA LinksFollow == ASSUME TasksInv, CallsAssumption, NamesAssumption PROVE LinksAgree
<1>1. SUFFICES ASSUME Settled, NEW t \in Tasks, There(files, t)
      PROVE  /\ DependenciesExist(t)
             /\ \A d \in Tasks : Exists(d) => (d \in files[t].dependsOn <=> t \in files[d].blocks)
  BY SameWords DEF LinksAgree
<1>2. Consistent(files, {}, excused) /\ Stored(files)
  BY <1>1, SettledConsistent DEF TasksInv, TasksTyped
<1>3. files[t].dependsOn \subseteq Tasks
  BY <1>1, <1>2, TaskFields
<1>4. \A d \in files[t].dependsOn : Exists(d)
  BY <1>1, <1>2, <1>3, NothingLeft, SameWords
<1>5. \A d \in Tasks : There(files, d) => (d \in files[t].dependsOn <=> t \in files[d].blocks)
  BY <1>1, <1>2, NothingLeft
<1> QED
  BY <1>4, <1>5, SameWords DEF DependenciesExist

LEMMA ListsFollow == ASSUME TasksInv, CallsAssumption, NamesAssumption PROVE ListsKept
<1>1. Stored(files) /\ pending \in [Users -> [writes : Seq(Saving), todo : Seq(Wanted)]] /\ begun \in 0..MaxCalls
  BY DEF TasksInv, TasksTyped
<1>2. TypeOK
  <2>1. ASSUME NEW t \in Tasks PROVE files[t] \in Task \cup {Never, Deleted} /\ (Exists(t) => t \notin files[t].dependsOn)
    <3>1. Fits(t, files[t]) /\ t \notin Lists
      BY <1>1 DEF Stored, NamesAssumption
    <3> QED
      BY <3>1 DEF Fits, Exists
  <2>2. \A l \in Lists : files[l] \in [tasks : SUBSET Tasks]
    BY <1>1, ListFields
  <2>3. ASSUME NEW w \in Users, NEW i \in DOMAIN pending[w].todo PROVE pending[w].todo[i].task \in Tasks
    <3>1. PICK todo \in Seq(Wanted) : todo = pending[w].todo
      BY <1>1
    <3>2. i \in DOMAIN todo /\ todo[i] \in Wanted
      BY <3>1
    <3>3. todo[i].task \in Tasks
      BY <3>2 DEF Wanted
    <3> QED
      BY <3>1, <3>3
  <2> QED
    BY <1>1, <2>1, <2>2, <2>3 DEF TypeOK
<1>3. ASSUME Settled PROVE Caused(files, {}, excused) /\ Placed(files, excused)
  BY <1>3, SettledConsistent DEF Consistent
<1>4. BlockedHasCause
  BY <1>3, SameWords DEF BlockedHasCause, Caused
<1>5. InOneList
  <2>1. SUFFICES ASSUME Settled, NEW t \in Tasks
        PROVE  \/ Cardinality(On(t)) = IF Exists(t) THEN 1 ELSE 0
               \/ <<t, "moved">> \in excused /\ On(t) = {}
    BY DEF InOneList
  <2>2. \/ Exists(t) /\ \E l \in Lists : On(t) = {l}
        \/ On(t) = {} /\ (Exists(t) => <<t, "moved">> \in excused)
    BY <1>3, <2>1, SameWords DEF Placed
  <2>3. \A l : Cardinality({l}) = 1
    BY FS_Singleton
  <2>4. Cardinality({}) = 0
    BY FS_EmptySet
  <2> QED
    BY <2>2, <2>3, <2>4
<1> QED
  BY <1>2, <1>4, <1>5 DEF ListsKept


\* The invariant that those below rest on: the files are consistent once the
\* one call that runs has made its writes.
THEOREM TasksAreConsistent == Spec => []TasksInv
<1>1. Init => TasksInv
  BY TasksInitially, NamesAssumption, NeverAssumption, CallsAssumption
<1>2. TasksInv /\ [Next]_vars => TasksInv'
  BY TasksStep, NamesAssumption, NeverAssumption, CallsAssumption
<1> QED
  BY <1>1, <1>2, PTL DEF Spec

\* Where calls do not overlap, a task lists its dependencies exactly where
\* they list it as blocked, and none that was deleted, after any sequence of
\* calls of TaskListService.
THEOREM LinksAreKept == Spec => []LinksAgree
<1>1. TasksInv => LinksAgree
  BY LinksFollow, NamesAssumption, CallsAssumption
<1> QED
  BY <1>1, TasksAreConsistent, PTL

\* Where calls do not overlap, a blocked task has a cause and a task is in one
\* list, but for those that the code is known to leave behind; no task depends
\* on itself even where they do.
THEOREM ListsAreKept == Spec => []ListsKept
<1>1. TasksInv => ListsKept
  BY ListsFollow, NamesAssumption, CallsAssumption
<1> QED
  BY <1>1, TasksAreConsistent, PTL
=============================================================================
