----------------------------- MODULE Approvals -----------------------------
(***************************************************************************)
(* The approval requests of src/src/safety: approval.ts makes and answers  *)
(* them, pending.ts keeps them and escalation.ts watches their time.  Every *)
(* operation is one turn of the event loop.                                *)
(***************************************************************************)
EXTENDS Integers

CONSTANTS
  Requests, None,
  Risks,            \* the levels that need an answer
  MaxEscalations,   \* maxEscalations of each of them
  MaxCount          \* bound: escalations of a request

EscalationsAssumption == MaxEscalations \in [Risks -> Nat]
CountAssumption == MaxCount \in Nat /\ \A risk \in Risks : MaxEscalations[risk] <= MaxCount

VARIABLES
  request,          \* allRequests
  pendingQueue,     \* the requests that emergencyOverride finds
  monitoring,       \* whether the monitor's interval runs
  enableAutoDeny    \* the option; it does not change

vars == <<request, pendingQueue, monitoring, enableAutoDeny>>

Answers == {"approved", "denied"}
Request ==
  [risk : Risks, status : {"pending", "escalated"} \cup Answers, by : {"nobody", "human", "system"},
   count : 0..MaxCount, expired : BOOLEAN]

NoneAssumption == None \notin Request

Init ==
  /\ request = [r \in Requests |-> None]
  /\ pendingQueue = {}
  /\ monitoring = FALSE
  /\ enableAutoDeny \in BOOLEAN

Is(r, status) == request[r] # None /\ request[r].status = status
Answered(r) == Is(r, "approved") \/ Is(r, "denied")

-----------------------------------------------------------------------------
\* createApprovalRequest and addToQueue of a request that is not approved at
\* once, as low risks are.
Create(r, risk) ==
  /\ request[r] = None
  /\ request' = [request EXCEPT ![r] =
       [risk |-> risk, status |-> "pending", by |-> "nobody", count |-> 0, expired |-> FALSE]]
  /\ pendingQueue' = pendingQueue \cup {r}
  /\ UNCHANGED <<monitoring, enableAutoDeny>>

\* expiresAt passes.
Expire(r) ==
  /\ request[r] # None /\ ~request[r].expired
  /\ request' = [request EXCEPT ![r].expired = TRUE]
  /\ UNCHANGED <<pendingQueue, monitoring, enableAutoDeny>>

\* respondToRequest, which leaves the request in the queue, and its time as
\* it is.
Respond(r, answer) ==
  /\ Is(r, "pending")
  /\ answer = "escalated" => request[r].count < MaxCount
  /\ LET n == IF answer = "escalated" THEN request[r].count + 1 ELSE request[r].count
     IN  request' = [request EXCEPT ![r] = [@ EXCEPT !.status = answer, !.by = "human", !.count = n]]
  /\ UNCHANGED <<pendingQueue, monitoring, enableAutoDeny>>

\* escalateRequest, which gives the request more time.
Escalated(q) == [q EXCEPT !.status = "escalated", !.count = @ + 1, !.expired = FALSE]

\* escalateRequest of a caller, and escalateStaleRequests.
Escalate(r) ==
  /\ Is(r, "pending") \/ Is(r, "escalated")
  /\ request[r].count < MaxCount
  /\ request' = [request EXCEPT ![r] = Escalated(@)]
  /\ pendingQueue' = pendingQueue \cup {r}
  /\ UNCHANGED <<monitoring, enableAutoDeny>>

\* findExpiredRequests.
ExpiredRequests == {r \in Requests : Is(r, "pending") /\ request[r].expired}

\* handleExpiredRequest of some requests: one that may still escalate does,
\* any other one is denied, where autoDenyRequest is enabled.
AutoDenied(q) == [q EXCEPT !.status = "denied", !.by = "system"]
MayEscalate(r) == request[r].count < MaxEscalations[request[r].risk]
DeniedAmong(expired) == {r \in expired : ~MayEscalate(r) /\ enableAutoDeny}

Handled(r, denied) ==
  IF MayEscalate(r) THEN Escalated(request[r]) ELSE IF r \in denied THEN AutoDenied(request[r]) ELSE request[r]

QueueWithout(expired, denied) == pendingQueue \ expired   \* mutant: a request that expired leaves the queue
QueueAfter(expired, denied) == (pendingQueue \cup (expired \ denied)) \ denied

HandleExpired(expired) ==
  LET denied == DeniedAmong(expired)
  IN  /\ request' = [r \in Requests |-> IF r \in expired THEN Handled(r, denied) ELSE request[r]]
      /\ pendingQueue' = QueueAfter(expired, denied)
      /\ UNCHANGED <<monitoring, enableAutoDeny>>

\* The interval of the monitor.
CheckTimeouts == monitoring /\ HandleExpired(ExpiredRequests)

\* expireOldRequests: those of them that are older than the caller says.
ExpireOld == \E expired \in SUBSET ExpiredRequests : HandleExpired(expired)

\* emergencyOverride: whatever is in the queue is approved.
EmergencyOverride(r) ==
  /\ r \in pendingQueue
  /\ request' = [request EXCEPT ![r] = [@ EXCEPT !.status = "approved", !.by = "human"]]
  /\ pendingQueue' = pendingQueue \ {r}
  /\ UNCHANGED <<monitoring, enableAutoDeny>>

\* startMonitoring and stopMonitoring.
Monitor(on) ==
  /\ monitoring' = on
  /\ UNCHANGED <<request, pendingQueue, enableAutoDeny>>

Next ==
  \/ \E r \in Requests, risk \in Risks : Create(r, risk)
  \/ \E r \in Requests : Expire(r) \/ Escalate(r) \/ EmergencyOverride(r)
  \/ \E r \in Requests, answer \in Answers \cup {"escalated"} : Respond(r, answer)
  \/ CheckTimeouts \/ ExpireOld
  \/ \E on \in BOOLEAN : Monitor(on)

Spec == Init /\ [][Next]_vars

\* The interval fires as long as it is not cleared, and time passes.
Fairness == WF_vars(CheckTimeouts) /\ \A r \in Requests : WF_vars(Expire(r))
FairSpec == Spec /\ Fairness

-----------------------------------------------------------------------------
\* The state keeps its type.
TypeOK ==
  /\ request \in [Requests -> Request \cup {None}]
  /\ pendingQueue \subseteq {r \in Requests : request[r] # None}
  /\ monitoring \in BOOLEAN /\ enableAutoDeny \in BOOLEAN

\* A request that nobody has answered is in the queue, so that the emergency
\* override reaches it, however often it was escalated.
UnansweredQueued == \A r \in Requests : request[r] # None /\ ~Answered(r) => r \in pendingQueue

\* What the monitor has denied stays denied: no answer that comes late, no
\* escalation and no override changes it.
AutoDeniedIsFinal ==
  [][\A r \in Requests : (Is(r, "denied") /\ request[r].by = "system") => Is(r, "denied")']_vars

\* A request whose time is over does not stay pending while the monitor
\* runs, where requests may be denied.
PendingEnds ==
  \A r \in Requests : Is(r, "pending") ~> ~Is(r, "pending") \/ ~monitoring \/ ~enableAutoDeny
=============================================================================
