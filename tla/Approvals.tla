----------------------------- MODULE Approvals -----------------------------
(***************************************************************************)
(* The approval requests of KeyLore: ApprovalService over the table        *)
(* approval_requests.  A request is created pending when policy asks for   *)
(* an approval, reviewed by principals in concurrent HTTP calls, and       *)
(* expires.                                                                *)
(*                                                                         *)
(* Every `await` of a handler is a point where other calls run, so a       *)
(* handler is one action per database statement (or transaction).  A call  *)
(* that is between two statements is a member of inFlight; it keeps only   *)
(* what the handler keeps across the await.  A crash of the process        *)
(* forgets inFlight and keeps the tables.                                  *)
(***************************************************************************)
EXTENDS Naturals, FiniteSets

CONSTANTS
  ApprovalIds,    \* the ids randomUUID may return
  Principals,     \* the principals of authenticated contexts
  Tenants,
  NoTenant,       \* the tenantId of a context that is not bound to a tenant
  TenantOf,       \* [Principals -> Tenants \cup {NoTenant}]: context.tenantId
  Requests,       \* the access requests, up to equal credential, operation,
                  \*   target, headers and payload
  NoFingerprint,  \* the fingerprint field of an unused id
  Quorums,        \* values of KEYLORE_APPROVAL_REVIEW_QUORUM over restarts
  Ttl,            \* KEYLORE_APPROVAL_TTL_SECONDS, in clock units
  MaxClock,       \* bound: where the clock stops
  MaxInFlight     \* bound: handlers between two statements at one time

ASSUME ApprovalsAssumption ==
  /\ NoTenant \notin Tenants
  /\ TenantOf \in [Principals -> Tenants \cup {NoTenant}]
  /\ NoFingerprint \notin Principals \X Requests
  /\ Quorums \subseteq Nat \ {0}
  /\ Ttl \in Nat \ {0}
  /\ MaxClock \in Nat
  /\ MaxInFlight \in Nat

VARIABLES
  approvals,  \* the table approval_requests
  audit,      \* the approval events of the table audit_events
  inFlight,   \* the handlers between two of their statements
  clock       \* the time Date.now() and NOW() read

vars == <<approvals, audit, inFlight, clock>>

-----------------------------------------------------------------------------
(* Types *)

Statuses == {"unused", "pending", "approved", "denied", "expired"}
Decisions == {"approved", "denied"}

\* accessFingerprint hashes the principal, its tenant (a function of the
\* principal here) and the request.
Fingerprint(principal, request) == <<principal, request>>

Review == [reviewedBy : Principals, decision : Decisions]

ApprovalRequest ==
  [status : Statuses,
   tenantId : Tenants \cup {NoTenant},
   fingerprint : (Principals \X Requests) \cup {NoFingerprint},
   expiresAt : Nat,
   requiredApprovals : Quorums \cup {0},
   approvalCount : Nat,
   denialCount : Nat,
   reviews : SUBSET Review]

AuditEvent ==
  [action : Decisions \cup {"request"}, id : ApprovalIds, principal : Principals]

\* step "review": past expireStale, before the transaction;
\* step "audit": the row is written, the audit event is not.
Call ==
  [step : {"review"}, action : Decisions, id : ApprovalIds, principal : Principals]
  \cup
  [step : {"audit"}, action : Decisions \cup {"request"},
   id : ApprovalIds, principal : Principals]

TypeOK ==
  /\ approvals \in [ApprovalIds -> ApprovalRequest]
  /\ audit \subseteq AuditEvent
  /\ inFlight \subseteq Call
  /\ clock \in Nat

-----------------------------------------------------------------------------
(* Helpers *)

Unused ==
  [status |-> "unused", tenantId |-> NoTenant, fingerprint |-> NoFingerprint,
   expiresAt |-> 0, requiredApprovals |-> 0, approvalCount |-> 0,
   denialCount |-> 0, reviews |-> {}]

TenantAllowed(principal, tenant) == TenantOf[principal] \in {NoTenant, tenant}

NewRequest(principal, request, tenant, quorum) ==
  [status |-> "pending",
   tenantId |-> tenant,
   fingerprint |-> Fingerprint(principal, request),
   expiresAt |-> clock + Ttl,
   requiredApprovals |-> quorum,
   approvalCount |-> 0, denialCount |-> 0, reviews |-> {}]

StaleUnreviewed(request) ==
  request.status = "pending" /\ request.expiresAt <= clock /\ request.reviews = {}

StaleIgnoringStatus(request) ==
  request.status # "unused" /\ request.expiresAt <= clock

Stale(request) == request.status = "pending" /\ request.expiresAt <= clock

\* UPDATE ... SET status = 'expired' WHERE status = 'pending' AND expires_at <= NOW()
Expired ==
  [id \in ApprovalIds |->
     IF Stale(approvals[id]) THEN [approvals[id] EXCEPT !.status = "expired"]
                             ELSE approvals[id]]

HasReviewed(principal, request) ==
  \E review \in request.reviews : review.reviewedBy = principal

NextStatusCountingAll(request, approved, denied) ==
  IF denied > 0 THEN "denied"
  ELSE IF approved + 1 >= request.requiredApprovals THEN "approved"
  ELSE "pending"

NextStatus(request, approved, denied) ==
  IF denied > 0 THEN "denied"
  ELSE IF approved >= request.requiredApprovals THEN "approved"
  ELSE "pending"

\* The row as the review transaction writes it.
Reviewed(request, principal, decision) ==
  LET approved == request.approvalCount + (IF decision = "approved" THEN 1 ELSE 0)
      denied   == request.denialCount + (IF decision = "denied" THEN 1 ELSE 0)
  IN [request EXCEPT
        !.status = NextStatus(request, approved, denied),
        !.approvalCount = approved,
        !.denialCount = denied,
        !.reviews = @ \cup {[reviewedBy |-> principal, decision |-> decision]}]

AcceptsRepeatedReview(call) ==
  LET request == approvals[call.id] IN
  /\ TenantAllowed(call.principal, request.tenantId)
  /\ request.status = "pending"

AcceptsOtherTenants(call) ==
  LET request == approvals[call.id] IN
  /\ request.status = "pending"
  /\ ~HasReviewed(call.principal, request)

Accepts(call) ==
  LET request == approvals[call.id] IN
  /\ TenantAllowed(call.principal, request.tenantId)
  /\ request.status = "pending"
  /\ ~HasReviewed(call.principal, request)

-----------------------------------------------------------------------------
(* Actions *)

Init ==
  /\ approvals = [id \in ApprovalIds |-> Unused]
  /\ audit = {}
  /\ inFlight = {}
  /\ clock = 0

\* createPending up to its INSERT.  Next states what it relies on: its caller,
\* BrokerService, has checked that the context may use the tenant.
CreatePending(id, principal, request, tenant, quorum) ==
  /\ Cardinality(inFlight) < MaxInFlight
  /\ clock + Ttl <= MaxClock
  /\ approvals[id].status = "unused"
  /\ approvals' = [approvals EXCEPT ![id] = NewRequest(principal, request, tenant, quorum)]
  /\ inFlight' = inFlight \cup
       {[step |-> "audit", action |-> "request", id |-> id, principal |-> principal]}
  /\ UNCHANGED <<audit, clock>>

\* review, first statement: expireStale.
BeginReview(id, principal, decision) ==
  /\ Cardinality(inFlight) < MaxInFlight
  /\ approvals' = Expired
  /\ inFlight' = inFlight \cup
       {[step |-> "review", action |-> decision, id |-> id, principal |-> principal]}
  /\ UNCHANGED <<audit, clock>>

\* review, the transaction that holds the row FOR UPDATE.  The tenant check
\* before it reads a column that never changes, so it is taken here.
AcceptReview(call) ==
  /\ call.step = "review"
  /\ Accepts(call)
  /\ approvals' = [approvals EXCEPT ![call.id] =
                     Reviewed(@, call.principal, call.action)]
  /\ inFlight' = (inFlight \ {call}) \cup {[call EXCEPT !.step = "audit"]}
  /\ UNCHANGED <<audit, clock>>

RejectReviewButAudit(call) ==
  /\ call.step = "review"
  /\ ~Accepts(call)
  /\ inFlight' = (inFlight \ {call}) \cup {[call EXCEPT !.step = "audit"]}
  /\ UNCHANGED <<approvals, audit, clock>>

\* The tenant check or the duplicate check throws, or the row is not pending
\* and the handler returns undefined.
RejectReview(call) ==
  /\ call.step = "review"
  /\ ~Accepts(call)
  /\ inFlight' = inFlight \ {call}
  /\ UNCHANGED <<approvals, audit, clock>>

RecordAudit(call) ==
  /\ call.step = "audit"
  /\ audit' = audit \cup
       {[action |-> call.action, id |-> call.id, principal |-> call.principal]}
  /\ inFlight' = inFlight \ {call}
  /\ UNCHANGED <<approvals, clock>>

\* list, verifyApproval and the maintenance loop each run expireStale.
ExpireStale ==
  /\ approvals' = Expired
  /\ UNCHANGED <<audit, inFlight, clock>>

\* The process exits; every handler it ran is forgotten.
Crash ==
  /\ inFlight' = {}
  /\ UNCHANGED <<approvals, audit, clock>>

Tick ==
  /\ clock < MaxClock
  /\ clock' = clock + 1
  /\ UNCHANGED <<approvals, audit, inFlight>>

Next ==
  \/ \E id \in ApprovalIds, principal \in Principals, request \in Requests,
        tenant \in Tenants, quorum \in Quorums :
       /\ TenantAllowed(principal, tenant)
       /\ CreatePending(id, principal, request, tenant, quorum)
  \/ \E id \in ApprovalIds, principal \in Principals, decision \in Decisions :
       BeginReview(id, principal, decision)
  \/ \E call \in inFlight :
       AcceptReview(call) \/ RejectReview(call) \/ RecordAudit(call)
  \/ ExpireStale
  \/ Crash
  \/ Tick

Spec == Init /\ [][Next]_vars

\* Time passes and the maintenance loop runs every maintenanceIntervalMs.
Fairness == WF_vars(Tick) /\ WF_vars(ExpireStale)

FairSpec == Spec /\ Fairness

-----------------------------------------------------------------------------
(* Properties *)

\* The distinct principals whose approval the row records.
Approvers(request) ==
  {p \in Principals : [reviewedBy |-> p, decision |-> "approved"] \in request.reviews}

\* docs/configuration.md: "Approvals require distinct reviewers; the same
\* reviewer cannot count twice."  However reviews interleave, an approved
\* request was approved by as many different principals as the quorum it was
\* created with, and refused by nobody.
DistinctQuorum ==
  \A id \in ApprovalIds :
    approvals[id].status = "approved" =>
      /\ Cardinality(Approvers(approvals[id])) >= approvals[id].requiredApprovals
      /\ \A review \in approvals[id].reviews : review.decision = "approved"

\* "Any denial finalizes the request as denied": a request that one reviewer
\* refused is denied, whatever reviews and expiry sweeps run beside it.
DenialFinalizes ==
  \A id \in ApprovalIds :
    (\E review \in approvals[id].reviews : review.decision = "denied")
      => approvals[id].status = "denied"

\* A decided or expired request is never touched again, neither by a review
\* that was already past its expiry sweep nor by a later sweep.
DecisionsAreFinal ==
  [][\A id \in ApprovalIds :
       approvals[id].status \in {"approved", "denied", "expired"} =>
         approvals'[id] = approvals[id]]_vars

\* A principal bound to a tenant has reviewed requests of that tenant only.
ReviewsStayInTenant ==
  \A id \in ApprovalIds : \A review \in approvals[id].reviews :
    TenantAllowed(review.reviewedBy, approvals[id].tenantId)

\* The audit log never tells of a review or a request that did not happen:
\* the event is written after the row, and only when the row was written.
AuditIsTruthful ==
  \A event \in audit :
    IF event.action = "request"
    THEN approvals[event.id].fingerprint \in {event.principal} \X Requests
    ELSE [reviewedBy |-> event.principal, decision |-> event.action]
           \in approvals[event.id].reviews

\* No request stays pending for ever: reviewers settle it or a sweep does.
PendingSettles ==
  \A id \in ApprovalIds :
    (approvals[id].status = "pending") ~> (approvals[id].status # "pending")

-----------------------------------------------------------------------------
(* The abstract specification, and how an approval request maps to it *)

PhaseOf(status) ==
  CASE status = "unused"   -> "unused"
    [] status = "pending"  -> "open"
    [] status = "approved" -> "granted"
    [] status \in {"denied", "expired"} -> "closed"

QG == INSTANCE QuorumGrant WITH
        Ids <- ApprovalIds,
        Reviewers <- Principals,
        phase <- [id \in ApprovalIds |-> PhaseOf(approvals[id].status)],
        required <- [id \in ApprovalIds |-> approvals[id].requiredApprovals],
        approvers <- [id \in ApprovalIds |-> Approvers(approvals[id])]

\* The table of approval requests behaves as a quorum grant: no sequence of
\* creations, reviews, sweeps and crashes takes a request where the abstract
\* protocol could not.
ImplementsQuorumGrant == QG!Spec

=============================================================================
