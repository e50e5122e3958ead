----------------------------- MODULE BreakGlass -----------------------------
(***************************************************************************)
(* Emergency access: BreakGlassService over the table break_glass_requests.*)
(* A request is reviewed like an approval request; a quorum makes it       *)
(* active, and an active grant can be revoked and always expires.          *)
(* Handlers are cut at each `await` as in Approvals.                       *)
(***************************************************************************)
EXTENDS Naturals, FiniteSets

CONSTANTS
  GrantIds,       \* the ids randomUUID may return
  Principals,     \* the principals of authenticated contexts
  Tenants,
  NoTenant,       \* the tenantId of a context that is not bound to a tenant
  TenantOf,       \* [Principals -> Tenants \cup {NoTenant}]: context.tenantId
  Requests,       \* the access requests
  NoFingerprint,  \* the fingerprint field of an unused id
  Quorums,        \* values of KEYLORE_BREAKGLASS_REVIEW_QUORUM over restarts
  Durations,      \* values of requestedDurationSeconds
  MaxDuration,    \* KEYLORE_BREAKGLASS_MAX_DURATION_SECONDS, in clock units
  MaxClock,       \* bound: where the clock stops
  MaxInFlight     \* bound: handlers between two statements at one time

ASSUME BreakGlassAssumption ==
  /\ NoTenant \notin Tenants
  /\ TenantOf \in [Principals -> Tenants \cup {NoTenant}]
  /\ NoFingerprint \notin Principals \X Requests
  /\ Quorums \subseteq Nat \ {0}
  /\ Durations \subseteq Nat \ {0}
  /\ MaxDuration \in Nat \ {0}
  /\ MaxClock \in Nat
  /\ MaxInFlight \in Nat

VARIABLES
  grants,    \* the table break_glass_requests
  audit,     \* the break-glass events of the table audit_events
  inFlight,  \* the handlers between two of their statements
  clock      \* the time Date.now() and NOW() read

vars == <<grants, audit, inFlight, clock>>

-----------------------------------------------------------------------------
(* Types *)

Statuses == {"unused", "pending", "active", "denied", "expired", "revoked"}

\* What a reviewer asks for; "active" is stored as the decision "approved".
Verdicts == {"active", "denied"}
Decisions == {"approved", "denied"}

Fingerprint(principal, request) == <<principal, request>>

Review == [reviewedBy : Principals, decision : Decisions]

GrantRequest ==
  [status : Statuses,
   tenantId : Tenants \cup {NoTenant},
   fingerprint : (Principals \X Requests) \cup {NoFingerprint},
   expiresAt : Nat,
   requiredApprovals : Quorums \cup {0},
   approvalCount : Nat,
   denialCount : Nat,
   reviews : SUBSET Review]

Actions == Verdicts \cup {"request", "revoke"}

AuditEvent == [action : Actions, id : GrantIds, principal : Principals]

\* step "commit": past expireStale, before the writing statement;
\* step "audit": the row is written, the audit event is not.
Call ==
  [step : {"commit"}, action : Verdicts \cup {"revoke"},
   id : GrantIds, principal : Principals]
  \cup
  [step : {"audit"}, action : Actions, id : GrantIds, principal : Principals]

TypeOK ==
  /\ grants \in [GrantIds -> GrantRequest]
  /\ audit \subseteq AuditEvent
  /\ inFlight \subseteq Call
  /\ clock \in Nat

-----------------------------------------------------------------------------
(* Helpers *)

Unused ==
  [status |-> "unused", tenantId |-> NoTenant, fingerprint |-> NoFingerprint,
   expiresAt |-> 0, requiredApprovals |-> 0,
   approvalCount |-> 0, denialCount |-> 0, reviews |-> {}]

TenantAllowed(principal, tenant) == TenantOf[principal] \in {NoTenant, tenant}

\* Math.min(requestedDurationSeconds, maxDurationSeconds)
GrantedDuration(requested) ==
  IF requested <= MaxDuration THEN requested ELSE MaxDuration

NewRequest(principal, request, tenant, quorum, requested) ==
  [status |-> "pending",
   tenantId |-> tenant,
   fingerprint |-> Fingerprint(principal, request),
   expiresAt |-> clock + GrantedDuration(requested),
   requiredApprovals |-> quorum,
   approvalCount |-> 0, denialCount |-> 0, reviews |-> {}]

StalePendingOnly(row) == row.status = "pending" /\ row.expiresAt <= clock

StaleEvenRevoked(row) ==
  row.status \in {"pending", "active", "revoked"} /\ row.expiresAt <= clock

Stale(row) == row.status \in {"pending", "active"} /\ row.expiresAt <= clock

Expired ==
  [id \in GrantIds |->
     IF Stale(grants[id]) THEN [grants[id] EXCEPT !.status = "expired"]
                          ELSE grants[id]]

HasReviewed(principal, row) ==
  \E review \in row.reviews : review.reviewedBy = principal

NextStatusIgnoringDenials(row, approved, denied) ==
  IF approved >= row.requiredApprovals THEN "active" ELSE "pending"

NextStatus(row, approved, denied) ==
  IF denied > 0 THEN "denied"
  ELSE IF approved >= row.requiredApprovals THEN "active"
  ELSE "pending"

DecisionOf(verdict) == IF verdict = "active" THEN "approved" ELSE "denied"

\* The row as the review transaction writes it.
Reviewed(row, principal, verdict) ==
  LET approved == row.approvalCount + (IF verdict = "active" THEN 1 ELSE 0)
      denied   == row.denialCount + (IF verdict = "denied" THEN 1 ELSE 0)
  IN [row EXCEPT
        !.status = NextStatus(row, approved, denied),
        !.approvalCount = approved,
        !.denialCount = denied,
        !.reviews = @ \cup {[reviewedBy |-> principal, decision |-> DecisionOf(verdict)]}]

AcceptsRepeatedReview(call) ==
  LET row == grants[call.id] IN
  /\ TenantAllowed(call.principal, row.tenantId)
  /\ row.status = "pending"

Accepts(call) ==
  LET row == grants[call.id] IN
  /\ TenantAllowed(call.principal, row.tenantId)
  /\ row.status = "pending"
  /\ ~HasReviewed(call.principal, row)

\* UPDATE ... SET status = 'revoked' WHERE id = $1 AND status = 'active'
RevokesAnyTenant(call) == grants[call.id].status = "active"

Revokes(call) ==
  LET row == grants[call.id] IN
  TenantAllowed(call.principal, row.tenantId) /\ row.status = "active"

-----------------------------------------------------------------------------
(* Actions *)

Init ==
  /\ grants = [id \in GrantIds |-> Unused]
  /\ audit = {}
  /\ inFlight = {}
  /\ clock = 0

\* createRequest up to its INSERT.  Next states what it relies on: its caller,
\* BrokerService, has checked that the context may use the tenant.
CreateRequest(id, principal, request, tenant, quorum, requested) ==
  /\ Cardinality(inFlight) < MaxInFlight
  /\ clock + GrantedDuration(requested) <= MaxClock
  /\ grants[id].status = "unused"
  /\ grants' = [grants EXCEPT ![id] = NewRequest(principal, request, tenant, quorum, requested)]
  /\ inFlight' = inFlight \cup
       {[step |-> "audit", action |-> "request", id |-> id, principal |-> principal]}
  /\ UNCHANGED <<audit, clock>>

\* review and revoke, first statement: expireStale.
Begin(id, principal, action) ==
  /\ Cardinality(inFlight) < MaxInFlight
  /\ grants' = Expired
  /\ inFlight' = inFlight \cup
       {[step |-> "commit", action |-> action, id |-> id, principal |-> principal]}
  /\ UNCHANGED <<audit, clock>>

\* review, the transaction that holds the row FOR UPDATE.
AcceptReview(call) ==
  /\ call.step = "commit" /\ call.action \in Verdicts
  /\ Accepts(call)
  /\ grants' = [grants EXCEPT ![call.id] = Reviewed(@, call.principal, call.action)]
  /\ inFlight' = (inFlight \ {call}) \cup {[call EXCEPT !.step = "audit"]}
  /\ UNCHANGED <<audit, clock>>

\* revoke, its one UPDATE, and nothing else: the review history stays.
Revoke(call) ==
  /\ call.step = "commit" /\ call.action = "revoke"
  /\ Revokes(call)
  /\ grants' = [grants EXCEPT ![call.id].status = "revoked"]
  /\ inFlight' = (inFlight \ {call}) \cup {[call EXCEPT !.step = "audit"]}
  /\ UNCHANGED <<audit, clock>>

\* The tenant check or the duplicate check throws, or no row qualifies and
\* the handler returns undefined.
Reject(call) ==
  /\ call.step = "commit"
  /\ IF call.action = "revoke" THEN ~Revokes(call) ELSE ~Accepts(call)
  /\ inFlight' = inFlight \ {call}
  /\ UNCHANGED <<grants, audit, clock>>

RecordAudit(call) ==
  /\ call.step = "audit"
  /\ audit' = audit \cup
       {[action |-> call.action, id |-> call.id, principal |-> call.principal]}
  /\ inFlight' = inFlight \ {call}
  /\ UNCHANGED <<grants, clock>>

\* list, verifyActive and the maintenance loop each run expireStale.
ExpireStale ==
  /\ grants' = Expired
  /\ UNCHANGED <<audit, inFlight, clock>>

\* The process exits; every handler it ran is forgotten.
Crash ==
  /\ inFlight' = {}
  /\ UNCHANGED <<grants, audit, clock>>

Tick ==
  /\ clock < MaxClock
  /\ clock' = clock + 1
  /\ UNCHANGED <<grants, audit, inFlight>>

Next ==
  \/ \E id \in GrantIds, principal \in Principals, request \in Requests,
        tenant \in Tenants, quorum \in Quorums, requested \in Durations :
       /\ TenantAllowed(principal, tenant)
       /\ CreateRequest(id, principal, request, tenant, quorum, requested)
  \/ \E id \in GrantIds, principal \in Principals, action \in Verdicts \cup {"revoke"} :
       Begin(id, principal, action)
  \/ \E call \in inFlight :
       AcceptReview(call) \/ Revoke(call) \/ Reject(call) \/ RecordAudit(call)
  \/ ExpireStale
  \/ Crash
  \/ Tick

Spec == Init /\ [][Next]_vars

\* Time passes and the maintenance loop runs every maintenanceIntervalMs.
Fairness == WF_vars(Tick) /\ WF_vars(ExpireStale)

FairSpec == Spec /\ Fairness

-----------------------------------------------------------------------------
(* Properties *)

\* The distinct principals whose approval the row records.
Approvers(row) ==
  {p \in Principals : [reviewedBy |-> p, decision |-> "approved"] \in row.reviews}

\* docs/configuration.md: "distinct reviews required before a break-glass
\* request becomes active".  A grant that is active, or was until it expired
\* or was revoked, has a quorum of different approvers and no refusal.
DistinctQuorum ==
  \A id \in GrantIds :
    grants[id].status \in {"active", "revoked"} =>
      /\ Cardinality(Approvers(grants[id])) >= grants[id].requiredApprovals
      /\ \A review \in grants[id].reviews : review.decision = "approved"

\* A grant that ended, by a refusal, by revocation or by time, never comes
\* back, whatever review was already past its expiry sweep.
EndedStaysEnded ==
  [][\A id \in GrantIds :
       grants[id].status \in {"denied", "expired", "revoked"} =>
         grants'[id].status = grants[id].status]_vars

\* A principal bound to a tenant revokes and reviews grants of that tenant.
OperatorsStayInTenant ==
  \A event \in audit :
    event.action # "request" =>
      TenantAllowed(event.principal, grants[event.id].tenantId)

\* docs/threat-model.md: break-glass requests are "time-bounded".  Emergency
\* access always ends, by revocation or by a sweep.
GrantsEnd ==
  \A id \in GrantIds :
    (grants[id].status = "active") ~> (grants[id].status \in {"expired", "revoked"})

-----------------------------------------------------------------------------
(* The abstract specification, and how a grant maps to it *)

PhaseOf(status) ==
  CASE status = "unused"  -> "unused"
    [] status = "pending" -> "open"
    [] status = "active"  -> "granted"
    [] status \in {"denied", "expired", "revoked"} -> "closed"

QG == INSTANCE QuorumGrant WITH
        Ids <- GrantIds,
        Reviewers <- Principals,
        phase <- [id \in GrantIds |-> PhaseOf(grants[id].status)],
        required <- [id \in GrantIds |-> grants[id].requiredApprovals],
        approvers <- [id \in GrantIds |-> Approvers(grants[id])]

\* The table of break-glass requests behaves as a quorum grant.
ImplementsQuorumGrant == QG!Spec

=============================================================================
