-------------------------- MODULE BreakGlassProofs --------------------------
(***************************************************************************)
(* What holds of BreakGlass for every set of principals, tenants, requests *)
(* and quorums, and every bound: the types, the quorum of distinct         *)
(* reviewers, that what ended stays ended, that operators stay in their    *)
(* tenant, and that the table implements QuorumGrant.                      *)
(***************************************************************************)
EXTENDS BreakGlass, FiniteSetTheorems, TLAPS

\* The counters agree with the reviews and the status with the counters; a
\* revoked grant keeps the quorum it was activated with.
RowInv(row) ==
  /\ IsFiniteSet(Approvers(row))
  /\ row.approvalCount = Cardinality(Approvers(row))
  /\ row.denialCount = 0 => \A review \in row.reviews : review.decision = "approved"
  /\ row.denialCount > 0 => row.status = "denied"
  /\ row.status \in {"active", "revoked"} => row.approvalCount >= row.requiredApprovals
  /\ row.status = "unused" => row.reviews = {} /\ row.requiredApprovals = 0
  /\ row.status # "unused" => row.requiredApprovals \in Quorums

IInv == TypeOK /\ \A id \in GrantIds : RowInv(grants[id])

-----------------------------------------------------------------------------
(* Types *)

LEMMA UnusedType == Unused \in GrantRequest
  BY BreakGlassAssumption DEF Unused, GrantRequest, Statuses

LEMMA NewRequestType ==
  ASSUME TypeOK, NEW principal \in Principals, NEW request \in Requests,
         NEW tenant \in Tenants, NEW quorum \in Quorums, NEW requested \in Durations
  PROVE  NewRequest(principal, request, tenant, quorum, requested) \in GrantRequest
  <1>1. GrantedDuration(requested) \in Nat
    BY BreakGlassAssumption DEF GrantedDuration
  <1> QED
    BY <1>1, BreakGlassAssumption
       DEF NewRequest, GrantRequest, Statuses, TypeOK, Fingerprint

LEMMA ExpiredType ==
  ASSUME TypeOK
  PROVE  Expired \in [GrantIds -> GrantRequest]
  BY DEF TypeOK, Expired, GrantRequest, Statuses

LEMMA ReviewedType ==
  ASSUME NEW row \in GrantRequest, NEW principal \in Principals,
         NEW verdict \in Verdicts
  PROVE  Reviewed(row, principal, verdict) \in GrantRequest
  <1> DEFINE approved == row.approvalCount + (IF verdict = "active" THEN 1 ELSE 0)
             denied   == row.denialCount + (IF verdict = "denied" THEN 1 ELSE 0)
  <1>1. approved \in Nat /\ denied \in Nat
    BY DEF GrantRequest
  <1>2. NextStatus(row, approved, denied) \in Statuses
    BY DEF NextStatus, Statuses
  <1>3. [reviewedBy |-> principal, decision |-> DecisionOf(verdict)] \in Review
    BY DEF Review, DecisionOf, Decisions
  <1> QED
    BY <1>1, <1>2, <1>3 DEF Reviewed, GrantRequest

\* Every step keeps the types.
LEMMA TypeStep == TypeOK /\ [Next]_vars => TypeOK'
  <1> SUFFICES ASSUME TypeOK, [Next]_vars PROVE TypeOK'
    OBVIOUS
  <1>1. ASSUME NEW id \in GrantIds, NEW principal \in Principals,
               NEW request \in Requests, NEW tenant \in Tenants, NEW quorum \in Quorums,
               NEW requested \in Durations,
               CreateRequest(id, principal, request, tenant, quorum, requested)
        PROVE  TypeOK'
    BY <1>1, NewRequestType DEF CreateRequest, TypeOK, Call, Actions
  <1>2. ASSUME NEW id \in GrantIds, NEW principal \in Principals,
               NEW action \in Verdicts \cup {"revoke"}, Begin(id, principal, action)
        PROVE  TypeOK'
    BY <1>2, ExpiredType DEF Begin, TypeOK, Call
  <1>3. ASSUME NEW call \in inFlight, AcceptReview(call)
        PROVE  TypeOK'
    <2>1. call \in Call /\ call.action \in Verdicts
      BY <1>3 DEF TypeOK, AcceptReview
    <2>2. Reviewed(grants[call.id], call.principal, call.action) \in GrantRequest
      BY <2>1, ReviewedType DEF TypeOK, Call
    <2>3. [call EXCEPT !.step = "audit"] \in Call
      BY <2>1 DEF Call, Actions
    <2> QED
      BY <1>3, <2>2, <2>3 DEF AcceptReview, TypeOK
  <1>4. ASSUME NEW call \in inFlight, Revoke(call)
        PROVE  TypeOK'
    <2>1. call \in Call /\ call.action = "revoke"
      BY <1>4 DEF TypeOK, Revoke
    <2>2. [call EXCEPT !.step = "audit"] \in Call
      BY <2>1 DEF Call, Actions
    <2>3. grants' \in [GrantIds -> GrantRequest]
      <3>1. grants[call.id] \in GrantRequest
        BY <2>1 DEF TypeOK, Call
      <3>2. [grants[call.id] EXCEPT !.status = "revoked"] \in GrantRequest
        BY <3>1 DEF GrantRequest, Statuses
      <3>3. grants' = [grants EXCEPT ![call.id] =
                         [grants[call.id] EXCEPT !.status = "revoked"]]
        BY <1>4 DEF Revoke
      <3> QED
        BY <3>2, <3>3 DEF TypeOK
    <2> QED
      BY <1>4, <2>2, <2>3 DEF Revoke, TypeOK
  <1>5. ASSUME NEW call \in inFlight, Reject(call)
        PROVE  TypeOK'
    BY <1>5 DEF Reject, TypeOK
  <1>6. ASSUME NEW call \in inFlight, RecordAudit(call)
        PROVE  TypeOK'
    BY <1>6 DEF RecordAudit, TypeOK, Call, AuditEvent
  <1>7. CASE ExpireStale
    BY <1>7, ExpiredType DEF ExpireStale, TypeOK
  <1>8. CASE Crash
    BY <1>8 DEF Crash, TypeOK
  <1>9. CASE Tick
    BY <1>9 DEF Tick, TypeOK
  <1>10. CASE UNCHANGED vars
    BY <1>10 DEF vars, TypeOK
  <1> QED
    BY <1>1, <1>2, <1>3, <1>4, <1>5, <1>6, <1>7, <1>8, <1>9, <1>10 DEF Next

\* The table and the handlers of the break-glass service keep their types.
THEOREM BreakGlassTypes == Spec => []TypeOK
  <1>1. Init => TypeOK
    BY UnusedType DEF Init, TypeOK
  <1> QED
    BY <1>1, TypeStep, PTL DEF Spec

-----------------------------------------------------------------------------
(* The counters and the reviews *)

LEMMA UnusedRow == RowInv(Unused)
  <1>1. Approvers(Unused) = {}
    BY DEF Approvers, Unused
  <1> QED
    BY <1>1, FS_EmptySet DEF RowInv, Unused

LEMMA NewRequestRow ==
  ASSUME NEW principal \in Principals, NEW request \in Requests,
         NEW tenant \in Tenants, NEW quorum \in Quorums, NEW requested \in Durations
  PROVE  RowInv(NewRequest(principal, request, tenant, quorum, requested))
  <1>1. Approvers(NewRequest(principal, request, tenant, quorum, requested)) = {}
    BY DEF Approvers, NewRequest
  <1> QED
    BY <1>1, FS_EmptySet DEF RowInv, NewRequest

\* Changing the status alone keeps the counters right, unless it makes active
\* or revokes a row that was not active.
LEMMA StatusOnly ==
  ASSUME NEW row \in GrantRequest, RowInv(row), NEW status \in Statuses,
         \/ row.status \in {"pending", "active"} /\ status = "expired"
         \/ row.status = "active" /\ status = "revoked"
  PROVE  /\ RowInv([row EXCEPT !.status = status])
         /\ Approvers([row EXCEPT !.status = status]) = Approvers(row)
  <1> DEFINE after == [row EXCEPT !.status = status]
  <1>1. /\ after.reviews = row.reviews
        /\ after.approvalCount = row.approvalCount
        /\ after.denialCount = row.denialCount
        /\ after.requiredApprovals = row.requiredApprovals
        /\ after.status = status
    BY DEF GrantRequest
  <1>2. Approvers(after) = Approvers(row)
    BY <1>1 DEF Approvers
  <1> QED
    BY <1>1, <1>2 DEF RowInv

LEMMA ExpiredRows ==
  ASSUME IInv, NEW id \in GrantIds
  PROVE  RowInv(Expired[id]) /\ Approvers(Expired[id]) = Approvers(grants[id])
  <1>1. grants[id] \in GrantRequest /\ RowInv(grants[id])
    BY DEF IInv, TypeOK
  <1>2. CASE ~Stale(grants[id])
    BY <1>1, <1>2 DEF Expired
  <1>3. CASE Stale(grants[id])
    BY <1>1, <1>3, StatusOnly DEF Expired, Stale, Statuses
  <1> QED
    BY <1>2, <1>3

\* A review by a principal that has not reviewed yet adds one approver to the
\* set exactly when it adds one to the counter.
LEMMA ReviewedRow ==
  ASSUME NEW row \in GrantRequest, RowInv(row), row.status = "pending",
         NEW principal \in Principals, ~HasReviewed(principal, row),
         NEW verdict \in Verdicts
  PROVE  /\ RowInv(Reviewed(row, principal, verdict))
         /\ verdict = "active" =>
              /\ Approvers(Reviewed(row, principal, verdict)) =
                   Approvers(row) \cup {principal}
              /\ principal \notin Approvers(row)
         /\ verdict = "denied" =>
              Approvers(Reviewed(row, principal, verdict)) = Approvers(row)
  <1> DEFINE approved == row.approvalCount + (IF verdict = "active" THEN 1 ELSE 0)
             denied   == row.denialCount + (IF verdict = "denied" THEN 1 ELSE 0)
             review   == [reviewedBy |-> principal, decision |-> DecisionOf(verdict)]
             after    == Reviewed(row, principal, verdict)
  <1>1. /\ after.status = NextStatus(row, approved, denied)
        /\ after.approvalCount = approved
        /\ after.denialCount = denied
        /\ after.reviews = row.reviews \cup {review}
        /\ after.requiredApprovals = row.requiredApprovals
    BY DEF Reviewed, GrantRequest
  <1>2. /\ row.approvalCount \in Nat /\ row.denialCount = 0
        /\ row.requiredApprovals \in Quorums /\ row.requiredApprovals \in Nat
        /\ row.approvalCount = Cardinality(Approvers(row))
        /\ IsFiniteSet(Approvers(row))
        /\ \A r \in row.reviews : r.decision = "approved"
    <2>1. row.approvalCount \in Nat /\ row.denialCount \in Nat
      BY DEF GrantRequest
    <2>2. row.requiredApprovals \in Quorums
      BY DEF RowInv
    <2>3. row.denialCount = 0
      BY <2>1 DEF RowInv
    <2> QED
      BY <2>1, <2>2, <2>3, BreakGlassAssumption DEF RowInv
  <1>3. principal \notin Approvers(row)
    BY DEF HasReviewed, Approvers
  <1>4. CASE verdict = "active"
    <2>1. Approvers(after) = Approvers(row) \cup {principal}
      BY <1>1, <1>4 DEF Approvers, DecisionOf
    <2>2. /\ IsFiniteSet(Approvers(after))
          /\ Cardinality(Approvers(after)) = row.approvalCount + 1
      BY <1>2, <1>3, <2>1, FS_AddElement
    <2>3. approved = row.approvalCount + 1 /\ denied = 0
      BY <1>2, <1>4
    <2>4. \A r \in after.reviews : r.decision = "approved"
      BY <1>1, <1>2, <1>4 DEF DecisionOf
    <2>5. RowInv(after)
      BY <1>1, <1>2, <2>2, <2>3, <2>4 DEF RowInv, NextStatus
    <2> QED
      BY <1>3, <1>4, <2>1, <2>5
  <1>5. CASE verdict = "denied"
    <2>1. Approvers(after) = Approvers(row)
      BY <1>1, <1>5 DEF Approvers, DecisionOf
    <2>2. approved = row.approvalCount /\ denied = 1
      BY <1>2, <1>5
    <2>3. RowInv(after)
      BY <1>1, <1>2, <2>1, <2>2 DEF RowInv, NextStatus
    <2> QED
      BY <1>5, <2>1, <2>3
  <1> QED
    BY <1>4, <1>5 DEF Verdicts

LEMMA RowStep == IInv /\ [Next]_vars => IInv'
  <1> SUFFICES ASSUME IInv, [Next]_vars PROVE IInv'
    OBVIOUS
  <1>1. TypeOK'
    BY TypeStep DEF IInv
  <1> SUFFICES ASSUME NEW id \in GrantIds PROVE RowInv(grants'[id])
    BY <1>1 DEF IInv
  <1>2. RowInv(grants[id]) /\ TypeOK
    BY DEF IInv
  <1>3. ASSUME NEW new \in GrantIds, NEW principal \in Principals,
               NEW request \in Requests, NEW tenant \in Tenants, NEW quorum \in Quorums,
               NEW requested \in Durations,
               CreateRequest(new, principal, request, tenant, quorum, requested)
        PROVE  RowInv(grants'[id])
    BY <1>2, <1>3, NewRequestRow DEF CreateRequest, TypeOK
  <1>4. CASE grants' = Expired
    BY <1>4, ExpiredRows
  <1>5. ASSUME NEW call \in inFlight, AcceptReview(call)
        PROVE  RowInv(grants'[id])
    <2>1. /\ call \in Call /\ call.action \in Verdicts
          /\ call.id \in GrantIds /\ call.principal \in Principals
      BY <1>2, <1>5 DEF TypeOK, Call, AcceptReview
    <2>2. CASE id # call.id
      BY <1>2, <1>5, <2>2 DEF AcceptReview, TypeOK
    <2>3. CASE id = call.id
      <3>1. /\ grants[id] \in GrantRequest
            /\ grants[id].status = "pending"
            /\ ~HasReviewed(call.principal, grants[id])
            /\ grants'[id] = Reviewed(grants[id], call.principal, call.action)
        BY <1>2, <1>5, <2>3 DEF AcceptReview, Accepts, TypeOK
      <3> QED
        BY <1>2, <2>1, <3>1, ReviewedRow
    <2> QED
      BY <2>2, <2>3
  <1>6. ASSUME NEW call \in inFlight, Revoke(call)
        PROVE  RowInv(grants'[id])
    <2>1. /\ grants[id] \in GrantRequest
          /\ grants'[id] = IF id = call.id THEN [grants[id] EXCEPT !.status = "revoked"]
                                           ELSE grants[id]
          /\ id = call.id => grants[id].status = "active"
      BY <1>2, <1>6 DEF Revoke, Revokes, TypeOK
    <2> QED
      BY <1>2, <2>1, StatusOnly DEF Statuses
  <1>7. CASE UNCHANGED grants
    BY <1>2, <1>7
  <1> QED
    BY <1>3, <1>4, <1>5, <1>6, <1>7
       DEF Next, vars, Begin, ExpireStale, Reject, RecordAudit, Crash, Tick

LEMMA RowsInvariant == Spec => []IInv
  <1>1. Init => IInv
    BY UnusedType, UnusedRow DEF Init, IInv, TypeOK
  <1> QED
    BY <1>1, RowStep, PTL DEF Spec

\* A grant that is active, or was when it was revoked, has a quorum of
\* distinct approvers and no refusal.
THEOREM ActiveOnlyByQuorum == Spec => []DistinctQuorum
  <1>1. IInv => DistinctQuorum
    <2> SUFFICES ASSUME IInv, NEW id \in GrantIds,
                        grants[id].status \in {"active", "revoked"}
                 PROVE  /\ Cardinality(Approvers(grants[id])) >= grants[id].requiredApprovals
                        /\ \A review \in grants[id].reviews : review.decision = "approved"
      BY DEF DistinctQuorum
    <2>1. RowInv(grants[id]) /\ grants[id].denialCount \in Nat
      BY DEF IInv, TypeOK, GrantRequest
    <2> QED
      BY <2>1 DEF RowInv
  <1> QED
    BY <1>1, RowsInvariant, PTL

\* No step of any handler touches a grant that was denied, expired or revoked.
LEMMA EndedRowsStay ==
  ASSUME TypeOK, [Next]_vars, NEW id \in GrantIds,
         grants[id].status \in {"denied", "expired", "revoked"}
  PROVE  grants'[id] = grants[id]
  <1>1. CASE grants' = Expired
    BY <1>1 DEF Expired, Stale
  <1>2. ASSUME NEW call \in inFlight, AcceptReview(call)
        PROVE  grants'[id] = grants[id]
    BY <1>2 DEF AcceptReview, Accepts, TypeOK
  <1>3. ASSUME NEW call \in inFlight, Revoke(call)
        PROVE  grants'[id] = grants[id]
    BY <1>3 DEF Revoke, Revokes, TypeOK
  <1>4. ASSUME NEW new \in GrantIds, NEW principal \in Principals,
               NEW request \in Requests, NEW tenant \in Tenants, NEW quorum \in Quorums,
               NEW requested \in Durations,
               CreateRequest(new, principal, request, tenant, quorum, requested)
        PROVE  grants'[id] = grants[id]
    BY <1>4 DEF CreateRequest, TypeOK
  <1>5. CASE UNCHANGED grants
    BY <1>5
  <1> QED
    BY <1>1, <1>2, <1>3, <1>4, <1>5
       DEF Next, vars, Begin, ExpireStale, Reject, RecordAudit, Crash, Tick

\* A grant that was denied, revoked or has expired is never revived.
THEOREM EndedGrantsStayEnded == Spec => EndedStaysEnded
  <1>1. TypeOK /\ [Next]_vars =>
          [\A id \in GrantIds :
             grants[id].status \in {"denied", "expired", "revoked"} =>
               grants'[id].status = grants[id].status]_vars
    BY EndedRowsStay
  <1> QED
    BY <1>1, BreakGlassTypes, PTL DEF Spec, EndedStaysEnded

\* A grant that was active keeps the reviews that made it so, even when it ends.
LEMMA GrantedRowsKeepReviews ==
  ASSUME TypeOK, [Next]_vars, NEW id \in GrantIds,
         grants[id].status \in {"active", "expired", "revoked"}
  PROVE  /\ grants'[id].status \in {"active", "expired", "revoked"}
         /\ grants'[id].reviews = grants[id].reviews
         /\ grants'[id].requiredApprovals = grants[id].requiredApprovals
  <1> DEFINE Kept(old, new) ==
               /\ new.status \in {"active", "expired", "revoked"}
               /\ new.reviews = old.reviews
               /\ new.requiredApprovals = old.requiredApprovals
  <1>1. grants[id] \in GrantRequest
    BY DEF TypeOK
  <1>2. CASE grants[id].status # "active"
    BY <1>2, EndedRowsStay
  <1>3. CASE grants' = Expired
    BY <1>1, <1>3 DEF Expired, GrantRequest
  <1>4. ASSUME NEW call \in inFlight, AcceptReview(call)
        PROVE  Kept(grants[id], grants'[id])
    BY <1>4 DEF AcceptReview, Accepts, TypeOK
  <1>5. ASSUME NEW call \in inFlight, Revoke(call)
        PROVE  Kept(grants[id], grants'[id])
    BY <1>1, <1>5 DEF Revoke, TypeOK, GrantRequest
  <1>6. ASSUME NEW new \in GrantIds, NEW principal \in Principals,
               NEW request \in Requests, NEW tenant \in Tenants, NEW quorum \in Quorums,
               NEW requested \in Durations,
               CreateRequest(new, principal, request, tenant, quorum, requested)
        PROVE  Kept(grants[id], grants'[id])
    BY <1>6 DEF CreateRequest, TypeOK
  <1>7. CASE UNCHANGED grants
    BY <1>7
  <1> QED
    BY <1>3, <1>4, <1>5, <1>6, <1>7
       DEF Next, vars, Begin, ExpireStale, Reject, RecordAudit, Crash, Tick

LEMMA ClockMovesOn ==
  ASSUME TypeOK, [Next]_vars
  PROVE  clock \in Nat /\ clock' \in Nat /\ clock <= clock'
  <1>1. clock' = clock \/ clock' = clock + 1
    BY DEF Next, vars, CreateRequest, Begin, AcceptReview, Revoke, Reject, RecordAudit,
      ExpireStale, Crash, Tick
  <1> QED
    BY <1>1 DEF TypeOK

-----------------------------------------------------------------------------
(* Tenants *)

\* An operator was allowed to act on a row.  That the row is used is needed
\* too: a new request may write another tenant to a row that is not.
ActedInTenant(act, row) ==
  act.action # "request" =>
    row.status # "unused" /\ TenantAllowed(act.principal, row.tenantId)

TenantInv ==
  /\ \A event \in audit : ActedInTenant(event, grants[event.id])
  /\ \A call \in inFlight :
       call.step = "audit" => ActedInTenant(call, grants[call.id])

\* Once a row is used it stays used, in its tenant, for its request, until its time.
LEMMA UsedRowsStay ==
  ASSUME TypeOK, [Next]_vars, NEW id \in GrantIds, grants[id].status # "unused"
  PROVE  /\ grants'[id].status # "unused"
         /\ grants'[id].tenantId = grants[id].tenantId
         /\ grants'[id].fingerprint = grants[id].fingerprint
         /\ grants'[id].expiresAt = grants[id].expiresAt
  <1> DEFINE Stays(old, new) ==
               /\ new.status # "unused" /\ new.tenantId = old.tenantId
               /\ new.fingerprint = old.fingerprint /\ new.expiresAt = old.expiresAt
  <1>1. grants[id] \in GrantRequest
    BY DEF TypeOK
  <1>2. CASE grants' = Expired
    BY <1>1, <1>2 DEF Expired, GrantRequest
  <1>3. ASSUME NEW call \in inFlight, AcceptReview(call)
        PROVE  Stays(grants[id], grants'[id])
    <2>1. CASE id # call.id
      BY <1>3, <2>1 DEF AcceptReview, TypeOK
    <2>2. CASE id = call.id
      BY <1>1, <1>3, <2>2 DEF AcceptReview, TypeOK, Reviewed, NextStatus, GrantRequest
    <2> QED
      BY <2>1, <2>2
  <1>4. ASSUME NEW call \in inFlight, Revoke(call)
        PROVE  Stays(grants[id], grants'[id])
    BY <1>1, <1>4 DEF Revoke, TypeOK, GrantRequest
  <1>5. ASSUME NEW new \in GrantIds, NEW principal \in Principals,
               NEW request \in Requests, NEW tenant \in Tenants, NEW quorum \in Quorums,
               NEW requested \in Durations,
               CreateRequest(new, principal, request, tenant, quorum, requested)
        PROVE  Stays(grants[id], grants'[id])
    BY <1>5 DEF CreateRequest, TypeOK
  <1>6. CASE UNCHANGED grants
    BY <1>6
  <1> QED
    BY <1>2, <1>3, <1>4, <1>5, <1>6
       DEF Next, vars, Begin, ExpireStale, Reject, RecordAudit, Crash, Tick

LEMMA TenantStep == TypeOK /\ TenantInv /\ [Next]_vars => TenantInv'
  <1> SUFFICES ASSUME TypeOK, TenantInv, [Next]_vars PROVE TenantInv'
    OBVIOUS
  <1>1. /\ \A event \in audit : event.id \in GrantIds
        /\ \A call \in inFlight : call \in Call /\ call.id \in GrantIds
    BY DEF TypeOK, AuditEvent, Call
  <1>2. /\ \A event \in audit : ActedInTenant(event, grants'[event.id])
        /\ \A call \in inFlight :
             call.step = "audit" => ActedInTenant(call, grants'[call.id])
    BY <1>1, UsedRowsStay DEF TenantInv, ActedInTenant
  <1>3. \A event \in audit' : ActedInTenant(event, grants'[event.id])
    <2>1. ASSUME NEW call \in inFlight, RecordAudit(call)
          PROVE  \A event \in audit' : ActedInTenant(event, grants'[event.id])
      <3> DEFINE new == [action |-> call.action, id |-> call.id,
                         principal |-> call.principal]
      <3>1. ActedInTenant(new, grants'[new.id])
        BY <1>2, <2>1 DEF RecordAudit, ActedInTenant
      <3>2. audit' = audit \cup {new}
        BY <2>1 DEF RecordAudit
      <3> QED
        BY <1>2, <3>1, <3>2
    <2>2. CASE UNCHANGED audit
      BY <1>2, <2>2
    <2> QED
      BY <2>1, <2>2
         DEF Next, vars, CreateRequest, Begin, AcceptReview, Revoke, Reject,
             ExpireStale, Crash, Tick
  <1>4. \A call \in inFlight' : call.step = "audit" => ActedInTenant(call, grants'[call.id])
    <2>1. ASSUME NEW new, inFlight' \subseteq inFlight \cup {new},
                 new.step = "audit" => ActedInTenant(new, grants'[new.id])
          PROVE  \A call \in inFlight' :
                   call.step = "audit" => ActedInTenant(call, grants'[call.id])
      BY <1>2, <2>1
    <2>2. ASSUME NEW id \in GrantIds, NEW principal \in Principals,
                 NEW request \in Requests, NEW tenant \in Tenants, NEW quorum \in Quorums,
                 NEW requested \in Durations,
                 CreateRequest(id, principal, request, tenant, quorum, requested)
          PROVE  \A call \in inFlight' :
                   call.step = "audit" => ActedInTenant(call, grants'[call.id])
      <3> DEFINE new == [step |-> "audit", action |-> "request", id |-> id,
                         principal |-> principal]
      <3>1. ActedInTenant(new, grants'[new.id])
        BY DEF ActedInTenant
      <3> QED
        BY <2>1, <2>2, <3>1 DEF CreateRequest
    <2>3. ASSUME NEW id \in GrantIds, NEW principal \in Principals,
                 NEW action \in Verdicts \cup {"revoke"}, Begin(id, principal, action)
          PROVE  \A call \in inFlight' :
                   call.step = "audit" => ActedInTenant(call, grants'[call.id])
      <3> DEFINE new == [step |-> "commit", action |-> action, id |-> id,
                         principal |-> principal]
      <3>1. new.step # "audit"
        OBVIOUS
      <3> QED
        BY <2>1, <2>3, <3>1 DEF Begin
    <2>4. ASSUME NEW call \in inFlight, AcceptReview(call) \/ Revoke(call)
          PROVE  \A other \in inFlight' :
                   other.step = "audit" => ActedInTenant(other, grants'[other.id])
      <3> DEFINE new == [call EXCEPT !.step = "audit"]
      <3>1. /\ new.id = call.id /\ new.principal = call.principal
            /\ call.id \in GrantIds
        BY <1>1 DEF Call
      <3>2. /\ TenantAllowed(call.principal, grants[call.id].tenantId)
            /\ grants[call.id].status # "unused"
        BY <2>4 DEF AcceptReview, Accepts, Revoke, Revokes
      <3>3. ActedInTenant(new, grants'[new.id])
        BY <3>1, <3>2, UsedRowsStay DEF ActedInTenant
      <3> QED
        BY <2>1, <2>4, <3>3 DEF AcceptReview, Revoke
    <2>5. CASE inFlight' \subseteq inFlight
      BY <1>2, <2>5
    <2> QED
      BY <2>2, <2>3, <2>4, <2>5
         DEF Next, vars, Reject, RecordAudit, ExpireStale, Crash, Tick
  <1> QED
    BY <1>3, <1>4 DEF TenantInv

\* A principal that is bound to a tenant reviewed and revoked the grants of
\* that tenant only.
THEOREM OperatorsActInTheirTenant == Spec => []OperatorsStayInTenant
  <1>1. Init => TenantInv
    BY DEF Init, TenantInv
  <1>2. TenantInv => OperatorsStayInTenant
    BY DEF TenantInv, OperatorsStayInTenant, ActedInTenant
  <1> QED
    BY <1>1, <1>2, TenantStep, BreakGlassTypes, PTL DEF Spec

-----------------------------------------------------------------------------
(* The table implements the abstract quorum grant *)

LEMMA Phases ==
  /\ PhaseOf("unused") = "unused"
  /\ PhaseOf("pending") = "open"
  /\ PhaseOf("active") = "granted"
  /\ PhaseOf("denied") = "closed"
  /\ PhaseOf("expired") = "closed"
  /\ PhaseOf("revoked") = "closed"
  BY DEF PhaseOf

\* The instance has its own copy of the operator of FiniteSets.
LEMMA SameCardinality == \A S : QG!Cardinality(S) = Cardinality(S)
  BY DEF QG!Cardinality, Cardinality

\* An expiry sweep is one abstract Lapse of the rows it expires.
LEMMA SweepIsLapse ==
  ASSUME IInv, grants' = Expired
  PROVE  QG!Lapse({id \in GrantIds : Stale(grants[id])})
  <1> DEFINE ids == {id \in GrantIds : Stale(grants[id])}
  <1>1. \A id \in ids : PhaseOf(grants[id].status) \in {"open", "granted"}
    BY Phases DEF Stale
  <1>2. ASSUME NEW id \in GrantIds
        PROVE  /\ PhaseOf(grants'[id].status) =
                    IF id \in ids THEN "closed" ELSE PhaseOf(grants[id].status)
               /\ grants'[id].requiredApprovals = grants[id].requiredApprovals
               /\ Approvers(grants'[id]) = Approvers(grants[id])
    <2>1. grants[id] \in GrantRequest
      BY DEF IInv, TypeOK
    <2>2. CASE id \notin ids
      BY <2>2 DEF Expired
    <2>3. CASE id \in ids
      <3>1. grants'[id] = [grants[id] EXCEPT !.status = "expired"]
        BY <2>3 DEF Expired
      <3>2. /\ grants'[id].status = "expired"
            /\ grants'[id].requiredApprovals = grants[id].requiredApprovals
            /\ grants'[id].reviews = grants[id].reviews
        BY <2>1, <3>1 DEF GrantRequest
      <3> QED
        BY <2>3, <3>2, Phases DEF Approvers
    <2> QED
      BY <2>2, <2>3
  <1> QED
    BY <1>1, <1>2 DEF QG!Lapse

LEMMA CreateIsOpen ==
  ASSUME IInv, NEW id \in GrantIds, NEW principal \in Principals,
         NEW request \in Requests, NEW tenant \in Tenants, NEW quorum \in Quorums,
         NEW requested \in Durations,
         CreateRequest(id, principal, request, tenant, quorum, requested)
  PROVE  QG!Open(id, quorum)
  <1> DEFINE row == NewRequest(principal, request, tenant, quorum, requested)
  <1>1. /\ grants[id].status = "unused"
        /\ grants' = [grants EXCEPT ![id] = row]
    BY DEF CreateRequest
  <1>2. RowInv(grants[id]) /\ grants \in [GrantIds -> GrantRequest]
    BY DEF IInv, TypeOK
  <1>3. grants[id].reviews = {}
    BY <1>1, <1>2 DEF RowInv
  <1>4. Approvers(row) = Approvers(grants[id])
    BY <1>3 DEF Approvers, NewRequest
  <1>5. row.status = "pending" /\ row.requiredApprovals = quorum
    BY DEF NewRequest
  <1>6. ASSUME NEW other \in GrantIds
        PROVE  /\ PhaseOf(grants'[other].status) =
                    IF other = id THEN "open" ELSE PhaseOf(grants[other].status)
               /\ grants'[other].requiredApprovals =
                    IF other = id THEN quorum ELSE grants[other].requiredApprovals
               /\ Approvers(grants'[other]) = Approvers(grants[other])
    BY <1>1, <1>2, <1>4, <1>5, Phases
  <1>7. PhaseOf(grants[id].status) = "unused"
    BY <1>1, Phases
  <1> QED
    BY <1>6, <1>7 DEF QG!Open

LEMMA ReviewIsVote ==
  ASSUME IInv, NEW call \in inFlight, AcceptReview(call)
  PROVE  \/ QG!Approve(call.id, call.principal)
         \/ QG!Refuse(call.id)
  <1> DEFINE id == call.id
             row == grants[id]
             after == Reviewed(row, call.principal, call.action)
  <1>1. /\ call.action \in Verdicts /\ id \in GrantIds /\ call.principal \in Principals
        /\ grants \in [GrantIds -> GrantRequest]
        /\ row \in GrantRequest /\ RowInv(row)
        /\ row.status = "pending" /\ ~HasReviewed(call.principal, row)
        /\ grants' = [grants EXCEPT ![id] = after]
    BY DEF AcceptReview, Accepts, IInv, TypeOK, Call
  <1>2. after \in GrantRequest /\ RowInv(after)
    BY <1>1, ReviewedRow, ReviewedType
  <1>3. /\ after.requiredApprovals = row.requiredApprovals
        /\ after.status = NextStatus(row, after.approvalCount, after.denialCount)
        /\ after.denialCount = row.denialCount + (IF call.action = "denied" THEN 1 ELSE 0)
    BY <1>1 DEF Reviewed, GrantRequest
  <1>4. row.denialCount = 0
    <2>1. row.denialCount \in Nat
      BY <1>1 DEF GrantRequest
    <2> QED
      BY <1>1, <2>1 DEF RowInv
  <1>5. ASSUME NEW other \in GrantIds
        PROVE  /\ PhaseOf(grants'[other].status) =
                    IF other = id THEN PhaseOf(after.status) ELSE PhaseOf(grants[other].status)
               /\ grants'[other].requiredApprovals = grants[other].requiredApprovals
               /\ Approvers(grants'[other]) =
                    IF other = id THEN Approvers(after) ELSE Approvers(grants[other])
    BY <1>1, <1>3
  <1>6. PhaseOf(row.status) = "open"
    BY <1>1, Phases
  <1>7. CASE call.action = "active"
    <2>1. /\ Approvers(after) = Approvers(row) \cup {call.principal}
          /\ call.principal \notin Approvers(row)
      BY <1>1, <1>7, ReviewedRow
    <2>2. after.denialCount = 0
      BY <1>3, <1>4, <1>7
    <2>3. after.approvalCount = Cardinality(Approvers(after))
      BY <1>2 DEF RowInv
    <2>4. PhaseOf(after.status) =
            IF Cardinality(Approvers(after)) >= row.requiredApprovals
            THEN "granted" ELSE "open"
      BY <1>3, <2>2, <2>3, Phases DEF NextStatus
    <2> QED
      BY <1>1, <1>5, <1>6, <2>1, <2>4, SameCardinality DEF QG!Approve
  <1>8. CASE call.action = "denied"
    <2>1. Approvers(after) = Approvers(row)
      BY <1>1, <1>8, ReviewedRow
    <2>2. after.status = "denied"
      BY <1>3, <1>4, <1>8 DEF NextStatus
    <2> QED
      BY <1>1, <1>5, <1>6, <2>1, <2>2, Phases DEF QG!Refuse
  <1> QED
    BY <1>1, <1>7, <1>8 DEF Verdicts

LEMMA RevokeIsWithdraw ==
  ASSUME IInv, NEW call \in inFlight, Revoke(call)
  PROVE  QG!Withdraw(call.id)
  <1>1. /\ call.id \in GrantIds
        /\ grants \in [GrantIds -> GrantRequest]
        /\ RowInv(grants[call.id])
        /\ grants[call.id].status = "active"
        /\ grants' = [grants EXCEPT ![call.id].status = "revoked"]
    BY DEF Revoke, Revokes, IInv, TypeOK, Call
  <1>2. Approvers([grants[call.id] EXCEPT !.status = "revoked"]) = Approvers(grants[call.id])
    BY <1>1, StatusOnly DEF Statuses
  <1>3. ASSUME NEW other \in GrantIds
        PROVE  /\ PhaseOf(grants'[other].status) =
                    IF other = call.id THEN "closed" ELSE PhaseOf(grants[other].status)
               /\ grants'[other].requiredApprovals = grants[other].requiredApprovals
               /\ Approvers(grants'[other]) = Approvers(grants[other])
    <2>1. CASE other # call.id
      BY <1>1, <2>1
    <2>2. CASE other = call.id
      <3>1. grants'[other] = [grants[other] EXCEPT !.status = "revoked"]
        BY <1>1, <2>2
      <3>2. /\ grants'[other].status = "revoked"
            /\ grants'[other].requiredApprovals = grants[other].requiredApprovals
        BY <1>1, <3>1 DEF GrantRequest
      <3> QED
        BY <1>2, <2>2, <3>1, <3>2, Phases
    <2> QED
      BY <2>1, <2>2
  <1>4. PhaseOf(grants[call.id].status) = "granted"
    BY <1>1, Phases
  <1> QED
    BY <1>1, <1>3, <1>4 DEF QG!Withdraw

LEMMA StepRefines == IInv /\ [Next]_vars => [QG!Next]_(QG!vars)
  <1> SUFFICES ASSUME IInv, [Next]_vars PROVE [QG!Next]_(QG!vars)
    OBVIOUS
  <1>1. CASE grants' = Expired
    <2>1. {id \in GrantIds : Stale(grants[id])} \in SUBSET GrantIds
      OBVIOUS
    <2> QED
      BY <1>1, <2>1, SweepIsLapse DEF QG!Next
  <1>2. ASSUME NEW id \in GrantIds, NEW principal \in Principals,
               NEW request \in Requests, NEW tenant \in Tenants, NEW quorum \in Quorums,
               NEW requested \in Durations,
               CreateRequest(id, principal, request, tenant, quorum, requested)
        PROVE  QG!Next
    BY <1>2, CreateIsOpen DEF QG!Next
  <1>3. ASSUME NEW call \in inFlight, AcceptReview(call) \/ Revoke(call)
        PROVE  QG!Next
    <2>1. call.id \in GrantIds /\ call.principal \in Principals
      BY DEF IInv, TypeOK, Call
    <2> QED
      BY <1>3, <2>1, ReviewIsVote, RevokeIsWithdraw DEF QG!Next
  <1>4. CASE UNCHANGED grants
    BY <1>4 DEF QG!vars
  <1> QED
    BY <1>1, <1>2, <1>3, <1>4
       DEF Next, vars, Begin, ExpireStale, Reject, RecordAudit, Crash, Tick

\* The break-glass service implements the abstract quorum grant.
THEOREM BreakGlassImplementsQuorumGrant == Spec => ImplementsQuorumGrant
  <1>1. Init => QG!Init
    <2> SUFFICES ASSUME Init PROVE QG!Init
      OBVIOUS
    <2>1. ASSUME NEW id \in GrantIds
          PROVE  /\ PhaseOf(grants[id].status) = "unused"
                 /\ grants[id].requiredApprovals = 0
                 /\ Approvers(grants[id]) = {}
      BY Phases DEF Init, Unused, Approvers
    <2> QED
      BY <2>1 DEF QG!Init
  <1> QED
    BY <1>1, StepRefines, RowsInvariant, PTL DEF Spec, ImplementsQuorumGrant, QG!Spec

=============================================================================
