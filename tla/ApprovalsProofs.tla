-------------------------- MODULE ApprovalsProofs --------------------------
(***************************************************************************)
(* What holds of Approvals for every set of principals, tenants, requests  *)
(* and quorums, and every bound: the types, the quorum of distinct         *)
(* reviewers, the finality of decisions, tenants, the truth of the audit   *)
(* log, and that the table implements QuorumGrant.                         *)
(***************************************************************************)
EXTENDS Approvals, FiniteSetTheorems, TLAPS

\* The counters the service stores agree with the reviews it stores, and the
\* status with the counters.  Without the agreement an increment of
\* approvalCount says nothing about how many principals approved.
RowInv(row) ==
  /\ IsFiniteSet(Approvers(row))
  /\ row.approvalCount = Cardinality(Approvers(row))
  /\ row.denialCount = 0 => \A review \in row.reviews : review.decision = "approved"
  /\ row.denialCount > 0 => row.status = "denied"
  /\ row.status = "approved" => row.approvalCount >= row.requiredApprovals
  /\ row.status = "pending" => row.approvalCount < row.requiredApprovals
  /\ row.status = "unused" => row.reviews = {} /\ row.requiredApprovals = 0
  /\ row.status # "unused" => row.requiredApprovals \in Quorums

IInv == TypeOK /\ \A id \in ApprovalIds : RowInv(approvals[id])

-----------------------------------------------------------------------------
(* Types *)

LEMMA UnusedType == Unused \in ApprovalRequest
  BY ApprovalsAssumption DEF Unused, ApprovalRequest, Statuses

LEMMA NewRequestType ==
  ASSUME TypeOK, NEW principal \in Principals, NEW request \in Requests,
         NEW tenant \in Tenants, NEW quorum \in Quorums
  PROVE  NewRequest(principal, request, tenant, quorum) \in ApprovalRequest
  BY ApprovalsAssumption
     DEF NewRequest, ApprovalRequest, Statuses, TypeOK, Fingerprint

LEMMA ExpiredType ==
  ASSUME TypeOK
  PROVE  Expired \in [ApprovalIds -> ApprovalRequest]
  BY DEF TypeOK, Expired, ApprovalRequest, Statuses

LEMMA ReviewedType ==
  ASSUME NEW row \in ApprovalRequest, NEW principal \in Principals,
         NEW decision \in Decisions
  PROVE  Reviewed(row, principal, decision) \in ApprovalRequest
  <1> DEFINE approved == row.approvalCount + (IF decision = "approved" THEN 1 ELSE 0)
             denied   == row.denialCount + (IF decision = "denied" THEN 1 ELSE 0)
  <1>1. approved \in Nat /\ denied \in Nat
    BY DEF ApprovalRequest
  <1>2. NextStatus(row, approved, denied) \in Statuses
    BY DEF NextStatus, Statuses
  <1>3. [reviewedBy |-> principal, decision |-> decision] \in Review
    BY DEF Review
  <1> QED
    BY <1>1, <1>2, <1>3 DEF Reviewed, ApprovalRequest

\* Every step keeps the types.
LEMMA TypeStep == TypeOK /\ [Next]_vars => TypeOK'
  <1> SUFFICES ASSUME TypeOK, [Next]_vars PROVE TypeOK'
    OBVIOUS
  <1>1. ASSUME NEW id \in ApprovalIds, NEW principal \in Principals,
               NEW request \in Requests, NEW tenant \in Tenants, NEW quorum \in Quorums,
               CreatePending(id, principal, request, tenant, quorum)
        PROVE  TypeOK'
    BY <1>1, NewRequestType DEF CreatePending, TypeOK, Call
  <1>2. ASSUME NEW id \in ApprovalIds, NEW principal \in Principals,
               NEW decision \in Decisions, BeginReview(id, principal, decision)
        PROVE  TypeOK'
    BY <1>2, ExpiredType DEF BeginReview, TypeOK, Call
  <1>3. ASSUME NEW call \in inFlight, AcceptReview(call)
        PROVE  TypeOK'
    <2>1. call \in Call /\ call.action \in Decisions
      BY <1>3 DEF TypeOK, Call, AcceptReview
    <2>2. Reviewed(approvals[call.id], call.principal, call.action) \in ApprovalRequest
      BY <2>1, ReviewedType DEF TypeOK, Call
    <2>3. [call EXCEPT !.step = "audit"] \in Call
      BY <2>1 DEF Call
    <2> QED
      BY <1>3, <2>2, <2>3 DEF AcceptReview, TypeOK
  <1>4. ASSUME NEW call \in inFlight, RejectReview(call)
        PROVE  TypeOK'
    BY <1>4 DEF RejectReview, TypeOK
  <1>5. ASSUME NEW call \in inFlight, RecordAudit(call)
        PROVE  TypeOK'
    BY <1>5 DEF RecordAudit, TypeOK, Call, AuditEvent
  <1>6. CASE ExpireStale
    BY <1>6, ExpiredType DEF ExpireStale, TypeOK
  <1>7. CASE Crash
    BY <1>7 DEF Crash, TypeOK
  <1>8. CASE Tick
    BY <1>8 DEF Tick, TypeOK
  <1>9. CASE UNCHANGED vars
    BY <1>9 DEF vars, TypeOK
  <1> QED
    BY <1>1, <1>2, <1>3, <1>4, <1>5, <1>6, <1>7, <1>8, <1>9 DEF Next

\* The tables and the handlers of the approval service always have the types
\* the schema gives them.
THEOREM ApprovalsTypes == Spec => []TypeOK
  <1>1. Init => TypeOK
    BY UnusedType DEF Init, TypeOK
  <1> QED
    BY <1>1, TypeStep, PTL DEF Spec

-----------------------------------------------------------------------------
(* The counters and the reviews *)

LEMMA UnusedRow == RowInv(Unused)
  <1>1. Approvers(Unused) = {}
    BY DEF Approvers, Unused
  <1> QED
    BY <1>1, FS_EmptySet DEF RowInv, Unused

LEMMA NewRequestRow ==
  ASSUME NEW principal \in Principals, NEW request \in Requests,
         NEW tenant \in Tenants, NEW quorum \in Quorums
  PROVE  RowInv(NewRequest(principal, request, tenant, quorum))
  <1> DEFINE row == NewRequest(principal, request, tenant, quorum)
  <1>1. Approvers(row) = {}
    BY DEF Approvers, NewRequest
  <1>2. quorum \in Nat \ {0}
    BY ApprovalsAssumption
  <1> QED
    BY <1>1, <1>2, FS_EmptySet DEF RowInv, NewRequest

LEMMA ExpiredRows ==
  ASSUME IInv, NEW id \in ApprovalIds
  PROVE  RowInv(Expired[id])
  <1> DEFINE row == approvals[id]
  <1>1. row \in ApprovalRequest /\ RowInv(row)
    BY DEF IInv, TypeOK
  <1>2. CASE ~Stale(row)
    BY <1>1, <1>2 DEF Expired
  <1>3. CASE Stale(row)
    <2>1. Expired[id] = [row EXCEPT !.status = "expired"]
      BY <1>3 DEF Expired
    <2>2. /\ Expired[id].reviews = row.reviews
          /\ Expired[id].approvalCount = row.approvalCount
          /\ Expired[id].denialCount = row.denialCount
          /\ Expired[id].requiredApprovals = row.requiredApprovals
          /\ Expired[id].status = "expired"
      BY <1>1, <2>1 DEF ApprovalRequest
    <2>3. Approvers(Expired[id]) = Approvers(row)
      BY <2>2 DEF Approvers
    <2> QED
      BY <1>1, <1>3, <2>2, <2>3 DEF RowInv, Stale
  <1> QED
    BY <1>2, <1>3

\* A review by a principal that has not reviewed yet adds one approver to the
\* set exactly when it adds one to the counter.
LEMMA ReviewedRow ==
  ASSUME NEW row \in ApprovalRequest, RowInv(row), row.status = "pending",
         NEW principal \in Principals, ~HasReviewed(principal, row),
         NEW decision \in Decisions
  PROVE  /\ RowInv(Reviewed(row, principal, decision))
         /\ decision = "approved" =>
              /\ Approvers(Reviewed(row, principal, decision)) =
                   Approvers(row) \cup {principal}
              /\ principal \notin Approvers(row)
         /\ decision = "denied" =>
              Approvers(Reviewed(row, principal, decision)) = Approvers(row)
  <1> DEFINE approved == row.approvalCount + (IF decision = "approved" THEN 1 ELSE 0)
             denied   == row.denialCount + (IF decision = "denied" THEN 1 ELSE 0)
             review   == [reviewedBy |-> principal, decision |-> decision]
             after    == Reviewed(row, principal, decision)
  <1>1. /\ after.status = NextStatus(row, approved, denied)
        /\ after.approvalCount = approved
        /\ after.denialCount = denied
        /\ after.reviews = row.reviews \cup {review}
        /\ after.requiredApprovals = row.requiredApprovals
    BY DEF Reviewed, ApprovalRequest
  <1>2. /\ row.approvalCount \in Nat /\ row.denialCount = 0
        /\ row.requiredApprovals \in Quorums /\ row.requiredApprovals \in Nat
        /\ row.approvalCount = Cardinality(Approvers(row))
        /\ IsFiniteSet(Approvers(row))
        /\ \A r \in row.reviews : r.decision = "approved"
    <2>1. row.approvalCount \in Nat /\ row.denialCount \in Nat
      BY DEF ApprovalRequest
    <2>2. row.requiredApprovals \in Quorums
      BY DEF RowInv
    <2>3. row.denialCount = 0
      BY <2>1 DEF RowInv
    <2> QED
      BY <2>1, <2>2, <2>3, ApprovalsAssumption DEF RowInv
  <1>3. principal \notin Approvers(row)
    BY DEF HasReviewed, Approvers
  <1>4. CASE decision = "approved"
    <2>1. Approvers(after) = Approvers(row) \cup {principal}
      BY <1>1, <1>4 DEF Approvers
    <2>2. /\ IsFiniteSet(Approvers(after))
          /\ Cardinality(Approvers(after)) = row.approvalCount + 1
      BY <1>2, <1>3, <2>1, FS_AddElement
    <2>3. approved = row.approvalCount + 1 /\ denied = 0
      BY <1>2, <1>4
    <2>4. \A r \in after.reviews : r.decision = "approved"
      BY <1>1, <1>2, <1>4
    <2>5. RowInv(after)
      BY <1>1, <1>2, <2>2, <2>3, <2>4 DEF RowInv, NextStatus
    <2> QED
      BY <1>3, <1>4, <2>1, <2>5
  <1>5. CASE decision = "denied"
    <2>1. Approvers(after) = Approvers(row)
      BY <1>1, <1>5 DEF Approvers
    <2>2. approved = row.approvalCount /\ denied = 1
      BY <1>2, <1>5
    <2>3. RowInv(after)
      BY <1>1, <1>2, <2>1, <2>2 DEF RowInv, NextStatus
    <2> QED
      BY <1>5, <2>1, <2>3
  <1> QED
    BY <1>4, <1>5 DEF Decisions

LEMMA RowStep == IInv /\ [Next]_vars => IInv'
  <1> SUFFICES ASSUME IInv, [Next]_vars PROVE IInv'
    OBVIOUS
  <1>1. TypeOK'
    BY TypeStep DEF IInv
  <1> SUFFICES ASSUME NEW id \in ApprovalIds PROVE RowInv(approvals'[id])
    BY <1>1 DEF IInv
  <1>2. RowInv(approvals[id]) /\ TypeOK
    BY DEF IInv
  <1>3. ASSUME NEW new \in ApprovalIds, NEW principal \in Principals,
               NEW request \in Requests, NEW tenant \in Tenants, NEW quorum \in Quorums,
               CreatePending(new, principal, request, tenant, quorum)
        PROVE  RowInv(approvals'[id])
    BY <1>2, <1>3, NewRequestRow DEF CreatePending, TypeOK
  <1>4. CASE approvals' = Expired
    BY <1>4, ExpiredRows
  <1>5. ASSUME NEW call \in inFlight, AcceptReview(call)
        PROVE  RowInv(approvals'[id])
    <2>1. /\ call \in Call /\ call.action \in Decisions
          /\ call.id \in ApprovalIds /\ call.principal \in Principals
      BY <1>2, <1>5 DEF TypeOK, Call, AcceptReview
    <2>2. CASE id # call.id
      BY <1>2, <1>5, <2>2 DEF AcceptReview, TypeOK
    <2>3. CASE id = call.id
      <3>1. /\ approvals[id] \in ApprovalRequest
            /\ approvals[id].status = "pending"
            /\ ~HasReviewed(call.principal, approvals[id])
            /\ approvals'[id] = Reviewed(approvals[id], call.principal, call.action)
        BY <1>2, <1>5, <2>3 DEF AcceptReview, Accepts, TypeOK
      <3> QED
        BY <1>2, <2>1, <3>1, ReviewedRow
    <2> QED
      BY <2>2, <2>3
  <1>6. CASE UNCHANGED approvals
    BY <1>2, <1>6
  <1> QED
    BY <1>3, <1>4, <1>5, <1>6
       DEF Next, vars, BeginReview, ExpireStale, RejectReview, RecordAudit, Crash, Tick

LEMMA RowsInvariant == Spec => []IInv
  <1>1. Init => IInv
    BY UnusedType, UnusedRow DEF Init, IInv, TypeOK
  <1> QED
    BY <1>1, RowStep, PTL DEF Spec

\* Whatever the interleaving of reviewers, an approved request has as many
\* distinct approvers as its quorum and no refusal.
THEOREM ApprovedOnlyByQuorum == Spec => []DistinctQuorum
  <1>1. IInv => DistinctQuorum
    <2> SUFFICES ASSUME IInv, NEW id \in ApprovalIds, approvals[id].status = "approved"
                 PROVE  /\ Cardinality(Approvers(approvals[id])) >= approvals[id].requiredApprovals
                        /\ \A review \in approvals[id].reviews : review.decision = "approved"
      BY DEF DistinctQuorum
    <2>1. RowInv(approvals[id]) /\ approvals[id].denialCount \in Nat
      BY DEF IInv, TypeOK, ApprovalRequest
    <2> QED
      BY <2>1 DEF RowInv
  <1> QED
    BY <1>1, RowsInvariant, PTL

\* A refused request is denied, for ever.
THEOREM DenialIsFinal == Spec => []DenialFinalizes
  <1>1. IInv => DenialFinalizes
    <2> SUFFICES ASSUME IInv, NEW id \in ApprovalIds,
                        NEW review \in approvals[id].reviews, review.decision = "denied"
                 PROVE  approvals[id].status = "denied"
      BY DEF DenialFinalizes
    <2>1. RowInv(approvals[id]) /\ approvals[id].denialCount \in Nat
      BY DEF IInv, TypeOK, ApprovalRequest
    <2> QED
      BY <2>1 DEF RowInv
  <1> QED
    BY <1>1, RowsInvariant, PTL

\* No step of any handler changes a row that was decided or has expired.
LEMMA DecidedRowsStay ==
  ASSUME TypeOK, [Next]_vars, NEW id \in ApprovalIds,
         approvals[id].status \in {"approved", "denied", "expired"}
  PROVE  approvals'[id] = approvals[id]
  <1>1. CASE approvals' = Expired
    BY <1>1 DEF Expired, Stale
  <1>2. ASSUME NEW call \in inFlight, AcceptReview(call)
        PROVE  approvals'[id] = approvals[id]
    BY <1>2 DEF AcceptReview, Accepts, TypeOK
  <1>3. ASSUME NEW new \in ApprovalIds, NEW principal \in Principals,
               NEW request \in Requests, NEW tenant \in Tenants, NEW quorum \in Quorums,
               CreatePending(new, principal, request, tenant, quorum)
        PROVE  approvals'[id] = approvals[id]
    BY <1>3 DEF CreatePending, TypeOK
  <1>4. CASE UNCHANGED approvals
    BY <1>4
  <1> QED
    BY <1>1, <1>2, <1>3, <1>4
       DEF Next, vars, BeginReview, ExpireStale, RejectReview, RecordAudit, Crash, Tick

\* Decisions are final: whatever handlers and sweeps run, no step disturbs one.
THEOREM DecidedRowsAreFrozen == Spec => DecisionsAreFinal
  <1>1. TypeOK /\ [Next]_vars =>
          [\A id \in ApprovalIds :
             approvals[id].status \in {"approved", "denied", "expired"} =>
               approvals'[id] = approvals[id]]_vars
    BY DecidedRowsStay
  <1> QED
    BY <1>1, ApprovalsTypes, PTL DEF Spec, DecisionsAreFinal

\* A row that is used stays used, in its tenant, for its request, until its time.
LEMMA UsedRowsStay ==
  ASSUME TypeOK, [Next]_vars, NEW id \in ApprovalIds, approvals[id].status # "unused"
  PROVE  /\ approvals'[id].status # "unused"
         /\ approvals'[id].tenantId = approvals[id].tenantId
         /\ approvals'[id].fingerprint = approvals[id].fingerprint
         /\ approvals'[id].expiresAt = approvals[id].expiresAt
  <1> DEFINE Stays(old, new) ==
               /\ new.status # "unused" /\ new.tenantId = old.tenantId
               /\ new.fingerprint = old.fingerprint /\ new.expiresAt = old.expiresAt
  <1>1. approvals[id] \in ApprovalRequest
    BY DEF TypeOK
  <1>2. CASE approvals' = Expired
    BY <1>1, <1>2 DEF Expired, ApprovalRequest
  <1>3. ASSUME NEW call \in inFlight, AcceptReview(call)
        PROVE  Stays(approvals[id], approvals'[id])
    <2>1. CASE id # call.id
      BY <1>3, <2>1 DEF AcceptReview, TypeOK
    <2>2. CASE id = call.id
      BY <1>1, <1>3, <2>2 DEF AcceptReview, TypeOK, Reviewed, NextStatus, ApprovalRequest
    <2> QED
      BY <2>1, <2>2
  <1>4. ASSUME NEW new \in ApprovalIds, NEW principal \in Principals,
               NEW request \in Requests, NEW tenant \in Tenants, NEW quorum \in Quorums,
               CreatePending(new, principal, request, tenant, quorum)
        PROVE  Stays(approvals[id], approvals'[id])
    BY <1>4 DEF CreatePending, TypeOK
  <1>5. CASE UNCHANGED approvals
    BY <1>5
  <1> QED
    BY <1>2, <1>3, <1>4, <1>5
       DEF Next, vars, BeginReview, ExpireStale, RejectReview, RecordAudit, Crash, Tick

LEMMA ClockMovesOn ==
  ASSUME TypeOK, [Next]_vars
  PROVE  clock \in Nat /\ clock' \in Nat /\ clock <= clock'
  <1>1. clock' = clock \/ clock' = clock + 1
    BY DEF Next, vars, CreatePending, BeginReview, AcceptReview, RejectReview, RecordAudit,
      ExpireStale, Crash, Tick
  <1> QED
    BY <1>1 DEF TypeOK

-----------------------------------------------------------------------------
(* Tenants, and the audit log *)

\* A principal that is bound to a tenant never left a review in another one.
THEOREM ReviewersStayInTenant == Spec => []ReviewsStayInTenant
  <1>1. Init => ReviewsStayInTenant
    BY DEF Init, Unused, ReviewsStayInTenant
  <1>2. TypeOK /\ ReviewsStayInTenant /\ [Next]_vars => ReviewsStayInTenant'
    <2> SUFFICES ASSUME TypeOK, ReviewsStayInTenant, [Next]_vars,
                        NEW id \in ApprovalIds, NEW review \in approvals'[id].reviews
                 PROVE  TenantAllowed(review.reviewedBy, approvals'[id].tenantId)
      BY DEF ReviewsStayInTenant
    <2>1. approvals[id] \in ApprovalRequest
      BY DEF TypeOK
    <2>2. CASE approvals' = Expired
      <3>1. /\ approvals'[id].reviews = approvals[id].reviews
            /\ approvals'[id].tenantId = approvals[id].tenantId
        BY <2>1, <2>2 DEF Expired, ApprovalRequest
      <3> QED
        BY <3>1 DEF ReviewsStayInTenant
    <2>3. ASSUME NEW call \in inFlight, AcceptReview(call)
          PROVE  TenantAllowed(review.reviewedBy, approvals'[id].tenantId)
      <3>1. CASE id # call.id
        BY <2>3, <3>1 DEF AcceptReview, TypeOK, ReviewsStayInTenant
      <3>2. CASE id = call.id
        <4>1. /\ approvals'[id] = Reviewed(approvals[id], call.principal, call.action)
              /\ TenantAllowed(call.principal, approvals[id].tenantId)
          BY <2>3, <3>2 DEF AcceptReview, Accepts, TypeOK
        <4>2. /\ approvals'[id].tenantId = approvals[id].tenantId
              /\ approvals'[id].reviews = approvals[id].reviews \cup
                   {[reviewedBy |-> call.principal, decision |-> call.action]}
          BY <2>1, <4>1 DEF Reviewed, ApprovalRequest
        <4> QED
          BY <4>1, <4>2 DEF ReviewsStayInTenant
      <3> QED
        BY <3>1, <3>2
    <2>4. ASSUME NEW new \in ApprovalIds, NEW principal \in Principals,
                 NEW request \in Requests, NEW tenant \in Tenants, NEW quorum \in Quorums,
                 CreatePending(new, principal, request, tenant, quorum)
          PROVE  TenantAllowed(review.reviewedBy, approvals'[id].tenantId)
      <3>1. NewRequest(principal, request, tenant, quorum).reviews = {}
        BY DEF NewRequest
      <3> QED
        BY <2>4, <3>1 DEF CreatePending, TypeOK, ReviewsStayInTenant
    <2>5. CASE UNCHANGED approvals
      BY <2>5 DEF ReviewsStayInTenant
    <2> QED
      BY <2>2, <2>3, <2>4, <2>5
         DEF Next, vars, BeginReview, ExpireStale, RejectReview, RecordAudit, Crash, Tick
  <1> QED
    BY <1>1, <1>2, ApprovalsTypes, PTL DEF Spec

\* What an event, or a handler about to write one, claims of a row.
Claimed(row, claim) ==
  IF claim.action = "request"
  THEN row.fingerprint \in {claim.principal} \X Requests
  ELSE [reviewedBy |-> claim.principal, decision |-> claim.action] \in row.reviews

\* AuditIsTruthful says nothing of the handlers between the row and the event,
\* nor of the rows that a new request may still overwrite.
AuditInv ==
  /\ \A event \in audit : Claimed(approvals[event.id], event)
  /\ \A call \in inFlight : call.step = "audit" => Claimed(approvals[call.id], call)
  /\ \A id \in ApprovalIds :
       approvals[id].status = "unused" =>
         approvals[id].fingerprint = NoFingerprint /\ approvals[id].reviews = {}

\* No step takes back what a row was claimed to hold: fingerprints are
\* written once, to a row of which nothing is claimed, and reviews only grow.
LEMMA ClaimsStay ==
  ASSUME TypeOK, AuditInv, [Next]_vars, NEW id \in ApprovalIds, NEW claim,
         claim.principal \in Principals,
         Claimed(approvals[id], claim)
  PROVE  Claimed(approvals'[id], claim)
  <1>1. approvals[id] \in ApprovalRequest
    BY DEF TypeOK
  <1>2. ASSUME approvals'[id].fingerprint = approvals[id].fingerprint,
               approvals[id].reviews \subseteq approvals'[id].reviews
        PROVE  Claimed(approvals'[id], claim)
    BY <1>2 DEF Claimed
  <1>3. CASE approvals' = Expired
    BY <1>1, <1>2, <1>3 DEF Expired, ApprovalRequest
  <1>4. ASSUME NEW call \in inFlight, AcceptReview(call)
        PROVE  Claimed(approvals'[id], claim)
    <2>1. CASE id # call.id
      BY <1>2, <1>4, <2>1 DEF AcceptReview, TypeOK
    <2>2. CASE id = call.id
      <3>1. approvals'[id] = Reviewed(approvals[id], call.principal, call.action)
        BY <1>4, <2>2 DEF AcceptReview, TypeOK
      <3>2. /\ approvals'[id].fingerprint = approvals[id].fingerprint
            /\ approvals[id].reviews \subseteq approvals'[id].reviews
        BY <1>1, <3>1 DEF Reviewed, ApprovalRequest
      <3> QED
        BY <1>2, <3>2
    <2> QED
      BY <2>1, <2>2
  <1>5. ASSUME NEW new \in ApprovalIds, NEW principal \in Principals,
               NEW request \in Requests, NEW tenant \in Tenants, NEW quorum \in Quorums,
               CreatePending(new, principal, request, tenant, quorum)
        PROVE  Claimed(approvals'[id], claim)
    <2>1. approvals[id].status # "unused"
      BY ApprovalsAssumption DEF AuditInv, Claimed
    <2> QED
      BY <1>2, <1>5, <2>1 DEF CreatePending, TypeOK
  <1>6. CASE UNCHANGED approvals
    BY <1>6
  <1> QED
    BY <1>3, <1>4, <1>5, <1>6
       DEF Next, vars, BeginReview, ExpireStale, RejectReview, RecordAudit, Crash, Tick

LEMMA UnusedRowsStayBlank ==
  ASSUME TypeOK, AuditInv, [Next]_vars, NEW id \in ApprovalIds,
         approvals'[id].status = "unused"
  PROVE  approvals'[id].fingerprint = NoFingerprint /\ approvals'[id].reviews = {}
  <1> DEFINE Blank(row) == row.fingerprint = NoFingerprint /\ row.reviews = {}
  <1>1. approvals[id] \in ApprovalRequest
    BY DEF TypeOK
  <1>2. approvals'[id] = approvals[id] => Blank(approvals'[id])
    BY DEF AuditInv
  <1>3. CASE approvals' = Expired
    BY <1>1, <1>2, <1>3 DEF Expired, ApprovalRequest
  <1>4. ASSUME NEW call \in inFlight, AcceptReview(call)
        PROVE  Blank(approvals'[id])
    <2>1. CASE id # call.id
      BY <1>2, <1>4, <2>1 DEF AcceptReview, TypeOK
    <2>2. CASE id = call.id
      BY <1>1, <1>4, <2>2
         DEF AcceptReview, TypeOK, Reviewed, NextStatus, ApprovalRequest
    <2> QED
      BY <2>1, <2>2
  <1>5. ASSUME NEW new \in ApprovalIds, NEW principal \in Principals,
               NEW request \in Requests, NEW tenant \in Tenants, NEW quorum \in Quorums,
               CreatePending(new, principal, request, tenant, quorum)
        PROVE  Blank(approvals'[id])
    BY <1>2, <1>5 DEF CreatePending, NewRequest, TypeOK
  <1>6. CASE UNCHANGED approvals
    BY <1>2, <1>6
  <1> QED
    BY <1>3, <1>4, <1>5, <1>6
       DEF Next, vars, BeginReview, ExpireStale, RejectReview, RecordAudit, Crash, Tick

LEMMA AuditStep == TypeOK /\ AuditInv /\ [Next]_vars => AuditInv'
  <1> SUFFICES ASSUME TypeOK, AuditInv, [Next]_vars PROVE AuditInv'
    OBVIOUS
  <1>1. /\ \A event \in audit : event.id \in ApprovalIds /\ event.principal \in Principals
        /\ \A call \in inFlight : /\ call \in Call
                                  /\ call.id \in ApprovalIds
                                  /\ call.principal \in Principals
    BY DEF TypeOK, AuditEvent, Call
  <1>2. \A event \in audit : Claimed(approvals'[event.id], event)
    BY <1>1, ClaimsStay DEF AuditInv
  <1>3. \A call \in inFlight : call.step = "audit" => Claimed(approvals'[call.id], call)
    BY <1>1, ClaimsStay DEF AuditInv
  <1>4. \A event \in audit' : Claimed(approvals'[event.id], event)
    <2>1. ASSUME NEW call \in inFlight, RecordAudit(call)
          PROVE  \A event \in audit' : Claimed(approvals'[event.id], event)
      <3> DEFINE new == [action |-> call.action, id |-> call.id,
                         principal |-> call.principal]
      <3>1. Claimed(approvals'[new.id], new)
        BY <1>3, <2>1 DEF RecordAudit, Claimed
      <3>2. audit' = audit \cup {new}
        BY <2>1 DEF RecordAudit
      <3> QED
        BY <1>2, <3>1, <3>2
    <2>2. CASE UNCHANGED audit
      BY <1>2, <2>2
    <2> QED
      BY <2>1, <2>2
         DEF Next, vars, CreatePending, BeginReview, AcceptReview, RejectReview,
             ExpireStale, Crash, Tick
  <1>5. \A call \in inFlight' : call.step = "audit" => Claimed(approvals'[call.id], call)
    <2>1. ASSUME NEW new, inFlight' \subseteq inFlight \cup {new},
                 new.step = "audit" => Claimed(approvals'[new.id], new)
          PROVE  \A call \in inFlight' :
                   call.step = "audit" => Claimed(approvals'[call.id], call)
      BY <1>3, <2>1
    <2>2. ASSUME NEW id \in ApprovalIds, NEW principal \in Principals,
                 NEW request \in Requests, NEW tenant \in Tenants, NEW quorum \in Quorums,
                 CreatePending(id, principal, request, tenant, quorum)
          PROVE  \A call \in inFlight' :
                   call.step = "audit" => Claimed(approvals'[call.id], call)
      <3> DEFINE new == [step |-> "audit", action |-> "request", id |-> id,
                         principal |-> principal]
      <3>1. approvals'[id] = NewRequest(principal, request, tenant, quorum)
        BY <2>2 DEF CreatePending, TypeOK
      <3>2. Claimed(approvals'[new.id], new)
        BY <3>1 DEF Claimed, NewRequest, Fingerprint
      <3> QED
        BY <2>1, <2>2, <3>2 DEF CreatePending
    <2>3. ASSUME NEW id \in ApprovalIds, NEW principal \in Principals,
                 NEW decision \in Decisions, BeginReview(id, principal, decision)
          PROVE  \A call \in inFlight' :
                   call.step = "audit" => Claimed(approvals'[call.id], call)
      <3> DEFINE new == [step |-> "review", action |-> decision, id |-> id,
                         principal |-> principal]
      <3>1. new.step # "audit"
        OBVIOUS
      <3> QED
        BY <2>1, <2>3, <3>1 DEF BeginReview
    <2>4. ASSUME NEW call \in inFlight, AcceptReview(call)
          PROVE  \A other \in inFlight' :
                   other.step = "audit" => Claimed(approvals'[other.id], other)
      <3> DEFINE new == [call EXCEPT !.step = "audit"]
      <3>1. /\ new.id = call.id /\ new.action = call.action
            /\ new.principal = call.principal /\ call.action # "request"
        BY <1>1, <2>4 DEF Call, AcceptReview, Decisions
      <3>2. /\ approvals'[call.id] =
                 Reviewed(approvals[call.id], call.principal, call.action)
            /\ approvals[call.id] \in ApprovalRequest
        BY <1>1, <2>4 DEF AcceptReview, TypeOK
      <3>3. [reviewedBy |-> call.principal, decision |-> call.action]
              \in approvals'[call.id].reviews
        BY <3>2 DEF Reviewed, ApprovalRequest
      <3>4. Claimed(approvals'[new.id], new)
        BY <3>1, <3>3 DEF Claimed
      <3> QED
        BY <2>1, <2>4, <3>4 DEF AcceptReview
    <2>5. CASE inFlight' \subseteq inFlight
      BY <1>3, <2>5
    <2> QED
      BY <2>2, <2>3, <2>4, <2>5
         DEF Next, vars, RejectReview, RecordAudit, ExpireStale, Crash, Tick
  <1> QED
    BY <1>4, <1>5, UnusedRowsStayBlank DEF AuditInv

\* The log tells of no review and of no request that did not happen, although
\* each event is written after its row and beside everything else.
THEOREM AuditTellsTheTruth == Spec => []AuditIsTruthful
  <1>1. Init => AuditInv
    BY DEF Init, AuditInv, Unused
  <1>2. AuditInv => AuditIsTruthful
    BY DEF AuditInv, AuditIsTruthful, Claimed
  <1> QED
    BY <1>1, <1>2, AuditStep, ApprovalsTypes, PTL DEF Spec

-----------------------------------------------------------------------------
(* The table implements the abstract quorum grant *)

LEMMA Phases ==
  /\ PhaseOf("unused") = "unused"
  /\ PhaseOf("pending") = "open"
  /\ PhaseOf("approved") = "granted"
  /\ PhaseOf("denied") = "closed"
  /\ PhaseOf("expired") = "closed"
  BY DEF PhaseOf

\* The instance has its own copy of the operator of FiniteSets.
LEMMA SameCardinality == \A S : QG!Cardinality(S) = Cardinality(S)
  BY DEF QG!Cardinality, Cardinality

\* The phases an expiry sweep goes through are one abstract Lapse.
LEMMA SweepIsLapse ==
  ASSUME IInv, approvals' = Expired
  PROVE  QG!Lapse({id \in ApprovalIds : Stale(approvals[id])})
  <1> DEFINE ids == {id \in ApprovalIds : Stale(approvals[id])}
  <1>1. \A id \in ids : PhaseOf(approvals[id].status) \in {"open", "granted"}
    BY DEF Stale, PhaseOf
  <1>2. ASSUME NEW id \in ApprovalIds
        PROVE  /\ PhaseOf(approvals'[id].status) =
                    IF id \in ids THEN "closed" ELSE PhaseOf(approvals[id].status)
               /\ approvals'[id].requiredApprovals = approvals[id].requiredApprovals
               /\ Approvers(approvals'[id]) = Approvers(approvals[id])
    <2>1. approvals[id] \in ApprovalRequest
      BY DEF IInv, TypeOK
    <2>2. CASE id \notin ids
      BY <2>2 DEF Expired
    <2>3. CASE id \in ids
      <3>1. approvals'[id] = [approvals[id] EXCEPT !.status = "expired"]
        BY <2>3 DEF Expired
      <3>2. /\ approvals'[id].status = "expired"
            /\ approvals'[id].requiredApprovals = approvals[id].requiredApprovals
            /\ approvals'[id].reviews = approvals[id].reviews
        BY <2>1, <3>1 DEF ApprovalRequest
      <3> QED
        BY <2>3, <3>2 DEF PhaseOf, Approvers
    <2> QED
      BY <2>2, <2>3
  <1> QED
    BY <1>1, <1>2 DEF QG!Lapse

LEMMA CreateIsOpen ==
  ASSUME IInv, NEW id \in ApprovalIds, NEW principal \in Principals,
         NEW request \in Requests, NEW tenant \in Tenants, NEW quorum \in Quorums,
         CreatePending(id, principal, request, tenant, quorum)
  PROVE  QG!Open(id, quorum)
  <1>1. /\ approvals[id].status = "unused"
        /\ approvals' = [approvals EXCEPT ![id] = NewRequest(principal, request, tenant, quorum)]
    BY DEF CreatePending
  <1>2. RowInv(approvals[id]) /\ approvals \in [ApprovalIds -> ApprovalRequest]
    BY DEF IInv, TypeOK
  <1>3. approvals[id].reviews = {}
    BY <1>1, <1>2 DEF RowInv
  <1>4. Approvers(NewRequest(principal, request, tenant, quorum)) = Approvers(approvals[id])
    BY <1>3 DEF Approvers, NewRequest
  <1>5. /\ NewRequest(principal, request, tenant, quorum).status = "pending"
        /\ NewRequest(principal, request, tenant, quorum).requiredApprovals = quorum
    BY DEF NewRequest
  <1>6. ASSUME NEW other \in ApprovalIds
        PROVE  /\ PhaseOf(approvals'[other].status) =
                    IF other = id THEN "open" ELSE PhaseOf(approvals[other].status)
               /\ approvals'[other].requiredApprovals =
                    IF other = id THEN quorum ELSE approvals[other].requiredApprovals
               /\ Approvers(approvals'[other]) = Approvers(approvals[other])
    BY <1>1, <1>2, <1>4, <1>5, Phases
  <1>7. PhaseOf(approvals[id].status) = "unused"
    BY <1>1, Phases
  <1> QED
    BY <1>6, <1>7 DEF QG!Open

LEMMA ReviewIsVote ==
  ASSUME IInv, NEW call \in inFlight, AcceptReview(call)
  PROVE  \/ QG!Approve(call.id, call.principal)
         \/ QG!Refuse(call.id)
  <1> DEFINE id == call.id
             row == approvals[id]
             after == Reviewed(row, call.principal, call.action)
  <1>1. /\ call.action \in Decisions /\ id \in ApprovalIds /\ call.principal \in Principals
        /\ approvals \in [ApprovalIds -> ApprovalRequest]
        /\ row \in ApprovalRequest /\ RowInv(row)
        /\ row.status = "pending" /\ ~HasReviewed(call.principal, row)
        /\ approvals' = [approvals EXCEPT ![id] = after]
    BY DEF AcceptReview, Accepts, IInv, TypeOK, Call
  <1>2. after \in ApprovalRequest /\ RowInv(after)
    BY <1>1, ReviewedRow, ReviewedType
  <1>3. /\ after.requiredApprovals = row.requiredApprovals
        /\ after.status = NextStatus(row, after.approvalCount, after.denialCount)
        /\ after.denialCount = row.denialCount + (IF call.action = "denied" THEN 1 ELSE 0)
    BY <1>1 DEF Reviewed, ApprovalRequest
  <1>4. row.denialCount = 0
    <2>1. row.denialCount \in Nat
      BY <1>1 DEF ApprovalRequest
    <2> QED
      BY <1>1, <2>1 DEF RowInv
  <1>5. ASSUME NEW other \in ApprovalIds
        PROVE  /\ PhaseOf(approvals'[other].status) =
                    IF other = id THEN PhaseOf(after.status) ELSE PhaseOf(approvals[other].status)
               /\ approvals'[other].requiredApprovals = approvals[other].requiredApprovals
               /\ Approvers(approvals'[other]) =
                    IF other = id THEN Approvers(after) ELSE Approvers(approvals[other])
    BY <1>1, <1>3
  <1>6. PhaseOf(row.status) = "open"
    BY <1>1, Phases
  <1>7. CASE call.action = "approved"
    <2>1. /\ Approvers(after) = Approvers(row) \cup {call.principal}
          /\ call.principal \notin Approvers(row)
      BY <1>1, <1>7, ReviewedRow
    <2>2. after.denialCount = 0
      BY <1>3, <1>4, <1>7
    <2>3. after.approvalCount = Cardinality(Approvers(after))
      BY <1>2 DEF RowInv
    <2>4. PhaseOf(after.status) =
            IF Cardinality(Approvers(after)) >= row.requiredApprovals
            THEN "granted" ELSE "open"
      BY <1>3, <2>2, <2>3, Phases DEF NextStatus
    <2> QED
      BY <1>1, <1>5, <1>6, <2>1, <2>4, SameCardinality DEF QG!Approve
  <1>8. CASE call.action = "denied"
    <2>1. Approvers(after) = Approvers(row)
      BY <1>1, <1>8, ReviewedRow
    <2>2. after.status = "denied"
      BY <1>3, <1>4, <1>8 DEF NextStatus
    <2> QED
      BY <1>1, <1>5, <1>6, <2>1, <2>2, Phases DEF QG!Refuse
  <1> QED
    BY <1>1, <1>7, <1>8 DEF Decisions

LEMMA StepRefines == IInv /\ [Next]_vars => [QG!Next]_(QG!vars)
  <1> SUFFICES ASSUME IInv, [Next]_vars PROVE [QG!Next]_(QG!vars)
    OBVIOUS
  <1>1. CASE approvals' = Expired
    <2>1. {id \in ApprovalIds : Stale(approvals[id])} \in SUBSET ApprovalIds
      OBVIOUS
    <2> QED
      BY <1>1, <2>1, SweepIsLapse DEF QG!Next
  <1>2. ASSUME NEW id \in ApprovalIds, NEW principal \in Principals,
               NEW request \in Requests, NEW tenant \in Tenants, NEW quorum \in Quorums,
               CreatePending(id, principal, request, tenant, quorum)
        PROVE  QG!Next
    BY <1>2, CreateIsOpen DEF QG!Next
  <1>3. ASSUME NEW call \in inFlight, AcceptReview(call)
        PROVE  QG!Next
    <2>1. call.id \in ApprovalIds /\ call.principal \in Principals
      BY DEF IInv, TypeOK, Call
    <2> QED
      BY <1>3, <2>1, ReviewIsVote DEF QG!Next
  <1>4. CASE UNCHANGED approvals
    BY <1>4 DEF QG!vars
  <1> QED
    BY <1>1, <1>2, <1>3, <1>4
       DEF Next, vars, BeginReview, ExpireStale, RejectReview, RecordAudit, Crash, Tick

\* The approval service implements the abstract quorum grant.
THEOREM ApprovalsImplementQuorumGrant == Spec => ImplementsQuorumGrant
  <1>1. Init => QG!Init
    <2> SUFFICES ASSUME Init PROVE QG!Init
      OBVIOUS
    <2>1. ASSUME NEW id \in ApprovalIds
          PROVE  /\ PhaseOf(approvals[id].status) = "unused"
                 /\ approvals[id].requiredApprovals = 0
                 /\ Approvers(approvals[id]) = {}
      BY DEF Init, Unused, PhaseOf, Approvers
    <2> QED
      BY <2>1 DEF QG!Init
  <1> QED
    BY <1>1, StepRefines, RowsInvariant, PTL DEF Spec, ImplementsQuorumGrant, QG!Spec

=============================================================================
