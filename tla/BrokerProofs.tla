---------------------------- MODULE BrokerProofs ----------------------------
(***************************************************************************)
(* What holds of Broker for every set of callers, credentials, policies,   *)
(* approvals, grants and calls, and every bound: it uses the two services  *)
(* as their own modules assume, so their theorems hold in the composition; *)
(* and with them, that every use of a secret was authorised, inside the    *)
(* caller's tenant, on the record, and by nothing that had already ended.  *)
(***************************************************************************)
EXTENDS Broker, TLAPS

AP == INSTANCE ApprovalsProofs WITH
        audit <- approvalAudit, inFlight <- approvalCalls,
        Quorums <- ApprovalQuorums, MaxInFlight <- MaxApprovalCalls

BP == INSTANCE BreakGlassProofs WITH
        audit <- grantAudit, inFlight <- grantCalls,
        Quorums <- GrantQuorums, MaxInFlight <- MaxGrantCalls

-----------------------------------------------------------------------------
(* The services, as Broker and as their theorems name them *)

LEMMA ServiceAssumptions == AP!ApprovalsAssumption /\ BP!BreakGlassAssumption
  BY BrokerAssumption DEF AP!ApprovalsAssumption, BP!BreakGlassAssumption

LEMMA SameCardinality ==
  /\ \A S : A!Cardinality(S) = AP!Cardinality(S) /\ B!Cardinality(S) = BP!Cardinality(S)
  /\ \A S : AP!Cardinality(S) = Cardinality(S) /\ BP!Cardinality(S) = Cardinality(S)
  BY DEF A!Cardinality, AP!Cardinality, B!Cardinality, BP!Cardinality, Cardinality

LEMMA SameApprovals ==
  /\ A!Init <=> AP!Init
  /\ A!Next <=> AP!Next
  /\ A!vars = AP!vars
  <1>1. A!Init <=> AP!Init
    BY DEF A!Init, AP!Init, A!Unused, AP!Unused
  <1>2. A!Next <=> AP!Next
    BY SameCardinality
       DEF A!Next, A!CreatePending, A!BeginReview, A!AcceptReview, A!RejectReview,
           A!RecordAudit, A!ExpireStale, A!Crash, A!Tick, A!Decisions, A!NewRequest,
           A!Expired, A!Stale, A!Accepts, A!Reviewed, A!NextStatus, A!HasReviewed,
           A!Fingerprint, A!TenantAllowed,
           AP!Next, AP!CreatePending, AP!BeginReview, AP!AcceptReview, AP!RejectReview,
           AP!RecordAudit, AP!ExpireStale, AP!Crash, AP!Tick, AP!Decisions,
           AP!NewRequest, AP!Expired, AP!Stale, AP!Accepts, AP!Reviewed,
           AP!NextStatus, AP!HasReviewed, AP!Fingerprint, AP!TenantAllowed
  <1>3. A!vars = AP!vars
    BY DEF A!vars, AP!vars
  <1> QED
    BY <1>1, <1>2, <1>3

LEMMA SameGrants ==
  /\ B!Init <=> BP!Init
  /\ B!Next <=> BP!Next
  /\ B!vars = BP!vars
  <1>1. B!Init <=> BP!Init
    BY DEF B!Init, BP!Init, B!Unused, BP!Unused
  <1>2. B!Next <=> BP!Next
    <2>1. \A principal, tenant : B!TenantAllowed(principal, tenant) <=> BP!TenantAllowed(principal, tenant)
      BY DEF B!TenantAllowed, BP!TenantAllowed
    <2>2. \A row, principal, verdict : B!Reviewed(row, principal, verdict) = BP!Reviewed(row, principal, verdict)
      BY DEF B!Reviewed, B!NextStatus, B!DecisionOf, BP!Reviewed, BP!NextStatus, BP!DecisionOf
    <2>3. B!Expired = BP!Expired
      BY DEF B!Expired, B!Stale, BP!Expired, BP!Stale
    <2>4. \A call : /\ B!AcceptReview(call) <=> BP!AcceptReview(call)
                    /\ B!Revoke(call) <=> BP!Revoke(call)
                    /\ B!Reject(call) <=> BP!Reject(call)
                    /\ B!RecordAudit(call) <=> BP!RecordAudit(call)
      BY <2>1, <2>2
         DEF B!AcceptReview, B!Revoke, B!Reject, B!RecordAudit, B!Verdicts, B!Accepts,
             B!Revokes, B!HasReviewed, BP!AcceptReview, BP!Revoke, BP!Reject,
             BP!RecordAudit, BP!Verdicts, BP!Accepts, BP!Revokes, BP!HasReviewed
    <2>5. \A id, principal, request, tenant, quorum, requested :
            B!CreateRequest(id, principal, request, tenant, quorum, requested) <=>
              BP!CreateRequest(id, principal, request, tenant, quorum, requested)
      BY SameCardinality
         DEF B!CreateRequest, B!NewRequest, B!GrantedDuration, B!Fingerprint,
             BP!CreateRequest, BP!NewRequest, BP!GrantedDuration, BP!Fingerprint
    <2>6. \A id, principal, action : B!Begin(id, principal, action) <=> BP!Begin(id, principal, action)
      BY <2>3, SameCardinality DEF B!Begin, BP!Begin
    <2> QED
      BY <2>1, <2>3, <2>4, <2>5, <2>6
         DEF B!Next, B!ExpireStale, B!Crash, B!Tick, B!Verdicts,
             BP!Next, BP!ExpireStale, BP!Crash, BP!Tick, BP!Verdicts
  <1>3. B!vars = BP!vars
    BY DEF B!vars, BP!vars
  <1> QED
    BY <1>1, <1>2, <1>3

LEMMA SameSteps ==
  /\ [A!Next]_(A!vars) <=> [AP!Next]_(AP!vars)
  /\ [B!Next]_(B!vars) <=> [BP!Next]_(BP!vars)
  <1>1. (A!Next <=> AP!Next) /\ (B!Next <=> BP!Next)
    BY SameApprovals, SameGrants
  <1>2. /\ UNCHANGED A!vars <=> UNCHANGED AP!vars
        /\ UNCHANGED B!vars <=> UNCHANGED BP!vars
    BY DEF A!vars, AP!vars, B!vars, BP!vars
  <1> QED
    BY <1>1, <1>2

LEMMA SameTypes == (A!TypeOK <=> AP!TypeOK) /\ (B!TypeOK <=> BP!TypeOK)
  BY DEF A!TypeOK, A!ApprovalRequest, A!Statuses, A!Review, A!Decisions, A!AuditEvent,
         A!Call, AP!TypeOK, AP!ApprovalRequest, AP!Statuses, AP!Review, AP!Decisions,
         AP!AuditEvent, AP!Call,
         B!TypeOK, B!GrantRequest, B!Statuses, B!Review, B!Decisions, B!AuditEvent,
         B!Call, B!Actions, B!Verdicts,
         BP!TypeOK, BP!GrantRequest, BP!Statuses, BP!Review, BP!Decisions,
         BP!AuditEvent, BP!Call, BP!Actions, BP!Verdicts

-----------------------------------------------------------------------------
(* A call by itself *)

\* Before an authority is found, nothing is held and nothing was sent.
Undecided == {"idle", "evaluate", "decide", "refuse", "sweepGrants", "checkGrant",
              "noteGrant", "sweepApprovals", "checkApproval", "createPending"}

\* The call read a credential that its caller may see.
Admitted(call) ==
  call.seen \in Credential /\ A!TenantAllowed(call.input.by, call.seen.tenant)

\* What each await of a call tells of what the call has found.
InOrder(call) ==
  /\ call.pc # "idle" => call.input \in Inputs
  /\ call.pc \notin {"idle", "refuse", "done"} \/ call.sent => Admitted(call)
  /\ call.pc \in Undecided => call.via = "none" /\ ~call.sent
  /\ call.pc = "resolve" \/ call.sent => call.via # "none"
  /\ call.pc \in {"response", "recordUse"} => call.sent
  /\ call.pc \in Undecided \ {"idle", "evaluate", "refuse"} => call.effect \in Effects
  /\ call.pc \in {"sweepApprovals", "checkApproval", "createPending"} \/ call.via = "approval" =>
       call.effect = "approval"
  /\ call.via = "policy" => call.effect = "allow"

CallsInv ==
  /\ credentials \in [CredentialIds -> CredentialStates \cup {NoCredential}]
  /\ rules \in RuleSets
  /\ calls \in [CallIds -> CallRecord]
  /\ \A c \in CallIds : InOrder(calls[c])

LEMMA InputTypes ==
  ASSUME NEW input \in Inputs
  PROVE  /\ input.mode \in Modes /\ input.by \in Principals /\ input.request \in Requests
         /\ input.approvalId \in ApprovalIds \cup {NoId}
         /\ input.grantId \in GrantIds \cup {NoId}
         /\ input # NoInput
         /\ CredentialOf[input.request] \in CredentialIds
  BY BrokerAssumption DEF Input

LEMMA IdleInOrder == Idle \in CallRecord /\ InOrder(Idle)
  BY DEF Idle, CallRecord, Pcs, Results, InOrder, Undecided

\* However a call ends, it keeps what it found.
LEMMA FinishedInOrder ==
  ASSUME NEW call \in CallRecord, InOrder(call), call.pc # "idle", NEW result \in Results
  PROVE  /\ Finished(call, result) \in CallRecord
         /\ InOrder(Finished(call, result))
         /\ Finished(call, result).pc = "done"
         /\ Finished(call, result).input = call.input
         /\ Finished(call, result).seen = call.seen
         /\ Finished(call, result).via = call.via
         /\ Finished(call, result).sent = call.sent
         /\ Finished(call, result).over = call.over
         /\ Finished(call, result).effect = call.effect
  BY DEF Finished, CallRecord, InOrder, Pcs, Undecided, Admitted

LEMMA CallsStayInOrder ==
  ASSUME CallsInv, NEW c \in CallIds, NEW call \in CallRecord, InOrder(call), Goes(c, call)
  PROVE  /\ calls' \in [CallIds -> CallRecord]
         /\ \A d \in CallIds : InOrder(calls'[d])
  BY DEF CallsInv, Goes

LEMMA ReceiveInOrder ==
  ASSUME CallsInv, NEW c \in CallIds, NEW input \in Inputs, Receive(c, input)
  PROVE  /\ calls' \in [CallIds -> CallRecord]
         /\ \A d \in CallIds : InOrder(calls'[d])
  <1> DEFINE credential == credentials[CredentialOf[input.request]]
             call == [Idle EXCEPT !.input = input, !.over = Over, !.seen = credential]
  <1>1. credential \in Credential \cup {NoCredential}
    BY InputTypes, BrokerAssumption DEF CallsInv
  <1>2. Over \in SUBSET (ApprovalIds \cup GrantIds)
    BY DEF Over
  <1>3. call \in CallRecord
    BY <1>1, <1>2, IdleInOrder DEF CallRecord
  <1>4. /\ call.input = input /\ call.seen = credential /\ call.via = "none"
        /\ ~call.sent
    BY DEF Idle
  <1> HIDE DEF call
  <1>5. CASE Visible(input, credential) /\ Goes(c, [call EXCEPT !.pc = "evaluate"])
    <2>1. [call EXCEPT !.pc = "evaluate"] \in CallRecord
      BY <1>3 DEF CallRecord, Pcs
    <2>2. InOrder([call EXCEPT !.pc = "evaluate"])
      BY <1>1, <1>3, <1>4, <1>5 DEF InOrder, CallRecord, Undecided, Admitted, Visible
    <2> QED
      BY <1>5, <2>1, <2>2, CallsStayInOrder
  <1>6. CASE Goes(c, Finished(call, "error"))
    <2>1. Finished(call, "error") \in CallRecord
      BY <1>3 DEF CallRecord, Pcs, Finished, Results
    <2>2. InOrder(Finished(call, "error"))
      BY <1>3, <1>4, <1>6 DEF InOrder, CallRecord, Undecided, Finished
    <2> QED
      BY <1>6, <2>1, <2>2, CallsStayInOrder
  <1>7. CASE Goes(c, [call EXCEPT !.pc = "refuse"])
    <2>1. [call EXCEPT !.pc = "refuse"] \in CallRecord
      BY <1>3 DEF CallRecord, Pcs
    <2>2. InOrder([call EXCEPT !.pc = "refuse"])
      BY <1>3, <1>4, <1>7 DEF InOrder, CallRecord, Undecided
    <2> QED
      BY <1>7, <2>1, <2>2, CallsStayInOrder
  <1> QED
    BY <1>5, <1>6, <1>7 DEF Receive, call

LEMMA ExecutesInOrder ==
  ASSUME NEW call \in CallRecord, InOrder(call), call.pc \in Undecided \ {"idle", "evaluate", "refuse"},
         NEW via \in {"policy", "approval", "grant"},
         via = "policy" => call.effect = "allow", via = "approval" => call.effect = "approval"
  PROVE  /\ Executes(call, via) \in CallRecord /\ InOrder(Executes(call, via))
         /\ Finished([call EXCEPT !.via = via], "allowed") \in CallRecord
         /\ InOrder(Finished([call EXCEPT !.via = via], "allowed"))
  <1>1. /\ [call EXCEPT !.pc = "resolve", !.via = via] \in CallRecord
        /\ InOrder([call EXCEPT !.pc = "resolve", !.via = via])
    BY DEF CallRecord, InOrder, Pcs, Undecided, Admitted
  <1>2. /\ Finished([call EXCEPT !.via = via], "allowed") \in CallRecord
        /\ InOrder(Finished([call EXCEPT !.via = via], "allowed"))
    BY DEF CallRecord, InOrder, Pcs, Undecided, Admitted, Finished, Results
  <1> QED
    BY <1>1, <1>2 DEF Executes

LEMMA EvaluateTypes ==
  ASSUME CallsInv, NEW input \in Inputs, NEW credential \in Credential
  PROVE  Evaluate(input, credential) \in Effects
  <1>1. <<credential.tenant, input.by, input.request>> \in Tenants \X Principals \X Requests
    BY InputTypes DEF Credential
  <1>2. rules \in [Tenants \X Principals \X Requests -> Effects]
    BY BrokerAssumption DEF CallsInv
  <1> QED
    BY <1>1, <1>2 DEF Evaluate, Effects

LEMMA StepInOrder ==
  ASSUME CallsInv, NEW c \in CallIds, Step(c)
  PROVE  /\ calls' \in [CallIds -> CallRecord]
         /\ \A d \in CallIds : InOrder(calls'[d])
  <1> DEFINE call == calls[c]
             Ok(next) == next \in CallRecord /\ InOrder(next)
  <1>1. call \in CallRecord /\ InOrder(call)
    BY DEF CallsInv
  <1>2. ASSUME NEW next, Ok(next), Goes(c, next)
        PROVE  /\ calls' \in [CallIds -> CallRecord]
               /\ \A d \in CallIds : InOrder(calls'[d])
    BY <1>2, CallsStayInOrder
  <1>3. ASSUME call.pc # "idle", NEW result \in Results
        PROVE  Ok(Finished(call, result))
    BY <1>1, <1>3, FinishedInOrder
  <1>4. Results = {"none", "allowed", "denied", "approval_required", "error"}
    BY DEF Results
  <1>5. CASE EvaluateRules(c)
    <2>1. call.input \in Inputs /\ call.seen \in Credential
      BY <1>1, <1>5 DEF EvaluateRules, InOrder, Admitted
    <2>2. Evaluate(call.input, call.seen) \in Effects
      BY <2>1, EvaluateTypes
    <2> DEFINE effect == Evaluate(call.input, call.seen)
    <2> HIDE DEF effect
    <2>3. Ok([call EXCEPT !.pc = "decide", !.effect = effect])
      BY <1>1, <1>5, <2>2 DEF EvaluateRules, effect, CallRecord, InOrder, Pcs, Undecided, Admitted
    <2> QED
      BY <1>2, <1>5, <2>3 DEF EvaluateRules, effect
  <1>6. CASE Block(c)
    <2>1. Ok([call EXCEPT !.pc = "refuse"])
      BY <1>1, <1>6 DEF Block, CallRecord, InOrder, Pcs, Undecided, Admitted
    <2> QED
      BY <1>2, <1>3, <1>4, <1>6, <2>1 DEF Block
  <1>7. CASE RecordDecision(c)
    <2>1. CASE call.pc = "decide"
      <3>1. Ok([call EXCEPT !.pc = "sweepGrants"])
        BY <1>1, <2>1 DEF CallRecord, InOrder, Pcs, Undecided, Admitted
      <3> QED
        BY <1>2, <1>7, <2>1, <3>1 DEF RecordDecision
    <2>2. CASE call.pc = "refuse"
      BY <1>2, <1>3, <1>4, <1>7, <2>2 DEF RecordDecision
    <2> QED
      BY <1>7, <2>1, <2>2 DEF RecordDecision
  <1>8. CASE SweepGrants(c)
    <2>1. Ok([call EXCEPT !.pc = "checkGrant"])
      BY <1>1, <1>8 DEF SweepGrants, CallRecord, InOrder, Pcs, Undecided, Admitted
    <2> QED
      BY <1>2, <1>8, <2>1 DEF SweepGrants
  <1>9. CASE CheckGrant(c)
    <2>1. call.pc = "checkGrant" /\ call.effect \in Effects
      BY <1>1, <1>9 DEF CheckGrant, InOrder, Undecided
    <2>2. Ok([call EXCEPT !.pc = "noteGrant"])
      BY <1>1, <2>1 DEF CallRecord, InOrder, Pcs, Undecided, Admitted
    <2>3. call.effect = "approval" => Ok([call EXCEPT !.pc = "sweepApprovals"])
      BY <1>1, <2>1 DEF CallRecord, InOrder, Pcs, Undecided, Admitted
    <2>4. /\ Ok(Finished([call EXCEPT !.via = "grant"], "allowed"))
          /\ call.effect = "allow" => Ok(Executes(call, "policy"))
      BY <1>1, <2>1, ExecutesInOrder DEF Undecided
    <2>5. Ok(Finished(call, "denied"))
      BY <1>3, <1>4, <2>1
    <2>6. \/ Goes(c, [call EXCEPT !.pc = "noteGrant"])
          \/ Goes(c, Finished([call EXCEPT !.via = "grant"], "allowed"))
          \/ Goes(c, Finished(call, "denied"))
          \/ call.effect = "approval" /\ Goes(c, [call EXCEPT !.pc = "sweepApprovals"])
          \/ call.effect = "allow" /\ Goes(c, Executes(call, "policy"))
      BY <1>9, <2>1 DEF CheckGrant, Effects
    <2> HIDE DEF Ok
    <2> QED
      BY <1>2, <2>2, <2>3, <2>4, <2>5, <2>6
  <1>10. CASE NoteGrant(c)
    <2>1. Ok(Executes(call, "grant"))
      BY <1>1, <1>10, ExecutesInOrder DEF NoteGrant, Undecided
    <2> QED
      BY <1>2, <1>10, <2>1 DEF NoteGrant
  <1>11. CASE SweepApprovals(c)
    <2>1. Ok([call EXCEPT !.pc = "checkApproval"])
      BY <1>1, <1>11 DEF SweepApprovals, CallRecord, InOrder, Pcs, Undecided, Admitted
    <2> QED
      BY <1>2, <1>11, <2>1 DEF SweepApprovals
  <1>12. CASE CheckApproval(c)
    <2>1. call.pc = "checkApproval" /\ call.effect = "approval"
      BY <1>1, <1>12 DEF CheckApproval, InOrder
    <2>2. Ok(Executes(call, "approval"))
      BY <1>1, <2>1, ExecutesInOrder DEF Undecided
    <2>3. Ok(Finished(call, "denied")) /\ Ok(Finished(call, "approval_required"))
      BY <1>3, <1>4, <2>1
    <2>4. Ok([call EXCEPT !.pc = "createPending"])
      BY <1>1, <2>1 DEF CallRecord, InOrder, Pcs, Undecided, Admitted
    <2> HIDE DEF Ok
    <2> QED
      BY <1>2, <1>12, <2>2, <2>3, <2>4 DEF CheckApproval
  <1>13. ASSUME NEW id \in ApprovalIds, NEW quorum \in ApprovalQuorums,
                CreatePending(c, id, quorum)
         PROVE  /\ calls' \in [CallIds -> CallRecord]
                /\ \A d \in CallIds : InOrder(calls'[d])
    BY <1>2, <1>3, <1>4, <1>13 DEF CreatePending
  <1>14. CASE Send(c)
    <2>1. Ok([call EXCEPT !.pc = "response", !.sent = TRUE])
      BY <1>1, <1>14 DEF Send, CallRecord, InOrder, Pcs, Undecided, Admitted
    <2> QED
      BY <1>2, <1>14, <2>1 DEF Send
  <1>15. CASE Answered(c)
    <2>1. Ok([call EXCEPT !.pc = "recordUse"])
      BY <1>1, <1>15 DEF Answered, CallRecord, InOrder, Pcs, Undecided, Admitted
    <2> QED
      BY <1>2, <1>15, <2>1 DEF Answered
  <1>16. CASE RecordUse(c) \/ Fail(c)
    BY <1>2, <1>3, <1>4, <1>16 DEF RecordUse, Fail
  <1>17. ASSUME NEW id \in GrantIds, NEW quorum \in GrantQuorums, NEW requested \in Durations,
                RequestGrant(c, id, quorum, requested)
         PROVE  /\ calls' \in [CallIds -> CallRecord]
                /\ \A d \in CallIds : InOrder(calls'[d])
    BY <1>2, <1>3, <1>4, <1>17 DEF RequestGrant
  <1> QED
    BY <1>5, <1>6, <1>7, <1>8, <1>9, <1>10, <1>11, <1>12, <1>13, <1>14, <1>15, <1>16, <1>17
       DEF Step

LEMMA CrashInOrder ==
  ASSUME CallsInv, Crash
  PROVE  /\ calls' \in [CallIds -> CallRecord]
         /\ \A c \in CallIds : InOrder(calls'[c])
  <1>1. ASSUME NEW c \in CallIds
        PROVE  calls'[c] \in CallRecord /\ InOrder(calls'[c])
    <2>1. calls[c] \in CallRecord /\ InOrder(calls[c]) /\ "error" \in Results
      BY DEF CallsInv, Results
    <2>2. calls'[c] = calls[c] \/ (calls[c].pc # "idle" /\ calls'[c] = Finished(calls[c], "error"))
      BY DEF Crash
    <2> QED
      BY <2>1, <2>2, FinishedInOrder
  <1>2. calls' \in [CallIds -> CallRecord]
    BY <1>1 DEF Crash
  <1> QED
    BY <1>1, <1>2

LEMMA CallsStep == CallsInv /\ [Next]_vars => CallsInv'
  <1> SUFFICES ASSUME CallsInv, [Next]_vars PROVE CallsInv'
    OBVIOUS
  <1>1. CASE UNCHANGED <<calls, credentials, rules>>
    BY <1>1 DEF CallsInv
  <1>2. ASSUME NEW c \in CallIds, NEW input \in Inputs, Receive(c, input)
        PROVE  CallsInv'
    BY <1>2, ReceiveInOrder DEF Receive, CallsInv
  <1>3. ASSUME NEW c \in CallIds, Step(c)
        PROVE  CallsInv'
    <2>1. UNCHANGED <<credentials, rules>>
      BY <1>3 DEF Step, EvaluateRules, Block, RecordDecision, SweepGrants, CheckGrant,
        NoteGrant, SweepApprovals, CheckApproval, CreatePending, Send, Answered,
        RecordUse, RequestGrant, Fail
    <2> QED
      BY <1>3, <2>1, StepInOrder DEF CallsInv
  <1>4. ASSUME NEW id \in CredentialIds, NEW credential \in CredentialStates,
               CreateCredential(id, credential) \/ UpdateCredential(id, credential)
        PROVE  CallsInv'
    BY <1>4 DEF CreateCredential, UpdateCredential, CallsInv
  <1>5. ASSUME NEW id \in CredentialIds, DeleteCredential(id)
        PROVE  CallsInv'
    BY <1>5 DEF DeleteCredential, CallsInv
  <1>6. ASSUME NEW policies \in RuleSets, ReplaceRules(policies)
        PROVE  CallsInv'
    BY <1>6 DEF ReplaceRules, CallsInv
  <1>7. CASE Crash
    BY <1>7, CrashInOrder DEF Crash, CallsInv
  <1> QED
    BY <1>1, <1>2, <1>3, <1>4, <1>5, <1>6, <1>7
       DEF Next, vars, ApprovalStep, GrantStep, Tick

LEMMA CallsInvariant == Spec => []CallsInv
  <1>1. Init => CallsInv
    BY IdleInOrder DEF Init, CallsInv
  <1> QED
    BY <1>1, CallsStep, PTL DEF Spec

-----------------------------------------------------------------------------
(* The composition uses the services as their modules assume *)

LEMMA ApprovalsStep == CallsInv /\ [Next]_vars => [A!Next]_(A!vars)
  <1> SUFFICES ASSUME CallsInv, [Next]_vars PROVE A!Next \/ UNCHANGED A!vars
    OBVIOUS
  <1>1. CASE UNCHANGED <<approvalVars, clock>>
    BY <1>1 DEF approvalVars, A!vars
  <1>2. ASSUME NEW c \in CallIds, NEW id \in ApprovalIds, NEW quorum \in ApprovalQuorums,
               CreatePending(c, id, quorum)
        PROVE  A!Next
    <2> DEFINE call == calls[c]
    <2>1. call.input \in Inputs /\ Admitted(call)
      BY <1>2 DEF CreatePending, CallsInv, InOrder
    <2>2. /\ call.input.by \in Principals /\ call.input.request \in Requests
          /\ call.seen.tenant \in Tenants
          /\ A!TenantAllowed(call.input.by, call.seen.tenant)
      BY <2>1, InputTypes DEF Admitted, Credential
    <2> QED
      BY <1>2, <2>2 DEF CreatePending, A!Next
  <1>3. ASSUME NEW c \in CallIds, SweepApprovals(c)
        PROVE  A!Next
    BY <1>3 DEF SweepApprovals, A!Next
  <1>4. CASE ApprovalStep
    BY <1>4 DEF ApprovalStep, A!Next
  <1>5. CASE GrantStep
    <2>1. UNCHANGED <<approvalVars, clock>>
      BY <1>5 DEF GrantStep, B!Begin, B!AcceptReview, B!Revoke, B!Reject, B!RecordAudit,
        B!ExpireStale
    <2> QED
      BY <1>1, <2>1
  <1>6. CASE Crash
    BY <1>6 DEF Crash, A!Next, A!Crash
  <1>7. CASE Tick
    BY <1>7 DEF Tick, approvalVars, A!Next, A!Tick
  <1>8. ASSUME NEW c \in CallIds, SweepGrants(c)
        PROVE  UNCHANGED <<approvalVars, clock>>
    BY <1>8 DEF SweepGrants, B!ExpireStale
  <1>9. ASSUME NEW c \in CallIds, NEW id \in GrantIds, NEW quorum \in GrantQuorums,
               NEW requested \in Durations, RequestGrant(c, id, quorum, requested)
        PROVE  UNCHANGED <<approvalVars, clock>>
    BY <1>9 DEF RequestGrant, B!CreateRequest
  <1> QED
    BY <1>1, <1>2, <1>3, <1>4, <1>5, <1>6, <1>7, <1>8, <1>9
       DEF Next, Step, vars, Receive, EvaluateRules, Block, RecordDecision, CheckGrant,
           NoteGrant, CheckApproval, Send, Answered, RecordUse, Fail, CreateCredential,
           UpdateCredential, DeleteCredential, ReplaceRules

LEMMA GrantsStep == CallsInv /\ [Next]_vars => [B!Next]_(B!vars)
  <1> SUFFICES ASSUME CallsInv, [Next]_vars PROVE B!Next \/ UNCHANGED B!vars
    OBVIOUS
  <1>1. CASE UNCHANGED <<grantVars, clock>>
    BY <1>1 DEF grantVars, B!vars
  <1>2. ASSUME NEW c \in CallIds, NEW id \in GrantIds, NEW quorum \in GrantQuorums,
               NEW requested \in Durations, RequestGrant(c, id, quorum, requested)
        PROVE  B!Next
    <2> DEFINE call == calls[c]
    <2>1. call.input \in Inputs /\ Admitted(call)
      BY <1>2 DEF RequestGrant, CallsInv, InOrder
    <2>2. /\ call.input.by \in Principals /\ call.input.request \in Requests
          /\ call.seen.tenant \in Tenants
          /\ B!TenantAllowed(call.input.by, call.seen.tenant)
      BY <2>1, InputTypes DEF Admitted, Credential, A!TenantAllowed, B!TenantAllowed
    <2> QED
      BY <1>2, <2>2 DEF RequestGrant, B!Next
  <1>3. ASSUME NEW c \in CallIds, SweepGrants(c)
        PROVE  B!Next
    BY <1>3 DEF SweepGrants, B!Next
  <1>4. CASE GrantStep
    BY <1>4 DEF GrantStep, B!Next
  <1>5. CASE ApprovalStep
    <2>1. UNCHANGED <<grantVars, clock>>
      BY <1>5 DEF ApprovalStep, A!BeginReview, A!AcceptReview, A!RejectReview,
        A!RecordAudit, A!ExpireStale
    <2> QED
      BY <1>1, <2>1
  <1>6. CASE Crash
    BY <1>6 DEF Crash, B!Next, B!Crash
  <1>7. CASE Tick
    BY <1>7 DEF Tick, grantVars, B!Next, B!Tick
  <1>8. ASSUME NEW c \in CallIds, SweepApprovals(c)
        PROVE  UNCHANGED <<grantVars, clock>>
    BY <1>8 DEF SweepApprovals, A!ExpireStale
  <1>9. ASSUME NEW c \in CallIds, NEW id \in ApprovalIds, NEW quorum \in ApprovalQuorums,
               CreatePending(c, id, quorum)
        PROVE  UNCHANGED <<grantVars, clock>>
    BY <1>9 DEF CreatePending, A!CreatePending
  <1> QED
    BY <1>1, <1>2, <1>3, <1>4, <1>5, <1>6, <1>7, <1>8, <1>9
       DEF Next, Step, vars, Receive, EvaluateRules, Block, RecordDecision, CheckGrant,
           NoteGrant, CheckApproval, Send, Answered, RecordUse, Fail, CreateCredential,
           UpdateCredential, DeleteCredential, ReplaceRules

\* Every behaviour of the broker is one of the approval service.
THEOREM BrokerUsesApprovals == Spec => UsesApprovals
  <1>1. Init => A!Init
    BY DEF Init
  <1> QED
    BY <1>1, CallsInvariant, ApprovalsStep, PTL DEF Spec, UsesApprovals, A!Spec

\* Every behaviour of the broker is one of the break-glass service.
THEOREM BrokerUsesBreakGlass == Spec => UsesBreakGlass
  <1>1. Init => B!Init
    BY DEF Init
  <1> QED
    BY <1>1, CallsInvariant, GrantsStep, PTL DEF Spec, UsesBreakGlass, B!Spec

-----------------------------------------------------------------------------
(* What the rows a call holds can still do *)

ServicesInv == AP!IInv /\ BP!IInv

LEMMA ServicesInvariant == Spec => []ServicesInv
  <1>1. Init => AP!Init /\ BP!Init
    BY SameApprovals, SameGrants DEF Init
  <1>2. CallsInv /\ [Next]_vars => [AP!Next]_(AP!vars) /\ [BP!Next]_(BP!vars)
    BY ApprovalsStep, GrantsStep, SameSteps
  <1>3. Spec => AP!Spec /\ BP!Spec
    BY <1>1, <1>2, CallsInvariant, PTL DEF Spec, AP!Spec, BP!Spec
  <1>4. AP!Spec => []AP!IInv
    BY AP!RowsInvariant, ServiceAssumptions
  <1>5. BP!Spec => []BP!IInv
    BY BP!RowsInvariant, ServiceAssumptions
  <1> QED
    BY <1>3, <1>4, <1>5, PTL DEF ServicesInv

ApprovalOver(id) ==
  \/ approvals[id].status \in {"denied", "expired"}
  \/ approvals[id].status # "unused" /\ approvals[id].expiresAt <= clock

GrantOver(id) ==
  \/ grants[id].status \in {"denied", "expired", "revoked"}
  \/ grants[id].status # "unused" /\ grants[id].expiresAt <= clock

LEMMA ApprovalsKeep ==
  ASSUME CallsInv, ServicesInv, [Next]_vars, NEW id \in ApprovalIds
  PROVE  /\ ApprovalOver(id) => ApprovalOver(id)'
         /\ approvals[id].status = "approved" => approvals'[id] = approvals[id]
  <1>1. AP!TypeOK /\ [AP!Next]_(AP!vars)
    BY ApprovalsStep, SameSteps DEF ServicesInv, AP!IInv
  <1>2. approvals[id].status \in {"approved", "denied", "expired"} =>
          approvals'[id] = approvals[id]
    BY <1>1, AP!DecidedRowsStay, ServiceAssumptions
  <1>3. approvals[id].status # "unused" =>
          approvals'[id].status # "unused" /\ approvals'[id].expiresAt = approvals[id].expiresAt
    BY <1>1, AP!UsedRowsStay, ServiceAssumptions
  <1>4. clock \in Nat /\ clock' \in Nat /\ clock <= clock'
    BY <1>1, AP!ClockMovesOn, ServiceAssumptions
  <1>5. approvals[id].expiresAt \in Nat
    BY <1>1 DEF AP!TypeOK, AP!ApprovalRequest
  <1> QED
    BY <1>2, <1>3, <1>4, <1>5 DEF ApprovalOver

LEMMA GrantsKeep ==
  ASSUME CallsInv, ServicesInv, [Next]_vars, NEW id \in GrantIds
  PROVE  /\ GrantOver(id) => GrantOver(id)'
         /\ grants[id].status \in {"active", "expired", "revoked"} =>
              /\ grants'[id].status \in {"active", "expired", "revoked"}
              /\ grants'[id].reviews = grants[id].reviews
              /\ grants'[id].requiredApprovals = grants[id].requiredApprovals
              /\ grants'[id].fingerprint = grants[id].fingerprint
              /\ grants'[id].tenantId = grants[id].tenantId
  <1>1. BP!TypeOK /\ [BP!Next]_(BP!vars)
    BY GrantsStep, SameSteps DEF ServicesInv, BP!IInv
  <1>2. grants[id].status \in {"denied", "expired", "revoked"} => grants'[id] = grants[id]
    BY <1>1, BP!EndedRowsStay, ServiceAssumptions
  <1>3. grants[id].status # "unused" =>
          /\ grants'[id].status # "unused" /\ grants'[id].expiresAt = grants[id].expiresAt
          /\ grants'[id].fingerprint = grants[id].fingerprint
          /\ grants'[id].tenantId = grants[id].tenantId
    BY <1>1, BP!UsedRowsStay, ServiceAssumptions
  <1>4. grants[id].status \in {"active", "expired", "revoked"} =>
              /\ grants'[id].status \in {"active", "expired", "revoked"}
              /\ grants'[id].reviews = grants[id].reviews
              /\ grants'[id].requiredApprovals = grants[id].requiredApprovals
    BY <1>1, BP!GrantedRowsKeepReviews, ServiceAssumptions
  <1>5. clock \in Nat /\ clock' \in Nat /\ clock <= clock'
    BY <1>1, BP!ClockMovesOn, ServiceAssumptions
  <1>6. grants[id].expiresAt \in Nat
    BY <1>1 DEF BP!TypeOK, BP!GrantRequest
  <1> QED
    BY <1>2, <1>3, <1>4, <1>5, <1>6 DEF GrantOver

-----------------------------------------------------------------------------
(* What a call holds *)

OverIsOver(c) ==
  \A id \in calls[c].over :
    (id \in ApprovalIds => ApprovalOver(id)) /\ (id \in GrantIds => GrantOver(id))

\* The approval a call was let through by is still what it was.
HoldsApproval(c) ==
  LET input == calls[c].input
      row == approvals[input.approvalId]
  IN
  calls[c].via = "approval" =>
    /\ input.approvalId \in ApprovalIds
    /\ row.status = "approved"
    /\ A!TenantAllowed(input.by, row.tenantId)
    /\ row.fingerprint = Fingerprint(input)
    /\ input.approvalId \notin calls[c].over

\* The grant may have ended since, but it was active, by its reviews.
HoldsGrant(c) ==
  LET input == calls[c].input
      row == grants[input.grantId]
  IN
  calls[c].via = "grant" \/ calls[c].pc = "noteGrant" =>
    /\ input.grantId \in GrantIds
    /\ row.status \in {"active", "expired", "revoked"}
    /\ B!TenantAllowed(input.by, row.tenantId)
    /\ Backs(row, calls[c], B!Approvers(row))
    /\ input.grantId \notin calls[c].over

\* The awaits after the decision was written to the audit log.
Recorded ==
  {"sweepGrants", "checkGrant", "noteGrant", "sweepApprovals", "checkApproval",
   "createPending", "resolve", "response", "recordUse"}

Decision(c) == [type |-> "authz.decision", call |-> c]
Use(c) == [type |-> "credential.use", call |-> c]
GrantUse(input) ==
  [type |-> "breakglass.use", id |-> input.grantId, principal |-> input.by]

OnRecord(c) ==
  LET call == calls[c] IN
  /\ call.pc \in Recorded \/ call.sent => Decision(c) \in accessAudit
  /\ call.via = "grant" /\ (call.pc = "resolve" \/ call.sent) =>
       GrantUse(call.input) \in accessAudit
  /\ Use(c) \in accessAudit => call.sent

IInv ==
  /\ CallsInv /\ ServicesInv
  /\ \A c \in CallIds :
       OverIsOver(c) /\ HoldsApproval(c) /\ HoldsGrant(c) /\ OnRecord(c)

LEMMA FinishedKeeps ==
  ASSUME NEW call \in CallRecord, NEW result
  PROVE  /\ Finished(call, result).pc = "done"
         /\ Finished(call, result).input = call.input
         /\ Finished(call, result).seen = call.seen
         /\ Finished(call, result).via = call.via
         /\ Finished(call, result).sent = call.sent
         /\ Finished(call, result).over = call.over
         /\ Finished(call, result).effect = call.effect
  BY DEF Finished, CallRecord

\* next is call, let through by an authority.
LetThrough(call, via, next) ==
  /\ next.input = call.input /\ next.over = call.over
  /\ next.via = via /\ next.sent = call.sent
  /\ next.pc \in {"resolve", "done"}

LEMMA ExecutesKeeps ==
  ASSUME NEW call \in CallRecord, NEW via \in {"policy", "approval", "grant"}
  PROVE  /\ LetThrough(call, via, Executes(call, via))
         /\ LetThrough(call, via, Finished([call EXCEPT !.via = via], "allowed"))
  <1>1. LetThrough(call, via, [call EXCEPT !.pc = "resolve", !.via = via])
    BY DEF CallRecord, LetThrough
  <1>2. LetThrough(call, via, Finished([call EXCEPT !.via = via], "allowed"))
    BY DEF Finished, CallRecord, LetThrough
  <1> QED
    BY <1>1, <1>2 DEF Executes

\* What a step of a call may change of what the call holds.
LEMMA StepHolds ==
  ASSUME CallsInv, NEW c \in CallIds, Step(c)
  PROVE  /\ calls[c].pc # "idle"
         /\ calls'[c].input = calls[c].input
         /\ calls'[c].over = calls[c].over
         /\ \/ calls'[c].via = calls[c].via
            \/ calls'[c].via = "policy"
            \/ CheckApproval(c) /\ Approved(calls[c].input) /\ calls'[c].via = "approval"
            \/ CheckGrant(c) /\ Granted(calls[c].input) /\ calls'[c].via = "grant"
            \/ NoteGrant(c) /\ calls'[c].via = "grant"
         /\ calls'[c].pc = "noteGrant" => CheckGrant(c) /\ Granted(calls[c].input)
         /\ calls'[c].sent = calls[c].sent \/ Send(c)
  <1> DEFINE call == calls[c]
             Same(next) == /\ next.input = call.input /\ next.over = call.over
                           /\ next.via = call.via /\ next.sent = call.sent
  <1>1. call \in CallRecord /\ calls \in [CallIds -> CallRecord] /\ InOrder(call)
    BY DEF CallsInv
  <1>2. \A result : Same(Finished(call, result)) /\ Finished(call, result).pc = "done"
    BY <1>1, FinishedKeeps
  <1>3. CASE EvaluateRules(c)
    <2> DEFINE effect == Evaluate(call.input, call.seen)
    <2>1. calls'[c] = [call EXCEPT !.pc = "decide", !.effect = effect]
      BY <1>1, <1>3 DEF EvaluateRules, Goes
    <2> HIDE DEF effect
    <2> QED
      BY <1>1, <1>3, <2>1 DEF EvaluateRules, CallRecord
  <1>4. CASE Block(c) \/ RecordDecision(c)
    <2>1. \/ calls'[c] = [call EXCEPT !.pc = "refuse"]
          \/ calls'[c] = [call EXCEPT !.pc = "sweepGrants"]
          \/ \E result : calls'[c] = Finished(call, result)
      BY <1>1, <1>4 DEF Block, RecordDecision, Goes
    <2> QED
      BY <1>1, <1>2, <1>4, <2>1 DEF Block, RecordDecision, CallRecord
  <1>5. CASE SweepGrants(c) \/ SweepApprovals(c) \/ Answered(c)
    BY <1>1, <1>5 DEF SweepGrants, SweepApprovals, Answered, Goes, CallRecord
  <1>6. CASE Send(c)
    BY <1>1, <1>6 DEF Send, Goes, CallRecord
  <1>7. ASSUME NEW id, NEW quorum, NEW requested,
               \/ RecordUse(c) \/ Fail(c) \/ CreatePending(c, id, quorum)
               \/ RequestGrant(c, id, quorum, requested)
        PROVE  /\ \E result : calls'[c] = Finished(call, result)
               /\ call.pc # "idle"
    BY <1>1, <1>7 DEF RecordUse, Fail, CreatePending, RequestGrant, Goes
  <1>8. CASE CheckGrant(c)
    <2>1. call.pc = "checkGrant" /\ call.effect \in Effects
      BY <1>1, <1>8 DEF CheckGrant, InOrder, Undecided
    <2>2. \/ calls'[c] = [call EXCEPT !.pc = "noteGrant"] /\ Granted(call.input)
          \/ /\ calls'[c] = Finished([call EXCEPT !.via = "grant"], "allowed")
             /\ Granted(call.input)
          \/ calls'[c] = Finished(call, "denied")
          \/ calls'[c] = [call EXCEPT !.pc = "sweepApprovals"]
          \/ calls'[c] = Executes(call, "policy")
      BY <1>1, <1>8, <2>1 DEF CheckGrant, Goes, Effects
    <2>3. CASE \/ calls'[c] = [call EXCEPT !.pc = "noteGrant"] /\ Granted(call.input)
               \/ calls'[c] = [call EXCEPT !.pc = "sweepApprovals"]
      BY <1>1, <1>8, <2>1, <2>3 DEF CallRecord
    <2>4. CASE calls'[c] = Finished(call, "denied")
      BY <1>2, <2>1, <2>4
    <2>5. CASE calls'[c] = Executes(call, "policy")
      <3>1. LetThrough(call, "policy", calls'[c])
        BY <1>1, <2>5, ExecutesKeeps
      <3> QED
        BY <2>1, <3>1 DEF LetThrough
    <2>6. CASE /\ calls'[c] = Finished([call EXCEPT !.via = "grant"], "allowed")
               /\ Granted(call.input)
      <3>1. LetThrough(call, "grant", calls'[c])
        BY <1>1, <2>6, ExecutesKeeps
      <3> QED
        BY <1>8, <2>1, <2>6, <3>1 DEF LetThrough
    <2> QED
      BY <2>2, <2>3, <2>4, <2>5, <2>6
  <1>9. CASE NoteGrant(c)
    <2>1. calls'[c] = Executes(call, "grant") /\ call.pc # "idle"
      BY <1>1, <1>9 DEF NoteGrant, Goes
    <2>2. LetThrough(call, "grant", calls'[c])
      BY <1>1, <2>1, ExecutesKeeps
    <2> QED
      BY <1>9, <2>1, <2>2 DEF LetThrough
  <1>10. CASE CheckApproval(c)
    <2>1. /\ call.pc # "idle"
          /\ \/ calls'[c] = Executes(call, "approval") /\ Approved(call.input)
             \/ calls'[c] = [call EXCEPT !.pc = "createPending"]
             \/ \E result : calls'[c] = Finished(call, result)
      BY <1>1, <1>10 DEF CheckApproval, Goes
    <2>2. CASE calls'[c] = Executes(call, "approval") /\ Approved(call.input)
      <3>1. LetThrough(call, "approval", calls'[c])
        BY <1>1, <2>2, ExecutesKeeps
      <3> QED
        BY <1>10, <2>1, <2>2, <3>1 DEF LetThrough
    <2>3. CASE calls'[c] = [call EXCEPT !.pc = "createPending"]
      BY <1>1, <2>1, <2>3 DEF CallRecord
    <2>4. CASE \E result : calls'[c] = Finished(call, result)
      BY <1>2, <2>1, <2>4
    <2> QED
      BY <2>1, <2>2, <2>3, <2>4
  <1>11. ASSUME call.pc # "idle", \E result : calls'[c] = Finished(call, result)
         PROVE  Same(calls'[c]) /\ calls'[c].pc = "done"
    BY <1>2, <1>11
  <1> QED
    BY <1>3, <1>4, <1>5, <1>6, <1>7, <1>8, <1>9, <1>10, <1>11 DEF Step

\* The audit log only grows, and it learns of a call only from that call.
LEMMA AuditGrows ==
  ASSUME [Next]_vars, NEW c \in CallIds
  PROVE  /\ accessAudit \subseteq accessAudit'
         /\ Use(c) \in accessAudit' => Use(c) \in accessAudit \/ RecordUse(c)
  <1>1. ASSUME NEW d \in CallIds, RecordUse(d)
        PROVE  /\ accessAudit \subseteq accessAudit'
               /\ Use(c) \in accessAudit' => Use(c) \in accessAudit \/ RecordUse(c)
    <2>1. accessAudit' = accessAudit \cup {Use(d)}
      BY <1>1 DEF RecordUse, Use
    <2>2. Use(c) = Use(d) => c = d
      BY DEF Use
    <2> QED
      BY <1>1, <2>1, <2>2
  <1>2. ASSUME NEW event, event.type # "credential.use",
               accessAudit' = accessAudit \cup {event}
        PROVE  /\ accessAudit \subseteq accessAudit'
               /\ Use(c) \in accessAudit' => Use(c) \in accessAudit \/ RecordUse(c)
    BY <1>2 DEF Use
  <1>3. ASSUME NEW d \in CallIds, RecordDecision(d)
        PROVE  accessAudit' = accessAudit \cup {Decision(d)}
    BY <1>3 DEF RecordDecision, Decision
  <1>4. ASSUME NEW d \in CallIds, NoteGrant(d)
        PROVE  accessAudit' = accessAudit \cup {GrantUse(calls[d].input)}
    BY <1>4 DEF NoteGrant, GrantUse
  <1>5. \A d, input : /\ Decision(d).type # "credential.use"
                      /\ GrantUse(input).type # "credential.use"
    BY DEF Decision, GrantUse
  <1>6. CASE UNCHANGED accessAudit
    BY <1>6
  <1>7. \/ UNCHANGED accessAudit
        \/ \E d \in CallIds : RecordUse(d) \/ RecordDecision(d) \/ NoteGrant(d)
    BY DEF Next, Step, vars, Receive, EvaluateRules, Block, SweepGrants, CheckGrant,
      SweepApprovals, CheckApproval, CreatePending, Send, Answered, RequestGrant, Fail,
      CreateCredential, UpdateCredential, DeleteCredential, ReplaceRules, ApprovalStep,
      GrantStep, Crash, Tick
  <1> QED
    BY <1>1, <1>2, <1>3, <1>4, <1>5, <1>6, <1>7

\* The awaits a step of a call may reach, and what is on record there.
LEMMA StepRecords ==
  ASSUME CallsInv, NEW c \in CallIds, Step(c)
  PROVE  /\ calls'[c].pc \in Recorded =>
              calls[c].pc \in Recorded \/ Decision(c) \in accessAudit'
         /\ calls'[c].pc = "resolve" =>
              \/ calls'[c].via \in {"policy", "approval"}
              \/ GrantUse(calls[c].input) \in accessAudit'
  <1> DEFINE call == calls[c]
  <1>1. call \in CallRecord /\ calls \in [CallIds -> CallRecord] /\ InOrder(call)
    BY DEF CallsInv
  <1>2. \A result : Finished(call, result).pc = "done"
    BY <1>1, FinishedKeeps
  <1>3. CASE EvaluateRules(c)
    <2> DEFINE effect == Evaluate(call.input, call.seen)
    <2>1. calls'[c] = [call EXCEPT !.pc = "decide", !.effect = effect]
      BY <1>1, <1>3 DEF EvaluateRules, Goes
    <2> HIDE DEF effect
    <2> QED
      BY <1>1, <2>1 DEF CallRecord, Recorded
  <1>4. CASE Block(c)
    <2>1. \/ calls'[c] = [call EXCEPT !.pc = "refuse"]
          \/ \E result : calls'[c] = Finished(call, result)
      BY <1>1, <1>4 DEF Block, Goes
    <2> QED
      BY <1>1, <1>2, <2>1 DEF CallRecord, Recorded
  <1>5. CASE RecordDecision(c)
    <2>1. Decision(c) \in accessAudit'
      BY <1>5 DEF RecordDecision, Decision
    <2>2. \/ calls'[c] = [call EXCEPT !.pc = "sweepGrants"]
          \/ \E result : calls'[c] = Finished(call, result)
      BY <1>1, <1>5 DEF RecordDecision, Goes
    <2> QED
      BY <1>1, <1>2, <2>1, <2>2 DEF CallRecord, Recorded
  <1>6. CASE SweepGrants(c) \/ SweepApprovals(c) \/ Answered(c) \/ Send(c)
    <2>1. call.pc \in Recorded
      BY <1>6 DEF SweepGrants, SweepApprovals, Answered, Send, Recorded
    <2>2. calls'[c].pc # "resolve"
      BY <1>1, <1>6 DEF SweepGrants, SweepApprovals, Answered, Send, Goes, CallRecord
    <2> QED
      BY <2>1, <2>2
  <1>7. CASE CheckGrant(c)
    <2>1. call.pc \in Recorded /\ call.effect \in Effects
      BY <1>1, <1>7 DEF CheckGrant, InOrder, Undecided, Recorded
    <2>2. \/ calls'[c] = [call EXCEPT !.pc = "noteGrant"]
          \/ calls'[c] = Finished([call EXCEPT !.via = "grant"], "allowed")
          \/ calls'[c] = Finished(call, "denied")
          \/ calls'[c] = [call EXCEPT !.pc = "sweepApprovals"]
          \/ calls'[c] = Executes(call, "policy")
      BY <1>1, <1>7, <2>1 DEF CheckGrant, Goes, Effects
    <2>3. CASE calls'[c] = Executes(call, "policy")
      <3>1. LetThrough(call, "policy", calls'[c])
        BY <1>1, <2>3, ExecutesKeeps
      <3> QED
        BY <2>1, <3>1 DEF LetThrough
    <2>4. CASE \/ calls'[c] = [call EXCEPT !.pc = "noteGrant"]
               \/ calls'[c] = [call EXCEPT !.pc = "sweepApprovals"]
      BY <1>1, <2>1, <2>4 DEF CallRecord
    <2>5. CASE \/ calls'[c] = Finished([call EXCEPT !.via = "grant"], "allowed")
               \/ calls'[c] = Finished(call, "denied")
      BY <1>1, <2>1, <2>5 DEF CallRecord, Finished
    <2> QED
      BY <2>2, <2>3, <2>4, <2>5
  <1>8. CASE NoteGrant(c)
    <2>1. GrantUse(call.input) \in accessAudit' /\ call.pc \in Recorded
      BY <1>8 DEF NoteGrant, GrantUse, Recorded
    <2> QED
      BY <2>1
  <1>9. CASE CheckApproval(c)
    <2>1. call.pc \in Recorded
      BY <1>9 DEF CheckApproval, Recorded
    <2>2. \/ calls'[c] = Executes(call, "approval")
          \/ calls'[c] = [call EXCEPT !.pc = "createPending"]
          \/ \E result : calls'[c] = Finished(call, result)
      BY <1>1, <1>9 DEF CheckApproval, Goes
    <2>3. CASE calls'[c] = Executes(call, "approval")
      <3>1. LetThrough(call, "approval", calls'[c])
        BY <1>1, <2>3, ExecutesKeeps
      <3> QED
        BY <2>1, <3>1 DEF LetThrough
    <2>4. CASE calls'[c] = [call EXCEPT !.pc = "createPending"]
      BY <1>1, <2>1, <2>4 DEF CallRecord
    <2> QED
      BY <1>2, <2>1, <2>2, <2>3, <2>4
  <1>10. ASSUME NEW id, NEW quorum, NEW requested,
                \/ RecordUse(c) \/ Fail(c) \/ CreatePending(c, id, quorum)
                \/ RequestGrant(c, id, quorum, requested)
         PROVE  \E result : calls'[c] = Finished(call, result)
    BY <1>1, <1>10 DEF RecordUse, Fail, CreatePending, RequestGrant, Goes
  <1>11. ASSUME \E result : calls'[c] = Finished(call, result)
         PROVE  calls'[c].pc \notin Recorded
    BY <1>2, <1>11 DEF Recorded
  <1>12. "resolve" \in Recorded
    BY DEF Recorded
  <1> QED
    BY <1>3, <1>4, <1>5, <1>6, <1>7, <1>8, <1>9, <1>10, <1>11, <1>12 DEF Step

\* A call that arrives holds nothing yet.
LEMMA ReceiveHolds ==
  ASSUME CallsInv, NEW c \in CallIds, NEW input \in Inputs, Receive(c, input)
  PROVE  /\ calls'[c].via = "none" /\ ~calls'[c].sent
         /\ calls'[c].over = Over
         /\ calls'[c].pc \in {"evaluate", "refuse", "done"}
         /\ calls[c].pc = "idle"
  <1> DEFINE credential == credentials[CredentialOf[input.request]]
             call == [Idle EXCEPT !.input = input, !.over = Over, !.seen = credential]
  <1>1. credential \in Credential \cup {NoCredential}
    BY InputTypes, BrokerAssumption DEF CallsInv
  <1>2. Over \in SUBSET (ApprovalIds \cup GrantIds)
    BY DEF Over
  <1>3. call \in CallRecord
    BY <1>1, <1>2, IdleInOrder DEF CallRecord
  <1>4. call.over = Over /\ call.via = "none" /\ ~call.sent
    BY DEF Idle
  <1> HIDE DEF call
  <1>5. \/ calls'[c] = [call EXCEPT !.pc = "evaluate"]
        \/ calls'[c] = [call EXCEPT !.pc = "refuse"]
        \/ \E result : calls'[c] = Finished(call, result)
    BY DEF Receive, Goes, CallsInv, call
  <1>6. CASE \/ calls'[c] = [call EXCEPT !.pc = "evaluate"]
             \/ calls'[c] = [call EXCEPT !.pc = "refuse"]
    BY <1>3, <1>4, <1>6 DEF CallRecord, Receive
  <1>7. CASE \E result : calls'[c] = Finished(call, result)
    BY <1>3, <1>4, <1>7, FinishedKeeps DEF Receive
  <1> QED
    BY <1>5, <1>6, <1>7
\* How a step of the system leaves a call: as it was, failed by a crash, just
\* arrived, or one step on.
LEMMA Moves ==
  ASSUME CallsInv, [Next]_vars, NEW c \in CallIds
  PROVE  \/ calls'[c] = calls[c]
         \/ calls'[c] = Finished(calls[c], "error")
         \/ \E input \in Inputs : Receive(c, input)
         \/ Step(c)
  <1>1. ASSUME NEW d \in CallIds, NEW call, Goes(d, call), c # d
        PROVE  calls'[c] = calls[c]
    BY <1>1 DEF Goes, CallsInv
  <1>2. ASSUME NEW d \in CallIds, Step(d) \/ (\E input \in Inputs : Receive(d, input))
        PROVE  \E call : Goes(d, call)
    <2>1. CASE RecordDecision(d)
      BY <2>1 DEF RecordDecision
    <2> QED
      BY <1>2, <2>1
         DEF Step, Receive, EvaluateRules, Block, SweepGrants, CheckGrant, NoteGrant,
             SweepApprovals, CheckApproval, CreatePending, Send, Answered, RecordUse,
             RequestGrant, Fail
  <1>3. CASE Crash
    BY <1>3 DEF Crash
  <1>4. CASE UNCHANGED calls
    BY <1>4
  <1>5. \/ \E d \in CallIds : Step(d) \/ (\E input \in Inputs : Receive(d, input))
        \/ Crash \/ UNCHANGED calls
    BY DEF Next, vars, CreateCredential, UpdateCredential, DeleteCredential, ReplaceRules,
      ApprovalStep, GrantStep, Tick
  <1> QED
    BY <1>1, <1>2, <1>3, <1>4, <1>5

\* Whatever is listed as over is over.
LEMMA OverIds ==
  ASSUME NEW id \in Over
  PROVE  (id \in ApprovalIds => ApprovalOver(id)) /\ (id \in GrantIds => GrantOver(id))
  BY BrokerAssumption DEF Over, ApprovalOver, GrantOver

\* And it stays over.
LEMMA OverStep ==
  ASSUME CallsInv, ServicesInv, [Next]_vars, NEW c \in CallIds, OverIsOver(c)
  PROVE  OverIsOver(c)'
  <1>1. calls[c] \in CallRecord
    BY DEF CallsInv
  <1>2. \A id \in ApprovalIds : ApprovalOver(id) => ApprovalOver(id)'
    BY ApprovalsKeep
  <1>3. \A id \in GrantIds : GrantOver(id) => GrantOver(id)'
    BY GrantsKeep
  <1>4. CASE calls'[c].over = calls[c].over
    BY <1>2, <1>3, <1>4 DEF OverIsOver
  <1>5. CASE calls'[c].over = Over
    BY <1>2, <1>3, <1>5, OverIds DEF OverIsOver
  <1>6. Finished(calls[c], "error").over = calls[c].over
    BY <1>1, FinishedKeeps
  <1>7. Step(c) => calls'[c].over = calls[c].over
    BY StepHolds
  <1>8. (\E input \in Inputs : Receive(c, input)) => calls'[c].over = Over
    BY ReceiveHolds
  <1> QED
    BY <1>4, <1>5, <1>6, <1>7, <1>8, Moves

\* An approval that lets a call through.
LEMMA ApprovedHolds ==
  ASSUME CallsInv, ServicesInv, NEW c \in CallIds, OverIsOver(c),
         calls[c].pc # "idle", Approved(calls[c].input)
  PROVE  LET input == calls[c].input
             row == approvals[input.approvalId]
         IN  /\ input.approvalId \in ApprovalIds
             /\ row.status = "approved"
             /\ A!TenantAllowed(input.by, row.tenantId)
             /\ row.fingerprint = Fingerprint(input)
             /\ input.approvalId \notin calls[c].over
  <1> DEFINE input == calls[c].input
             id == input.approvalId
  <1>1. input \in Inputs
    BY DEF CallsInv, InOrder
  <1>2. id \in ApprovalIds
    BY <1>1, InputTypes DEF Approved
  <1>3. approvals[id].expiresAt \in Nat /\ clock \in Nat
    BY <1>2 DEF ServicesInv, AP!IInv, AP!TypeOK, AP!ApprovalRequest
  <1>4. ~ApprovalOver(id)
    BY <1>3 DEF Approved, ApprovalOver
  <1> QED
    BY <1>2, <1>4 DEF Approved, OverIsOver

LEMMA GrantedHolds ==
  ASSUME CallsInv, ServicesInv, NEW c \in CallIds, OverIsOver(c),
         calls[c].pc # "idle", Granted(calls[c].input)
  PROVE  LET input == calls[c].input
             row == grants[input.grantId]
         IN  /\ input.grantId \in GrantIds
             /\ row.status = "active"
             /\ B!TenantAllowed(input.by, row.tenantId)
             /\ Backs(row, calls[c], B!Approvers(row))
             /\ input.grantId \notin calls[c].over
  <1> DEFINE input == calls[c].input
             id == input.grantId
             row == grants[id]
  <1>1. input \in Inputs
    BY DEF CallsInv, InOrder
  <1>2. id \in GrantIds
    BY <1>1, InputTypes DEF Granted
  <1>3. row \in BP!GrantRequest /\ clock \in Nat /\ BP!RowInv(row)
    BY <1>2 DEF ServicesInv, BP!IInv, BP!TypeOK
  <1>4. row.expiresAt \in Nat /\ row.approvalCount \in Nat /\ row.denialCount \in Nat
    BY <1>3 DEF BP!GrantRequest
  <1>5. ~GrantOver(id)
    BY <1>4, <1>3 DEF Granted, GrantOver
  <1>6. row.requiredApprovals \in Nat \ {0}
    BY <1>3, BrokerAssumption DEF BP!RowInv, Granted
  <1>7. row.denialCount = 0
    BY <1>3, <1>4 DEF BP!RowInv, Granted
  <1>8. B!Approvers(row) = BP!Approvers(row)
    BY DEF B!Approvers, BP!Approvers
  <1>9. Cardinality(B!Approvers(row)) = row.approvalCount
    BY <1>3, <1>8, SameCardinality DEF BP!RowInv
  <1>10. row.approvalCount >= row.requiredApprovals
    BY <1>3 DEF BP!RowInv, Granted
  <1>11. Backs(row, calls[c], B!Approvers(row))
    BY <1>3, <1>6, <1>7, <1>9, <1>10 DEF Backs, BP!RowInv, Granted
  <1> QED
    BY <1>2, <1>5, <1>11 DEF Granted, OverIsOver

\* Nothing that a call holds changes, for a call that does not move; and a
\* crash changes only where it stands.
Same(old, new) ==
  /\ new.input = old.input /\ new.over = old.over
  /\ new.via = old.via /\ new.sent = old.sent
  /\ new.pc = old.pc \/ new.pc = "done"

LEMMA SameWhenFinished ==
  ASSUME CallsInv, NEW c \in CallIds, NEW result
  PROVE  Same(calls[c], Finished(calls[c], result))
  <1>1. calls[c] \in CallRecord
    BY DEF CallsInv
  <1> QED
    BY <1>1, FinishedKeeps DEF Same

LEMMA HoldsApprovalStep ==
  ASSUME CallsInv, ServicesInv, [Next]_vars, NEW c \in CallIds, OverIsOver(c),
         HoldsApproval(c)
  PROVE  HoldsApproval(c)'
  <1> DEFINE Holds(call, row) ==
               /\ call.input.approvalId \in ApprovalIds
               /\ row.status = "approved"
               /\ A!TenantAllowed(call.input.by, row.tenantId)
               /\ row.fingerprint = Fingerprint(call.input)
               /\ call.input.approvalId \notin call.over
  <1>1. ASSUME NEW id \in ApprovalIds, approvals[id].status = "approved"
        PROVE  approvals'[id] = approvals[id]
    BY <1>1, ApprovalsKeep
  <1>2. ASSUME calls'[c].input = calls[c].input, calls'[c].over = calls[c].over,
               Holds(calls[c], approvals[calls[c].input.approvalId])
        PROVE  HoldsApproval(c)'
    BY <1>1, <1>2 DEF HoldsApproval
  <1>3. CASE Same(calls[c], calls'[c])
    BY <1>2, <1>3 DEF Same, HoldsApproval
  <1>4. ASSUME NEW input \in Inputs, Receive(c, input)
        PROVE  HoldsApproval(c)'
    BY <1>4, ReceiveHolds DEF HoldsApproval
  <1>5. CASE Step(c)
    <2>1. /\ calls[c].pc # "idle"
          /\ calls'[c].input = calls[c].input /\ calls'[c].over = calls[c].over
          /\ \/ calls'[c].via = calls[c].via
             \/ calls'[c].via \in {"policy", "grant"}
             \/ Approved(calls[c].input)
      BY <1>5, StepHolds
    <2>2. CASE Approved(calls[c].input)
      BY <1>2, <2>1, <2>2, ApprovedHolds
    <2>3. CASE calls'[c].via = calls[c].via
      BY <1>2, <2>1, <2>3 DEF HoldsApproval
    <2>4. CASE calls'[c].via \in {"policy", "grant"}
      BY <2>4 DEF HoldsApproval
    <2> QED
      BY <2>1, <2>2, <2>3, <2>4
  <1>6. Same(calls[c], calls[c])
    BY DEF Same
  <1> QED
    BY <1>3, <1>4, <1>5, <1>6, Moves, SameWhenFinished

LEMMA HoldsGrantStep ==
  ASSUME CallsInv, ServicesInv, [Next]_vars, NEW c \in CallIds, OverIsOver(c),
         HoldsGrant(c)
  PROVE  HoldsGrant(c)'
  <1> DEFINE Holds(call, row) ==
               /\ call.input.grantId \in GrantIds
               /\ row.status \in {"active", "expired", "revoked"}
               /\ B!TenantAllowed(call.input.by, row.tenantId)
               /\ Backs(row, call, B!Approvers(row))
               /\ call.input.grantId \notin call.over
  <1>1. ASSUME NEW id \in GrantIds, grants[id].status \in {"active", "expired", "revoked"}
        PROVE  /\ grants'[id].status \in {"active", "expired", "revoked"}
               /\ grants'[id].reviews = grants[id].reviews
               /\ grants'[id].requiredApprovals = grants[id].requiredApprovals
               /\ grants'[id].fingerprint = grants[id].fingerprint
               /\ grants'[id].tenantId = grants[id].tenantId
    BY <1>1, GrantsKeep
  <1>2. ASSUME calls'[c].input = calls[c].input, calls'[c].over = calls[c].over,
               Holds(calls[c], grants[calls[c].input.grantId])
        PROVE  HoldsGrant(c)'
    <2> DEFINE id == calls[c].input.grantId
    <2>1. /\ grants'[id].status \in {"active", "expired", "revoked"}
          /\ grants'[id].reviews = grants[id].reviews
          /\ grants'[id].requiredApprovals = grants[id].requiredApprovals
          /\ grants'[id].fingerprint = grants[id].fingerprint
          /\ grants'[id].tenantId = grants[id].tenantId
      BY <1>1, <1>2
    <2>2. B!Approvers(grants'[id]) = B!Approvers(grants[id])
      BY <2>1 DEF B!Approvers
    <2>3. Backs(grants'[id], calls'[c], B!Approvers(grants'[id]))
      BY <1>2, <2>1, <2>2 DEF Backs
    <2> QED
      BY <1>2, <2>1, <2>3 DEF HoldsGrant
  <1>3. CASE Same(calls[c], calls'[c])
    BY <1>2, <1>3 DEF Same, HoldsGrant
  <1>4. ASSUME NEW input \in Inputs, Receive(c, input)
        PROVE  HoldsGrant(c)'
    BY <1>4, ReceiveHolds DEF HoldsGrant
  <1>5. CASE Step(c)
    <2>1. /\ calls[c].pc # "idle"
          /\ calls'[c].input = calls[c].input /\ calls'[c].over = calls[c].over
          /\ \/ calls'[c].via = "grant" \/ calls'[c].pc = "noteGrant" =>
                  \/ calls[c].via = "grant" \/ calls[c].pc = "noteGrant"
             \/ Granted(calls[c].input)
      BY <1>5, StepHolds DEF NoteGrant
    <2>2. CASE Granted(calls[c].input)
      BY <1>2, <2>1, <2>2, GrantedHolds
    <2>3. CASE calls[c].via = "grant" \/ calls[c].pc = "noteGrant"
      BY <1>2, <2>1, <2>3 DEF HoldsGrant
    <2>4. CASE ~(calls'[c].via = "grant" \/ calls'[c].pc = "noteGrant")
      BY <2>4 DEF HoldsGrant
    <2> QED
      BY <2>1, <2>2, <2>3, <2>4
  <1>6. Same(calls[c], calls[c])
    BY DEF Same
  <1> QED
    BY <1>3, <1>4, <1>5, <1>6, Moves, SameWhenFinished

LEMMA OnRecordStep ==
  ASSUME CallsInv, [Next]_vars, NEW c \in CallIds, OnRecord(c)
  PROVE  OnRecord(c)'
  <1>1. /\ accessAudit \subseteq accessAudit'
        /\ Use(c) \in accessAudit' => Use(c) \in accessAudit \/ RecordUse(c)
    BY AuditGrows
  <1>2. InOrder(calls[c])
    BY DEF CallsInv
  <1>3. RecordUse(c) => calls[c].sent
    BY <1>2 DEF RecordUse, InOrder
  <1>4. CASE Same(calls[c], calls'[c])
    BY <1>1, <1>3, <1>4 DEF Same, OnRecord, Recorded
  <1>5. ASSUME NEW input \in Inputs, Receive(c, input)
        PROVE  OnRecord(c)'
    <2>1. /\ calls[c].pc = "idle" /\ calls'[c].via = "none" /\ ~calls'[c].sent
          /\ calls'[c].pc \in {"evaluate", "refuse", "done"}
      BY <1>5, ReceiveHolds
    <2>2. ~calls[c].sent
      BY <1>2, <2>1 DEF InOrder, Undecided
    <2> QED
      BY <1>1, <1>3, <2>1, <2>2 DEF OnRecord, Recorded
  <1>6. CASE Step(c)
    <2>1. /\ calls'[c].input = calls[c].input
          /\ calls'[c].sent = calls[c].sent \/ Send(c)
          /\ \/ calls'[c].via = calls[c].via
             \/ calls'[c].via \in {"policy", "approval"}
             \/ CheckGrant(c) \/ NoteGrant(c)
      BY <1>6, StepHolds
    <2>2. /\ calls'[c].pc \in Recorded =>
               calls[c].pc \in Recorded \/ Decision(c) \in accessAudit'
          /\ calls'[c].pc = "resolve" =>
               \/ calls'[c].via \in {"policy", "approval"}
               \/ GrantUse(calls[c].input) \in accessAudit'
      BY <1>6, StepRecords
    <2>3. Send(c) => calls[c].pc = "resolve" /\ calls[c].pc \in Recorded /\ calls'[c].sent
                       /\ calls'[c].via = calls[c].via
      BY DEF Send, Recorded, Goes, CallsInv, CallRecord
    <2>4. CheckGrant(c) \/ NoteGrant(c) => ~calls'[c].sent
      <3>1. CheckGrant(c) \/ NoteGrant(c) => calls[c].pc \in Undecided /\ ~Send(c)
        BY DEF CheckGrant, NoteGrant, Send, Undecided
      <3> QED
        BY <1>2, <2>1, <3>1 DEF InOrder
    <2>5. calls'[c].pc \in Recorded \/ calls'[c].sent => Decision(c) \in accessAudit'
      BY <1>1, <2>1, <2>2, <2>3 DEF OnRecord
    <2>6. calls'[c].via = "grant" /\ (calls'[c].pc = "resolve" \/ calls'[c].sent) =>
            GrantUse(calls'[c].input) \in accessAudit'
      BY <1>1, <2>1, <2>2, <2>3, <2>4 DEF OnRecord
    <2>7. Use(c) \in accessAudit' => calls'[c].sent
      BY <1>1, <1>3, <2>1, <2>3 DEF OnRecord
    <2> QED
      BY <2>5, <2>6, <2>7 DEF OnRecord, Decision, Use, GrantUse
  <1>7. Same(calls[c], calls[c])
    BY DEF Same
  <1> QED
    BY <1>4, <1>5, <1>6, <1>7, Moves, SameWhenFinished

LEMMA BrokerInvariant == Spec => []IInv
  <1> DEFINE Held(c) == OverIsOver(c) /\ HoldsApproval(c) /\ HoldsGrant(c) /\ OnRecord(c)
  <1>1. Init => \A c \in CallIds : Held(c)
    <2> SUFFICES ASSUME Init, NEW c \in CallIds PROVE Held(c)
      OBVIOUS
    <2>1. /\ calls[c].pc = "idle" /\ calls[c].over = {} /\ calls[c].via = "none"
          /\ ~calls[c].sent /\ accessAudit = {}
      BY DEF Init, Idle
    <2> QED
      BY <2>1 DEF OverIsOver, HoldsApproval, HoldsGrant, OnRecord, Recorded
  <1>2. /\ CallsInv /\ ServicesInv /\ [Next]_vars
        /\ \A c \in CallIds : Held(c)
        => (\A c \in CallIds : Held(c))'
    BY OverStep, HoldsApprovalStep, HoldsGrantStep, OnRecordStep
  <1> QED
    BY <1>1, <1>2, CallsInvariant, ServicesInvariant, PTL DEF Spec, IInv

-----------------------------------------------------------------------------
(* The theorems *)

\* The secret leaves only for a call that the policies, an approved approval
\* request or an active grant allow, and the last two had the quorum of
\* different reviewers, none of whom refused.
THEOREM SecretsNeedAuthority == Spec => []UseIsAuthorized
  <1>1. ASSUME IInv, NEW c \in CallIds, calls[c].sent, calls[c].via = "approval"
        PROVE  Backs(approvals[calls[c].input.approvalId], calls[c],
                     A!Approvers(approvals[calls[c].input.approvalId]))
    <2> DEFINE id == calls[c].input.approvalId
               row == approvals[id]
    <2>1. /\ id \in ApprovalIds /\ row.status = "approved"
          /\ row.fingerprint = Fingerprint(calls[c].input)
      BY <1>1 DEF IInv, HoldsApproval
    <2>2. row \in AP!ApprovalRequest /\ AP!RowInv(row)
      BY <1>1, <2>1 DEF IInv, ServicesInv, AP!IInv, AP!TypeOK
    <2>3. row.approvalCount \in Nat /\ row.denialCount \in Nat
      BY <2>2 DEF AP!ApprovalRequest
    <2>4. row.requiredApprovals \in Nat \ {0}
      BY <2>1, <2>2, BrokerAssumption DEF AP!RowInv
    <2>5. row.denialCount = 0
      BY <2>1, <2>2, <2>3 DEF AP!RowInv
    <2>6. A!Approvers(row) = AP!Approvers(row)
      BY DEF A!Approvers, AP!Approvers
    <2>7. Cardinality(A!Approvers(row)) >= row.requiredApprovals
      BY <2>1, <2>2, <2>6, SameCardinality DEF AP!RowInv
    <2> QED
      BY <2>1, <2>2, <2>4, <2>5, <2>7 DEF Backs, AP!RowInv
  <1>2. ASSUME IInv, NEW c \in CallIds, calls[c].sent
        PROVE  /\ calls[c].via \in {"policy", "approval", "grant"}
               /\ calls[c].via = "policy" => calls[c].effect = "allow"
               /\ calls[c].via = "approval" => calls[c].effect = "approval"
    <2>1. calls[c] \in CallRecord /\ InOrder(calls[c])
      BY <1>2 DEF IInv, CallsInv
    <2> QED
      BY <1>2, <2>1 DEF InOrder, CallRecord
  <1>3. ASSUME IInv, NEW c \in CallIds, calls[c].via = "grant"
        PROVE  Backs(grants[calls[c].input.grantId], calls[c],
                     B!Approvers(grants[calls[c].input.grantId]))
    BY <1>3 DEF IInv, HoldsGrant
  <1>4. IInv => UseIsAuthorized
    BY <1>1, <1>2, <1>3 DEF UseIsAuthorized
  <1> QED
    BY <1>4, BrokerInvariant, PTL

\* A call never uses an approval or a grant that had ended when it arrived.
THEOREM EndedAuthorityIsUnused == Spec => []NoUseOfEndedAuthority
  <1>1. IInv => NoUseOfEndedAuthority
    BY DEF IInv, HoldsApproval, HoldsGrant, NoUseOfEndedAuthority
  <1> QED
    BY <1>1, BrokerInvariant, PTL

\* A secret that left for a caller that is bound to a tenant is of that
\* tenant, and so is the approval or the grant it left by.
THEOREM CallsStayInTenant == Spec => []TenantScopedCalls
  <1>1. ASSUME IInv, NEW c \in CallIds, calls[c].sent,
               TenantOf[calls[c].input.by] # NoTenant
        PROVE  LET call == calls[c] IN
               /\ call.seen.tenant = TenantOf[call.input.by]
               /\ call.via = "approval" =>
                    approvals[call.input.approvalId].tenantId = TenantOf[call.input.by]
               /\ call.via = "grant" =>
                    grants[call.input.grantId].tenantId = TenantOf[call.input.by]
    <2>1. Admitted(calls[c])
      BY <1>1 DEF IInv, CallsInv, InOrder
    <2>2. HoldsApproval(c) /\ HoldsGrant(c)
      BY <1>1 DEF IInv
    <2> QED
      BY <1>1, <2>1, <2>2
         DEF Admitted, HoldsApproval, HoldsGrant, A!TenantAllowed, B!TenantAllowed
  <1>2. IInv => TenantScopedCalls
    BY <1>1 DEF TenantScopedCalls
  <1> QED
    BY <1>2, BrokerInvariant, PTL

\* The decision and the use of a grant are in the audit log before the secret
\* leaves, and the use of the credential only after.
THEOREM AuditSurroundsUse == Spec => []AuditAroundUse
  <1>1. IInv => AuditAroundUse
    BY DEF IInv, OnRecord, AuditAroundUse, Decision, Use, GrantUse
  <1> QED
    BY <1>1, BrokerInvariant, PTL
=============================================================================
