------------------------------- MODULE Broker -------------------------------
(***************************************************************************)
(* Brokered access: BrokerService composed with the approval requests and  *)
(* the break-glass grants it consults.  requestAccess reads the credential *)
(* and the policies, decides, may consult a grant or an approval, and then *)
(* sends the secret to the target.  Each read is a statement of its own,   *)
(* so by the time the secret leaves, what was read may have changed: the   *)
(* credential a call holds is the one it read first, and an approval or a  *)
(* grant may have ended after it was checked.                              *)
(*                                                                         *)
(* One call is one request, from its arrival to its answer; pc names the   *)
(* await the handler is suspended at.                                      *)
(***************************************************************************)
EXTENDS Naturals, FiniteSets

CONSTANTS
  ApprovalIds, GrantIds, Principals, Tenants, NoTenant, TenantOf, Requests,
  NoFingerprint,
  ApprovalQuorums, GrantQuorums, Ttl, Durations, MaxDuration,
  CallIds,         \* the correlation ids of the calls
  CredentialIds,
  CredentialOf,    \* [Requests -> CredentialIds]: input.credentialId
  NoCredential,
  CredentialStates, \* the rows a credential may have: its tenant, and the
                   \*   requests that its status, expiry, operations and
                   \*   domains permit
  RuleSets,        \* the policy files: [effect of <<tenant, principal, request>>]
  NoId,            \* an absent approvalId or breakGlassId
  Inputs,          \* the calls that may arrive
  NoInput,         \* the input of a call that has not arrived
  MaxClock, MaxApprovalCalls, MaxGrantCalls   \* bounds

Effects == {"allow", "approval", "deny"}
Modes == {"live", "dry_run", "break_glass"}

Input ==
  [mode : Modes, by : Principals, request : Requests,
   approvalId : ApprovalIds \cup {NoId}, grantId : GrantIds \cup {NoId}]

Credential == [tenant : Tenants, permits : SUBSET Requests]

ASSUME BrokerAssumption ==
  /\ NoTenant \notin Tenants
  /\ TenantOf \in [Principals -> Tenants \cup {NoTenant}]
  /\ NoFingerprint \notin Principals \X Requests
  /\ ApprovalQuorums \subseteq Nat \ {0}
  /\ GrantQuorums \subseteq Nat \ {0}
  /\ Durations \subseteq Nat \ {0}
  /\ Ttl \in Nat \ {0} /\ MaxDuration \in Nat \ {0}
  /\ MaxClock \in Nat /\ MaxApprovalCalls \in Nat /\ MaxGrantCalls \in Nat
  /\ CredentialOf \in [Requests -> CredentialIds]
  /\ CredentialStates \subseteq Credential
  /\ NoCredential \notin Credential
  /\ RuleSets \subseteq [Tenants \X Principals \X Requests -> Effects]
  /\ NoId \notin ApprovalIds \cup GrantIds
  /\ ApprovalIds \cap GrantIds = {}   \* both are random UUIDs
  /\ Inputs \subseteq Input /\ NoInput \notin Input

VARIABLES
  approvals, approvalAudit, approvalCalls,  \* ApprovalService
  grants, grantAudit, grantCalls,           \* BreakGlassService
  clock,
  credentials,  \* the table credentials
  rules,        \* the tables of policy rules
  calls,        \* the requests BrokerService has received
  accessAudit   \* the events of BrokerService and recordUse in audit_events

approvalVars == <<approvals, approvalAudit, approvalCalls>>
grantVars == <<grants, grantAudit, grantCalls>>
vars == <<approvalVars, grantVars, clock, credentials, rules, calls, accessAudit>>

A == INSTANCE Approvals WITH
       audit <- approvalAudit, inFlight <- approvalCalls,
       Quorums <- ApprovalQuorums, MaxInFlight <- MaxApprovalCalls

B == INSTANCE BreakGlass WITH
       audit <- grantAudit, inFlight <- grantCalls,
       Quorums <- GrantQuorums, MaxInFlight <- MaxGrantCalls

-----------------------------------------------------------------------------
(* Types *)

Pcs ==
  {"idle",        \* not received
   "evaluate",    \* credential read; at validateTarget and policies.read
   "decide",      \* evaluated; at the authz.decision event
   "refuse",      \* not found, not permitted or blocked; at that event
   "sweepGrants", "checkGrant", "noteGrant",
   "sweepApprovals", "checkApproval", "createPending",
   "resolve",     \* at the secret adapter
   "response",    \* the secret is on its way; at the answer of the target
   "recordUse",   \* at the credential.use event
   "done"}

Results == {"none", "allowed", "denied", "approval_required", "error"}

CallRecord ==
  [pc : Pcs, input : Inputs \cup {NoInput},
   seen : Credential \cup {NoCredential},  \* the credential as it was read
   effect : Effects \cup {"none"},         \* what the policies said of it
   via : {"none", "policy", "approval", "grant"}, \* the authority found
   sent : BOOLEAN,                         \* the secret left for the target
   over : SUBSET (ApprovalIds \cup GrantIds), \* history: what had ended when
                                           \*   the call arrived
   result : Results]

AccessEvent ==
  [type : {"authz.decision", "credential.use"}, call : CallIds]
  \cup [type : {"breakglass.use"}, id : GrantIds, principal : Principals]

TypeOK ==
  /\ A!TypeOK /\ B!TypeOK
  /\ credentials \in [CredentialIds -> CredentialStates \cup {NoCredential}]
  /\ rules \in RuleSets
  /\ calls \in [CallIds -> CallRecord]
  /\ accessAudit \subseteq AccessEvent

-----------------------------------------------------------------------------
(* Helpers *)

Idle ==
  [pc |-> "idle", input |-> NoInput, seen |-> NoCredential, effect |-> "none",
   via |-> "none", sent |-> FALSE, over |-> {}, result |-> "none"]

Fingerprint(input) == A!Fingerprint(input.by, input.request)

VisibleToAll(input, credential) == credential # NoCredential

Visible(input, credential) ==
  /\ credential # NoCredential
  /\ A!TenantAllowed(input.by, credential.tenant)

\* PolicyEngine.evaluate: a credential that is inactive, expired, or lacks the
\* operation or the domain is denied before any rule of its tenant is looked at.
Evaluate(input, credential) ==
  IF input.request \notin credential.permits THEN "deny"
  ELSE rules[<<credential.tenant, input.by, input.request>>]

ApprovedAnyRequest(input) ==
  /\ input.approvalId # NoId
  /\ LET row == approvals[input.approvalId] IN
       /\ row.status = "approved"
       /\ A!TenantAllowed(input.by, row.tenantId)
       /\ row.expiresAt > clock

ApprovedForEver(input) ==
  /\ input.approvalId # NoId
  /\ LET row == approvals[input.approvalId] IN
       /\ row.status = "approved"
       /\ A!TenantAllowed(input.by, row.tenantId)
       /\ row.fingerprint = Fingerprint(input)

\* verifyApproval after its sweep
Approved(input) ==
  /\ input.approvalId # NoId
  /\ LET row == approvals[input.approvalId] IN
       /\ row.status = "approved"
       /\ A!TenantAllowed(input.by, row.tenantId)
       /\ row.expiresAt > clock
       /\ row.fingerprint = Fingerprint(input)

GrantedToAnyRequest(input) ==
  /\ input.grantId # NoId
  /\ LET row == grants[input.grantId] IN
       /\ row.status = "active"
       /\ B!TenantAllowed(input.by, row.tenantId)
       /\ row.expiresAt > clock

GrantedWhenReviewed(input) ==
  /\ input.grantId # NoId
  /\ LET row == grants[input.grantId] IN
       /\ row.status \in {"active", "revoked"}
       /\ B!TenantAllowed(input.by, row.tenantId)
       /\ row.expiresAt > clock
       /\ row.fingerprint = Fingerprint(input)

\* verifyActive after its sweep
Granted(input) ==
  /\ input.grantId # NoId
  /\ LET row == grants[input.grantId] IN
       /\ row.status = "active"
       /\ B!TenantAllowed(input.by, row.tenantId)
       /\ row.expiresAt > clock
       /\ row.fingerprint = Fingerprint(input)

\* The approvals and the grants that can no longer authorise anything.
Over ==
  {id \in ApprovalIds :
     \/ approvals[id].status \in {"denied", "expired"}
     \/ approvals[id].status # "unused" /\ approvals[id].expiresAt <= clock}
  \cup
  {id \in GrantIds :
     \/ grants[id].status \in {"denied", "expired", "revoked"}
     \/ grants[id].status # "unused" /\ grants[id].expiresAt <= clock}

Finished(call, result) == [call EXCEPT !.pc = "done", !.result = result]

\* An authority was found: a live call goes on to the secret, a dry run
\* answers.
Executes(call, via) ==
  IF call.input.mode = "live"
  THEN [call EXCEPT !.pc = "resolve", !.via = via]
  ELSE Finished([call EXCEPT !.via = via], "allowed")

-----------------------------------------------------------------------------
(* The steps of a call *)

Init ==
  /\ A!Init /\ B!Init
  /\ credentials \in [CredentialIds -> CredentialStates \cup {NoCredential}]
  /\ rules \in RuleSets
  /\ calls = [c \in CallIds |-> Idle]
  /\ accessAudit = {}

Goes(c, call) == calls' = [calls EXCEPT ![c] = call]

\* A call arrives, and reads the credential it names.  A credential that is
\* absent or another tenant's is not found: createBreakGlassRequest throws,
\* the others have that decision audited.
Receive(c, input) ==
  LET credential == credentials[CredentialOf[input.request]]
      call == [Idle EXCEPT !.input = input, !.over = Over, !.seen = credential]
  IN
  /\ calls[c].pc = "idle"
  /\ Goes(c, IF Visible(input, credential) THEN [call EXCEPT !.pc = "evaluate"]
             ELSE IF input.mode = "break_glass" THEN Finished(call, "error")
             ELSE [call EXCEPT !.pc = "refuse"])
  /\ UNCHANGED <<approvalVars, grantVars, clock, credentials, rules, accessAudit>>

\* The target passes the egress policy, and the policies are read and
\* evaluated against the credential read before.
EvaluateRules(c) ==
  LET call == calls[c] IN
  /\ call.pc = "evaluate" /\ call.input.mode # "break_glass"
  /\ Goes(c, [call EXCEPT !.pc = "decide",
                          !.effect = Evaluate(call.input, call.seen)])
  /\ UNCHANGED <<approvalVars, grantVars, clock, credentials, rules, accessAudit>>

\* validateTarget throws: the decision is audited and refused; for a
\* break-glass request nothing is written.
Block(c) ==
  LET call == calls[c] IN
  /\ call.pc = "evaluate"
  /\ Goes(c, IF call.input.mode = "break_glass" THEN Finished(call, "error")
             ELSE [call EXCEPT !.pc = "refuse"])
  /\ UNCHANGED <<approvalVars, grantVars, clock, credentials, rules, accessAudit>>

RecordDecision(c) ==
  LET call == calls[c] IN
  /\ \/ call.pc = "decide" /\ Goes(c, [call EXCEPT !.pc = "sweepGrants"])
     \/ call.pc = "refuse" /\ Goes(c, Finished(call, "denied"))
  /\ accessAudit' = accessAudit \cup {[type |-> "authz.decision", call |-> c]}
  /\ UNCHANGED <<approvalVars, grantVars, clock, credentials, rules>>

\* verifyActive sweeps first, whether or not the call names a grant.
SweepGrants(c) ==
  /\ calls[c].pc = "sweepGrants"
  /\ B!ExpireStale
  /\ Goes(c, [calls[c] EXCEPT !.pc = "checkGrant"])
  /\ UNCHANGED <<approvalVars, credentials, rules, accessAudit>>

\* Then it reads the grant.  An active grant overrides every policy effect;
\* without one the effect decides.
CheckGrant(c) ==
  LET call == calls[c] IN
  /\ call.pc = "checkGrant"
  /\ Goes(c,
       CASE Granted(call.input) ->
              IF call.input.mode = "live" THEN [call EXCEPT !.pc = "noteGrant"]
              ELSE Finished([call EXCEPT !.via = "grant"], "allowed")
         [] ~Granted(call.input) /\ call.effect = "deny" -> Finished(call, "denied")
         [] ~Granted(call.input) /\ call.effect = "approval" ->
              [call EXCEPT !.pc = "sweepApprovals"]
         [] ~Granted(call.input) /\ call.effect = "allow" -> Executes(call, "policy"))
  /\ UNCHANGED <<approvalVars, grantVars, clock, credentials, rules, accessAudit>>

ForgetToNoteGrant(c) ==
  LET call == calls[c] IN
  /\ call.pc = "noteGrant"
  /\ Goes(c, Executes(call, "grant"))
  /\ UNCHANGED <<approvalVars, grantVars, clock, credentials, rules, accessAudit>>

\* recordUse: the event is stored before the secret is even resolved.
NoteGrant(c) ==
  LET call == calls[c] IN
  /\ call.pc = "noteGrant"
  /\ accessAudit' = accessAudit \cup
       {[type |-> "breakglass.use", id |-> call.input.grantId,
         principal |-> call.input.by]}
  /\ Goes(c, Executes(call, "grant"))
  /\ UNCHANGED <<approvalVars, grantVars, clock, credentials, rules>>

SweepApprovals(c) ==
  /\ calls[c].pc = "sweepApprovals"
  /\ A!ExpireStale
  /\ Goes(c, [calls[c] EXCEPT !.pc = "checkApproval"])
  /\ UNCHANGED <<grantVars, credentials, rules, accessAudit>>

\* Reading the approval.  Without one a live call asks for it, unless it
\* named a grant; a dry run only reports that one is required.
CheckApproval(c) ==
  LET call == calls[c] IN
  /\ call.pc = "checkApproval"
  /\ Goes(c,
       IF Approved(call.input) THEN Executes(call, "approval")
       ELSE IF call.input.grantId # NoId THEN Finished(call, "denied")
       ELSE IF call.input.mode = "live" THEN [call EXCEPT !.pc = "createPending"]
       ELSE Finished(call, "approval_required"))
  /\ UNCHANGED <<approvalVars, grantVars, clock, credentials, rules, accessAudit>>

CreatePendingForOwner(c, id, quorum) ==
  LET call == calls[c]
      owner == credentials[CredentialOf[call.input.request]]
  IN
  /\ call.pc = "createPending" /\ owner # NoCredential
  /\ A!CreatePending(id, call.input.by, call.input.request, owner.tenant, quorum)
  /\ Goes(c, Finished(call, "approval_required"))
  /\ UNCHANGED <<grantVars, credentials, rules, accessAudit>>

\* The approval request is raised for the tenant of the credential as read.
CreatePending(c, id, quorum) ==
  LET call == calls[c] IN
  /\ call.pc = "createPending"
  /\ A!CreatePending(id, call.input.by, call.input.request, call.seen.tenant, quorum)
  /\ Goes(c, Finished(call, "approval_required"))
  /\ UNCHANGED <<grantVars, credentials, rules, accessAudit>>

\* The adapter resolves the secret, and fetch starts in the same turn of the
\* event loop: from here on the secret has left.
Send(c) ==
  /\ calls[c].pc = "resolve"
  /\ Goes(c, [calls[c] EXCEPT !.pc = "response", !.sent = TRUE])
  /\ UNCHANGED <<approvalVars, grantVars, clock, credentials, rules, accessAudit>>

Answered(c) ==
  /\ calls[c].pc = "response"
  /\ Goes(c, [calls[c] EXCEPT !.pc = "recordUse"])
  /\ UNCHANGED <<approvalVars, grantVars, clock, credentials, rules, accessAudit>>

RecordUse(c) ==
  /\ calls[c].pc = "recordUse"
  /\ accessAudit' = accessAudit \cup {[type |-> "credential.use", call |-> c]}
  /\ Goes(c, Finished(calls[c], "allowed"))
  /\ UNCHANGED <<approvalVars, grantVars, clock, credentials, rules>>

\* createBreakGlassRequest after the target passed.
RequestGrant(c, id, quorum, requested) ==
  LET call == calls[c] IN
  /\ call.pc = "evaluate" /\ call.input.mode = "break_glass"
  /\ B!CreateRequest(id, call.input.by, call.input.request, call.seen.tenant,
                     quorum, requested)
  /\ Goes(c, Finished(call, "approval_required"))
  /\ UNCHANGED <<approvalVars, credentials, rules, accessAudit>>

\* Any await may reject: a statement fails, the adapter has no secret, the
\* target does not answer in time.  The handler throws and writes nothing.
Fail(c) ==
  /\ calls[c].pc \notin {"idle", "done"}
  /\ Goes(c, Finished(calls[c], "error"))
  /\ UNCHANGED <<approvalVars, grantVars, clock, credentials, rules, accessAudit>>

-----------------------------------------------------------------------------
(* Everything that runs beside a call *)

CreateCredential(id, credential) ==
  /\ credentials[id] = NoCredential
  /\ credentials' = [credentials EXCEPT ![id] = credential]
  /\ UNCHANGED <<approvalVars, grantVars, clock, rules, calls, accessAudit>>

\* An update may enable, disable or rescope; it never moves the tenant.
UpdateCredential(id, credential) ==
  /\ credentials[id] # NoCredential
  /\ credential.tenant = credentials[id].tenant
  /\ credentials' = [credentials EXCEPT ![id] = credential]
  /\ UNCHANGED <<approvalVars, grantVars, clock, rules, calls, accessAudit>>

DeleteCredential(id) ==
  /\ credentials' = [credentials EXCEPT ![id] = NoCredential]
  /\ UNCHANGED <<approvalVars, grantVars, clock, rules, calls, accessAudit>>

ReplaceRules(policies) ==
  /\ rules' = policies
  /\ UNCHANGED <<approvalVars, grantVars, clock, credentials, calls, accessAudit>>

\* Operators review approvals, and the maintenance loop sweeps them.
ApprovalStep ==
  /\ \/ \E id \in ApprovalIds, principal \in Principals, decision \in A!Decisions :
          A!BeginReview(id, principal, decision)
     \/ \E call \in approvalCalls :
          A!AcceptReview(call) \/ A!RejectReview(call) \/ A!RecordAudit(call)
     \/ A!ExpireStale
  /\ UNCHANGED <<grantVars, credentials, rules, calls, accessAudit>>

\* Operators review and revoke grants, and the maintenance loop sweeps them.
GrantStep ==
  /\ \/ \E id \in GrantIds, principal \in Principals,
           action \in B!Verdicts \cup {"revoke"} : B!Begin(id, principal, action)
     \/ \E call \in grantCalls :
          B!AcceptReview(call) \/ B!Revoke(call) \/ B!Reject(call) \/ B!RecordAudit(call)
     \/ B!ExpireStale
  /\ UNCHANGED <<approvalVars, credentials, rules, calls, accessAudit>>

\* The process exits, and every handler with it.
Crash ==
  /\ approvalCalls' = {}
  /\ grantCalls' = {}
  /\ calls' = [c \in CallIds |->
                 IF calls[c].pc \in {"idle", "done"} THEN calls[c]
                 ELSE Finished(calls[c], "error")]
  /\ UNCHANGED <<approvals, approvalAudit, grants, grantAudit, clock, credentials,
                 rules, accessAudit>>

Tick ==
  /\ clock < MaxClock
  /\ clock' = clock + 1
  /\ UNCHANGED <<approvalVars, grantVars, credentials, rules, calls, accessAudit>>

Step(c) ==
  \/ EvaluateRules(c) \/ Block(c) \/ RecordDecision(c)
  \/ SweepGrants(c) \/ CheckGrant(c) \/ NoteGrant(c)
  \/ SweepApprovals(c) \/ CheckApproval(c)
  \/ \E id \in ApprovalIds, quorum \in ApprovalQuorums : CreatePending(c, id, quorum)
  \/ Send(c) \/ Answered(c) \/ RecordUse(c)
  \/ \E id \in GrantIds, quorum \in GrantQuorums, requested \in Durations :
       RequestGrant(c, id, quorum, requested)
  \/ Fail(c)

Next ==
  \/ \E c \in CallIds, input \in Inputs : Receive(c, input)
  \/ \E c \in CallIds : Step(c)
  \/ \E id \in CredentialIds, credential \in CredentialStates :
       CreateCredential(id, credential) \/ UpdateCredential(id, credential)
  \/ \E id \in CredentialIds : DeleteCredential(id)
  \/ \E policies \in RuleSets : ReplaceRules(policies)
  \/ ApprovalStep
  \/ GrantStep
  \/ Crash
  \/ Tick

Spec == Init /\ [][Next]_vars

-----------------------------------------------------------------------------
(* Properties *)

\* A row that a quorum of different principals approved and nobody refused,
\* raised by this caller for this very request.
Backs(row, call, approvers) ==
  /\ row.fingerprint = Fingerprint(call.input)
  /\ row.requiredApprovals > 0
  /\ Cardinality(approvers) >= row.requiredApprovals
  /\ \A review \in row.reviews : review.decision = "approved"

\* The secret leaves only for a call that something allows: the policies as
\* they were read, or an approval or a grant that a quorum of different
\* people gave to this caller for this request.
UseIsAuthorized ==
  \A c \in CallIds :
    LET call == calls[c] IN
    call.sent =>
      \/ call.via = "policy" /\ call.effect = "allow"
      \/ /\ call.via = "approval" /\ call.effect = "approval"
         /\ Backs(approvals[call.input.approvalId], call,
                  A!Approvers(approvals[call.input.approvalId]))
      \/ /\ call.via = "grant"
         /\ Backs(grants[call.input.grantId], call,
                  B!Approvers(grants[call.input.grantId]))

\* What has ended authorises no later call: a call does not use an approval
\* or a grant that was refused, revoked or past its expiry when it arrived,
\* even if no sweep has marked it.  (A call that arrived before may.)
NoUseOfEndedAuthority ==
  \A c \in CallIds :
    /\ calls[c].via = "approval" => calls[c].input.approvalId \notin calls[c].over
    /\ calls[c].via = "grant" => calls[c].input.grantId \notin calls[c].over

\* docs/threat-model.md: break-glass requests are "audited when used"; and
\* docs/architecture.md: authorization is written to the audit log.  The
\* decision and the use of a grant are on record before the secret leaves,
\* and the use of a credential only after.
AuditAroundUse ==
  /\ \A c \in CallIds :
       calls[c].sent =>
         /\ [type |-> "authz.decision", call |-> c] \in accessAudit
         /\ calls[c].via = "grant" =>
              [type |-> "breakglass.use", id |-> calls[c].input.grantId,
               principal |-> calls[c].input.by] \in accessAudit
  /\ \A c \in CallIds :
       [type |-> "credential.use", call |-> c] \in accessAudit => calls[c].sent

\* docs/configuration.md: "Tenant-scoped callers are restricted to that
\* tenant."  The secret they get, and the approval or grant they get it
\* with, belong to their tenant, though all of it was read at other times.
TenantScopedCalls ==
  \A c \in CallIds :
    LET call == calls[c] IN
    call.sent /\ TenantOf[call.input.by] # NoTenant =>
      /\ call.seen.tenant = TenantOf[call.input.by]
      /\ call.via = "approval" =>
           approvals[call.input.approvalId].tenantId = TenantOf[call.input.by]
      /\ call.via = "grant" =>
           grants[call.input.grantId].tenantId = TenantOf[call.input.by]

\* The broker uses the two services as their own modules assume, so what is
\* proved of each of them alone holds in the composition.
UsesApprovals == A!Spec
UsesBreakGlass == B!Spec

=============================================================================
