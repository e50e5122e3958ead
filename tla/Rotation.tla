------------------------------ MODULE Rotation ------------------------------
(***************************************************************************)
(* The rotation workflow of KeyLore: RotationService over the tables       *)
(* rotation_runs and credentials, beside the edits of the catalogue that   *)
(* BrokerService makes.  A call is a sequence of statements, one action    *)
(* each; only the transition of a run is a transaction with a guard, and   *)
(* the update of a credential reads the row and then writes all of it.     *)
(*                                                                         *)
(* Due dates are abstracted to the answer of the inspection, and of what a *)
(* completion writes only the reference of the binding is kept.            *)
(***************************************************************************)
EXTENDS Naturals, FiniteSets

CONSTANTS
  RunIds, CredentialIds, Principals, Tenants, NoTenant,
  TenantOf,          \* [Principals -> Tenants \cup {NoTenant}]: context.tenantId
  CredentialTenant,  \* [CredentialIds -> Tenants]; no update changes it
  Refs,              \* what a binding may refer to in the secret store
  InitialRefs,       \* the references credentials are created with
  NoRef, NoRun, NoCredential, NoRow, NoInput,
  CallIds,           \* slots for calls in progress
  Inputs             \* the calls that may arrive

CredentialStatuses == {"active", "disabled"}
RunStatuses == {"unused", "pending", "in_progress", "completed", "failed", "removed"}
OpenStatuses == {"pending", "in_progress"}
Transitions == {"start", "complete", "fail"}
Kinds == {"create", "plan", "edit"} \cup Transitions

\* The fields of a patch that are absent keep what the row has.
Patch == [ref : Refs \cup {NoRef}, status : CredentialStatuses \cup {"kept"}]
NoPatch == [ref |-> NoRef, status |-> "kept"]

Input ==
  [kind : Kinds, by : Principals, run : RunIds \cup {NoRun},
   credential : CredentialIds \cup {NoCredential}, patch : Patch]

ASSUME RotationAssumption ==
  /\ NoTenant \notin Tenants
  /\ TenantOf \in [Principals -> Tenants \cup {NoTenant}]
  /\ CredentialTenant \in [CredentialIds -> Tenants]
  /\ InitialRefs \subseteq Refs
  /\ NoRef \notin Refs /\ NoRun \notin RunIds /\ NoCredential \notin CredentialIds
  /\ NoRow \notin [status : CredentialStatuses, ref : Refs, had : SUBSET Refs]
  /\ Inputs \subseteq Input /\ NoInput \notin Input
  /\ \A input \in Inputs :
       /\ input.kind \in Transitions => input.run \in RunIds
       /\ input.kind \in {"create", "edit"} => input.credential \in CredentialIds
       /\ input.kind \notin {"complete", "edit"} => input.patch = NoPatch

VARIABLES
  credentials,  \* the table credentials
  runs,         \* the table rotation_runs
  audit,        \* the rotation.* events of audit_events
  calls

vars == <<credentials, runs, audit, calls>>

-----------------------------------------------------------------------------
(* Types *)

\* had (history): every reference the credential has had.
CredentialRow == [status : CredentialStatuses, ref : Refs, had : SUBSET Refs]

\* unused: not inserted yet; removed: deleted together with its credential.
Run ==
  [status : RunStatuses, credential : CredentialIds \cup {NoCredential},
   targetRef : Refs \cup {NoRef}]

Event == [action : {"create"} \cup Transitions, run : RunIds]

Pcs ==
  {"idle", "findOpen", "inspect", "insert", "readCredential",
   "updateRead", "updateWrite", "transition", "audit"}

CallRecord ==
  [pc : Pcs, input : Inputs \cup {NoInput},
   todo : SUBSET CredentialIds,                \* planDue: credentials to come
   at : CredentialIds \cup {NoCredential},     \* the credential in hand
   seen : CredentialRow \cup {NoRow},          \* its row as update read it
   patch : Patch,                              \* what update is to change
   run : RunIds \cup {NoRun}]                  \* the run that was written

TypeOK ==
  /\ credentials \in [CredentialIds -> CredentialRow \cup {NoRow}]
  /\ runs \in [RunIds -> Run]
  /\ audit \subseteq Event
  /\ calls \in [CallIds -> CallRecord]

-----------------------------------------------------------------------------
(* Helpers *)

Idle ==
  [pc |-> "idle", input |-> NoInput, todo |-> {}, at |-> NoCredential,
   seen |-> NoRow, patch |-> NoPatch, run |-> NoRun]

UnusedRun ==
  [status |-> "unused", credential |-> NoCredential, targetRef |-> NoRef]

TenantAllowed(principal, tenant) == TenantOf[principal] \in {NoTenant, tenant}

MayUse(principal, credential) == TenantAllowed(principal, CredentialTenant[credential])

Exists(credential) == credentials[credential] # NoRow

OpenRuns(credential) ==
  {id \in RunIds : runs[id].credential = credential /\ runs[id].status \in OpenStatuses}

\* The call stops at its credential and goes on with those it has left.
Advance(call) ==
  IF call.todo \ {call.at} = {} THEN Idle
  ELSE [call EXCEPT !.pc = "findOpen", !.todo = @ \ {call.at}, !.at = NoCredential,
                    !.run = NoRun]

Goes(c, call) == calls' = [calls EXCEPT ![c] = call]

Starts(c, input, pc) == [Idle EXCEPT !.pc = pc, !.input = input]

-----------------------------------------------------------------------------
(* Creating and planning runs *)

\* createManual reads the credential.
ReadForCreate(c, input) ==
  /\ calls[c].pc = "idle" /\ input.kind = "create"
  /\ Exists(input.credential)
  /\ MayUse(input.by, input.credential)
  /\ Goes(c, [Starts(c, input, "findOpen") EXCEPT !.todo = {input.credential}])
  /\ UNCHANGED <<credentials, runs, audit>>

\* planDue lists the credentials once and works through that list.
ListForPlan(c, input) ==
  LET due == {k \in CredentialIds :
                /\ Exists(k)
                /\ credentials[k].status = "active"
                /\ MayUse(input.by, k)}
  IN
  /\ calls[c].pc = "idle" /\ input.kind = "plan"
  /\ due # {}
  /\ Goes(c, [Starts(c, input, "findOpen") EXCEPT !.todo = due])
  /\ UNCHANGED <<credentials, runs, audit>>

\* findOpenByCredentialId: an open run makes createManual fail and planDue
\* go on with the next credential.
FindOpen(c, k) ==
  LET call == [calls[c] EXCEPT !.at = k]
      plans == call.input.kind = "plan"
  IN
  /\ calls[c].pc = "findOpen"
  /\ k \in calls[c].todo
  /\ Goes(c, IF OpenRuns(k) # {}
             THEN IF plans THEN Advance(call) ELSE Idle
             ELSE [call EXCEPT !.pc = IF plans THEN "inspect" ELSE "insert"])
  /\ UNCHANGED <<credentials, runs, audit>>

\* The secret adapter and the catalogue say whether the credential is due.
Inspect(c, due) ==
  /\ calls[c].pc = "inspect"
  /\ Goes(c, IF due THEN [calls[c] EXCEPT !.pc = "insert"] ELSE Advance(calls[c]))
  /\ UNCHANGED <<credentials, runs, audit>>

\* What the database accepts: the foreign key needs the credential, and the
\* unique index over open runs admits one of them per credential.
InsertableAlways(k) == Exists(k)

Insertable(k) == Exists(k) /\ OpenRuns(k) = {}

InsertRun(c, id) ==
  LET call == calls[c] IN
  /\ call.pc = "insert"
  /\ runs[id].status = "unused"
  /\ Insertable(call.at)
  /\ runs' = [runs EXCEPT
                ![id] = [UnusedRun EXCEPT !.status = "pending", !.credential = call.at]]
  /\ Goes(c, [call EXCEPT !.pc = "audit", !.run = id])
  /\ UNCHANGED <<credentials, audit>>

\* The insertion throws, and a plan is abandoned with what it had left.
InsertRefused(c) ==
  /\ calls[c].pc = "insert"
  /\ ~Insertable(calls[c].at)
  /\ Goes(c, Idle)
  /\ UNCHANGED <<credentials, runs, audit>>

-----------------------------------------------------------------------------
(* Working on a run *)

RunExists(id) == runs[id].status \notin {"unused", "removed"}

\* start, complete and fail read the run for its tenant, whatever its status.
ReadRun(c, input) ==
  /\ calls[c].pc = "idle" /\ input.kind \in Transitions
  /\ RunExists(input.run)
  /\ MayUse(input.by, runs[input.run].credential)
  /\ Goes(c, [Starts(c, input, IF input.kind = "complete"
                               THEN "readCredential" ELSE "transition")
                EXCEPT !.at = runs[input.run].credential])
  /\ UNCHANGED <<credentials, runs, audit>>

CompleteWithoutUpdate(c) ==
  /\ calls[c].pc = "readCredential"
  /\ Goes(c, IF Exists(calls[c].at) THEN [calls[c] EXCEPT !.pc = "transition"] ELSE Idle)
  /\ UNCHANGED <<credentials, runs, audit>>

\* complete: the new reference is part of the patch unless the credential
\* already has it.
ReadCredential(c) ==
  LET call == calls[c]
      target == call.input.patch.ref
  IN
  /\ call.pc = "readCredential"
  /\ Goes(c, IF ~Exists(call.at) THEN Idle
             ELSE [call EXCEPT !.pc = "updateRead",
                               !.patch.ref = IF credentials[call.at].ref = target
                                             THEN NoRef ELSE target])
  /\ UNCHANGED <<credentials, runs, audit>>

UnguardedFrom(kind) == RunStatuses \ {"unused", "removed"}

From(kind) == IF kind = "start" THEN {"pending"} ELSE OpenStatuses

To(kind) ==
  CASE kind = "start" -> "in_progress"
    [] kind = "complete" -> "completed"
    [] kind = "fail" -> "failed"

Moved(run, kind, target) ==
  LET ref == IF target = NoRef THEN run.targetRef ELSE target IN
  [run EXCEPT !.status = To(kind), !.targetRef = ref]

\* transition: one transaction with the row locked.  A run that is not where
\* the call expects it is left alone.
Transition(c) ==
  LET call == calls[c]
      id == call.input.run
  IN
  /\ call.pc = "transition"
  /\ runs[id].status \in From(call.input.kind)
  /\ runs' = [runs EXCEPT
                ![id] = Moved(runs[id], call.input.kind, call.input.patch.ref)]
  /\ Goes(c, [call EXCEPT !.pc = "audit", !.run = id])
  /\ UNCHANGED <<credentials, audit>>

RefusedButAudited(c) ==
  /\ calls[c].pc = "transition"
  /\ runs[calls[c].input.run].status \notin From(calls[c].input.kind)
  /\ Goes(c, [calls[c] EXCEPT !.pc = "audit", !.run = calls[c].input.run])
  /\ UNCHANGED <<credentials, runs, audit>>

TransitionRefused(c) ==
  /\ calls[c].pc = "transition"
  /\ runs[calls[c].input.run].status \notin From(calls[c].input.kind)
  /\ Goes(c, Idle)
  /\ UNCHANGED <<credentials, runs, audit>>

Action(kind) == IF kind = "plan" THEN "create" ELSE kind

Record(c) ==
  LET call == calls[c] IN
  /\ call.pc = "audit"
  /\ audit' = audit \cup {[action |-> Action(call.input.kind), run |-> call.run]}
  /\ Goes(c, IF call.input.kind = "plan" THEN Advance(call) ELSE Idle)
  /\ UNCHANGED <<credentials, runs>>

-----------------------------------------------------------------------------
(* The catalogue *)

\* BrokerService.updateCredential reads the row for its tenant.
ReadForEdit(c, input) ==
  /\ calls[c].pc = "idle" /\ input.kind = "edit"
  /\ Exists(input.credential)
  /\ MayUse(input.by, input.credential)
  /\ Goes(c, [Starts(c, input, "updateRead") EXCEPT !.at = input.credential,
                                                    !.patch = input.patch])
  /\ UNCHANGED <<credentials, runs, audit>>

\* PgCredentialRepository.update reads the row again, without a lock,
UpdateRead(c) ==
  LET call == calls[c] IN
  /\ call.pc = "updateRead"
  /\ Goes(c, IF Exists(call.at)
             THEN [call EXCEPT !.pc = "updateWrite", !.seen = credentials[call.at]]
             ELSE Idle)
  /\ UNCHANGED <<credentials, runs, audit>>

\* merges the patch, and writes every column.
Merged(row, patch) ==
  LET ref == IF patch.ref = NoRef THEN row.ref ELSE patch.ref IN
  [status |-> IF patch.status = "kept" THEN row.status ELSE patch.status,
   ref |-> ref, had |-> row.had \cup {ref}]

Written(current, seen, patch) ==
  [Merged(seen, patch) EXCEPT !.had = @ \cup current.had]

UpdateWrite(c) ==
  LET call == calls[c]
      row == Written(credentials[call.at], call.seen, call.patch)
  IN
  /\ call.pc = "updateWrite"
  /\ credentials' = IF Exists(call.at) THEN [credentials EXCEPT ![call.at] = row]
                    ELSE credentials
  /\ Goes(c, IF call.input.kind = "complete"
             THEN [call EXCEPT !.pc = "transition"] ELSE Idle)
  /\ UNCHANGED <<runs, audit>>

CreateCredential(k, ref) ==
  /\ ~Exists(k)
  /\ credentials' = [credentials EXCEPT
                       ![k] = [status |-> "active", ref |-> ref, had |-> {ref}]]
  /\ UNCHANGED <<runs, audit, calls>>

\* The foreign key takes the runs of the credential with it.
DeleteCredential(k) ==
  /\ Exists(k)
  /\ credentials' = [credentials EXCEPT ![k] = NoRow]
  /\ runs' = [id \in RunIds |->
                IF runs[id].credential = k THEN [runs[id] EXCEPT !.status = "removed"]
                ELSE runs[id]]
  /\ UNCHANGED <<audit, calls>>

\* A statement fails, or the process stops: what was written stays.
Fail(c) ==
  /\ calls[c].pc # "idle"
  /\ Goes(c, Idle)
  /\ UNCHANGED <<credentials, runs, audit>>

Init ==
  /\ credentials = [k \in CredentialIds |-> NoRow]
  /\ runs = [id \in RunIds |-> UnusedRun]
  /\ audit = {}
  /\ calls = [c \in CallIds |-> Idle]

Step(c) ==
  \/ \E input \in Inputs :
       \/ ReadForCreate(c, input) \/ ListForPlan(c, input)
       \/ ReadRun(c, input) \/ ReadForEdit(c, input)
  \/ \E k \in CredentialIds : FindOpen(c, k)
  \/ \E due \in BOOLEAN : Inspect(c, due)
  \/ \E id \in RunIds : InsertRun(c, id)
  \/ InsertRefused(c)
  \/ ReadCredential(c) \/ UpdateRead(c) \/ UpdateWrite(c)
  \/ Transition(c) \/ TransitionRefused(c) \/ Record(c)
  \/ Fail(c)

Next ==
  \/ \E c \in CallIds : Step(c)
  \/ \E k \in CredentialIds :
       DeleteCredential(k) \/ \E ref \in InitialRefs : CreateCredential(k, ref)

Spec == Init /\ [][Next]_vars

-----------------------------------------------------------------------------
(* Properties *)

\* "An open rotation already exists for this credential": however many calls
\* create and plan at once, a credential never has two open runs.
OneOpenRun ==
  \A k \in CredentialIds : \A one, other \in OpenRuns(k) : one = other

\* A completed run with a target was applied: the credential has had the
\* reference the run names, also when the process stopped half-way or another
\* edit overwrote the row since.
CompletedMeansApplied ==
  \A id \in RunIds :
    runs[id].status = "completed" /\ runs[id].targetRef # NoRef =>
      /\ Exists(runs[id].credential)
      /\ runs[id].targetRef \in credentials[runs[id].credential].had

\* The statuses a run may have after an event about it.
Outcomes(action) ==
  CASE action = "create" -> RunStatuses \ {"unused"}
    [] action = "start" -> RunStatuses \ {"unused", "pending"}
    [] action = "complete" -> {"completed", "removed"}
    [] action = "fail" -> {"failed", "removed"}

\* What the log says of a run is what became of it, whichever of the racing
\* start, complete and fail calls came first.
AuditMatchesOutcome ==
  \A event \in audit : runs[event.run].status \in Outcomes(event.action)

\* A run that is completed or failed stays as it is for as long as its
\* credential exists.
ClosedRunsStay ==
  [][\A id \in RunIds :
       runs[id].status \in {"completed", "failed"} =>
         runs'[id] = runs[id] \/ runs'[id].status = "removed"]_vars

=============================================================================
