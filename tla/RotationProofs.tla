--------------------------- MODULE RotationProofs ---------------------------
(***************************************************************************)
(* Theorems about Rotation, for any number of runs, credentials and calls. *)
(*                                                                         *)
(* The invariants are proved together as IInv.  What makes them inductive  *)
(* is what a suspended call still knows about the tables: that its run was *)
(* inserted and belongs to the credential it holds (Tied), that the target *)
(* of a completion is either still to be written or has been (Applying),   *)
(* and that a run never outlives its credential (ForeignKeys).             *)
(***************************************************************************)
EXTENDS Rotation, TLAPS

\* What the position of a call says of its other fields.
Shape(call) ==
  /\ call.pc # "idle" => call.input \in Inputs
  /\ call.pc \in {"findOpen", "inspect", "insert"} => call.input.kind \in {"create", "plan"}
  /\ call.pc \in {"inspect", "insert", "readCredential", "updateRead", "updateWrite"}
       => call.at \in CredentialIds
  /\ call.pc = "readCredential" => call.input.kind = "complete"
  /\ call.pc \in {"updateRead", "updateWrite"} => call.input.kind \in {"edit", "complete"}
  /\ call.pc = "updateWrite" => call.seen \in CredentialRow
  /\ call.pc = "transition" => call.input.kind \in Transitions
  /\ call.pc = "audit" => call.input.kind # "edit" /\ call.run \in RunIds

CallsOK == \A c \in CallIds : Shape(calls[c])

\* A call on a run holds the credential of that run.
Tied(call) ==
  call.pc # "idle" /\ call.input.kind \in Transitions =>
    /\ runs[call.input.run].status # "unused"
    /\ call.at = runs[call.input.run].credential

\* The target of a completion is in the patch or in the credential.
Applying(call) ==
  /\ call.pc \in {"updateRead", "updateWrite", "transition"}
  /\ call.input.kind = "complete"
  /\ call.input.patch.ref # NoRef
  /\ RunExists(call.input.run)
  => \/ call.pc # "transition" /\ call.patch.ref = call.input.patch.ref
     \/ call.input.patch.ref \in credentials[call.at].had

\* The event a call is about to record is true.
Truthful(call) ==
  call.pc = "audit" => runs[call.run].status \in Outcomes(Action(call.input.kind))

CallsTied == \A c \in CallIds : Tied(calls[c])
CallsApplying == \A c \in CallIds : Applying(calls[c])
CallsTruthful == \A c \in CallIds : Truthful(calls[c])

\* The rows the foreign key of rotation_runs admits.
ForeignKeys == \A id \in RunIds : RunExists(id) => Exists(runs[id].credential)

RunsOfCredentials ==
  \A id \in RunIds : RunExists(id) => runs[id].credential \in CredentialIds

Typed == TypeOK /\ CallsOK /\ RunsOfCredentials

\* A credential has had the reference it has.
Histories ==
  \A k \in CredentialIds : Exists(k) => credentials[k].ref \in credentials[k].had

\* The target a run names has been that of its credential.
TargetsApplied ==
  \A id \in RunIds : RunExists(id) /\ runs[id].targetRef # NoRef =>
    runs[id].targetRef \in credentials[runs[id].credential].had

IInv ==
  /\ Typed /\ ForeignKeys /\ OneOpenRun /\ Histories /\ TargetsApplied
  /\ AuditMatchesOutcome /\ CallsTied /\ CallsApplying /\ CallsTruthful

-----------------------------------------------------------------------------
(* The operators *)

\* The idle call is one, and carries nothing.
LEMMA IdleCall == Idle \in CallRecord /\ Shape(Idle) /\ Idle.pc = "idle"
BY RotationAssumption DEF Idle, CallRecord, Pcs, NoPatch, Patch, Shape

\* An input is what Input says.
LEMMA InputFields ==
  ASSUME NEW input \in Inputs
  PROVE  /\ input.kind \in Kinds /\ input.by \in Principals
         /\ input.run \in RunIds \cup {NoRun}
         /\ input.credential \in CredentialIds \cup {NoCredential}
         /\ input.patch \in Patch
BY RotationAssumption DEF Input

\* Advancing a call with a credential in hand leaves it idle or at the next.
LEMMA Advancing ==
  ASSUME NEW call \in CallRecord, call.input \in Inputs,
         call.input.kind \in {"create", "plan"}
  PROVE  /\ Advance(call) \in CallRecord /\ Shape(Advance(call))
         /\ Advance(call).pc \in {"idle", "findOpen"}
         /\ Advance(call).pc = "findOpen" => Advance(call).input = call.input
<1>1. CASE call.todo \ {call.at} = {}
  BY <1>1, IdleCall DEF Advance
<1>2. CASE call.todo \ {call.at} # {}
  <2> DEFINE next == [call EXCEPT !.pc = "findOpen", !.todo = @ \ {call.at},
                                  !.at = NoCredential, !.run = NoRun]
  <2>1. next \in CallRecord
    BY DEF CallRecord, Pcs
  <2>2. next.pc = "findOpen" /\ next.input = call.input
    BY DEF CallRecord
  <2>3. Shape(next)
    BY <2>2 DEF Shape
  <2> QED BY <1>2, <2>1, <2>2, <2>3 DEF Advance
<1> QED BY <1>1, <1>2

\* A transition moves the status, and the target if there is one.
LEMMA MovedRun ==
  ASSUME NEW run \in Run, NEW kind \in Transitions, NEW target \in Refs \cup {NoRef}
  PROVE  /\ Moved(run, kind, target) \in Run
         /\ Moved(run, kind, target).status = To(kind)
         /\ Moved(run, kind, target).credential = run.credential
         /\ Moved(run, kind, target).targetRef
              = IF target = NoRef THEN run.targetRef ELSE target
<1> DEFINE ref == IF target = NoRef THEN run.targetRef ELSE target
           status == To(kind)
           row == [run EXCEPT !.status = status, !.targetRef = ref]
<1>1. status \in RunStatuses
  BY DEF To, Transitions, RunStatuses
<1>2. ref \in Refs \cup {NoRef}
  BY DEF Run
<1>3. Moved(run, kind, target) = row
  BY DEF Moved
<1> HIDE DEF status, ref
<1>4. row \in Run /\ row.status = status /\ row.credential = run.credential /\ row.targetRef = ref
  BY <1>1, <1>2 DEF Run
<1> HIDE DEF row
<1>5. /\ Moved(run, kind, target) \in Run
      /\ Moved(run, kind, target).status = status
      /\ Moved(run, kind, target).credential = run.credential
      /\ Moved(run, kind, target).targetRef = ref
  BY <1>3, <1>4
<1> QED BY <1>5 DEF status, ref

\* A written row is typed, keeps what the credential has had, and has had the
\* reference of the patch.
LEMMA WrittenRow ==
  ASSUME NEW current \in CredentialRow, NEW seen \in CredentialRow, NEW patch \in Patch
  PROVE  /\ Written(current, seen, patch) \in CredentialRow
         /\ current.had \subseteq Written(current, seen, patch).had
         /\ patch.ref # NoRef => patch.ref \in Written(current, seen, patch).had
         /\ Written(current, seen, patch).ref \in Written(current, seen, patch).had
<1>1. Merged(seen, patch) \in CredentialRow
  BY DEF Merged, CredentialRow, Patch
<1>2. /\ patch.ref # NoRef => patch.ref \in Merged(seen, patch).had
      /\ Merged(seen, patch).ref \in Merged(seen, patch).had
  BY DEF Merged
<1> QED BY <1>1, <1>2 DEF Written, CredentialRow

-----------------------------------------------------------------------------
(* Types *)

TablesOK ==
  /\ credentials \in [CredentialIds -> CredentialRow \cup {NoRow}]
  /\ runs \in [RunIds -> Run]
  /\ audit \subseteq Event
  /\ RunsOfCredentials

\* What Typed gives of the tables and of each call.
LEMMA TypedParts ==
  ASSUME Typed
  PROVE  /\ TablesOK
         /\ calls \in [CallIds -> CallRecord]
         /\ \A c \in CallIds : calls[c] \in CallRecord /\ Shape(calls[c])
BY DEF Typed, TypeOK, TablesOK, CallsOK

\* A step that gives one call a well-formed value leaves the others as they were.
LEMMA OneCallMoves ==
  ASSUME Typed, NEW c \in CallIds, NEW call \in CallRecord, Shape(call),
         Goes(c, call), TablesOK'
  PROVE  Typed'
<1>1. calls' \in [CallIds -> CallRecord]
  BY TypedParts DEF Goes
<1>2. ASSUME NEW other \in CallIds PROVE Shape(calls'[other])
  <2>1. calls'[other] = IF other = c THEN call ELSE calls[other]
    BY TypedParts DEF Goes
  <2> QED BY <2>1, TypedParts
<1>3. CallsOK'
  BY <1>2 DEF CallsOK, Shape
<1> QED BY <1>1, <1>3 DEF Typed, TypeOK, TablesOK

\* Tables that do not change stay typed.
LEMMA SameTables ==
  ASSUME Typed, UNCHANGED <<credentials, runs, audit>>
  PROVE  TablesOK'
BY TypedParts DEF TablesOK, RunsOfCredentials, RunExists

\* Types and the shape of calls are kept by every step of a call.
LEMMA TypedCallStep ==
  ASSUME Typed, NEW c \in CallIds, Step(c)
  PROVE  Typed'
<1>0. calls[c] \in CallRecord /\ Shape(calls[c]) /\ TablesOK
  BY TypedParts
<1>1. ASSUME NEW input \in Inputs, ReadForCreate(c, input) PROVE Typed'
  <2> DEFINE next == [Starts(c, input, "findOpen") EXCEPT !.todo = {input.credential}]
  <2>1. input.credential \in CredentialIds
    BY <1>1, RotationAssumption DEF ReadForCreate
  <2>2. next \in CallRecord /\ next.pc = "findOpen" /\ next.input = input
    BY <2>1, RotationAssumption DEF Starts, Idle, CallRecord, Pcs, NoPatch, Patch
  <2>3. Shape(next)
    BY <1>1, <2>2 DEF Shape, ReadForCreate
  <2> QED BY <1>1, <2>2, <2>3, SameTables, OneCallMoves DEF ReadForCreate
<1>2. ASSUME NEW input \in Inputs, ListForPlan(c, input) PROVE Typed'
  <2>1. PICK due \in SUBSET CredentialIds :
          Goes(c, [Starts(c, input, "findOpen") EXCEPT !.todo = due])
    BY <1>2 DEF ListForPlan
  <2> DEFINE next == [Starts(c, input, "findOpen") EXCEPT !.todo = due]
  <2>2. next \in CallRecord /\ next.pc = "findOpen" /\ next.input = input
    BY RotationAssumption DEF Starts, Idle, CallRecord, Pcs, NoPatch, Patch
  <2>3. Shape(next)
    BY <1>2, <2>2 DEF Shape, ListForPlan
  <2> QED BY <1>2, <2>1, <2>2, <2>3, SameTables, OneCallMoves DEF ListForPlan
<1>3. ASSUME NEW input \in Inputs, ReadRun(c, input) PROVE Typed'
  <2> DEFINE pc == IF input.kind = "complete" THEN "readCredential" ELSE "transition"
             next == [Starts(c, input, pc) EXCEPT !.at = runs[input.run].credential]
  <2>1. input.run \in RunIds /\ runs[input.run].credential \in CredentialIds
    BY <1>0, <1>3, RotationAssumption DEF ReadRun, TablesOK, RunsOfCredentials
  <2>2. /\ next \in CallRecord /\ next.pc = pc /\ next.input = input
        /\ next.at \in CredentialIds
    BY <2>1, RotationAssumption DEF Starts, Idle, CallRecord, Pcs, NoPatch, Patch
  <2>3. Shape(next)
    BY <1>3, <2>2 DEF Shape, ReadRun
  <2> QED BY <1>3, <2>2, <2>3, SameTables, OneCallMoves DEF ReadRun
<1>4. ASSUME NEW input \in Inputs, ReadForEdit(c, input) PROVE Typed'
  <2> DEFINE next == [Starts(c, input, "updateRead")
                        EXCEPT !.at = input.credential, !.patch = input.patch]
  <2>1. input.credential \in CredentialIds /\ input.patch \in Patch
    BY <1>4, InputFields, RotationAssumption DEF ReadForEdit
  <2>2. /\ next \in CallRecord /\ next.pc = "updateRead" /\ next.input = input
        /\ next.at \in CredentialIds
    BY <2>1, RotationAssumption DEF Starts, Idle, CallRecord, Pcs, NoPatch, Patch
  <2>3. Shape(next)
    BY <1>4, <2>2 DEF Shape, ReadForEdit
  <2> QED BY <1>4, <2>2, <2>3, SameTables, OneCallMoves DEF ReadForEdit
<1>5. ASSUME NEW k \in CredentialIds, FindOpen(c, k) PROVE Typed'
  <2> DEFINE call == [calls[c] EXCEPT !.at = k]
             plans == call.input.kind = "plan"
             going == [call EXCEPT !.pc = IF plans THEN "inspect" ELSE "insert"]
  <2>1. /\ calls[c].input \in Inputs /\ calls[c].input.kind \in {"create", "plan"}
        /\ call \in CallRecord /\ call.input = calls[c].input /\ call.at = k
    BY <1>0, <1>5 DEF FindOpen, Shape, CallRecord
  <2>2. /\ going \in CallRecord /\ going.pc \in {"inspect", "insert"}
        /\ going.input = calls[c].input /\ going.at = k
    BY <2>1 DEF CallRecord, Pcs
  <2>3. Shape(going)
    BY <2>1, <2>2 DEF Shape
  <2>4. Advance(call) \in CallRecord /\ Shape(Advance(call))
    BY <2>1, Advancing
  <2>5. PICK next \in {Advance(call), Idle, going} : Goes(c, next)
    BY <1>5 DEF FindOpen
  <2> QED BY <1>5, <2>2, <2>3, <2>4, <2>5, IdleCall, SameTables, OneCallMoves DEF FindOpen
<1>6. ASSUME NEW due \in BOOLEAN, Inspect(c, due) PROVE Typed'
  <2> DEFINE going == [calls[c] EXCEPT !.pc = "insert"]
  <2>1. calls[c].input \in Inputs /\ calls[c].input.kind \in {"create", "plan"}
        /\ calls[c].at \in CredentialIds
    BY <1>0, <1>6 DEF Inspect, Shape
  <2>2. /\ going \in CallRecord /\ going.pc = "insert"
        /\ going.input = calls[c].input /\ going.at = calls[c].at
    BY <1>0 DEF CallRecord, Pcs
  <2>3. Shape(going)
    BY <2>1, <2>2 DEF Shape
  <2>4. Advance(calls[c]) \in CallRecord /\ Shape(Advance(calls[c]))
    BY <1>0, <2>1, Advancing
  <2>5. PICK next \in {Advance(calls[c]), going} : Goes(c, next)
    BY <1>6 DEF Inspect
  <2> QED BY <1>6, <2>2, <2>3, <2>4, <2>5, SameTables, OneCallMoves DEF Inspect
<1>7. ASSUME NEW id \in RunIds, InsertRun(c, id) PROVE Typed'
  <2> DEFINE next == [calls[c] EXCEPT !.pc = "audit", !.run = id]
  <2>1. calls[c].input \in Inputs /\ calls[c].input.kind \in {"create", "plan"}
        /\ calls[c].at \in CredentialIds
    BY <1>0, <1>7 DEF InsertRun, Shape
  <2>2. /\ next \in CallRecord /\ next.pc = "audit" /\ next.run = id
        /\ next.input = calls[c].input
    BY <1>0 DEF CallRecord, Pcs
  <2>3. Shape(next)
    BY <2>1, <2>2 DEF Shape
  <2>4. [UnusedRun EXCEPT !.status = "pending", !.credential = calls[c].at] \in Run
    BY <2>1 DEF UnusedRun, Run, RunStatuses
  <2>5. TablesOK'
    <3>1. runs' \in [RunIds -> Run]
      BY <1>0, <1>7, <2>4 DEF InsertRun, TablesOK
    <3>2. RunsOfCredentials'
      BY <1>0, <1>7, <2>1 DEF InsertRun, TablesOK, RunsOfCredentials, RunExists, UnusedRun
    <3> QED BY <1>0, <1>7, <3>1, <3>2 DEF InsertRun, TablesOK
  <2> QED BY <1>7, <2>2, <2>3, <2>5, OneCallMoves DEF InsertRun
<1>8. CASE InsertRefused(c)
  BY <1>8, IdleCall, SameTables, OneCallMoves DEF InsertRefused
<1>9. CASE ReadCredential(c)
  <2> DEFINE target == calls[c].input.patch.ref
             going == [calls[c] EXCEPT !.pc = "updateRead",
                                       !.patch.ref = IF credentials[calls[c].at].ref = target
                                                     THEN NoRef ELSE target]
  <2>1. calls[c].input \in Inputs /\ calls[c].input.kind = "complete"
        /\ calls[c].at \in CredentialIds
    BY <1>0, <1>9 DEF ReadCredential, Shape
  <2>2. target \in Refs \cup {NoRef}
    BY <2>1, InputFields DEF Patch
  <2>3. [calls[c].patch EXCEPT !.ref = IF credentials[calls[c].at].ref = target
                                       THEN NoRef ELSE target] \in Patch
    BY <1>0, <2>2 DEF CallRecord, Patch
  <2>4. going \in CallRecord /\ going.pc = "updateRead" /\ going.input = calls[c].input
        /\ going.at = calls[c].at
    BY <1>0, <2>3 DEF CallRecord, Pcs
  <2>5. Shape(going)
    BY <2>1, <2>4 DEF Shape
  <2>6. PICK next \in {Idle, going} : Goes(c, next)
    BY <1>9 DEF ReadCredential
  <2> QED BY <1>9, <2>4, <2>5, <2>6, IdleCall, SameTables, OneCallMoves DEF ReadCredential
<1>10. CASE UpdateRead(c)
  <2> DEFINE going == [calls[c] EXCEPT !.pc = "updateWrite", !.seen = credentials[calls[c].at]]
  <2>1. /\ calls[c].input \in Inputs /\ calls[c].input.kind \in {"edit", "complete"}
        /\ calls[c].at \in CredentialIds
    BY <1>0, <1>10 DEF UpdateRead, Shape
  <2>2. ASSUME Exists(calls[c].at)
        PROVE  going \in CallRecord /\ Shape(going)
    <3>1. credentials[calls[c].at] \in CredentialRow
      BY <1>0, <2>1, <2>2 DEF TablesOK, Exists
    <3>2. /\ going \in CallRecord /\ going.pc = "updateWrite" /\ going.input = calls[c].input
          /\ going.at = calls[c].at /\ going.seen = credentials[calls[c].at]
      BY <1>0, <3>1 DEF CallRecord, Pcs
    <3> QED BY <2>1, <3>1, <3>2 DEF Shape
  <2>3. CASE Exists(calls[c].at)
    BY <1>10, <2>2, <2>3, SameTables, OneCallMoves DEF UpdateRead
  <2>4. CASE ~Exists(calls[c].at)
    BY <1>10, <2>4, IdleCall, SameTables, OneCallMoves DEF UpdateRead
  <2> QED BY <2>3, <2>4
<1>11. CASE UpdateWrite(c)
  <2> DEFINE going == [calls[c] EXCEPT !.pc = "transition"]
  <2>1. /\ calls[c].input \in Inputs /\ calls[c].input.kind \in {"edit", "complete"}
        /\ calls[c].at \in CredentialIds /\ calls[c].seen \in CredentialRow
        /\ calls[c].patch \in Patch
    BY <1>0, <1>11 DEF UpdateWrite, Shape, CallRecord
  <2>2. going \in CallRecord /\ going.pc = "transition" /\ going.input = calls[c].input
    BY <1>0 DEF CallRecord, Pcs
  <2>3. calls[c].input.kind = "complete" => Shape(going)
    BY <2>1, <2>2 DEF Shape, Transitions
  <2>4. TablesOK'
    <3>1. ASSUME Exists(calls[c].at)
          PROVE  Written(credentials[calls[c].at], calls[c].seen, calls[c].patch)
                   \in CredentialRow
      BY <1>0, <2>1, <3>1, WrittenRow DEF TablesOK, Exists
    <3>2. credentials' \in [CredentialIds -> CredentialRow \cup {NoRow}]
      BY <1>0, <1>11, <2>1, <3>1 DEF UpdateWrite, TablesOK
    <3> QED BY <1>0, <1>11, <3>2 DEF UpdateWrite, TablesOK, RunsOfCredentials, RunExists
  <2>5. CASE calls[c].input.kind = "complete"
    BY <1>11, <2>2, <2>3, <2>4, <2>5, OneCallMoves DEF UpdateWrite
  <2>6. CASE calls[c].input.kind # "complete"
    BY <1>11, <2>4, <2>6, IdleCall, OneCallMoves DEF UpdateWrite
  <2> QED BY <2>5, <2>6
<1>12. CASE Transition(c)
  <2> DEFINE id == calls[c].input.run
             next == [calls[c] EXCEPT !.pc = "audit", !.run = id]
             target == calls[c].input.patch.ref
  <2>1. /\ calls[c].input \in Inputs /\ calls[c].input.kind \in Transitions
        /\ id \in RunIds /\ target \in Refs \cup {NoRef}
    BY <1>0, <1>12, RotationAssumption, InputFields DEF Transition, Shape, Patch
  <2>2. /\ next \in CallRecord /\ next.pc = "audit" /\ next.run = id
        /\ next.input = calls[c].input
    BY <1>0, <2>1 DEF CallRecord, Pcs
  <2>3. Shape(next)
    BY <2>1, <2>2 DEF Shape, Transitions
  <2>4. TablesOK'
    <3>1. runs[id] \in Run
      BY <1>0, <2>1 DEF TablesOK
    <3>2. runs' \in [RunIds -> Run]
      BY <1>0, <1>12, <2>1, <3>1, MovedRun DEF Transition, TablesOK
    <3>3. runs[id].status \in OpenStatuses
      BY <1>12 DEF Transition, From, OpenStatuses
    <3>4. RunsOfCredentials'
      BY <1>0, <1>12, <2>1, <3>3, MovedRun
         DEF Transition, TablesOK, RunsOfCredentials, RunExists, OpenStatuses
    <3> QED BY <1>0, <1>12, <3>2, <3>4 DEF Transition, TablesOK
  <2> QED BY <1>12, <2>2, <2>3, <2>4, OneCallMoves DEF Transition
<1>13. CASE TransitionRefused(c)
  BY <1>13, IdleCall, SameTables, OneCallMoves DEF TransitionRefused
<1>14. CASE Record(c)
  <2>1. /\ calls[c].input \in Inputs /\ calls[c].input.kind \in {"create", "plan"} \cup Transitions
        /\ calls[c].run \in RunIds
    BY <1>0, <1>14, InputFields DEF Record, Shape, Kinds
  <2>2. TablesOK'
    <3>1. [action |-> Action(calls[c].input.kind), run |-> calls[c].run] \in Event
      BY <2>1 DEF Action, Event
    <3> QED BY <1>0, <1>14, <3>1 DEF Record, TablesOK, RunsOfCredentials, RunExists
  <2>3. CASE calls[c].input.kind = "plan"
    <3>1. Advance(calls[c]) \in CallRecord /\ Shape(Advance(calls[c]))
      BY <1>0, <2>1, <2>3, Advancing
    <3> QED BY <1>14, <2>2, <2>3, <3>1, OneCallMoves DEF Record
  <2>4. CASE calls[c].input.kind # "plan"
    BY <1>14, <2>2, <2>4, IdleCall, OneCallMoves DEF Record
  <2> QED BY <2>3, <2>4
<1>15. CASE Fail(c)
  BY <1>15, IdleCall, SameTables, OneCallMoves DEF Fail
<1> QED
  BY <1>1, <1>2, <1>3, <1>4, <1>5, <1>6, <1>7, <1>8, <1>9, <1>10, <1>11, <1>12, <1>13,
     <1>14, <1>15
     DEF Step

\* Types are kept by the changes of the catalogue.
LEMMA TypedCatalogueStep ==
  ASSUME Typed, NEW k \in CredentialIds,
         DeleteCredential(k) \/ \E ref \in InitialRefs : CreateCredential(k, ref)
  PROVE  Typed'
<1>0. TablesOK
  BY TypedParts
<1>1. TablesOK'
  <2>1. CASE DeleteCredential(k)
    <3>1. \A id \in RunIds : [runs[id] EXCEPT !.status = "removed"] \in Run
      BY <1>0 DEF TablesOK, Run, RunStatuses
    <3>2. runs' \in [RunIds -> Run]
      BY <1>0, <2>1, <3>1 DEF DeleteCredential, TablesOK
    <3>3. RunsOfCredentials'
      BY <1>0, <2>1 DEF DeleteCredential, TablesOK, RunsOfCredentials, RunExists, Run
    <3> QED BY <1>0, <2>1, <3>2, <3>3 DEF DeleteCredential, TablesOK
  <2>2. ASSUME NEW ref \in InitialRefs, CreateCredential(k, ref) PROVE TablesOK'
    <3>1. [status |-> "active", ref |-> ref, had |-> {ref}] \in CredentialRow
      BY RotationAssumption DEF CredentialRow, CredentialStatuses
    <3> QED BY <1>0, <2>2, <3>1 DEF CreateCredential, TablesOK, RunsOfCredentials, RunExists
  <2> QED BY <2>1, <2>2
<1>2. UNCHANGED calls
  BY DEF DeleteCredential, CreateCredential
<1>3. CallsOK'
  BY <1>2 DEF Typed, CallsOK, Shape
<1> QED BY <1>1, <1>2, <1>3 DEF Typed, TypeOK, TablesOK

\* Every row, event and suspended call of the workflow has its type.
LEMMA TypedInvariant == Spec => []Typed
<1>1. Init => Typed
  BY IdleCall, RotationAssumption
     DEF Init, Typed, TypeOK, CallsOK, RunsOfCredentials, RunExists, UnusedRun, Run,
         RunStatuses
<1>2. Typed /\ [Next]_vars => Typed'
  <2>1. ASSUME Typed, Next PROVE Typed'
    BY <2>1, TypedCallStep, TypedCatalogueStep DEF Next
  <2>2. ASSUME Typed, UNCHANGED vars PROVE Typed'
    BY <2>2 DEF vars, Typed, TypeOK, CallsOK, Shape, RunsOfCredentials, RunExists
  <2> QED BY <2>1, <2>2
<1> QED BY <1>1, <1>2, PTL DEF Spec

\* The type invariant, for any number of runs, credentials and calls.
THEOREM RotationTypes == Spec => []TypeOK
<1>1. Typed => TypeOK
  BY DEF Typed
<1> QED BY <1>1, TypedInvariant, PTL

-----------------------------------------------------------------------------
(* What a closed run keeps *)

\* Whatever the call, a run that has ended is never written again: only the
\* deletion of its credential touches it.
THEOREM ClosedRunsAreFrozen == Spec => ClosedRunsStay
<1>1. ASSUME Typed, Next, NEW id \in RunIds, runs[id].status \in {"completed", "failed"}
      PROVE  runs'[id] = runs[id] \/ runs'[id].status = "removed"
  <2>0. TablesOK
    BY <1>1, TypedParts
  <2>1. ASSUME NEW c \in CallIds, NEW other \in RunIds, InsertRun(c, other)
        PROVE  runs'[id] = runs[id]
    BY <1>1, <2>0, <2>1 DEF InsertRun, TablesOK
  <2>2. ASSUME NEW c \in CallIds, Transition(c) PROVE runs'[id] = runs[id]
    BY <1>1, <2>0, <2>2 DEF Transition, TablesOK, From, OpenStatuses
  <2>3. ASSUME NEW k \in CredentialIds, DeleteCredential(k)
        PROVE  runs'[id] = runs[id] \/ runs'[id].status = "removed"
    BY <2>0, <2>3 DEF DeleteCredential, TablesOK, Run
  <2>4. ASSUME NEW c \in CallIds, Step(c) PROVE runs'[id] = runs[id]
    BY <2>1, <2>2, <2>4
       DEF Step, ReadForCreate, ListForPlan, ReadRun, ReadForEdit, FindOpen, Inspect,
           InsertRefused, ReadCredential, UpdateRead, UpdateWrite, TransitionRefused,
           Record, Fail
  <2> QED BY <1>1, <2>3, <2>4 DEF Next, CreateCredential
<1>2. Typed /\ [Next]_vars =>
        [\A id \in RunIds :
           runs[id].status \in {"completed", "failed"} =>
             runs'[id] = runs[id] \/ runs'[id].status = "removed"]_vars
  BY <1>1
<1> QED BY <1>2, TypedInvariant, PTL DEF Spec, ClosedRunsStay

-----------------------------------------------------------------------------
(* What a step does to one run and to one credential *)

Inserted(id) ==
  /\ runs[id].status = "unused"
  /\ runs'[id].status = "pending" /\ runs'[id].targetRef = NoRef
  /\ Exists(runs'[id].credential) /\ OpenRuns(runs'[id].credential) = {}
  /\ runs'[id].credential \in CredentialIds
  /\ \A other \in RunIds : other # id => runs'[other] = runs[other]
  /\ UNCHANGED credentials

Transitioned(id) ==
  \E c \in CallIds :
    /\ calls[c].pc = "transition" /\ calls[c].input.run = id
    /\ calls[c].input \in Inputs /\ calls[c].input.kind \in Transitions
    /\ runs[id].status \in From(calls[c].input.kind)
    /\ runs'[id].status = To(calls[c].input.kind)
    /\ runs'[id].credential = runs[id].credential
    /\ \/ runs'[id].targetRef = runs[id].targetRef
       \/ /\ calls[c].input.kind = "complete"
          /\ calls[c].input.patch.ref # NoRef
          /\ runs'[id].targetRef = calls[c].input.patch.ref
    /\ UNCHANGED credentials

Removed(id) ==
  /\ runs'[id].status = "removed"
  /\ runs'[id].credential = runs[id].credential
  /\ runs'[id].credential \in CredentialIds

\* A run stays, is inserted, makes a transition, or goes with its credential.
LEMMA RunMoves ==
  ASSUME Typed, Next, NEW id \in RunIds
  PROVE  runs'[id] = runs[id] \/ Inserted(id) \/ Transitioned(id) \/ Removed(id)
<1>0. TablesOK
  BY TypedParts
<1>1. ASSUME NEW c \in CallIds, NEW other \in RunIds, InsertRun(c, other)
      PROVE  runs'[id] = runs[id] \/ Inserted(id)
  <2>1. CASE other # id
    BY <1>0, <1>1, <2>1 DEF InsertRun, TablesOK
  <2>2. CASE other = id
    <3>1. calls[c].at \in CredentialIds
      BY <1>1, TypedParts DEF InsertRun, Shape
    <3>2. runs'[id] = [status |-> "pending", credential |-> calls[c].at, targetRef |-> NoRef]
      BY <1>0, <1>1, <2>2 DEF InsertRun, TablesOK, UnusedRun
    <3>3. \A one \in RunIds : one # id => runs'[one] = runs[one]
      BY <1>0, <1>1, <2>2 DEF InsertRun, TablesOK
    <3>4. /\ runs'[id].status = "pending" /\ runs'[id].targetRef = NoRef
          /\ runs'[id].credential = calls[c].at
      BY <3>2
    <3>5. Exists(runs'[id].credential) /\ OpenRuns(runs'[id].credential) = {}
      BY <1>1, <3>4 DEF InsertRun, Insertable
    <3>6. runs[id].status = "unused" /\ UNCHANGED credentials
      BY <1>1, <2>2 DEF InsertRun
    <3> QED BY <3>1, <3>3, <3>4, <3>5, <3>6 DEF Inserted
  <2> QED BY <2>1, <2>2
<1>2. ASSUME NEW c \in CallIds, Transition(c)
      PROVE  runs'[id] = runs[id] \/ Transitioned(id)
  <2> DEFINE input == calls[c].input
  <2>1. /\ input \in Inputs /\ input.kind \in Transitions /\ input.run \in RunIds
        /\ input.patch.ref \in Refs \cup {NoRef}
        /\ input.kind # "complete" => input.patch.ref = NoRef
    BY <1>2, TypedParts, InputFields, RotationAssumption
       DEF Transition, Shape, Patch, NoPatch, Transitions
  <2>2. CASE input.run # id
    BY <1>0, <1>2, <2>1, <2>2 DEF Transition, TablesOK
  <2>3. CASE input.run = id
    <3>1. runs[id] \in Run
      BY <1>0 DEF TablesOK
    <3>2. runs'[id] = Moved(runs[id], input.kind, input.patch.ref)
      BY <1>0, <1>2, <2>3 DEF Transition, TablesOK
    <3>3. /\ runs'[id].status = To(input.kind)
          /\ runs'[id].credential = runs[id].credential
          /\ runs'[id].targetRef = IF input.patch.ref = NoRef THEN runs[id].targetRef
                                   ELSE input.patch.ref
      BY <2>1, <3>1, <3>2, MovedRun
    <3> QED BY <1>2, <2>1, <2>3, <3>3 DEF Transition, Transitioned
  <2> QED BY <2>2, <2>3
<1>3. ASSUME NEW k \in CredentialIds, DeleteCredential(k)
      PROVE  runs'[id] = runs[id] \/ Removed(id)
  BY <1>0, <1>3 DEF DeleteCredential, Removed, TablesOK, Run
<1>4. ASSUME NEW c \in CallIds, Step(c)
      PROVE  runs'[id] = runs[id] \/ Inserted(id) \/ Transitioned(id)
  BY <1>1, <1>2, <1>4
     DEF Step, ReadForCreate, ListForPlan, ReadRun, ReadForEdit, FindOpen, Inspect,
         InsertRefused, ReadCredential, UpdateRead, UpdateWrite, TransitionRefused,
         Record, Fail
<1> QED BY <1>3, <1>4 DEF Next, CreateCredential

\* The credential keeps its history, is created with one, or takes its runs
\* with it.
Kept(k) ==
  /\ Exists(k) /\ Exists(k)'
  /\ credentials[k].had \subseteq credentials'[k].had
  /\ credentials'[k].ref \in credentials'[k].had

Created(k) ==
  ~Exists(k) /\ Exists(k)' /\ credentials'[k].ref \in credentials'[k].had

Deleted(k) ==
  /\ ~Exists(k)'
  /\ \A id \in RunIds : runs[id].credential = k => runs'[id].status = "removed"

LEMMA CredentialMoves ==
  ASSUME Typed, Histories, Next, NEW k \in CredentialIds
  PROVE  credentials'[k] = credentials[k] \/ Kept(k) \/ Created(k) \/ Deleted(k)
<1>0. TablesOK
  BY TypedParts
<1>1. ASSUME NEW c \in CallIds, UpdateWrite(c)
      PROVE  credentials'[k] = credentials[k] \/ Kept(k)
  <2> DEFINE at == calls[c].at
             row == Written(credentials[at], calls[c].seen, calls[c].patch)
  <2>1. at \in CredentialIds /\ calls[c].seen \in CredentialRow /\ calls[c].patch \in Patch
    BY <1>1, TypedParts DEF UpdateWrite, Shape, CallRecord
  <2>2. CASE ~Exists(at) \/ at # k
    BY <1>0, <1>1, <2>1, <2>2 DEF UpdateWrite, TablesOK
  <2>3. CASE Exists(at) /\ at = k
    <3>1. credentials[k] \in CredentialRow
      BY <1>0, <2>3 DEF TablesOK, Exists
    <3>2. /\ row \in CredentialRow
          /\ credentials[k].had \subseteq row.had
          /\ row.ref \in row.had
      BY <2>1, <2>3, <3>1, WrittenRow
    <3>3. credentials'[k] = row
      BY <1>0, <1>1, <2>1, <2>3 DEF UpdateWrite, TablesOK
    <3>4. credentials'[k] # NoRow
      BY <3>2, <3>3, RotationAssumption DEF CredentialRow
    <3> QED BY <2>3, <3>2, <3>3, <3>4 DEF Kept, Exists
  <2> QED BY <2>2, <2>3
<1>2. ASSUME NEW other \in CredentialIds, DeleteCredential(other)
      PROVE  credentials'[k] = credentials[k] \/ Deleted(k)
  <2>1. CASE other # k
    BY <1>0, <1>2, <2>1 DEF DeleteCredential, TablesOK
  <2>2. CASE other = k
    <3>1. credentials'[k] = NoRow
      BY <1>0, <1>2, <2>2 DEF DeleteCredential, TablesOK
    <3>2. \A id \in RunIds : runs[id].credential = k => runs'[id].status = "removed"
      BY <1>0, <1>2, <2>2 DEF DeleteCredential, TablesOK, Run
    <3> QED BY <3>1, <3>2 DEF Deleted, Exists
  <2> QED BY <2>1, <2>2
<1>3. ASSUME NEW other \in CredentialIds, NEW ref \in InitialRefs, CreateCredential(other, ref)
      PROVE  credentials'[k] = credentials[k] \/ Created(k)
  <2>1. [status |-> "active", ref |-> ref, had |-> {ref}] # NoRow
    BY RotationAssumption DEF CredentialStatuses
  <2> QED BY <1>0, <1>3, <2>1 DEF CreateCredential, TablesOK, Created, Exists
<1>4. ASSUME NEW c \in CallIds, Step(c)
      PROVE  credentials'[k] = credentials[k] \/ Kept(k)
  BY <1>1, <1>4
     DEF Step, ReadForCreate, ListForPlan, ReadRun, ReadForEdit, FindOpen, Inspect,
         InsertRun, InsertRefused, ReadCredential, UpdateRead, Transition,
         TransitionRefused, Record, Fail
<1> QED BY <1>2, <1>3, <1>4 DEF Next

-----------------------------------------------------------------------------
(* The tables *)

\* A run that is there after a step and was there before still has the
\* credential it had, and what that credential had.
LEMMA RunsKeepHistory ==
  ASSUME IInv, Next, NEW id \in RunIds, RunExists(id), RunExists(id)'
  PROVE  /\ runs'[id].credential = runs[id].credential
         /\ Exists(runs[id].credential)'
         /\ credentials[runs[id].credential].had \subseteq credentials'[runs[id].credential].had
<1> DEFINE k == runs[id].credential
<1>1. k \in CredentialIds /\ Exists(k)
  BY DEF IInv, Typed, RunsOfCredentials, ForeignKeys
<1>2. runs'[id].credential = k
  BY RunMoves DEF IInv, RunExists, Inserted, Transitioned, Removed
<1>3. runs'[id].status # "removed"
  BY DEF RunExists
<1>4. credentials'[k] = credentials[k] \/ Kept(k)
  BY <1>1, <1>3, CredentialMoves DEF IInv, Created, Deleted
<1> QED BY <1>1, <1>2, <1>4 DEF Kept, Exists

\* Only an insertion brings a run into the tables.
LEMMA NewRuns ==
  ASSUME IInv, Next, NEW id \in RunIds, RunExists(id)'
  PROVE  RunExists(id) \/ Inserted(id)
<1>1. Transitioned(id) => RunExists(id)
  BY DEF Transitioned, From, OpenStatuses, RunExists
<1> QED BY <1>1, RunMoves DEF IInv, RunExists, Removed

LEMMA TablesStep ==
  ASSUME IInv, Next
  PROVE  ForeignKeys' /\ OneOpenRun' /\ Histories' /\ TargetsApplied'
<1>1. ForeignKeys'
  <2>1. ASSUME NEW id \in RunIds, RunExists(id)' PROVE credentials'[runs'[id].credential] # NoRow
    <3>1. CASE RunExists(id)
      BY <2>1, <3>1, RunsKeepHistory DEF Exists
    <3>2. CASE Inserted(id)
      BY <3>2 DEF Inserted, Exists
    <3> QED BY <2>1, <3>1, <3>2, NewRuns
  <2> QED BY <2>1 DEF ForeignKeys, Exists
<1>2. OneOpenRun'
  <2>1. ASSUME NEW k \in CredentialIds, NEW id \in RunIds,
               runs'[id].credential = k, runs'[id].status \in OpenStatuses
        PROVE  id \in OpenRuns(k) \/ Inserted(id)
    <3>1. CASE runs'[id] = runs[id]
      BY <2>1, <3>1 DEF OpenRuns
    <3>2. CASE Transitioned(id)
      BY <2>1, <3>2 DEF Transitioned, From, OpenRuns, OpenStatuses
    <3>3. ~Removed(id)
      BY <2>1 DEF Removed, OpenStatuses
    <3> QED BY <3>1, <3>2, <3>3, RunMoves DEF IInv
  <2>2. ASSUME NEW k \in CredentialIds, NEW one \in RunIds, NEW other \in RunIds,
               runs'[one].credential = k, runs'[one].status \in OpenStatuses,
               runs'[other].credential = k, runs'[other].status \in OpenStatuses,
               one # other
        PROVE  ~Inserted(one)
    <3> SUFFICES ASSUME Inserted(one) PROVE FALSE
      OBVIOUS
    <3>1. OpenRuns(k) = {} /\ runs'[other] = runs[other]
      BY <2>2 DEF Inserted
    <3> QED BY <2>2, <3>1 DEF OpenRuns
  <2>3. ASSUME NEW k \in CredentialIds, NEW one \in RunIds, NEW other \in RunIds,
               runs'[one].credential = k, runs'[one].status \in OpenStatuses,
               runs'[other].credential = k, runs'[other].status \in OpenStatuses
        PROVE  one = other
    <3> SUFFICES ASSUME one # other PROVE FALSE
      OBVIOUS
    <3>1. one \in OpenRuns(k) /\ other \in OpenRuns(k)
      BY <2>1, <2>2, <2>3
    <3> QED BY <3>1 DEF IInv, OneOpenRun
  <2> QED BY <2>3 DEF OneOpenRun, OpenRuns
<1>3. ASSUME NEW k \in CredentialIds, Exists(k)'
      PROVE  credentials'[k].ref \in credentials'[k].had
  BY <1>3, CredentialMoves DEF IInv, Histories, Kept, Created, Deleted, Exists
<1>4. ASSUME NEW id \in RunIds, RunExists(id)', runs'[id].targetRef # NoRef
      PROVE  runs'[id].targetRef \in credentials'[runs'[id].credential].had
  <2>1. CASE Inserted(id)
    BY <1>4, <2>1 DEF Inserted
  <2>2. CASE RunExists(id)
    <3>1. /\ runs'[id].credential = runs[id].credential
          /\ credentials[runs[id].credential].had
               \subseteq credentials'[runs[id].credential].had
      BY <1>4, <2>2, RunsKeepHistory
    <3>2. CASE runs'[id].targetRef = runs[id].targetRef
      BY <1>4, <2>2, <3>1, <3>2 DEF IInv, TargetsApplied
    <3>3. ASSUME NEW c \in CallIds,
                 calls[c].pc = "transition", calls[c].input.run = id,
                 calls[c].input \in Inputs,
                 calls[c].input.kind = "complete",
                 calls[c].input.patch.ref # NoRef,
                 runs'[id].targetRef = calls[c].input.patch.ref
          PROVE  runs'[id].targetRef \in credentials[runs[id].credential].had
      <4>1. Applying(calls[c]) /\ Tied(calls[c])
        BY DEF IInv, CallsApplying, CallsTied
      <4> QED BY <2>2, <3>3, <4>1 DEF Applying, Tied, Transitions
    <3>4. CASE runs'[id].targetRef # runs[id].targetRef
      <4>1. Transitioned(id) \/ Removed(id)
        BY <2>2, <3>4, RunMoves DEF IInv, RunExists, Inserted
      <4>2. Transitioned(id)
        BY <1>4, <4>1 DEF Removed, RunExists
      <4> QED BY <3>1, <3>3, <3>4, <4>2 DEF Transitioned
    <3> QED BY <3>2, <3>4
  <2> QED BY <1>4, <2>1, <2>2, NewRuns
<1> QED BY <1>1, <1>2, <1>3, <1>4 DEF Histories, TargetsApplied

-----------------------------------------------------------------------------
(* The calls and the log *)

\* A call that a step leaves where it is keeps what it knows.
LEMMA Bystanders ==
  ASSUME IInv, Next, NEW c \in CallIds, calls'[c] = calls[c]
  PROVE  Tied(calls[c])' /\ Applying(calls[c])'
<1> DEFINE call == calls[c]
           id == call.input.run
<1>1. ASSUME call.pc # "idle", call.input.kind \in Transitions
      PROVE  /\ id \in RunIds
             /\ runs[id].status # "unused" /\ call.at = runs[id].credential
             /\ runs'[id].status # "unused" /\ call.at = runs'[id].credential
  <2>1. id \in RunIds
    BY <1>1, RotationAssumption, TypedParts DEF IInv, Shape
  <2>2. runs[id].status # "unused" /\ call.at = runs[id].credential
    BY <1>1 DEF IInv, CallsTied, Tied
  <2>3. ~Inserted(id)
    BY <2>2 DEF Inserted
  <2>4. Transitioned(id) => runs'[id].status # "unused" /\ runs'[id].credential = runs[id].credential
    BY DEF Transitioned, To, Transitions
  <2> QED BY <2>1, <2>2, <2>3, <2>4, RunMoves DEF IInv, Removed
<1>2. Tied(call)'
  BY <1>1 DEF Tied
<1>3. ASSUME call.pc \in {"updateRead", "updateWrite", "transition"},
             call.input.kind = "complete", call.input.patch.ref # NoRef, RunExists(id)'
      PROVE  \/ call.pc # "transition" /\ call.patch.ref = call.input.patch.ref
             \/ call.input.patch.ref \in credentials'[call.at].had
  <2>1. id \in RunIds /\ runs[id].status # "unused" /\ call.at = runs[id].credential
    BY <1>1, <1>3 DEF Transitions
  <2>2. RunExists(id)
    BY <1>3, <2>1, NewRuns DEF Inserted
  <2>3. Applying(call)
    BY DEF IInv, CallsApplying
  <2> QED BY <1>3, <2>1, <2>2, <2>3, RunsKeepHistory DEF Applying
<1>4. Applying(call)'
  BY <1>3 DEF Applying
<1> QED BY <1>2, <1>4

\* Only the steps of a call move it.
LEMMA CallMoves ==
  ASSUME Typed, Next, NEW c \in CallIds
  PROVE  calls'[c] = calls[c] \/ Step(c)
<1>1. ASSUME NEW other \in CallIds, Step(other), other # c PROVE calls'[c] = calls[c]
  BY <1>1, TypedParts
     DEF Step, Goes, ReadForCreate, ListForPlan, ReadRun, ReadForEdit, FindOpen, Inspect,
         InsertRun, InsertRefused, ReadCredential, UpdateRead, UpdateWrite, Transition,
         TransitionRefused, Record, Fail
<1> QED BY <1>1 DEF Next, DeleteCredential, CreateCredential

\* What became of a run stays so: the outcomes of an event are closed under
\* every step.
LEMMA OutcomesAreStable ==
  ASSUME IInv, Next, NEW id \in RunIds, NEW action \in {"create"} \cup Transitions,
         runs[id].status \in Outcomes(action)
  PROVE  runs'[id].status \in Outcomes(action)
<1>1. CASE Inserted(id)
  BY <1>1 DEF Inserted, Outcomes, Transitions, RunStatuses
<1>2. CASE Transitioned(id)
  <2>1. PICK kind \in Transitions :
          runs[id].status \in From(kind) /\ runs'[id].status = To(kind)
    BY <1>2 DEF Transitioned
  <2> QED BY <2>1 DEF From, To, Outcomes, Transitions, OpenStatuses, RunStatuses
<1>3. CASE Removed(id)
  BY <1>3 DEF Removed, Outcomes, Transitions, RunStatuses
<1> QED BY <1>1, <1>2, <1>3, RunMoves DEF IInv

\* What a call keeps while it works through its statements.
Carries(c) == calls'[c].input = calls[c].input /\ calls'[c].at = calls[c].at

\* A step that leaves a call with something to say of a run.
Proceeds(c) ==
  \/ \E input \in Inputs :
       /\ ReadForEdit(c, input)
       /\ calls'[c].pc = "updateRead" /\ calls'[c].input = input
  \/ \E input \in Inputs :
       /\ ReadRun(c, input)
       /\ calls'[c].pc \in {"readCredential", "transition"} /\ calls'[c].input = input
       /\ calls'[c].pc = "transition" => input.kind # "complete"
       /\ calls'[c].at = runs[input.run].credential
  \/ \E id \in RunIds :
       /\ InsertRun(c, id)
       /\ calls'[c].pc = "audit" /\ calls'[c].run = id /\ Carries(c)
  \/ /\ ReadCredential(c) /\ Exists(calls[c].at)
     /\ calls'[c].pc = "updateRead" /\ Carries(c)
     /\ calls'[c].patch.ref = IF credentials[calls[c].at].ref = calls[c].input.patch.ref
                              THEN NoRef ELSE calls[c].input.patch.ref
  \/ /\ UpdateRead(c)
     /\ calls'[c].pc = "updateWrite" /\ Carries(c) /\ calls'[c].patch = calls[c].patch
  \/ /\ UpdateWrite(c) /\ calls[c].input.kind = "complete"
     /\ calls'[c].pc = "transition" /\ Carries(c)
  \/ /\ Transition(c)
     /\ calls'[c].pc = "audit" /\ calls'[c].run = calls[c].input.run /\ Carries(c)

\* Every other step leaves it idle, or about to look for an open run.
LEMMA CallSteps ==
  ASSUME Typed, NEW c \in CallIds, Step(c)
  PROVE  calls'[c].pc \in {"idle", "findOpen", "inspect", "insert"} \/ Proceeds(c)
<1> DEFINE Settles == calls'[c].pc \in {"idle", "findOpen", "inspect", "insert"}
<1>0. /\ calls[c] \in CallRecord /\ Shape(calls[c])
      /\ \A call : Goes(c, call) => calls'[c] = call
  BY TypedParts DEF Goes
<1>1. ASSUME NEW input \in Inputs, ReadForCreate(c, input) \/ ListForPlan(c, input)
      PROVE  Settles
  BY <1>0, <1>1 DEF ReadForCreate, ListForPlan, Starts, Idle
<1>2. ASSUME NEW input \in Inputs, ReadForEdit(c, input) PROVE Proceeds(c)
  <2>1. calls'[c].pc = "updateRead" /\ calls'[c].input = input
    BY <1>0, <1>2 DEF ReadForEdit, Starts, Idle
  <2> QED BY <1>2, <2>1 DEF Proceeds
<1>3. ASSUME NEW input \in Inputs, ReadRun(c, input) PROVE Proceeds(c)
  <2>1. /\ calls'[c].pc = IF input.kind = "complete" THEN "readCredential" ELSE "transition"
        /\ calls'[c].input = input /\ calls'[c].at = runs[input.run].credential
    BY <1>0, <1>3 DEF ReadRun, Starts, Idle
  <2> QED BY <1>3, <2>1 DEF Proceeds
<1>4. ASSUME NEW k \in CredentialIds, FindOpen(c, k) PROVE Settles
  <2> DEFINE call == [calls[c] EXCEPT !.at = k]
             going == [call EXCEPT !.pc = IF call.input.kind = "plan" THEN "inspect"
                                          ELSE "insert"]
  <2>1. /\ call \in CallRecord /\ call.input \in Inputs
        /\ call.input.kind \in {"create", "plan"}
    BY <1>0, <1>4 DEF FindOpen, Shape, CallRecord
  <2>2. Advance(call).pc \in {"idle", "findOpen"}
    BY <2>1, Advancing
  <2>3. going.pc \in {"inspect", "insert"}
    BY <2>1 DEF CallRecord
  <2>4. calls'[c] \in {Advance(call), Idle, going}
    BY <1>0, <1>4 DEF FindOpen
  <2> QED BY <2>2, <2>3, <2>4, IdleCall
<1>5. ASSUME NEW due \in BOOLEAN, Inspect(c, due) PROVE Settles
  <2>1. Advance(calls[c]).pc \in {"idle", "findOpen"}
    BY <1>0, <1>5, Advancing DEF Inspect, Shape
  <2>2. [calls[c] EXCEPT !.pc = "insert"].pc = "insert"
    BY <1>0 DEF CallRecord
  <2>3. calls'[c] \in {Advance(calls[c]), [calls[c] EXCEPT !.pc = "insert"]}
    BY <1>0, <1>5 DEF Inspect
  <2> QED BY <2>1, <2>2, <2>3
<1>6. ASSUME NEW id \in RunIds, InsertRun(c, id) PROVE Proceeds(c)
  <2>1. calls'[c].pc = "audit" /\ calls'[c].run = id /\ Carries(c)
    BY <1>0, <1>6 DEF InsertRun, CallRecord, Carries
  <2> QED BY <1>6, <2>1 DEF Proceeds
<1>7. CASE ReadCredential(c)
  <2> DEFINE ref == IF credentials[calls[c].at].ref = calls[c].input.patch.ref
                    THEN NoRef ELSE calls[c].input.patch.ref
             going == [calls[c] EXCEPT !.pc = "updateRead", !.patch.ref = ref]
  <2>1. CASE Exists(calls[c].at)
    <3>1. calls'[c] = going
      BY <1>0, <1>7, <2>1 DEF ReadCredential
    <3> HIDE DEF ref
    <3>2. /\ going.pc = "updateRead" /\ going.input = calls[c].input
          /\ going.at = calls[c].at /\ going.patch.ref = ref
      BY <1>0 DEF CallRecord, Patch
    <3>3. calls'[c].pc = "updateRead" /\ Carries(c) /\ calls'[c].patch.ref = ref
      BY <3>1, <3>2 DEF Carries
    <3> QED BY <1>7, <2>1, <3>3 DEF Proceeds, ref
  <2>2. CASE ~Exists(calls[c].at)
    BY <1>0, <1>7, <2>2, IdleCall DEF ReadCredential
  <2> QED BY <2>1, <2>2
<1>8. CASE UpdateRead(c)
  <2>1. CASE Exists(calls[c].at)
    <3>1. /\ calls'[c].pc = "updateWrite" /\ Carries(c)
          /\ calls'[c].patch = calls[c].patch
      BY <1>0, <1>8, <2>1 DEF UpdateRead, CallRecord, Carries
    <3> QED BY <1>8, <3>1 DEF Proceeds
  <2>2. CASE ~Exists(calls[c].at)
    BY <1>0, <1>8, <2>2, IdleCall DEF UpdateRead
  <2> QED BY <2>1, <2>2
<1>9. CASE UpdateWrite(c)
  <2>1. CASE calls[c].input.kind = "complete"
    <3>1. calls'[c].pc = "transition" /\ Carries(c)
      BY <1>0, <1>9, <2>1 DEF UpdateWrite, CallRecord, Carries
    <3> QED BY <1>9, <2>1, <3>1 DEF Proceeds
  <2>2. CASE calls[c].input.kind # "complete"
    BY <1>0, <1>9, <2>2, IdleCall DEF UpdateWrite
  <2> QED BY <2>1, <2>2
<1>10. CASE Transition(c)
  <2>1. calls'[c].pc = "audit" /\ calls'[c].run = calls[c].input.run /\ Carries(c)
    BY <1>0, <1>10 DEF Transition, CallRecord, Carries
  <2> QED BY <1>10, <2>1 DEF Proceeds
<1>11. CASE InsertRefused(c) \/ TransitionRefused(c) \/ Fail(c)
  BY <1>0, <1>11, IdleCall DEF InsertRefused, TransitionRefused, Fail
<1>12. CASE Record(c)
  <2>1. calls[c].input.kind = "plan" => Advance(calls[c]).pc \in {"idle", "findOpen"}
    BY <1>0, <1>12, Advancing DEF Record, Shape
  <2> QED BY <1>0, <1>12, <2>1, IdleCall DEF Record
<1> QED
  BY <1>1, <1>2, <1>3, <1>4, <1>5, <1>6, <1>7, <1>8, <1>9, <1>10, <1>11, <1>12 DEF Step

\* The run a call has just written is as its event will say.
LEMMA TruthfulStep ==
  ASSUME IInv, Next, NEW c \in CallIds
  PROVE  Truthful(calls[c])'
<1>0. TablesOK /\ calls[c] \in CallRecord /\ Shape(calls[c]) /\ calls \in [CallIds -> CallRecord]
  BY TypedParts DEF IInv
<1>1. CASE calls'[c] = calls[c]
  <2>1. ASSUME calls[c].pc = "audit"
        PROVE  runs'[calls[c].run].status \in Outcomes(Action(calls[c].input.kind))
    <3>1. /\ calls[c].run \in RunIds
          /\ Action(calls[c].input.kind) \in {"create"} \cup Transitions
      BY <1>0, <2>1, InputFields DEF Shape, Action, Kinds
    <3>2. runs[calls[c].run].status \in Outcomes(Action(calls[c].input.kind))
      BY <2>1 DEF IInv, CallsTruthful, Truthful
    <3> QED BY <3>1, <3>2, OutcomesAreStable
  <2> QED BY <1>1, <2>1 DEF Truthful
<1>2. ASSUME NEW id \in RunIds, InsertRun(c, id) PROVE Truthful(calls[c])'
  <2> DEFINE next == [calls[c] EXCEPT !.pc = "audit", !.run = id]
  <2>1. calls'[c] = next
    BY <1>0, <1>2 DEF InsertRun, Goes
  <2>2. next.run = id /\ next.input = calls[c].input
    BY <1>0 DEF CallRecord
  <2>3. runs'[id].status = "pending"
    BY <1>0, <1>2 DEF InsertRun, TablesOK, UnusedRun
  <2>4. Action(calls[c].input.kind) = "create"
    BY <1>0, <1>2 DEF InsertRun, Shape, Action
  <2>5. "pending" \in Outcomes("create")
    BY DEF Outcomes, RunStatuses
  <2> QED BY <2>1, <2>2, <2>3, <2>4, <2>5 DEF Truthful
<1>3. ASSUME Transition(c) PROVE Truthful(calls[c])'
  <2> DEFINE id == calls[c].input.run
             kind == calls[c].input.kind
             next == [calls[c] EXCEPT !.pc = "audit", !.run = id]
  <2>1. calls'[c] = next
    BY <1>0, <1>3 DEF Transition, Goes
  <2>2. next.run = id /\ next.input = calls[c].input
    BY <1>0 DEF CallRecord
  <2>3. /\ calls[c].input \in Inputs /\ kind \in Transitions /\ id \in RunIds
        /\ calls[c].input.patch.ref \in Refs \cup {NoRef}
    BY <1>0, <1>3, RotationAssumption, InputFields DEF Transition, Shape, Patch
  <2>4. runs'[id].status = To(kind)
    <3>1. runs[id] \in Run
      BY <1>0, <2>3 DEF TablesOK
    <3>2. runs'[id] = Moved(runs[id], kind, calls[c].input.patch.ref)
      BY <1>0, <1>3, <2>3 DEF Transition, TablesOK
    <3> QED BY <2>3, <3>1, <3>2, MovedRun
  <2>5. To(kind) \in Outcomes(Action(kind))
    BY <2>3 DEF Transitions, To, Action, Outcomes, RunStatuses
  <2> QED BY <2>1, <2>2, <2>4, <2>5 DEF Truthful
<1>4. ASSUME calls'[c].pc = "audit", Step(c)
      PROVE  Transition(c) \/ \E id \in RunIds : InsertRun(c, id)
  BY <1>4, CallSteps DEF Proceeds, IInv
<1> QED BY <1>1, <1>2, <1>3, <1>4, CallMoves DEF Truthful, IInv

\* A call that moves knows of its run and credential what it needs.
LEMMA OwnStep ==
  ASSUME IInv, Next, NEW c \in CallIds, Step(c)
  PROVE  Tied(calls[c])' /\ Applying(calls[c])'
<1> DEFINE call == calls[c]
           id == call.input.run
<1>0. /\ Typed /\ Typed' /\ TablesOK /\ call \in CallRecord /\ Shape(call)
      /\ Shape(calls[c])' /\ Tied(call) /\ Applying(call)
  <2>1. Typed /\ Typed'
    BY TypedCallStep DEF IInv
  <2>2. Shape(calls[c])'
    BY <2>1 DEF Typed, CallsOK, Shape
  <2> QED BY <2>1, <2>2, TypedParts DEF IInv, CallsTied, CallsApplying
<1>1. CASE calls'[c].pc \in {"idle", "findOpen", "inspect", "insert"}
  BY <1>0, <1>1 DEF Tied, Applying, Shape, Transitions
<1>2. ASSUME NEW input \in Inputs, ReadForEdit(c, input),
             calls'[c].pc = "updateRead", calls'[c].input = input
      PROVE  Tied(calls[c])' /\ Applying(calls[c])'
  BY <1>2 DEF ReadForEdit, Tied, Applying, Transitions
<1>3. ASSUME NEW input \in Inputs, ReadRun(c, input),
             calls'[c].pc \in {"readCredential", "transition"}, calls'[c].input = input,
             calls'[c].pc = "transition" => input.kind # "complete",
             calls'[c].at = runs[input.run].credential
      PROVE  Tied(calls[c])' /\ Applying(calls[c])'
  BY <1>3 DEF ReadRun, RunExists, Tied, Applying
<1>4. ASSUME NEW other \in RunIds, InsertRun(c, other), Carries(c)
      PROVE  Tied(calls[c])' /\ Applying(calls[c])'
  BY <1>0, <1>4 DEF InsertRun, Carries, Shape, Tied, Applying, Transitions
<1>5. ASSUME ReadCredential(c) \/ UpdateRead(c) \/ UpdateWrite(c) \/ Transition(c),
             Carries(c)
      PROVE  Tied(calls[c])'
  <2>1. CASE call.input.kind \in Transitions
    <3>1. id \in RunIds /\ runs[id].status # "unused" /\ call.at = runs[id].credential
      BY <1>0, <1>5, <2>1, RotationAssumption
         DEF ReadCredential, UpdateRead, UpdateWrite, Transition, Shape, Tied
    <3>2. runs'[id].status # "unused" /\ runs'[id].credential = runs[id].credential
      BY <1>0, <3>1, RunMoves DEF Inserted, Transitioned, Removed, To, Transitions
    <3> QED BY <1>5, <3>1, <3>2 DEF Carries, Tied
  <2>2. CASE call.input.kind \notin Transitions
    BY <1>5, <2>2 DEF Carries, Tied
  <2> QED BY <2>1, <2>2
<1>6. ASSUME ReadCredential(c), Exists(call.at), calls'[c].pc = "updateRead", Carries(c),
             calls'[c].patch.ref = IF credentials[call.at].ref = call.input.patch.ref
                                   THEN NoRef ELSE call.input.patch.ref
      PROVE  Applying(calls[c])'
  <2>1. call.at \in CredentialIds /\ UNCHANGED credentials
    BY <1>0, <1>6 DEF ReadCredential, Shape
  <2>2. credentials[call.at].ref \in credentials[call.at].had
    BY <1>6, <2>1 DEF IInv, Histories
  <2> QED BY <1>6, <2>1, <2>2 DEF Carries, Applying
<1>7. ASSUME UpdateRead(c), Carries(c), calls'[c].patch = calls[c].patch,
             calls'[c].pc = "updateWrite"
      PROVE  Applying(calls[c])'
  BY <1>0, <1>7 DEF UpdateRead, Carries, Applying, RunExists
<1>8. ASSUME UpdateWrite(c), call.input.kind = "complete", calls'[c].pc = "transition",
             Carries(c)
      PROVE  Applying(calls[c])'
  <2> SUFFICES ASSUME call.input.patch.ref # NoRef,
                      runs'[id].status \notin {"unused", "removed"}
               PROVE  call.input.patch.ref \in credentials'[call.at].had
    BY <1>8 DEF Carries, Applying, RunExists
  <2>1. /\ id \in RunIds /\ runs[id].status # "unused" /\ call.at = runs[id].credential
        /\ call.at \in CredentialIds /\ call.seen \in CredentialRow /\ call.patch \in Patch
    BY <1>0, <1>8, RotationAssumption
       DEF UpdateWrite, Shape, Tied, Transitions, CallRecord
  <2>2. RunExists(id)
    BY <2>1, NewRuns DEF Inserted, RunExists
  <2>3. Exists(call.at)
    BY <2>1, <2>2 DEF IInv, ForeignKeys
  <2>4. credentials[call.at] \in CredentialRow
    BY <1>0, <2>1, <2>3 DEF TablesOK, Exists
  <2>5. credentials'[call.at] = Written(credentials[call.at], call.seen, call.patch)
    BY <1>0, <1>8, <2>1, <2>3 DEF UpdateWrite, TablesOK
  <2>6. /\ credentials[call.at].had \subseteq credentials'[call.at].had
        /\ call.patch.ref # NoRef => call.patch.ref \in credentials'[call.at].had
    BY <2>1, <2>4, <2>5, WrittenRow
  <2>7. \/ call.patch.ref = call.input.patch.ref
        \/ call.input.patch.ref \in credentials[call.at].had
    BY <1>0, <1>8, <2>2 DEF UpdateWrite, Applying
  <2> QED BY <2>6, <2>7
<1>9. ASSUME Transition(c), calls'[c].pc = "audit" PROVE Applying(calls[c])'
  BY <1>9 DEF Applying
<1>10. CASE Proceeds(c)
  BY <1>2, <1>3, <1>4, <1>5, <1>6, <1>7, <1>8, <1>9, <1>10 DEF Proceeds
<1> QED BY <1>0, <1>1, <1>10, CallSteps

\* The log only gains the events of calls that tell the truth.
LEMMA LogStep ==
  ASSUME IInv, Next
  PROVE  AuditMatchesOutcome'
<1>1. ASSUME NEW event \in audit PROVE runs'[event.run].status \in Outcomes(event.action)
  <2>1. event.run \in RunIds /\ event.action \in {"create"} \cup Transitions
    BY TypedParts DEF IInv, TablesOK, Event
  <2>2. runs[event.run].status \in Outcomes(event.action)
    BY DEF IInv, AuditMatchesOutcome
  <2> QED BY <2>1, <2>2, OutcomesAreStable
<1>2. ASSUME NEW c \in CallIds, Record(c), NEW event \in audit', event \notin audit
      PROVE  runs'[event.run].status \in Outcomes(event.action)
  <2>1. event = [action |-> Action(calls[c].input.kind), run |-> calls[c].run]
    BY <1>2 DEF Record
  <2>2. event.action = Action(calls[c].input.kind) /\ event.run = calls[c].run
    BY <2>1
  <2>3. Truthful(calls[c]) /\ UNCHANGED runs
    BY <1>2 DEF IInv, CallsTruthful, Record
  <2> QED BY <1>2, <2>2, <2>3 DEF Record, Truthful
<1>3. audit' = audit \/ \E c \in CallIds : Record(c)
  BY DEF Next, Step, ReadForCreate, ListForPlan, ReadRun, ReadForEdit, FindOpen, Inspect,
         InsertRun, InsertRefused, ReadCredential, UpdateRead, UpdateWrite, Transition,
         TransitionRefused, Fail, CreateCredential, DeleteCredential
<1> QED BY <1>1, <1>2, <1>3 DEF AuditMatchesOutcome

LEMMA Invariance == Spec => []IInv
<1>1. Init => IInv
  <2>1. Init => Typed
    BY IdleCall, RotationAssumption
       DEF Init, Typed, TypeOK, CallsOK, RunsOfCredentials, RunExists, UnusedRun, Run,
           RunStatuses
  <2> QED BY <2>1, IdleCall
       DEF Init, IInv, ForeignKeys, OneOpenRun, OpenRuns, OpenStatuses, Histories,
           TargetsApplied, AuditMatchesOutcome, CallsTied, Tied, CallsApplying, Applying,
           CallsTruthful, Truthful, RunExists, Exists, UnusedRun
<1>2. ASSUME IInv, Next PROVE IInv'
  <2>1. Typed'
    BY <1>2, TypedCallStep, TypedCatalogueStep DEF IInv, Next
  <2>2. ASSUME NEW c \in CallIds
        PROVE  Tied(calls[c])' /\ Applying(calls[c])' /\ Truthful(calls[c])'
    BY <1>2, Bystanders, CallMoves, OwnStep, TruthfulStep DEF IInv
  <2>3. CallsTied' /\ CallsApplying' /\ CallsTruthful'
    BY <2>2 DEF CallsTied, CallsApplying, CallsTruthful
  <2> QED BY <1>2, <2>1, <2>3, TablesStep, LogStep DEF IInv
<1>3. ASSUME IInv, UNCHANGED vars PROVE IInv'
  BY <1>3
     DEF vars, IInv, Typed, TypeOK, CallsOK, Shape, RunsOfCredentials, RunExists, Exists,
         ForeignKeys, OneOpenRun, OpenRuns, Histories, TargetsApplied, AuditMatchesOutcome,
         CallsTied, Tied, CallsApplying, Applying, CallsTruthful, Truthful
<1> QED BY <1>1, <1>2, <1>3, PTL DEF Spec

-----------------------------------------------------------------------------
(* What follows *)

\* However many calls create and plan runs at once, a credential has at most
\* one that is open.
THEOREM AtMostOneOpenRun == Spec => []OneOpenRun
<1>1. IInv => OneOpenRun
  BY DEF IInv
<1> QED BY <1>1, Invariance, PTL

\* A run is completed only when its target had been written to the credential,
\* whatever crashed, raced or edited the credential in between.
THEOREM CompletedRunsWereApplied == Spec => []CompletedMeansApplied
<1>1. IInv => CompletedMeansApplied
  BY DEF IInv, CompletedMeansApplied, ForeignKeys, TargetsApplied, RunExists
<1> QED BY <1>1, Invariance, PTL

\* No event of the log is contradicted by what became of its run.
THEOREM AuditTellsTheOutcome == Spec => []AuditMatchesOutcome
<1>1. IInv => AuditMatchesOutcome
  BY DEF IInv
<1> QED BY <1>1, Invariance, PTL

=============================================================================
