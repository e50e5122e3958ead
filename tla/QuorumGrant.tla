---------------------------- MODULE QuorumGrant ----------------------------
(***************************************************************************)
(* What a reviewed request promises, whatever it is for: it is granted     *)
(* only by a quorum of distinct reviewers none of whom refused, a refusal  *)
(* closes it, and what is closed stays closed.  Approvals and BreakGlass   *)
(* each implement this specification.                                      *)
(***************************************************************************)
EXTENDS Naturals, FiniteSets

CONSTANTS
  Ids,        \* the identifiers of requests
  Reviewers,  \* the principals that may vote on a request
  Quorums     \* the quorums a request may be opened with, positive numbers

VARIABLES
  phase,      \* [Ids -> Phases]
  required,   \* the quorum the request was opened with, 0 before that
  approvers   \* the distinct reviewers that approved

vars == <<phase, required, approvers>>

Phases == {"unused", "open", "granted", "closed"}

TypeOK ==
  /\ phase \in [Ids -> Phases]
  /\ required \in [Ids -> Quorums \cup {0}]
  /\ approvers \in [Ids -> SUBSET Reviewers]

Init ==
  /\ phase = [id \in Ids |-> "unused"]
  /\ required = [id \in Ids |-> 0]
  /\ approvers = [id \in Ids |-> {}]

Open(id, quorum) ==
  /\ phase[id] = "unused"
  /\ phase' = [phase EXCEPT ![id] = "open"]
  /\ required' = [required EXCEPT ![id] = quorum]
  /\ UNCHANGED approvers

\* One more reviewer approves; the last one the quorum needs grants.
Approve(id, reviewer) ==
  /\ phase[id] = "open"
  /\ reviewer \notin approvers[id]
  /\ approvers' = [approvers EXCEPT ![id] = @ \cup {reviewer}]
  /\ phase' = [phase EXCEPT ![id] =
                 IF Cardinality(approvers'[id]) >= required[id]
                 THEN "granted" ELSE "open"]
  /\ UNCHANGED required

\* One refusal is enough.
Refuse(id) ==
  /\ phase[id] = "open"
  /\ phase' = [phase EXCEPT ![id] = "closed"]
  /\ UNCHANGED <<required, approvers>>

\* Time ends any number of requests at once, granted or not.
Lapse(ids) ==
  /\ \A id \in ids : phase[id] \in {"open", "granted"}
  /\ phase' = [id \in Ids |-> IF id \in ids THEN "closed" ELSE phase[id]]
  /\ UNCHANGED <<required, approvers>>

Withdraw(id) ==
  /\ phase[id] = "granted"
  /\ phase' = [phase EXCEPT ![id] = "closed"]
  /\ UNCHANGED <<required, approvers>>

Next ==
  \/ \E id \in Ids, quorum \in Quorums : Open(id, quorum)
  \/ \E id \in Ids, reviewer \in Reviewers : Approve(id, reviewer)
  \/ \E id \in Ids : Refuse(id) \/ Withdraw(id)
  \/ \E ids \in SUBSET Ids : Lapse(ids)

Spec == Init /\ [][Next]_vars

=============================================================================
