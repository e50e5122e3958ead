----------------------------- MODULE Admission ------------------------------
(***************************************************************************)
(* The rows KeyLore counts callers with and the loop that clears them:     *)
(* PgRateLimitService, which counts the requests of a client address;      *)
(* the register of client assertions a token request presents; and         *)
(* MaintenanceService, whose run deletes old buckets and expired register  *)
(* rows among its sweeps.                                                  *)
(*                                                                         *)
(* Two databases are supported.  The embedded one runs one transaction at  *)
(* a time; over PostgreSQL the two statements of a check interleave with   *)
(* those of other connections and other servers.  One client address is    *)
(* modelled: buckets of different addresses share nothing.                 *)
(***************************************************************************)
EXTENDS Storage, Naturals, Sequences

CONSTANTS
  Requests,     \* slots for requests in progress
  MaxRequests,  \* rateLimitMaxRequests
  Window,       \* rateLimitWindowMs
  Assertions,   \* client assertions: issuer and jti
  NoAssertion,
  Expiry,       \* [Assertions -> times]: the exp claim
  NoBucket,
  Times         \* bound: the instants the clock may show, 0 the first

\* Counters stop at the first value that tells the properties apart.
CountBound == MaxRequests + 1

Bucket == [count : 1..CountBound, start : Times]

ASSUME AdmissionAssumption ==
  /\ MaxRequests \in Nat \ {0} /\ Window \in Nat \ {0}
  /\ Times \subseteq Nat /\ 0 \in Times
  /\ Expiry \in [Assertions -> Nat]
  /\ NoAssertion \notin Assertions
  /\ NoBucket \notin Bucket

VARIABLES
  now,
  bucket,    \* the row of request_rate_limits
  jtis,      \* the rows of oauth_client_assertion_jtis
  slot,      \* the requests in progress
  up,        \* whether the server process is up
  sweep,     \* the maintenance run in progress
  admitted,  \* history: the requests let through, by start of their window
  accepted   \* history: how often each assertion was accepted while valid

vars == <<now, database, bucket, jtis, slot, up, sweep, admitted, accepted>>

Empty ==
  [pc |-> "idle", at |-> 0, attempt |-> 0, seen |-> NoBucket,
   assertion |-> NoAssertion]

\* A plausible mistake: the sweep of the register is forgotten.
SweepsButOne == <<"expireStale", "rateLimits", "authorizationCodes">>

\* The sweeps of a run, in order; the first stands for those of approvals,
\* break-glass grants, access tokens and refresh tokens.
Sweeps == <<"expireStale", "rateLimits", "authorizationCodes", "assertions">>

NoRun == [task |-> "none", next |-> 1]

TypeOK ==
  /\ now \in Times /\ database \in Databases
  /\ bucket \in Bucket \cup {NoBucket}
  /\ jtis \subseteq Assertions
  /\ slot \in [Requests ->
                 [pc : {"idle", "check", "write", "token", "register"},
                  at : Times, attempt : 0..1,
                  seen : Bucket \cup {NoBucket},
                  assertion : Assertions \cup {NoAssertion}]]
  /\ up \in BOOLEAN
  /\ sweep \in [task : {"none", "manual", "scheduled"}, next : 1..Len(Sweeps)]
  /\ admitted \in [Times -> 0..CountBound]
  /\ accepted \in [Assertions -> 0..2]

Init ==
  /\ now = 0
  /\ database \in Databases
  /\ bucket = NoBucket
  /\ jtis = {}
  /\ slot = [r \in Requests |-> Empty]
  /\ up = TRUE
  /\ sweep = NoRun
  /\ admitted = [t \in Times |-> 0]
  /\ accepted = [a \in Assertions |-> 0]

UpTo(n, bound) == IF n < bound THEN n ELSE bound

-----------------------------------------------------------------------------
(* The rate limit.                                                         *)

\* A request arrives: check reads the clock before its transaction starts.
Arrive(r) ==
  /\ up
  /\ slot[r].pc = "idle"
  /\ slot' = [slot EXCEPT ![r].pc = "check", ![r].at = now]
  /\ UNCHANGED <<now, database, bucket, jtis, up, sweep, admitted, accepted>>

\* The row check writes, having read row at the time at.
Counted(row, at) ==
  IF row = NoBucket THEN [count |-> 1, start |-> now]
  ELSE IF at - row.start >= Window THEN [count |-> 1, start |-> at]
  ELSE [row EXCEPT !.count = UpTo(@ + 1, CountBound)]

Limited(row) == row.count > MaxRequests

\* The row is written; the request is refused or goes on.
WriteBucket(r, row) ==
  /\ bucket' = row
  /\ IF Limited(row)
     THEN slot' = [slot EXCEPT ![r] = Empty] /\ UNCHANGED admitted
     ELSE /\ slot' = [slot EXCEPT ![r] = [Empty EXCEPT !.pc = "token"]]
          /\ admitted' = [admitted EXCEPT ![row.start] = UpTo(@ + 1, CountBound)]

\* The embedded database: the transaction is one step.
Check(r) ==
  /\ database = "local"
  /\ slot[r].pc = "check"
  /\ WriteBucket(r, Counted(bucket, slot[r].at))
  /\ UNCHANGED <<now, database, jtis, up, sweep, accepted>>

\* PostgreSQL: the SELECT takes no lock.
ReadBucket(r) ==
  /\ database = "postgres"
  /\ slot[r].pc = "check"
  /\ slot' = [slot EXCEPT ![r].pc = "write", ![r].seen = bucket]
  /\ UNCHANGED <<now, database, bucket, jtis, up, sweep, admitted, accepted>>

\* Then an INSERT if there was no row, an UPDATE with absolute values if there
\* was one.
WriteSeen(r) ==
  /\ slot[r].pc = "write"
  /\ (slot[r].seen = NoBucket) <=> (bucket = NoBucket)
  /\ WriteBucket(r, Counted(slot[r].seen, slot[r].at))
  /\ UNCHANGED <<now, database, jtis, up, sweep, accepted>>

\* The row appeared meanwhile: 23505, tried once more.
RetryCheck(r) ==
  /\ slot[r].pc = "write"
  /\ slot[r].seen = NoBucket /\ bucket # NoBucket
  /\ slot' = [slot EXCEPT ![r] = IF slot[r].attempt = 0
                                 THEN [@ EXCEPT !.pc = "check", !.attempt = 1,
                                                !.seen = NoBucket]
                                 ELSE Empty]
  /\ UNCHANGED <<now, database, bucket, jtis, up, sweep, admitted, accepted>>

\* The row went meanwhile: the UPDATE returns nothing and check throws.
LoseBucket(r) ==
  /\ slot[r].pc = "write"
  /\ slot[r].seen # NoBucket /\ bucket = NoBucket
  /\ slot' = [slot EXCEPT ![r] = Empty]
  /\ UNCHANGED <<now, database, bucket, jtis, up, sweep, admitted, accepted>>

-----------------------------------------------------------------------------
(* The client assertion of a token request.                                *)

\* A request that brings no assertion is done with.
PassBy(r) ==
  /\ slot[r].pc = "token"
  /\ slot' = [slot EXCEPT ![r] = Empty]
  /\ UNCHANGED <<now, database, bucket, jtis, up, sweep, admitted, accepted>>

\* verifyClientAssertion: signature and claims, among them exp.
VerifyClientAssertion(r) ==
  /\ slot[r].pc = "token"
  /\ \E a \in Assertions :
       /\ now < Expiry[a]
       /\ slot' = [slot EXCEPT ![r].pc = "register", ![r].assertion = a]
  /\ UNCHANGED <<now, database, bucket, jtis, up, sweep, admitted, accepted>>

\* A plausible mistake: an upsert.
Upsert(rows, a) == [rows |-> rows \cup {a}, new |-> TRUE]

\* What register leaves in the table and answers: the primary key decides,
\* whatever was read before.
Register(rows, a) == [rows |-> rows \cup {a}, new |-> a \notin rows]

RegisterAssertion(r) ==
  /\ slot[r].pc = "register"
  /\ LET a == slot[r].assertion
         result == Register(jtis, a)
     IN
     /\ jtis' = result.rows
     /\ accepted' = IF result.new /\ now < Expiry[a]
                    THEN [accepted EXCEPT ![a] = UpTo(@ + 1, 2)] ELSE accepted
  /\ slot' = [slot EXCEPT ![r] = Empty]
  /\ UNCHANGED <<now, database, bucket, up, sweep, admitted>>

\* register takes every error of the database for a replay.
RegisterFails(r) ==
  /\ slot[r].pc = "register"
  /\ slot' = [slot EXCEPT ![r] = Empty]
  /\ UNCHANGED <<now, database, bucket, jtis, up, sweep, admitted, accepted>>

-----------------------------------------------------------------------------
(* MaintenanceService.                                                     *)

\* runOnce begins, by the timer or by an operator's call.
StartRun(task) ==
  /\ up
  /\ sweep.task = "none"
  /\ sweep' = [task |-> task, next |-> 1]
  /\ UNCHANGED <<now, database, bucket, jtis, slot, up, admitted, accepted>>

\* The process stops: runs and requests end, rows stay.
Die ==
  /\ up' = FALSE
  /\ sweep' = NoRun
  /\ slot' = [r \in Requests |-> Empty]
  /\ UNCHANGED <<now, database, bucket, jtis, admitted, accepted>>

\* runOnce throws when a run is in progress.  An operator gets the error; no
\* one catches what the timer's call throws, and the process ends.
TimerOverlapsRun ==
  /\ up
  /\ sweep.task # "none"
  /\ Die

\* A plausible mistake: a bucket that is old at once.
AnyBucket == bucket # NoBucket /\ now >= bucket.start

OldBucket == bucket # NoBucket /\ now > bucket.start + 4 * Window

\* cleanup deletes what has expired.
LiveAssertions == {a \in jtis : Expiry[a] > now}

\* One sweep; the run ends after the last.
Sweep ==
  /\ sweep.task # "none"
  /\ sweep' = IF sweep.next = Len(Sweeps) THEN NoRun
              ELSE [sweep EXCEPT !.next = @ + 1]
  /\ bucket' = IF Sweeps[sweep.next] = "rateLimits" /\ OldBucket
               THEN NoBucket ELSE bucket
  /\ jtis' = IF Sweeps[sweep.next] = "assertions" THEN LiveAssertions ELSE jtis
  /\ UNCHANGED <<now, database, slot, up, admitted, accepted>>

\* A sweep throws: the rest of the run is skipped, and a run of the timer takes
\* the process with it.
SweepFails ==
  /\ sweep.task # "none"
  /\ IF sweep.task = "scheduled" THEN Die
     ELSE /\ sweep' = NoRun
          /\ UNCHANGED <<now, database, bucket, jtis, slot, up, admitted, accepted>>

Crash == up /\ Die

Restart ==
  /\ ~up
  /\ up' = TRUE
  /\ UNCHANGED <<now, database, bucket, jtis, slot, sweep, admitted, accepted>>

Tick ==
  /\ now' \in {t \in Times : t > now}
  /\ UNCHANGED <<database, bucket, jtis, slot, up, sweep, admitted, accepted>>

RequestStep(r) ==
  \/ Arrive(r) \/ Check(r) \/ ReadBucket(r) \/ WriteSeen(r) \/ RetryCheck(r)
  \/ LoseBucket(r) \/ PassBy(r) \/ VerifyClientAssertion(r)
  \/ RegisterAssertion(r) \/ RegisterFails(r)

Next ==
  \/ \E r \in Requests : RequestStep(r)
  \/ \E task \in {"manual", "scheduled"} : StartRun(task)
  \/ TimerOverlapsRun \/ Sweep \/ SweepFails \/ Crash \/ Restart \/ Tick

\* The supervisor restarts the process, the timer fires again and again while
\* it is up, and a sweep that is tried again and again succeeds again and
\* again, each with the time to finish before the timer fires.
Fairness ==
  /\ WF_vars(Restart)
  /\ SF_vars(StartRun("scheduled"))
  /\ \A i \in 1..Len(Sweeps) : SF_vars(Sweep /\ sweep.next = i)

Spec == Init /\ [][Next]_vars
FairSpec == Spec /\ Fairness

-----------------------------------------------------------------------------
\* No more requests of a client address than the limit are let through in one
\* window (docs/configuration.md:52), whoever deletes buckets meanwhile.
RateLimitHolds == \A t \in Times : admitted[t] <= MaxRequests

\* On the embedded database it holds.
LocalLimitHolds == database = "local" => RateLimitHolds

\* Of all the requests that bring one assertion, at most one is let through
\* while the assertion is valid, although the register is swept meanwhile.
AssertionsAreUsedOnce == \A a \in Assertions : accepted[a] <= 1

\* Whatever fails or stops on the way, the row of an expired assertion is gone
\* some day.
ExpiredRowsAreSwept ==
  \A a \in Assertions : (a \in jtis /\ now >= Expiry[a]) ~> (a \notin jtis)
=============================================================================
