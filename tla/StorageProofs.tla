---------------------------- MODULE StorageProofs ----------------------------
(***************************************************************************)
(* The two components whose behaviour depends on the database, Admission   *)
(* and Backup, for every value of their constants.                         *)
(*                                                                         *)
(* Of Admission: the types, that an assertion is used once, and that on    *)
(* the embedded database no window lets more requests through than the     *)
(* limit.  Of Backup: the types, that a full backup of a local database is *)
(* complete and that a full restore of one leaves nothing else, and that   *)
(* a tenant's restore deletes no more than its rows and those that         *)
(* reference them.  The two share nothing but the database they run on.    *)
(***************************************************************************)
EXTENDS Admission, Backup, TLAPS

-----------------------------------------------------------------------------
(* Admission: types *)

Pcs == {"idle", "check", "write", "token", "register"}

Slot ==
  [pc : Pcs, at : Times, attempt : 0..1, seen : Bucket \cup {NoBucket},
   assertion : Assertions \cup {NoAssertion}]

\* What a request in progress knows: only a request that verified one has an
\* assertion, only PostgreSQL lets a request hold a row that it read, and a
\* clock that was read is not ahead.
Knows(s) ==
  /\ s.pc = "register" => s.assertion \in Assertions
  /\ s.pc = "write" => database = "postgres"
  /\ s.at <= now

TypeInv ==
  /\ now \in Times /\ database \in Databases
  /\ bucket \in Bucket \cup {NoBucket}
  /\ bucket # NoBucket => bucket \in Bucket
  /\ jtis \subseteq Assertions
  /\ slot \in [Requests -> Slot]
  /\ up \in BOOLEAN
  /\ sweep \in [task : {"none", "manual", "scheduled"}, next : 1..Len(Sweeps)]
  /\ admitted \in [Times -> 0..CountBound]
  /\ accepted \in [Assertions -> 0..2]
  /\ \A r \in Requests : Knows(slot[r])

LEMMA Bounds ==
  /\ CountBound \in Nat /\ MaxRequests \in Nat /\ MaxRequests > 0
  /\ CountBound = MaxRequests + 1
  /\ Times \subseteq Nat /\ 0 \in Times
  /\ Window \in Nat /\ Window > 0
  BY AdmissionAssumption DEF CountBound

LEMMA UpToBound ==
  ASSUME NEW n \in Nat, NEW bound \in Nat
  PROVE  UpTo(n, bound) \in 0..bound /\ UpTo(n, bound) <= n
  BY DEF UpTo

LEMMA EmptyType == Empty \in Slot
  BY Bounds DEF Empty, Slot, Pcs

LEMMA EmptyKnows ==
  ASSUME now \in Times
  PROVE  Knows(Empty)
  BY Bounds DEF Empty, Knows

\* A request moves on, and the others stay where they were.
LEMMA SlotStep ==
  ASSUME TypeInv, NEW r \in Requests, NEW s \in Slot, Knows(s),
         slot' = [slot EXCEPT ![r] = s], UNCHANGED <<now, database>>
  PROVE  /\ slot' \in [Requests -> Slot]
         /\ \A q \in Requests : Knows(slot[q])'
  <1>1. slot' \in [Requests -> Slot]
    BY DEF TypeInv
  <1>2. ASSUME NEW q \in Requests
        PROVE  Knows(slot[q])'
    <2>1. slot'[q] = s \/ slot'[q] = slot[q]
      BY DEF TypeInv
    <2> QED
      BY <2>1 DEF TypeInv, Knows
  <1> QED
    BY <1>1, <1>2

\* Every request ends at once, as when the process stops.
LEMMA AllEmpty ==
  ASSUME TypeInv, slot' = [r \in Requests |-> Empty], UNCHANGED <<now, database>>
  PROVE  /\ slot' \in [Requests -> Slot]
         /\ \A q \in Requests : Knows(slot[q])'
  <1>1. Knows(Empty)
    BY EmptyKnows DEF TypeInv
  <1> QED
    BY <1>1, EmptyType DEF Knows

LEMMA CountedType ==
  ASSUME NEW row \in Bucket \cup {NoBucket}, row # NoBucket => row \in Bucket,
         NEW at \in Times, now \in Times
  PROVE  Counted(row, at) \in Bucket
  <1>1. CASE row = NoBucket
    BY <1>1, Bounds DEF Counted, Bucket
  <1>2. CASE row \in Bucket
    <2>1. row.count \in Nat /\ row.count >= 1
      BY <1>2, Bounds DEF Bucket
    <2>2. UpTo(row.count + 1, CountBound) \in 1..CountBound
      BY <2>1, Bounds DEF UpTo
    <2> QED
      BY <1>2, <2>2, Bounds DEF Counted, Bucket
  <1> QED
    BY <1>1, <1>2

LEMMA WriteTypes ==
  ASSUME TypeInv, NEW r \in Requests, NEW row \in Bucket, WriteBucket(r, row),
         UNCHANGED <<now, database>>
  PROVE  /\ bucket' \in Bucket
         /\ slot' \in [Requests -> Slot]
         /\ \A q \in Requests : Knows(slot[q])'
         /\ admitted' \in [Times -> 0..CountBound]
  <1>1. bucket' = row
    BY DEF WriteBucket
  <1>2. row.start \in Times /\ admitted[row.start] + 1 \in Nat
    <2>1. row.start \in Times
      BY DEF Bucket
    <2>2. admitted[row.start] \in 0..CountBound
      BY <2>1 DEF TypeInv
    <2> QED
      BY <2>1, <2>2, Bounds
  <1>3. UpTo(admitted[row.start] + 1, CountBound) \in 0..CountBound
    BY <1>2, UpToBound, Bounds
  <1>4. admitted' \in [Times -> 0..CountBound]
    BY <1>2, <1>3 DEF WriteBucket, TypeInv
  <1>5. [Empty EXCEPT !.pc = "token"] \in Slot
    BY EmptyType DEF Slot, Pcs
  <1>6. Knows(Empty) /\ Knows([Empty EXCEPT !.pc = "token"])
    BY EmptyKnows, Bounds DEF TypeInv, Knows, Empty
  <1>7. \/ slot' = [slot EXCEPT ![r] = Empty]
        \/ slot' = [slot EXCEPT ![r] = [Empty EXCEPT !.pc = "token"]]
    BY DEF WriteBucket
  <1>8. /\ slot' \in [Requests -> Slot]
        /\ \A q \in Requests : Knows(slot[q])'
    BY <1>5, <1>6, <1>7, EmptyType, SlotStep
  <1> QED
    BY <1>1, <1>4, <1>8

\* The steps of a request that change nothing but its slot.
LEMMA SlotOnly ==
  ASSUME TypeInv, NEW r \in Requests, NEW s \in Slot, Knows(s),
         slot' = [slot EXCEPT ![r] = s],
         UNCHANGED <<now, database, bucket, jtis, up, sweep, admitted, accepted>>
  PROVE  TypeInv'
  <1>1. /\ slot' \in [Requests -> Slot]
        /\ \A q \in Requests : Knows(slot[q])'
    BY SlotStep
  <1> QED
    BY <1>1 DEF TypeInv

LEMMA SweepTypes ==
  /\ NoRun \in [task : {"none", "manual", "scheduled"}, next : 1..Len(Sweeps)]
  /\ \A task \in {"manual", "scheduled"} :
       [task |-> task, next |-> 1] \in
         [task : {"none", "manual", "scheduled"}, next : 1..Len(Sweeps)]
  /\ Len(Sweeps) = 4
  BY DEF NoRun, Sweeps

LEMMA DieTypes ==
  ASSUME TypeInv, Die
  PROVE  TypeInv'
  <1>1. UNCHANGED <<now, database>> /\ slot' = [r \in Requests |-> Empty]
    BY DEF Die
  <1>2. /\ slot' \in [Requests -> Slot]
        /\ \A q \in Requests : Knows(slot[q])'
    BY <1>1, AllEmpty
  <1> QED
    BY <1>2, SweepTypes DEF Die, TypeInv

LEMMA RequestTypes ==
  ASSUME TypeInv, NEW r \in Requests, RequestStep(r)
  PROVE  TypeInv'
  <1>1. slot[r] \in Slot /\ Knows(slot[r]) /\ now \in Nat
    BY Bounds DEF TypeInv
  <1>2. Knows(Empty) /\ Empty \in Slot
    BY EmptyType, EmptyKnows DEF TypeInv
  <1>3. CASE Arrive(r)
    <2> DEFINE s == [slot[r] EXCEPT !.pc = "check", !.at = now]
    <2>1. s \in Slot /\ Knows(s)
      <3>1. s \in Slot
        BY <1>1 DEF Slot, Pcs, TypeInv
      <3>2. s.pc = "check" /\ s.at = now
        BY <1>1 DEF Slot
      <3> QED
        BY <1>1, <3>1, <3>2 DEF Knows
    <2>2. slot' = [slot EXCEPT ![r] = s]
      BY <1>3 DEF Arrive
    <2> HIDE DEF s
    <2> QED
      BY <1>3, <2>1, <2>2, SlotOnly DEF Arrive
  <1>4. CASE Check(r)
    <2>1. Counted(bucket, slot[r].at) \in Bucket
      BY <1>1, CountedType DEF TypeInv, Slot
    <2>2. /\ bucket' \in Bucket
          /\ slot' \in [Requests -> Slot]
          /\ \A q \in Requests : Knows(slot[q])'
          /\ admitted' \in [Times -> 0..CountBound]
      BY <1>4, <2>1, WriteTypes DEF Check
    <2> QED
      BY <1>4, <2>2 DEF Check, TypeInv
  <1>5. CASE ReadBucket(r)
    <2> DEFINE s == [slot[r] EXCEPT !.pc = "write", !.seen = bucket]
    <2>1. s \in Slot /\ Knows(s)
      BY <1>1, <1>5 DEF ReadBucket, Slot, Pcs, Knows, TypeInv
    <2>2. slot' = [slot EXCEPT ![r] = s]
      BY <1>5 DEF ReadBucket
    <2> HIDE DEF s
    <2> QED
      BY <1>5, <2>1, <2>2, SlotOnly DEF ReadBucket
  <1>6. CASE WriteSeen(r)
    <2>1. /\ slot[r].seen \in Bucket \cup {NoBucket}
          /\ slot[r].seen # NoBucket => slot[r].seen \in Bucket
          /\ slot[r].at \in Times
      BY <1>1 DEF Slot
    <2>2. Counted(slot[r].seen, slot[r].at) \in Bucket
      BY <2>1, CountedType DEF TypeInv
    <2>3. /\ bucket' \in Bucket
          /\ slot' \in [Requests -> Slot]
          /\ \A q \in Requests : Knows(slot[q])'
          /\ admitted' \in [Times -> 0..CountBound]
      BY <1>6, <2>2, WriteTypes DEF WriteSeen
    <2> QED
      BY <1>6, <2>3 DEF WriteSeen, TypeInv
  <1>7. CASE RetryCheck(r)
    <2> DEFINE s == [slot[r] EXCEPT !.pc = "check", !.attempt = 1, !.seen = NoBucket]
    <2>1. s \in Slot /\ Knows(s)
      <3>1. s \in Slot
        <4>1. /\ [slot[r] EXCEPT !.attempt = 1] \in Slot
              /\ [slot[r] EXCEPT !.attempt = 1].at = slot[r].at
          BY <1>1 DEF Slot
        <4>2. s = [[slot[r] EXCEPT !.attempt = 1] EXCEPT !.pc = "check", !.seen = NoBucket]
          BY <1>1 DEF Slot
        <4> QED
          BY <4>1, <4>2 DEF Slot, Pcs
      <3>2. s.pc = "check" /\ s.at = slot[r].at
        BY <1>1 DEF Slot
      <3> QED
        BY <1>1, <3>1, <3>2 DEF Knows
    <2>2. slot' = [slot EXCEPT ![r] = s] \/ slot' = [slot EXCEPT ![r] = Empty]
      BY <1>7 DEF RetryCheck
    <2> HIDE DEF s
    <2> QED
      BY <1>2, <1>7, <2>1, <2>2, SlotOnly DEF RetryCheck
  <1>8. CASE LoseBucket(r) \/ PassBy(r) \/ RegisterFails(r)
    BY <1>2, <1>8, SlotOnly DEF LoseBucket, PassBy, RegisterFails
  <1>9. CASE VerifyClientAssertion(r)
    <2>1. PICK a \in Assertions :
            slot' = [slot EXCEPT ![r].pc = "register", ![r].assertion = a]
      BY <1>9 DEF VerifyClientAssertion
    <2> DEFINE s == [slot[r] EXCEPT !.pc = "register", !.assertion = a]
    <2>2. s \in Slot /\ Knows(s)
      BY <1>1 DEF Slot, Pcs, Knows
    <2>3. slot' = [slot EXCEPT ![r] = s]
      BY <2>1
    <2> HIDE DEF s
    <2> QED
      BY <1>9, <2>2, <2>3, SlotOnly DEF VerifyClientAssertion
  <1>10. CASE RegisterAssertion(r)
    <2> DEFINE a == slot[r].assertion
    <2>1. a \in Assertions
      BY <1>1, <1>10 DEF RegisterAssertion, Knows
    <2>2. jtis' \subseteq Assertions
      BY <1>10, <2>1 DEF RegisterAssertion, Register, TypeInv
    <2>3. accepted[a] \in 0..2
      BY <2>1 DEF TypeInv
    <2>4. UpTo(accepted[a] + 1, 2) \in 0..2
      BY <2>3 DEF UpTo
    <2>5. accepted' \in [Assertions -> 0..2]
      BY <1>10, <2>1, <2>4 DEF RegisterAssertion, TypeInv
    <2>6. /\ slot' \in [Requests -> Slot]
          /\ \A q \in Requests : Knows(slot[q])'
      BY <1>2, <1>10, SlotStep DEF RegisterAssertion
    <2> QED
      BY <1>10, <2>2, <2>5, <2>6 DEF RegisterAssertion, TypeInv
  <1> QED
    BY <1>3, <1>4, <1>5, <1>6, <1>7, <1>8, <1>9, <1>10 DEF RequestStep

LEMMA TypeStep == TypeInv /\ [Next]_vars => TypeInv'
  <1> SUFFICES ASSUME TypeInv, [Next]_vars PROVE TypeInv'
    OBVIOUS
  <1>1. ASSUME NEW r \in Requests, RequestStep(r)
        PROVE  TypeInv'
    BY <1>1, RequestTypes
  <1>2. ASSUME NEW task \in {"manual", "scheduled"}, StartRun(task)
        PROVE  TypeInv'
    BY <1>2, SweepTypes DEF StartRun, TypeInv, Knows
  <1>3. CASE TimerOverlapsRun \/ Crash
    BY <1>3, DieTypes DEF TimerOverlapsRun, Crash
  <1>4. CASE Sweep
    <2>1. sweep' \in [task : {"none", "manual", "scheduled"}, next : 1..Len(Sweeps)]
      BY <1>4, SweepTypes DEF Sweep, TypeInv
    <2>2. /\ bucket' \in Bucket \cup {NoBucket}
          /\ bucket' # NoBucket => bucket' \in Bucket
      BY <1>4 DEF Sweep, TypeInv
    <2>3. jtis' \subseteq Assertions
      BY <1>4 DEF Sweep, TypeInv, LiveAssertions
    <2> QED
      BY <1>4, <2>1, <2>2, <2>3 DEF Sweep, TypeInv, Knows
  <1>5. CASE SweepFails
    <2>1. CASE Die
      BY <2>1, DieTypes
    <2>2. CASE ~Die
      BY <1>5, <2>2, SweepTypes DEF SweepFails, TypeInv, Knows
    <2> QED
      BY <2>1, <2>2
  <1>6. CASE Restart
    BY <1>6 DEF Restart, TypeInv, Knows
  <1>7. CASE Tick
    <2>1. now' \in Times /\ now \in Nat /\ now' \in Nat /\ now <= now'
      BY <1>7, Bounds DEF Tick, TypeInv
    <2>2. ASSUME NEW q \in Requests
          PROVE  Knows(slot[q])'
      <3>1. slot[q].at \in Nat /\ slot[q].at <= now /\ slot'[q] = slot[q]
        BY <1>7, Bounds DEF Tick, TypeInv, Slot, Knows
      <3> QED
        BY <1>7, <2>1, <3>1 DEF Tick, TypeInv, Knows
    <2> QED
      BY <1>7, <2>1, <2>2 DEF Tick, TypeInv
  <1>8. CASE UNCHANGED vars
    BY <1>8 DEF vars, TypeInv, Knows
  <1> QED
    BY <1>1, <1>2, <1>3, <1>4, <1>5, <1>6, <1>7, <1>8 DEF Next

LEMMA TypesInvariant == Spec => []TypeInv
  <1>1. Init => TypeInv
    <2> SUFFICES ASSUME Init PROVE TypeInv
      OBVIOUS
    <2>1. now = 0 /\ slot = [r \in Requests |-> Empty]
      BY DEF Init
    <2>2. \A r \in Requests : Knows(slot[r])
      BY <2>1, EmptyKnows, Bounds
    <2>3. slot \in [Requests -> Slot]
      BY <2>1, EmptyType
    <2>4. /\ admitted \in [Times -> 0..CountBound]
          /\ accepted \in [Assertions -> 0..2]
      BY Bounds DEF Init
    <2> QED
      BY <2>1, <2>2, <2>3, <2>4, Bounds, SweepTypes DEF Init, TypeInv
  <1> QED
    BY <1>1, TypeStep, PTL DEF Spec

\* The rows, the slots and the histories always have their types.
THEOREM AdmissionTypes == Spec => []TypeOK
  <1>1. TypeInv => TypeOK
    BY DEF TypeInv, TypeOK, Slot, Pcs
  <1> QED
    BY <1>1, TypesInvariant, PTL

-----------------------------------------------------------------------------
(* Admission: the register of assertions *)

\* An assertion that was accepted while it was valid is in the register for as
\* long as it is valid: the sweep takes none that could still be replayed.
Spent(a) ==
  \/ accepted[a] = 0
  \/ accepted[a] = 1 /\ (a \in jtis \/ now >= Expiry[a])

LEMMA ClockMovesOn ==
  ASSUME TypeInv, [Next]_vars
  PROVE  now \in Nat /\ now' \in Nat /\ now <= now'
  <1>1. now \in Nat /\ \A t \in Times : t \in Nat
    BY Bounds DEF TypeInv
  <1>2. now' = now \/ (now' \in Times /\ now' > now)
    BY DEF Next, vars, RequestStep, Arrive, Check, ReadBucket, WriteSeen, RetryCheck,
      LoseBucket, PassBy, VerifyClientAssertion, RegisterAssertion, RegisterFails,
      StartRun, TimerOverlapsRun, Die, Sweep, SweepFails, Crash, Restart, Tick
  <1> QED
    BY <1>1, <1>2

LEMMA SpentStep ==
  ASSUME TypeInv, [Next]_vars, NEW a \in Assertions, Spent(a)
  PROVE  Spent(a)'
  <1>1. now \in Nat /\ now' \in Nat /\ now <= now' /\ Expiry[a] \in Nat
    BY ClockMovesOn, AdmissionAssumption
  <1>2. ASSUME NEW r \in Requests, RegisterAssertion(r), slot[r].assertion = a
        PROVE  Spent(a)'
    <2>1. a \in jtis' /\ now' = now
      BY <1>2 DEF RegisterAssertion, Register
    <2>2. CASE a \notin jtis /\ now < Expiry[a]
      <3>1. accepted[a] = 0
        BY <1>1, <2>2 DEF Spent
      <3>2. accepted'[a] = UpTo(accepted[a] + 1, 2)
        BY <1>2, <2>2 DEF RegisterAssertion, Register, TypeInv
      <3> QED
        BY <2>1, <3>1, <3>2 DEF Spent, UpTo
    <2>3. CASE a \in jtis \/ ~(now < Expiry[a])
      <3>1. accepted' = accepted
        BY <1>2, <2>3 DEF RegisterAssertion, Register
      <3> QED
        BY <2>1, <3>1 DEF Spent
    <2> QED
      BY <2>2, <2>3
  <1>3. ASSUME NEW r \in Requests, RegisterAssertion(r), slot[r].assertion # a
        PROVE  accepted'[a] = accepted[a] /\ jtis \subseteq jtis'
    BY <1>3 DEF RegisterAssertion, Register, TypeInv
  <1>4. ASSUME accepted'[a] = accepted[a], a \in jtis => a \in jtis' \/ now >= Expiry[a]
        PROVE  Spent(a)'
    BY <1>1, <1>4 DEF Spent
  <1>5. CASE Sweep
    BY <1>1, <1>4, <1>5 DEF Sweep, LiveAssertions
  <1>6. CASE UNCHANGED <<jtis, accepted>>
    BY <1>4, <1>6
  <1>7. \/ Sweep \/ UNCHANGED <<jtis, accepted>>
        \/ \E r \in Requests : RegisterAssertion(r)
    BY DEF Next, vars, RequestStep, Arrive, Check, ReadBucket, WriteSeen, RetryCheck,
      LoseBucket, PassBy, VerifyClientAssertion, RegisterFails, StartRun,
      TimerOverlapsRun, Die, SweepFails, Crash, Restart, Tick
  <1> QED
    BY <1>2, <1>3, <1>4, <1>5, <1>6, <1>7

LEMMA SpentInvariant == Spec => [](\A a \in Assertions : Spent(a))
  <1>1. Init => \A a \in Assertions : Spent(a)
    BY DEF Init, Spent
  <1>2. TypeInv /\ [Next]_vars /\ (\A a \in Assertions : Spent(a))
        => (\A a \in Assertions : Spent(a))'
    BY SpentStep
  <1> QED
    BY <1>1, <1>2, TypesInvariant, PTL DEF Spec

\* Of the requests that bring one assertion while it is valid, at most one is
\* let through, on either database, across sweeps, crashes and restarts.
THEOREM AssertionsAreSingleUse == Spec => []AssertionsAreUsedOnce
  <1>1. (\A a \in Assertions : Spent(a)) => AssertionsAreUsedOnce
    BY DEF Spent, AssertionsAreUsedOnce
  <1> QED
    BY <1>1, SpentInvariant, PTL

-----------------------------------------------------------------------------
(* Admission: the rate limit on the embedded database *)

\* The count of a bucket covers what its window let through, and no window
\* that let something through can begin again: its bucket is there, or a later
\* one, or the clock has left its beginning behind.
Counts ==
  /\ \A t \in Times : admitted[t] <= MaxRequests
  /\ bucket # NoBucket =>
       /\ bucket.start <= now
       /\ admitted[bucket.start] <= bucket.count
       /\ \A t \in Times : admitted[t] > 0 => t <= bucket.start
  /\ bucket = NoBucket => \A t \in Times : admitted[t] > 0 => t < now

LocalCounts == database = "local" => Counts

LEMMA CountTypes ==
  ASSUME TypeInv
  PROVE  /\ now \in Nat
         /\ \A t \in Times : t \in Nat /\ admitted[t] \in Nat
         /\ bucket # NoBucket =>
              /\ bucket \in Bucket /\ bucket.start \in Times /\ bucket.start \in Nat
              /\ bucket.count \in Nat /\ bucket.count > 0
  <1>1. now \in Nat /\ \A t \in Times : t \in Nat
    BY Bounds DEF TypeInv
  <1>2. \A t \in Times : admitted[t] \in Nat
    BY Bounds DEF TypeInv
  <1>3. bucket # NoBucket =>
          /\ bucket \in Bucket /\ bucket.start \in Times
          /\ bucket.count \in 1..CountBound
    BY DEF TypeInv, Bucket
  <1>4. \A n \in 1..CountBound : n \in Nat /\ n > 0
    BY Bounds
  <1> QED
    BY <1>1, <1>2, <1>3, <1>4

\* The row that a check counts in one transaction: a first row of a window
\* that let nothing through yet, or the row that was there, counted on.
LEMMA CountedRow ==
  ASSUME TypeInv, Counts, NEW at \in Times, at <= now
  PROVE  LET row == Counted(bucket, at) IN
         /\ row \in Bucket /\ row # NoBucket
         /\ row.start \in Times /\ row.start \in Nat /\ row.start <= now
         /\ row.count \in Nat
         /\ \A t \in Times : admitted[t] > 0 => t <= row.start
         /\ \/ row.count = 1 /\ admitted[row.start] = 0
            \/ /\ row.count = UpTo(bucket.count + 1, CountBound)
               /\ bucket # NoBucket /\ row.start = bucket.start
  <1> DEFINE row == Counted(bucket, at)
  <1>1. /\ now \in Nat /\ now \in Times /\ at \in Nat
        /\ \A t \in Times : t \in Nat /\ admitted[t] \in Nat
        /\ bucket # NoBucket =>
             /\ bucket \in Bucket /\ bucket.start \in Times /\ bucket.start \in Nat
             /\ bucket.count \in Nat /\ bucket.count > 0
    BY CountTypes DEF TypeInv
  <1>2. row \in Bucket /\ row # NoBucket
    BY CountedType, AdmissionAssumption DEF TypeInv
  <1>3. row.count \in Nat
    BY <1>2, Bounds DEF Bucket
  <1>4. CASE bucket = NoBucket
    <2>1. row.count = 1 /\ row.start = now
      BY <1>4 DEF Counted
    <2>2. \A t \in Times : admitted[t] > 0 => t < now
      BY <1>4 DEF Counts
    <2> QED
      BY <1>1, <1>2, <1>3, <2>1, <2>2
  <1>5. CASE bucket # NoBucket /\ at - bucket.start >= Window
    <2>1. row.count = 1 /\ row.start = at
      BY <1>5 DEF Counted
    <2>2. bucket.start < at
      BY <1>1, <1>5, Bounds
    <2>3. \A t \in Times : admitted[t] > 0 => t <= bucket.start
      BY <1>5 DEF Counts
    <2> QED
      BY <1>1, <1>2, <1>3, <1>5, <2>1, <2>2, <2>3
  <1>6. CASE bucket # NoBucket /\ ~(at - bucket.start >= Window)
    <2>1. /\ row.start = bucket.start
          /\ row.count = UpTo(bucket.count + 1, CountBound)
      BY <1>1, <1>6 DEF Counted, Bucket
    <2> QED
      BY <1>1, <1>2, <1>3, <1>6, <2>1 DEF Counts
  <1> QED
    BY <1>4, <1>5, <1>6

LEMMA CheckCounts ==
  ASSUME TypeInv, Counts, NEW r \in Requests, Check(r)
  PROVE  Counts'
  <1> DEFINE at == slot[r].at
             row == Counted(bucket, at)
  <1>1. at \in Times /\ at <= now /\ bucket' = row /\ now' = now
    BY DEF TypeInv, Slot, Knows, Check, WriteBucket
  <1>2. /\ row # NoBucket
        /\ row.start \in Times /\ row.start \in Nat /\ row.start <= now
        /\ row.count \in Nat
        /\ \A t \in Times : admitted[t] > 0 => t <= row.start
        /\ \/ row.count = 1 /\ admitted[row.start] = 0
           \/ /\ row.count = UpTo(bucket.count + 1, CountBound)
              /\ bucket # NoBucket /\ row.start = bucket.start
    BY <1>1, CountedRow
  <1>3. /\ admitted \in [Times -> 0..CountBound]
        /\ \A t \in Times : t \in Nat /\ admitted[t] \in Nat
        /\ bucket # NoBucket => bucket.count \in Nat /\ bucket.count > 0
    BY CountTypes DEF TypeInv
  <1> HIDE DEF row
  <1>4. CASE Limited(row)
    <2>1. admitted' = admitted
      BY <1>4 DEF Check, WriteBucket, row
    <2>2. admitted[row.start] <= row.count
      BY <1>2, <1>3, Bounds DEF Counts, UpTo
    <2> QED
      BY <1>1, <1>2, <2>1, <2>2 DEF Counts
  <1>5. CASE ~Limited(row)
    <2>1. admitted' = [admitted EXCEPT ![row.start] = UpTo(@ + 1, CountBound)]
      BY <1>5 DEF Check, WriteBucket, row
    <2>2. row.count <= MaxRequests
      BY <1>2, <1>5, Bounds DEF Limited
    <2>3. admitted[row.start] + 1 <= row.count
      BY <1>2, <1>3, <2>2, Bounds DEF Counts, UpTo
    <2>4. admitted'[row.start] = admitted[row.start] + 1
      BY <1>2, <1>3, <2>1, <2>2, <2>3, Bounds DEF UpTo
    <2>5. \A t \in Times : t # row.start => admitted'[t] = admitted[t]
      BY <1>2, <1>3, <2>1
    <2>6. \A t \in Times : admitted'[t] <= MaxRequests
      BY <1>2, <1>3, <2>2, <2>3, <2>4, <2>5, Bounds DEF Counts
    <2>7. \A t \in Times : admitted'[t] > 0 => t <= row.start
      BY <1>2, <1>3, <2>5
    <2> QED
      BY <1>1, <1>2, <2>3, <2>4, <2>6, <2>7 DEF Counts
  <1> QED
    BY <1>4, <1>5

LEMMA CountStep == TypeInv /\ LocalCounts /\ [Next]_vars => LocalCounts'
  <1> SUFFICES ASSUME TypeInv, LocalCounts, [Next]_vars, database' = "local"
               PROVE  Counts'
    BY DEF LocalCounts
  <1>1. database = "local" /\ Counts
    BY DEF LocalCounts, Next, vars, RequestStep, Arrive, Check, ReadBucket, WriteSeen,
      RetryCheck, LoseBucket, PassBy, VerifyClientAssertion, RegisterAssertion,
      RegisterFails, StartRun, TimerOverlapsRun, Die, Sweep, SweepFails, Crash, Restart,
      Tick
  <1>2. ASSUME NEW r \in Requests, Check(r)
        PROVE  Counts'
    BY <1>1, <1>2, CheckCounts
  <1>3. ASSUME NEW r \in Requests, WriteSeen(r)
        PROVE  FALSE
    BY <1>1, <1>3 DEF WriteSeen, TypeInv, Knows
  <1>4. CASE Sweep
    <2>1. /\ now' = now /\ admitted' = admitted
          /\ bucket' = bucket \/ (bucket' = NoBucket /\ OldBucket)
      BY <1>4 DEF Sweep
    <2>2. OldBucket => bucket # NoBucket /\ bucket.start < now
      BY CountTypes, Bounds DEF OldBucket
    <2>3. OldBucket => \A t \in Times : admitted[t] > 0 => t < now
      BY <1>1, <2>2, CountTypes DEF Counts
    <2> QED
      BY <1>1, <2>1, <2>3 DEF Counts
  <1>5. CASE UNCHANGED <<bucket, admitted>>
    <2>1. now \in Nat /\ now' \in Nat /\ now <= now'
      BY ClockMovesOn
    <2> QED
      BY <1>1, <1>5, <2>1, CountTypes DEF Counts
  <1>6. \/ Sweep \/ UNCHANGED <<bucket, admitted>>
        \/ \E r \in Requests : Check(r) \/ WriteSeen(r)
    BY DEF Next, vars, RequestStep, Arrive, ReadBucket, RetryCheck, LoseBucket, PassBy,
      VerifyClientAssertion, RegisterAssertion, RegisterFails, StartRun,
      TimerOverlapsRun, Die, SweepFails, Crash, Restart, Tick
  <1> QED
    BY <1>2, <1>3, <1>4, <1>5, <1>6

\* On the embedded database no window lets more requests of a client address
\* through than the limit, whatever the maintenance deletes meanwhile.
THEOREM RateLimitHoldsLocally == Spec => []LocalLimitHolds
  <1>1. Init => LocalCounts
    BY Bounds DEF Init, LocalCounts, Counts
  <1>2. LocalCounts => LocalLimitHolds
    BY DEF LocalCounts, Counts, LocalLimitHolds, RateLimitHolds
  <1> QED
    BY <1>1, <1>2, CountStep, TypesInvariant, PTL DEF Spec

-----------------------------------------------------------------------------
(* Backup: rows and the rows they reference *)

LEMMA Parents ==
  ASSUME NEW row \in Rows, NEW parent \in Rows, IsParent(parent, row)
  PROVE  /\ row.parent # NoId
         /\ References(parent.table) = "nothing" /\ parent.parent = NoId
         /\ parent.table \in {"clients", "credentials"}
  <1>1. row.table \in Tables /\ parent.table \in Tables
    BY BackupAssumption
  <1>2. parent.table = References(row.table)
    BY DEF IsParent
  <1>3. parent.table # "nothing"
    BY <1>1 DEF Tables, ExportedTables, DeletedTables
  <1>4. parent.table \in {"clients", "credentials"}
    BY <1>2, <1>3 DEF References
  <1>5. row.parent # NoId
    BY <1>2, <1>3, BackupAssumption
  <1>6. References(parent.table) = "nothing"
    BY <1>4 DEF References
  <1> QED
    BY <1>4, <1>5, <1>6, BackupAssumption

LEMMA Exported ==
  /\ ExportedTables =
       {"tokens", "requests", "runs", "clients", "rules", "credentials", "tenants"}
  /\ Tables = ExportedTables \cup {"codes", "limits"}
  /\ DeletedTables \in Seq(Tables)
  <1>1. ExportedTables =
          {"tokens", "requests", "runs", "clients", "rules", "credentials", "tenants"}
    BY DEF ExportedTables, DeletedTables
  <1> QED
    BY <1>1 DEF Tables, DeletedTables

\* Whatever is removed with its children leaves no row without its parent.
LEMMA ChildrenClosed ==
  ASSUME NEW rows \in SUBSET Rows, NEW gone \in SUBSET rows,
         NEW parent \in WithChildren(gone, rows), NEW row \in rows,
         IsParent(parent, row)
  PROVE  row \in WithChildren(gone, rows)
  <1>1. CASE parent \in gone
    BY <1>1 DEF WithChildren
  <1>2. CASE parent \notin gone
    <2>1. PICK above \in gone : parent \in rows /\ IsParent(above, parent)
      BY <1>2 DEF WithChildren
    <2>2. above \in Rows /\ parent \in Rows /\ row \in Rows
      BY <2>1
    <2>3. parent.parent = NoId
      BY <2>2, Parents
    <2>4. parent.parent # NoId
      BY <2>1, <2>2, Parents
    <2> QED
      BY <2>3, <2>4
  <1> QED
    BY <1>1, <1>2

\* The rows of the tables of a backup keep their references.
LEMMA ExportedLinked ==
  ASSUME NEW rows \in SUBSET Rows, Linked(rows)
  PROVE  Linked({row \in rows : row.table \in ExportedTables})
  <1> SUFFICES ASSUME NEW row \in rows, row.parent # NoId
               PROVE  \E parent \in rows :
                        parent.table \in ExportedTables /\ IsParent(parent, row)
    BY DEF Linked
  <1>1. PICK parent \in rows : IsParent(parent, row)
    BY DEF Linked
  <1> QED
    BY <1>1, Parents, Exported

-----------------------------------------------------------------------------
(* Backup: the invariant *)

Export == [by : Operators, left : SUBSET ExportedTables, rows : SUBSET Rows]

DbInv == db \subseteq Rows /\ Unique(db) /\ Linked(db)

\* On a local database an export is made in one step.
ExportInv(place) ==
  exports[place] # NoExport =>
    /\ exports[place] \in Export
    /\ database = "local" =>
         exports[place].left = {} /\ Unique(exports[place].rows) /\ Linked(exports[place].rows)

TransactionTypes ==
  /\ restore = [by |-> restore.by, rows |-> restore.rows, gone |-> restore.gone,
                todo |-> restore.todo]
  /\ restore.by \in Operators /\ restore.rows \subseteq Rows
  /\ restore.todo \in Seq(Tables)

\* The rows that are deleted are there until the transaction ends, and all that
\* reference them are deleted too, those committed since included.
Cascaded ==
  /\ restore.gone \subseteq db
  /\ \A parent \in restore.gone, row \in db :
       IsParent(parent, row) => row \in restore.gone

\* For a tenant, only its rows and those that reference one of them.
Contained(tenant) ==
  /\ \A row \in restore.rows : row.tenant = tenant
  /\ \A row \in restore.gone :
       \/ row.tenant = tenant
       \/ \E parent \in restore.gone : IsParent(parent, row) /\ parent.tenant = tenant

\* Tables that a deletion of those in todo empties.
ToEmpty(todo) ==
  {table \in Tables :
     \E i \in DOMAIN todo : table = todo[i] \/ (table = "codes" /\ todo[i] = "clients")}

\* An unscoped restore of a local database has left only what it has yet to
\* delete.
Emptied == \A row \in db \ restore.gone : row.table \in ToEmpty(restore.todo)

RestoreInv ==
  restore # NoTransaction =>
    /\ TransactionTypes /\ Cascaded
    /\ TenantOf[restore.by] # NoTenant => Contained(TenantOf[restore.by])
    /\ database = "local" /\ TenantOf[restore.by] = NoTenant => Emptied

BackupInv ==
  /\ database \in Databases
  /\ writers \in [Writers -> Rows \cup {NoRow}]
  /\ exports = [place \in Slots |-> exports[place]]
  /\ DbInv /\ RestoreInv
  /\ \A place \in Slots : ExportInv(place)

\* A step that makes no export keeps those there are.
LEMMA ExportsStay ==
  ASSUME BackupInv, UNCHANGED <<database, exports>>
  PROVE  /\ exports' = [place \in Slots |-> exports'[place]]
         /\ \A place \in Slots : ExportInv(place)'
  BY DEF BackupInv, ExportInv

LEMMA WritersStay ==
  ASSUME BackupInv, NEW w \in Writers, NEW row \in Rows \cup {NoRow},
         writers' = [writers EXCEPT ![w] = row]
  PROVE  writers' \in [Writers -> Rows \cup {NoRow}]
  BY DEF BackupInv

LEMMA SameRestore ==
  ASSUME BackupInv, UNCHANGED <<database, db, restore>>
  PROVE  RestoreInv'
  BY DEF BackupInv, RestoreInv, TransactionTypes, Cascaded, Contained, Emptied

\* A restore that waits stays as it is while others write: nobody touches the
\* rows it deleted, and on a local database nobody writes at all.
LEMMA RestoreStays ==
  ASSUME BackupInv, UNCHANGED <<database, restore>>, QueueIsFree,
         restore # NoTransaction =>
           /\ restore.gone \subseteq db'
           /\ \A parent \in restore.gone, row \in db' \ db : ~IsParent(parent, row)
  PROVE  RestoreInv'
  <1> SUFFICES ASSUME restore # NoTransaction PROVE RestoreInv'
    BY DEF RestoreInv
  <1>1. database' # "local"
    BY DEF QueueIsFree
  <1>2. TransactionTypes'
    BY DEF BackupInv, RestoreInv, TransactionTypes
  <1>3. Cascaded'
    BY DEF BackupInv, RestoreInv, Cascaded
  <1>4. TenantOf[restore.by] # NoTenant => Contained(TenantOf[restore.by])'
    BY DEF BackupInv, RestoreInv, Contained
  <1> QED
    BY <1>1, <1>2, <1>3, <1>4 DEF RestoreInv

-----------------------------------------------------------------------------
(* Backup: the steps *)

LEMMA BeginWriteStep ==
  ASSUME BackupInv, NEW w \in Writers, NEW row \in Rows, BeginWrite(w, row)
  PROVE  BackupInv'
  <1>1. UNCHANGED <<database, db, exports, restore>>
    BY DEF BeginWrite
  <1>2. writers' \in [Writers -> Rows \cup {NoRow}]
    BY WritersStay DEF BeginWrite
  <1> QED
    BY <1>1, <1>2, ExportsStay, SameRestore DEF BackupInv, DbInv

LEMMA AbandonWriteStep ==
  ASSUME BackupInv, NEW w \in Writers, AbandonWrite(w)
  PROVE  BackupInv'
  <1>1. UNCHANGED <<database, db, exports, restore>>
    BY DEF AbandonWrite
  <1>2. writers' \in [Writers -> Rows \cup {NoRow}]
    BY WritersStay DEF AbandonWrite
  <1> QED
    BY <1>1, <1>2, ExportsStay, SameRestore DEF BackupInv, DbInv

LEMMA InsertRowStep ==
  ASSUME BackupInv, NEW w \in Writers, InsertRow(w)
  PROVE  BackupInv'
  <1> DEFINE row == writers[w]
             others == db \ Replaced(row)
  <1>1. /\ row # NoRow /\ QueueIsFree /\ ~Locked({row})
        /\ \A other \in others : ~Same(row, other)
        /\ row.parent # NoId => \E parent \in db : IsParent(parent, row)
        /\ db' = others \cup {row}
        /\ writers' = [writers EXCEPT ![w] = NoRow]
        /\ UNCHANGED <<database, exports, restore>>
    BY DEF InsertRow
  <1>2. row \in Rows /\ db \subseteq Rows
    BY <1>1 DEF BackupInv, DbInv
  <1>3. \A other \in Replaced(row) : other \in db /\ Same(row, other) /\ row.table = "clients"
    BY DEF Replaced
  <1>4. writers' \in [Writers -> Rows \cup {NoRow}]
    BY <1>1, WritersStay
  <1>5. restore # NoTransaction =>
          \A locked \in restore.gone : ~Same(locked, row) /\ ~IsParent(locked, row)
    BY <1>1 DEF Locked
  <1> HIDE DEF row
  <1>6. Unique(db)'
    BY <1>1, <1>2 DEF BackupInv, DbInv, Unique, Same
  <1>7. Linked(db)'
    <2>1. \A child \in db, parent \in Replaced(row) :
            IsParent(parent, child) => IsParent(row, child)
      BY <1>3 DEF IsParent, Same
    <2>2. \A parent \in Replaced(row) : IsParent(parent, row) => FALSE
      <3> SUFFICES ASSUME NEW parent \in Replaced(row), IsParent(parent, row) PROVE FALSE
        OBVIOUS
      <3>1. parent \in Rows /\ row.table = "clients"
        BY <1>2, <1>3
      <3>2. row.parent = NoId
        BY <1>2, <3>1, BackupAssumption DEF References
      <3> QED
        BY <1>2, <3>1, <3>2, Parents
    <2> QED
      BY <1>1, <1>2, <2>1, <2>2 DEF BackupInv, DbInv, Linked
  <1>8. RestoreInv'
    <2>1. restore # NoTransaction => restore.gone \subseteq db'
      BY <1>1, <1>3, <1>5 DEF BackupInv, RestoreInv, Cascaded, Same
    <2>2. restore # NoTransaction =>
            \A parent \in restore.gone, new \in db' \ db : ~IsParent(parent, new)
      BY <1>1, <1>5
    <2> QED
      BY <1>1, <2>1, <2>2, RestoreStays
  <1> QED
    BY <1>1, <1>2, <1>4, <1>6, <1>7, <1>8, ExportsStay DEF BackupInv, DbInv

LEMMA EraseStep ==
  ASSUME BackupInv, NEW row \in Rows, Erase(row)
  PROVE  BackupInv'
  <1> DEFINE gone == WithChildren({row}, db)
  <1>1. /\ db' = db \ gone /\ row \in db
        /\ QueueIsFree /\ ~Locked(gone)
        /\ UNCHANGED <<database, writers, exports, restore>>
    BY DEF Erase
  <1>2. db \in SUBSET Rows /\ {row} \in SUBSET db
    BY <1>1 DEF BackupInv, DbInv
  <1>3. \A parent \in gone, child \in db : IsParent(parent, child) => child \in gone
    BY <1>2, ChildrenClosed
  <1> HIDE DEF gone
  <1>4. Unique(db)' /\ Linked(db)'
    BY <1>1, <1>3 DEF BackupInv, DbInv, Unique, Linked
  <1>5. restore # NoTransaction => \A locked \in restore.gone : locked \notin gone
    BY <1>1 DEF Locked, Same
  <1>6. RestoreInv'
    <2>1. restore # NoTransaction => restore.gone \subseteq db'
      BY <1>1, <1>5 DEF BackupInv, RestoreInv, Cascaded
    <2> QED
      BY <1>1, <2>1, RestoreStays
  <1> QED
    BY <1>1, <1>2, <1>4, <1>6, ExportsStay DEF BackupInv, DbInv

\* One export is what it is in the next state, and the others stay.
LEMMA ExportStep ==
  ASSUME BackupInv, NEW place \in Slots, NEW export \in Export,
         exports' = [exports EXCEPT ![place] = export],
         UNCHANGED <<database, db, writers, restore>>,
         database = "local" =>
           export.left = {} /\ Unique(export.rows) /\ Linked(export.rows)
  PROVE  BackupInv'
  <1>1. exports' = [s \in Slots |-> exports'[s]]
    BY DEF BackupInv
  <1>2. ASSUME NEW s \in Slots
        PROVE  ExportInv(s)'
    <2>1. exports'[s] = IF s = place THEN export ELSE exports[s]
      BY DEF BackupInv
    <2> QED
      BY <2>1 DEF BackupInv, ExportInv
  <1> QED
    BY <1>1, <1>2, SameRestore DEF BackupInv, DbInv

LEMMA StartExportStep ==
  ASSUME BackupInv, NEW place \in Slots, NEW by \in Operators, StartExport(place, by)
  PROVE  BackupInv'
  <1>1. db \in SUBSET Rows /\ Unique(db) /\ Linked(db)
    BY DEF BackupInv, DbInv
  <1>2. CASE database = "local"
    <2> DEFINE rows == {row \in db : row.table \in ExportedTables}
               export == [by |-> by, left |-> {}, rows |-> rows]
    <2>1. exports' = [exports EXCEPT ![place] = export]
      BY <1>2 DEF StartExport, Started
    <2>2. rows \in SUBSET Rows /\ Unique(rows) /\ Linked(rows)
      BY <1>1, ExportedLinked DEF Unique
    <2> HIDE DEF rows
    <2>3. export \in Export
      BY <2>2 DEF Export
    <2> QED
      BY <2>1, <2>2, <2>3, ExportStep DEF StartExport
  <1>3. CASE database # "local"
    <2> DEFINE export == [by |-> by, left |-> ExportedTables, rows |-> {}]
    <2>1. exports' = [exports EXCEPT ![place] = export]
      BY <1>3 DEF StartExport, Started, OneByOne
    <2>2. export \in Export
      BY DEF Export
    <2> QED
      BY <1>3, <2>1, <2>2, ExportStep DEF StartExport
  <1> QED
    BY <1>2, <1>3

LEMMA ReadTableStep ==
  ASSUME BackupInv, NEW place \in Slots, NEW table \in ExportedTables, ReadTable(place, table)
  PROVE  BackupInv'
  <1> DEFINE old == exports[place]
             rows == old.rows \cup {row \in db : row.table = table}
             new == [by |-> old.by, left |-> old.left \ {table}, rows |-> rows]
  <1>1. /\ old \in Export /\ table \in old.left
        /\ database = "local" => old.left = {}
        /\ exports' = [exports EXCEPT ![place] = new]
        /\ UNCHANGED <<database, db, writers, restore>>
    BY DEF ReadTable, BackupInv, ExportInv
  <1>2. rows \in SUBSET Rows
    BY <1>1 DEF BackupInv, DbInv, Export
  <1>3. new \in Export
    BY <1>1, <1>2 DEF Export
  <1>4. database # "local"
    BY <1>1
  <1> QED
    BY <1>1, <1>3, <1>4, ExportStep

\* What a restore is set to delete includes, for all tenants, every table.
LEMMA DeletionsCover ==
  ASSUME NEW tenant
  PROVE  /\ Deletions(tenant) \in Seq(Tables)
         /\ tenant = NoTenant => Tables \subseteq ToEmpty(Deletions(tenant))
  <1>1. DeletedTables \in Seq(Tables) /\ "limits" \in Tables
    BY Exported
  <1>2. Deletions(tenant) \in Seq(Tables)
    BY <1>1 DEF Deletions
  <1>3. ASSUME tenant = NoTenant
        PROVE  Tables \subseteq ToEmpty(Deletions(tenant))
    <2> DEFINE todo == Append(DeletedTables, "limits")
    <2>1. /\ DOMAIN todo = 1..8
          /\ todo[1] = "tokens" /\ todo[2] = "requests" /\ todo[3] = "runs"
          /\ todo[4] = "clients" /\ todo[5] = "rules" /\ todo[6] = "credentials"
          /\ todo[7] = "tenants" /\ todo[8] = "limits"
      BY DEF DeletedTables
    <2> HIDE DEF todo
    <2>2. \A i \in 1..8 : i \in DOMAIN todo
      BY <2>1
    <2>3. Tables = {"tokens", "requests", "runs", "clients", "rules", "credentials",
                    "tenants", "codes", "limits"}
      BY Exported DEF Tables
    <2>4. Tables \subseteq ToEmpty(todo)
      BY <2>1, <2>2, <2>3 DEF ToEmpty
    <2> QED
      BY <1>3, <2>4 DEF Deletions, todo
  <1> QED
    BY <1>2, <1>3

LEMMA StartRestoreStep ==
  ASSUME BackupInv, NEW by \in Operators, NEW rows \in Payloads, StartRestore(by, rows)
  PROVE  BackupInv'
  <1> DEFINE todo == Deletions(TenantOf[by])
  <1>1. /\ UNCHANGED <<database, db, writers, exports>>
        /\ restore' = [by |-> by, rows |-> rows, gone |-> {}, todo |-> todo]
        /\ Admitted(rows, TenantOf[by])
    BY DEF StartRestore
  <1>2. rows \subseteq Rows /\ db \subseteq Rows
    BY BackupAssumption DEF BackupInv, DbInv
  <1>3. /\ todo \in Seq(Tables)
        /\ TenantOf[by] = NoTenant => Tables \subseteq ToEmpty(todo)
    BY DeletionsCover
  <1> HIDE DEF todo
  <1>4. TransactionTypes' /\ Cascaded'
    BY <1>1, <1>2, <1>3 DEF TransactionTypes, Cascaded
  <1>5. TenantOf[by] # NoTenant => Contained(TenantOf[by])'
    BY <1>1 DEF Admitted, Contained
  <1>6. TenantOf[by] = NoTenant => Emptied'
    BY <1>1, <1>2, <1>3, BackupAssumption DEF Emptied
  <1>7. RestoreInv'
    BY <1>1, <1>4, <1>5, <1>6 DEF RestoreInv
  <1> QED
    BY <1>1, <1>7, ExportsStay DEF BackupInv, DbInv

LEMMA DeleteTableStep ==
  ASSUME BackupInv, DeleteTable
  PROVE  BackupInv'
  <1> DEFINE left == db \ restore.gone
             head == Head(restore.todo)
             rows == {row \in left : row.table = head /\ InScope(row, restore.by)}
             more == WithChildren(rows, left)
             todo == Tail(restore.todo)
  <1>1. /\ UNCHANGED <<database, db, writers, exports>>
        /\ restore # NoTransaction /\ restore.todo # << >>
        /\ restore' = [restore EXCEPT !.gone = @ \cup more, !.todo = Tail(@)]
    BY DEF DeleteTable
  <1>2. TransactionTypes /\ Cascaded
    BY <1>1 DEF BackupInv, RestoreInv
  <1>3. /\ left \in SUBSET Rows /\ rows \in SUBSET left
        /\ more \subseteq left
    BY DEF BackupInv, DbInv, WithChildren
  <1>4. \A parent \in more, row \in left : IsParent(parent, row) => row \in more
    BY <1>3, ChildrenClosed
  <1>5. \A row \in more : row \in rows \/ \E parent \in rows : IsParent(parent, row)
    BY DEF WithChildren
  <1>6. rows \subseteq more /\ \A row \in rows : TenantOf[restore.by] \in {NoTenant, row.tenant}
    BY DEF WithChildren, InScope
  <1>7. TenantOf[restore.by] = NoTenant => \A row \in left : row.table = head => row \in rows
    BY DEF InScope
  <1>8. todo \in Seq(Tables) /\ ToEmpty(restore.todo) \subseteq
          ToEmpty(todo) \cup {head} \cup {table \in {"codes"} : head = "clients"}
    <2>1. restore.todo \in Seq(Tables) /\ restore.todo # << >>
      BY <1>1, <1>2 DEF TransactionTypes
    <2>2. /\ todo \in Seq(Tables) /\ head = restore.todo[1]
          /\ Len(restore.todo) \in Nat /\ Len(todo) = Len(restore.todo) - 1
          /\ DOMAIN restore.todo = 1..Len(restore.todo) /\ DOMAIN todo = 1..Len(todo)
          /\ \A i \in 1..Len(todo) : todo[i] = restore.todo[i + 1]
      BY <2>1
    <2> HIDE DEF todo, head
    <2>3. ASSUME NEW i \in DOMAIN restore.todo, i # 1
          PROVE  i - 1 \in DOMAIN todo /\ todo[i - 1] = restore.todo[i]
      BY <2>2, <2>3
    <2>4. ASSUME NEW table \in ToEmpty(restore.todo)
          PROVE  table \in ToEmpty(todo) \/ table = head \/ (table = "codes" /\ head = "clients")
      <3>1. PICK i \in DOMAIN restore.todo :
              table = restore.todo[i] \/ (table = "codes" /\ restore.todo[i] = "clients")
        BY DEF ToEmpty
      <3> QED
        BY <2>2, <2>3, <3>1 DEF ToEmpty
    <2> QED
      BY <2>2, <2>4
  <1> HIDE DEF rows, more, todo, head
  <1>9. restore' = [by |-> restore.by, rows |-> restore.rows,
                    gone |-> restore.gone \cup more, todo |-> todo]
    BY <1>1, <1>2 DEF TransactionTypes, todo
  <1>10. /\ restore'.by = restore.by /\ restore'.rows = restore.rows
         /\ restore'.gone = restore.gone \cup more /\ restore'.todo = todo
         /\ restore' = [by |-> restore'.by, rows |-> restore'.rows, gone |-> restore'.gone,
                        todo |-> restore'.todo]
    BY <1>9
  <1>11. TransactionTypes' /\ Cascaded'
    BY <1>1, <1>2, <1>3, <1>4, <1>8, <1>10 DEF TransactionTypes, Cascaded
  <1>12. TenantOf[restore.by] # NoTenant => Contained(TenantOf[restore.by])'
    BY <1>1, <1>5, <1>6, <1>10 DEF BackupInv, RestoreInv, Contained
  <1>13. database = "local" /\ TenantOf[restore.by] = NoTenant => Emptied'
    <2> SUFFICES ASSUME database = "local", TenantOf[restore.by] = NoTenant,
                        NEW row \in left, row \notin more
                 PROVE  row.table \in ToEmpty(todo)
      BY <1>1, <1>10 DEF Emptied
    <2>1. row.table \in ToEmpty(restore.todo) /\ row.table # head
      BY <1>1, <1>6, <1>7 DEF BackupInv, RestoreInv, Emptied
    <2>2. ~(row.table = "codes" /\ head = "clients")
      <3> SUFFICES ASSUME row.table = "codes", head = "clients" PROVE FALSE
        OBVIOUS
      <3>1. References(row.table) = "clients" /\ row.parent # NoId
        BY BackupAssumption DEF References, BackupInv, DbInv
      <3>2. PICK parent \in db : IsParent(parent, row)
        BY <3>1 DEF BackupInv, DbInv, Linked
      <3>3. parent \in left
        BY <1>2, <3>2 DEF Cascaded
      <3>4. parent.table = head
        BY <3>1, <3>2 DEF IsParent
      <3> QED
        BY <1>4, <1>6, <1>7, <3>2, <3>3, <3>4
    <2> QED
      BY <1>8, <2>1, <2>2
  <1>14. RestoreInv'
    BY <1>1, <1>11, <1>12, <1>13, <1>10 DEF RestoreInv
  <1> QED
    BY <1>1, <1>14, ExportsStay DEF BackupInv, DbInv

LEMMA InsertStep ==
  ASSUME BackupInv, InsertAndCommit
  PROVE  BackupInv'
  <1> DEFINE kept == db \ restore.gone
             after == kept \cup restore.rows
  <1>1. /\ UNCHANGED <<database, writers, exports>>
        /\ restore # NoTransaction /\ restore' = NoTransaction
        /\ db' = after /\ Linked(after) /\ Unique(restore.rows)
        /\ \A row \in kept, new \in restore.rows : ~Same(row, new)
    BY DEF InsertAndCommit
  <1>2. after \subseteq Rows
    BY <1>1 DEF BackupInv, DbInv, RestoreInv, TransactionTypes
  <1>3. Unique(after)
    BY <1>1 DEF BackupInv, DbInv, Unique, Same
  <1> HIDE DEF after
  <1>4. DbInv' /\ RestoreInv'
    BY <1>1, <1>2, <1>3 DEF DbInv, RestoreInv
  <1> QED
    BY <1>1, <1>4, ExportsStay DEF BackupInv

LEMMA BackupStep == BackupInv /\ [BackupNext]_backupVars => BackupInv'
  <1> SUFFICES ASSUME BackupInv, [BackupNext]_backupVars PROVE BackupInv'
    OBVIOUS
  <1>1. CASE RollBack
    BY <1>1, ExportsStay DEF RollBack, BackupInv, DbInv, RestoreInv
  <1>2. CASE UNCHANGED backupVars
    BY <1>2, ExportsStay, SameRestore DEF backupVars, BackupInv, DbInv
  <1> QED
    BY <1>1, <1>2, BeginWriteStep, InsertRowStep, AbandonWriteStep, EraseStep,
       StartExportStep, ReadTableStep, StartRestoreStep, DeleteTableStep, InsertStep
       DEF BackupNext

LEMMA BackupInvariant == BackupSpec => []BackupInv
  <1>1. BackupInit => BackupInv
    BY BackupAssumption DEF BackupInit, BackupInv, DbInv, RestoreInv, ExportInv
  <1> QED
    BY <1>1, BackupStep, PTL DEF BackupSpec

-----------------------------------------------------------------------------
(* Backup: the theorems *)

\* Rows, writers, exports and the restore in progress always have their types.
THEOREM BackupTypes == BackupSpec => []BackupTypeOK
  <1>1. BackupInv => BackupTypeOK
    BY DEF BackupInv, DbInv, ExportInv, RestoreInv, TransactionTypes, Cascaded, Export,
       BackupTypeOK
  <1> QED
    BY <1>1, BackupInvariant, PTL

\* A full backup of a local database has no key twice and each row with the row
\* it references, whatever payloads were restored before.
THEOREM FullBackupsAreComplete == BackupSpec => []LocalBackupsAreComplete
  <1>1. ASSUME BackupInv, database = "local", NEW place \in Slots, IsBackup(place),
               TenantOf[exports[place].by] = NoTenant
        PROVE  Unique(Contents(place)) /\ Linked(Contents(place))
    <2>1. Contents(place) = exports[place].rows
      BY <1>1 DEF Contents, Filtered, Owned
    <2> QED
      BY <1>1, <2>1 DEF BackupInv, ExportInv, IsBackup
  <1>2. BackupInv => LocalBackupsAreComplete
    BY <1>1 DEF LocalBackupsAreComplete
  <1> QED
    BY <1>2, BackupInvariant, PTL

\* An unscoped restore of a local database leaves the payload and nothing else,
\* whatever the database held.
THEOREM FullRestoresReplaceAll == BackupSpec => FullRestoreReplacesAll
  <1>1. ASSUME BackupInv, database = "local", InsertAndCommit, TenantOf[restore.by] = NoTenant
        PROVE  db' = restore.rows
    <2>1. /\ restore # NoTransaction /\ restore.todo = << >>
          /\ db' = (db \ restore.gone) \cup restore.rows
      BY <1>1 DEF InsertAndCommit
    <2>2. ToEmpty(restore.todo) = {}
      BY <2>1 DEF ToEmpty
    <2>3. db \ restore.gone = {}
      BY <1>1, <2>1, <2>2 DEF BackupInv, RestoreInv, Emptied
    <2> QED
      BY <2>1, <2>3
  <1>2. BackupInv /\ [BackupNext]_backupVars =>
          [(database = "local" /\ InsertAndCommit /\ TenantOf[restore.by] = NoTenant) =>
             db' = restore.rows]_backupVars
    BY <1>1
  <1> QED
    BY <1>2, BackupInvariant, PTL DEF BackupSpec, FullRestoreReplacesAll

\* A restore by an operator of a tenant deletes rows of that tenant and rows that
\* referenced one of them, and inserts rows of that tenant, on either database.
THEOREM ScopedRestoresStayContained == BackupSpec => ScopedRestoresAreContained
  <1> DEFINE tenant == TenantOf[restore.by]
             Kept == \A row \in db' \ db : row.tenant = tenant
             Lost == \A row \in db \ db' :
                       \/ row.tenant = tenant
                       \/ \E parent \in db : IsParent(parent, row) /\ parent.tenant = tenant
  <1>1. ASSUME BackupInv, InsertAndCommit, tenant # NoTenant
        PROVE  Kept /\ Lost
    <2>1. /\ restore # NoTransaction
          /\ db' = (db \ restore.gone) \cup restore.rows
      BY <1>1 DEF InsertAndCommit
    <2>2. Contained(tenant) /\ restore.gone \subseteq db
      BY <1>1, <2>1 DEF BackupInv, RestoreInv, Cascaded
    <2> QED
      BY <2>1, <2>2 DEF Contained
  <1>2. BackupInv /\ [BackupNext]_backupVars =>
          [(InsertAndCommit /\ tenant # NoTenant) => Kept /\ Lost]_backupVars
    BY <1>1
  <1> QED
    BY <1>2, BackupInvariant, PTL DEF BackupSpec, ScopedRestoresAreContained
=============================================================================
