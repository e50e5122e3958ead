--------------------------- MODULE CoreModeProofs ---------------------------
(***************************************************************************)
(* What holds of CoreMode for every set of tenants, credentials, callers   *)
(* and calls: the types; that a restart restores the rules; that what a    *)
(* caller was told is complete; and that tenants stay apart.               *)
(*                                                                         *)
(* The last three have hypotheses, each of which is there because the code *)
(* goes wrong without it (README, section 5).                              *)
(***************************************************************************)
EXTENDS CoreMode, SequenceTheorems, TLAPS

\* No two credentials share a rule id, which coreRuleId does not ensure.
RuleIdsDistinct ==
  \A one, other \in Refs : RuleIdOf[one] = RuleIdOf[other] => one = other

\* No one tries to create a credential for a tenant not the caller's.
CreatesStayHome ==
  \A input \in Inputs : input.kind = "create" => TenantAllowed(input.by, input.tenant)

-----------------------------------------------------------------------------
(* Where a call is *)

\* Its next step, or "end".
Pc(call) == IF call.todo = << >> THEN "end" ELSE Head(call.todo)

\* The step that comes after a step of a call, in its body or in a catch block.
After(input, failing, step) ==
  CASE step = "vacant" -> IF input.adapter = "local" THEN "loadToPut" ELSE "insert"
    [] step = "find" -> IF input.kind = "replace" THEN "loadToPut" ELSE "readRow"
    [] step = "readRow" ->
         IF input.kind \in {"update", "catalogUpdate"} THEN "update" ELSE "remove"
    [] step \in {"insert", "update", "remove"} -> "record"
    [] step = "record" ->
         IF input.kind = "delete" \/ (failing /\ input.adapter = "local") THEN "loadToDelete"
         ELSE IF ~failing /\ input.kind \in {"create", "update"} THEN "readRules"
         ELSE "end"
    [] step = "loadToPut" -> "key"
    [] step = "openKey" -> "writeKey"
    [] step \in {"key", "writeKey", "loadToDelete"} -> "open"
    [] step = "open" -> "write"
    [] step = "write" -> "rename"
    [] step = "rename" ->
         IF input.kind = "delete" THEN "readRules"
         ELSE IF input.kind = "create" /\ ~failing THEN "insert"
         ELSE "end"
    [] step = "readRules" -> IF input.kind = "delete" THEN "disallow" ELSE "allow"
    [] OTHER -> "end"

\* A program takes the steps that come after each other, first from, at last to.
Runs(input, failing, steps, from, to) ==
  /\ steps = << >> => from = to
  /\ steps # << >> => steps[1] = from
  /\ \A i \in 1..Len(steps) :
       After(input, failing, steps[i]) = IF i = Len(steps) THEN to ELSE steps[i + 1]

PutPcs == {"loadToPut", "key", "openKey", "writeKey", "open", "write", "rename"}
DeletePcs == {"loadToDelete", "open", "write", "rename"}

\* The places where a call can be.
Places(input, failing) ==
  CASE failing ->
         {"readRow", "remove", "record", "end"}
           \cup (IF input.adapter = "local" THEN DeletePcs ELSE {})
    [] ~failing /\ input.kind = "create" ->
         {"vacant", "insert", "record", "readRules", "allow", "end"}
           \cup (IF input.adapter = "local" THEN PutPcs ELSE {})
    [] ~failing /\ input.kind = "update" ->
         {"readRow", "update", "record", "readRules", "allow", "end"}
    [] ~failing /\ input.kind = "replace" -> {"find", "end"} \cup PutPcs
    [] ~failing /\ input.kind = "delete" ->
         {"find", "readRow", "remove", "record", "readRules", "disallow", "end"}
           \cup DeletePcs
    [] ~failing /\ input.kind = "catalogUpdate" -> {"readRow", "update", "record", "end"}
    [] ~failing /\ input.kind = "catalogDelete" -> {"readRow", "remove", "record", "end"}

\* Whether the call knows which credential it is about: a creation always
\* does, the others once they have read its row.
Settled(call) ==
  \/ call.input.kind = "create"
  \/ call.input.kind \in {"replace", "delete"} /\ Pc(call) # "find"
  \/ call.input.kind \in {"update", "catalogUpdate", "catalogDelete"} /\ Pc(call) # "readRow"

Shape(call) ==
  /\ Runs(call.input, call.failing, call.todo, Pc(call), "end")
  /\ Pc(call) \in Places(call.input, call.failing)
  /\ call.failing => call.input.kind = "create"
  /\ call.rescue # << >> =>
       call.failing /\ call.input.adapter = "local" /\ call.rescue = <<DeleteSteps>>
  /\ Settled(call) /\ call.input.kind # "create" =>
       call.seen \in Row /\ TenantAllowed(call.input.by, call.seen.tenant)
  /\ call.failing \/ call.input.kind = "delete" => call.key = NoFile
  /\ call.input.kind \in {"create", "replace"} /\ ~call.failing
       /\ Pc(call) \in {"open", "write", "rename"} => call.key # NoFile

ShapeInv == \A c \in CallIds : calls[c] # NoCall => Shape(calls[c])

-----------------------------------------------------------------------------
(* What calls share *)

\* A call on an id that is not contended is the only one on it.
OneCall ==
  \A c, d \in CallIds :
    calls[c] # NoCall /\ calls[d] # NoCall /\ calls[c].input.id = calls[d].input.id
      /\ calls[c].input.id \notin contended
    => c = d

\* Calls run only on a server that is up, and while it starts the rows with a
\* rule to restore are those of the default tenant.
ServerInv ==
  /\ server # "up" => \A c \in CallIds : calls[c] = NoCall
  /\ server = "starting" =>
       \A id \in pending : rows[id] # NoRow /\ rows[id].tenant = DefaultTenant

RuleRestored(id) ==
  rules[RuleIdOf[<<DefaultTenant, id>>]] =
    [ref |-> <<DefaultTenant, id>>, what |-> rows[id].what]

RestartInv ==
  server = "starting" =>
    \A id \in Listed(DefaultTenant) :
      rows[id].owner = "local" => id \in pending \/ RuleRestored(id)

Held(ref) == Loaded(secrets)[ref] # NoEntry

\* The file is whole, one key is used at all, and one call at most writes it.
FileInv ==
  ~overtaken =>
    /\ secrets \in Entries \cup {NoFile}
    /\ \A ref \in Refs : Held(ref) => Loaded(secrets)[ref].key = keyFile
    /\ \A c \in CallIds : calls[c] # NoCall =>
         /\ calls[c].key \in {NoFile, keyFile}
         /\ Pc(calls[c]) = "writeKey" => keyFile = Empty
    /\ \A c, d \in CallIds :
         /\ calls[c] # NoCall /\ Pc(calls[c]) = "writeKey"
         /\ calls[d] # NoCall /\ Pc(calls[d]) = "writeKey"
         => c = d

-----------------------------------------------------------------------------
(* What a call knows of its credential *)

Made(input) ==
  [tenant |-> input.tenant, owner |-> input.owner, adapter |-> input.adapter,
   what |-> "created"]

KnowsCreate(call) ==
  LET ref == RefOf(call)
      row == rows[call.input.id]
  IN
  /\ Pc(call) # "vacant" => ledger[ref] = "none"
  /\ call.failing /\ Pc(call) \in {"readRow", "remove"} /\ row # NoRow =>
       row.tenant = call.input.tenant
  /\ ~call.failing =>
       /\ Pc(call) \in {"record", "readRules", "allow", "end"} => row = Made(call.input)
       /\ Pc(call) \in {"insert", "record", "readRules", "allow", "end"}
            /\ call.input.adapter = "local" => Held(ref)
       /\ Pc(call) = "end" => rules[RuleOf(call)] = [ref |-> ref, what |-> "created"]

\* Whether the row is still the one that the call has read.
Keeps(call) ==
  \/ call.input.kind \in {"update", "catalogUpdate", "replace"}
  \/ call.input.kind \in {"delete", "catalogDelete"} /\ Pc(call) \in {"readRow", "remove"}

KnowsOther(call) ==
  LET ref == RefOf(call)
      row == rows[call.input.id]
  IN
  /\ Keeps(call) => row = call.seen
  /\ call.input.kind = "update" /\ Pc(call) = "end" =>
       rules[RuleOf(call)] = [ref |-> ref, what |-> call.seen.what]
  /\ call.input.kind = "delete" =>
       /\ Pc(call) \notin {"readRow", "remove"} => ledger[ref] = "none" /\ row = NoRow
       /\ Pc(call) \in {"readRules", "disallow", "end"} => ~Held(ref)
       /\ Pc(call) = "end" => rules[RuleOf(call)] = NoRule

Knows(call) ==
  Settled(call) =>
    IF call.input.kind = "create" THEN KnowsCreate(call) ELSE KnowsOther(call)

\* What callers were told about a credential is so.
Good(ref) ==
  /\ ledger[ref] \in {"complete", "stale"} =>
       /\ HasRow(ref)
       /\ rows[ref[2]].adapter = "local" => Held(ref)
       /\ rules[RuleIdOf[ref]] # NoRule
       /\ rules[RuleIdOf[ref]].ref = ref
       /\ ledger[ref] = "complete" => rules[RuleIdOf[ref]].what = rows[ref[2]].what
  /\ ledger[ref] = "deleted" =>
       ~HasRow(ref) /\ ~Held(ref) /\ rules[RuleIdOf[ref]] = NoRule

KnowledgeInv ==
  ~overtaken =>
    /\ \A c \in CallIds :
         calls[c] # NoCall /\ calls[c].input.id \notin contended => Knows(calls[c])
    /\ \A ref \in Refs : ref[2] \notin contended => Good(ref)

-----------------------------------------------------------------------------
(* Programs *)

LEMMA RunsNext ==
  ASSUME NEW input, NEW failing, NEW steps \in Seq(Steps), NEW from, NEW to,
         Runs(input, failing, steps, from, to), steps # << >>
  PROVE  /\ Tail(steps) \in Seq(Steps)
         /\ Runs(input, failing, Tail(steps), After(input, failing, from), to)
  <1> DEFINE rest == Tail(steps)
  <1>1. /\ rest \in Seq(Steps) /\ Len(steps) \in Nat \ {0}
        /\ Len(rest) = Len(steps) - 1
        /\ \A i \in 1..Len(rest) : rest[i] = steps[i + 1]
    BY HeadTailProperties, EmptySeq
  <1>2. rest = << >> <=> Len(rest) = 0
    BY <1>1, EmptySeq
  <1> HIDE DEF rest
  <1>3. 1 \in 1..Len(steps) /\ steps[1] = from
    BY <1>1, EmptySeq DEF Runs
  <1>4. After(input, failing, from) = IF 1 = Len(steps) THEN to ELSE steps[1 + 1]
    BY <1>3 DEF Runs
  <1>5. \A i \in 1..Len(rest) :
          After(input, failing, rest[i]) = IF i = Len(rest) THEN to ELSE rest[i + 1]
    BY <1>1 DEF Runs
  <1>6. rest = << >> => After(input, failing, from) = to
    BY <1>1, <1>2, <1>4
  <1>7. rest # << >> => rest[1] = After(input, failing, from)
    BY <1>1, <1>2, <1>4
  <1>8. Runs(input, failing, rest, After(input, failing, from), to)
    BY <1>5, <1>6, <1>7 DEF Runs
  <1> QED
    BY <1>1, <1>8 DEF rest

LEMMA RunsJoin ==
  ASSUME NEW input, NEW failing, NEW steps \in Seq(Steps), NEW more \in Seq(Steps),
         NEW from, NEW between, NEW to,
         Runs(input, failing, steps, from, between), Runs(input, failing, more, between, to)
  PROVE  /\ steps \o more \in Seq(Steps)
         /\ Runs(input, failing, steps \o more, from, to)
  <1> DEFINE all == steps \o more
  <1>1. /\ all \in Seq(Steps) /\ Len(all) = Len(steps) + Len(more)
        /\ \A i \in 1..Len(all) : all[i] = IF i <= Len(steps) THEN steps[i]
                                           ELSE more[i - Len(steps)]
        /\ Len(steps) \in Nat /\ Len(more) \in Nat
    BY ConcatProperties, LenProperties
  <1>2. /\ steps = << >> <=> Len(steps) = 0
        /\ more = << >> <=> Len(more) = 0
        /\ all = << >> <=> Len(all) = 0
    BY <1>1, EmptySeq
  <1> HIDE DEF all
  <1>3. all = << >> => from = to
    BY <1>1, <1>2 DEF Runs
  <1>4. all # << >> => all[1] = from
    BY <1>1, <1>2 DEF Runs
  <1>5. ASSUME NEW i \in 1..Len(all)
        PROVE  After(input, failing, all[i]) = IF i = Len(all) THEN to ELSE all[i + 1]
    <2>1. CASE i < Len(steps)
      BY <1>1, <2>1 DEF Runs
    <2>2. CASE i = Len(steps)
      BY <1>1, <1>2, <2>2 DEF Runs
    <2>3. CASE i > Len(steps)
      <3> DEFINE j == i - Len(steps)
      <3>1. j \in 1..Len(more) /\ all[i] = more[j]
            /\ (j # Len(more) => all[i + 1] = more[j + 1])
            /\ (j = Len(more) <=> i = Len(all))
        BY <1>1, <2>3
      <3> QED
        BY <3>1 DEF Runs
    <2> QED
      BY <1>1, <2>1, <2>2, <2>3
  <1> QED
    BY <1>1, <1>3, <1>4, <1>5 DEF Runs, all

LEMMA PcOfRuns ==
  ASSUME NEW call, call.todo \in Seq(Steps), NEW from,
         Runs(call.input, call.failing, call.todo, from, "end")
  PROVE  Pc(call) = from
  BY HeadTailProperties DEF Runs, Pc

LEMMA PutRuns ==
  ASSUME NEW input, NEW to, After(input, FALSE, "rename") = to
  PROVE  PutSteps \in Seq(Steps) /\ Runs(input, FALSE, PutSteps, "loadToPut", to)
  BY DEF PutSteps, Steps, Runs, After

LEMMA DeleteRuns ==
  ASSUME NEW input, NEW failing, NEW to, After(input, failing, "rename") = to
  PROVE  /\ DeleteSteps \in Seq(Steps) /\ DeleteSteps # << >>
         /\ Runs(input, failing, DeleteSteps, "loadToDelete", to)
  BY DEF DeleteSteps, Steps, Runs, After

LEMMA AllowRuns ==
  ASSUME NEW input, input.kind # "delete"
  PROVE  AllowSteps \in Seq(Steps) /\ Runs(input, FALSE, AllowSteps, "readRules", "end")
  BY DEF AllowSteps, Steps, Runs, After

\* The first step of the body of a call.
First(input) ==
  CASE input.kind = "create" -> "vacant"
    [] input.kind \in {"replace", "delete"} -> "find"
    [] input.kind \in {"update", "catalogUpdate", "catalogDelete"} -> "readRow"

LEMMA InputType ==
  ASSUME NEW input \in Inputs
  PROVE  /\ input.kind \in {"create", "update", "replace", "delete",
                            "catalogUpdate", "catalogDelete"}
         /\ input.adapter \in {"local", "env"} /\ input.owner \in {"local", "team"}
         /\ input.by \in Callers /\ input.tenant \in Tenants /\ input.id \in Ids
         /\ input.secret \in Secrets
  BY CoreModeAssumption DEF Input, Kinds

LEMMA ProgramRuns ==
  ASSUME NEW input \in Inputs
  PROVE  /\ Program(input) \in Seq(Steps)
         /\ Runs(input, FALSE, Program(input), First(input), "end")
  <1>1. CASE input.kind = "create" /\ input.adapter = "local"
    <2>1. /\ <<"vacant">> \in Seq(Steps)
          /\ Runs(input, FALSE, <<"vacant">>, "vacant", "loadToPut")
      BY <1>1 DEF Steps, Runs, After
    <2>2. PutSteps \in Seq(Steps) /\ Runs(input, FALSE, PutSteps, "loadToPut", "insert")
      BY <1>1, PutRuns DEF After
    <2>3. /\ <<"insert", "record">> \in Seq(Steps)
          /\ Runs(input, FALSE, <<"insert", "record">>, "insert", "readRules")
      BY <1>1 DEF Steps, Runs, After
    <2>4. AllowSteps \in Seq(Steps) /\ Runs(input, FALSE, AllowSteps, "readRules", "end")
      BY <1>1, AllowRuns
    <2> DEFINE one == <<"vacant">> \o PutSteps
               two == one \o <<"insert", "record">>
    <2>5. one \in Seq(Steps) /\ Runs(input, FALSE, one, "vacant", "insert")
      BY <2>1, <2>2, RunsJoin
    <2> HIDE DEF one
    <2>6. two \in Seq(Steps) /\ Runs(input, FALSE, two, "vacant", "readRules")
      BY <2>3, <2>5, RunsJoin
    <2> HIDE DEF two
    <2>7. two \o AllowSteps \in Seq(Steps) /\ Runs(input, FALSE, two \o AllowSteps, "vacant", "end")
      BY <2>4, <2>6, RunsJoin
    <2>8. Program(input) = two \o AllowSteps /\ First(input) = "vacant"
      BY <1>1 DEF Program, First, two, one
    <2> QED
      BY <2>7, <2>8
  <1>2. CASE input.kind = "create" /\ input.adapter = "env"
    <2>1. /\ <<"vacant", "insert", "record">> \in Seq(Steps)
          /\ Runs(input, FALSE, <<"vacant", "insert", "record">>, "vacant", "readRules")
      BY <1>2 DEF Steps, Runs, After
    <2>2. AllowSteps \in Seq(Steps) /\ Runs(input, FALSE, AllowSteps, "readRules", "end")
      BY <1>2, AllowRuns
    <2> DEFINE body == <<"vacant", "insert", "record">>
    <2>3. body \in Seq(Steps) /\ Runs(input, FALSE, body, "vacant", "readRules")
      BY <2>1
    <2>4. Program(input) = body \o AllowSteps /\ First(input) = "vacant"
      BY <1>2 DEF Program, First
    <2> HIDE DEF body
    <2>5. /\ body \o AllowSteps \in Seq(Steps)
          /\ Runs(input, FALSE, body \o AllowSteps, "vacant", "end")
      BY <2>2, <2>3, RunsJoin
    <2> QED
      BY <2>4, <2>5
  <1>3. CASE input.kind = "update"
    <2> DEFINE body == <<"readRow", "update", "record">>
    <2>1. body \in Seq(Steps) /\ Runs(input, FALSE, body, "readRow", "readRules")
      BY <1>3 DEF Steps, Runs, After
    <2>2. AllowSteps \in Seq(Steps) /\ Runs(input, FALSE, AllowSteps, "readRules", "end")
      BY <1>3, AllowRuns
    <2>3. Program(input) = body \o AllowSteps /\ First(input) = "readRow"
      BY <1>3 DEF Program, First
    <2> HIDE DEF body
    <2>4. /\ body \o AllowSteps \in Seq(Steps)
          /\ Runs(input, FALSE, body \o AllowSteps, "readRow", "end")
      BY <2>1, <2>2, RunsJoin
    <2> QED
      BY <2>3, <2>4
  <1>4. CASE input.kind = "replace"
    <2> DEFINE body == <<"find">>
    <2>1. body \in Seq(Steps) /\ Runs(input, FALSE, body, "find", "loadToPut")
      BY <1>4 DEF Steps, Runs, After
    <2>2. PutSteps \in Seq(Steps) /\ Runs(input, FALSE, PutSteps, "loadToPut", "end")
      BY <1>4, PutRuns DEF After
    <2>3. Program(input) = body \o PutSteps /\ First(input) = "find"
      BY <1>4 DEF Program, First
    <2> HIDE DEF body
    <2>4. /\ body \o PutSteps \in Seq(Steps)
          /\ Runs(input, FALSE, body \o PutSteps, "find", "end")
      BY <2>1, <2>2, RunsJoin
    <2> QED
      BY <2>3, <2>4
  <1>5. CASE input.kind = "delete"
    <2> DEFINE body == <<"find", "readRow", "remove", "record">>
               rest == <<"readRules", "disallow">>
               both == body \o DeleteSteps
    <2>1. body \in Seq(Steps) /\ Runs(input, FALSE, body, "find", "loadToDelete")
      BY <1>5 DEF Steps, Runs, After
    <2>2. DeleteSteps \in Seq(Steps) /\ Runs(input, FALSE, DeleteSteps, "loadToDelete", "readRules")
      BY <1>5, DeleteRuns DEF After
    <2>3. rest \in Seq(Steps) /\ Runs(input, FALSE, rest, "readRules", "end")
      BY <1>5 DEF Steps, Runs, After
    <2>4. Program(input) = both \o rest /\ First(input) = "find"
      BY <1>5 DEF Program, First
    <2> HIDE DEF body, rest
    <2>5. both \in Seq(Steps) /\ Runs(input, FALSE, both, "find", "readRules")
      BY <2>1, <2>2, RunsJoin
    <2> HIDE DEF both
    <2>6. /\ both \o rest \in Seq(Steps)
          /\ Runs(input, FALSE, both \o rest, "find", "end")
      BY <2>3, <2>5, RunsJoin
    <2> QED
      BY <2>4, <2>6
  <1>6. CASE input.kind = "catalogUpdate"
    BY <1>6 DEF Program, First, Steps, Runs, After
  <1>7. CASE input.kind = "catalogDelete"
    BY <1>7 DEF Program, First, Steps, Runs, After
  <1> QED
    BY <1>1, <1>2, <1>3, <1>4, <1>5, <1>6, <1>7, InputType

\* What is left of a program when the steps of a deletion are skipped.
LEMMA RunsSkip ==
  ASSUME NEW input, NEW failing, NEW steps \in Seq(Steps),
         Runs(input, failing, steps, "loadToDelete", "end"), steps # << >>
  PROVE  LET rest == SubSeq(steps, Len(DeleteSteps) + 1, Len(steps)) IN
         /\ rest \in Seq(Steps)
         /\ Runs(input, failing, rest, After(input, failing, "rename"), "end")
  <1> DEFINE rest == SubSeq(steps, 5, Len(steps))
  <1>1. Len(DeleteSteps) = 4
    BY DEF DeleteSteps
  <1>2. Len(steps) \in Nat \ {0}
    BY EmptySeq
  <1>3. /\ After(input, failing, "loadToDelete") = "open"
        /\ After(input, failing, "open") = "write"
        /\ After(input, failing, "write") = "rename"
    BY DEF After
  <1>4. steps[1] = "loadToDelete" /\ 1 \in 1..Len(steps)
    BY <1>2 DEF Runs
  <1>5. Len(steps) > 1 /\ steps[1 + 1] = "open"
    BY <1>2, <1>3, <1>4 DEF Runs
  <1>6. 2 \in 1..Len(steps) /\ steps[2] = "open"
    BY <1>2, <1>5
  <1>7. Len(steps) > 2 /\ steps[2 + 1] = "write"
    BY <1>2, <1>3, <1>6 DEF Runs
  <1>8. 3 \in 1..Len(steps) /\ steps[3] = "write"
    BY <1>2, <1>7
  <1>9. Len(steps) > 3 /\ steps[3 + 1] = "rename"
    BY <1>2, <1>3, <1>8 DEF Runs
  <1>10. 4 \in 1..Len(steps) /\ steps[4] = "rename"
    BY <1>2, <1>9
  <1>11. \A i \in 5..Len(steps) : steps[i] \in Steps
    BY <1>2, ElementOfSeq
  <1>12. /\ rest \in Seq(Steps) /\ Len(rest) = Len(steps) - 4
         /\ \A i \in 1..Len(rest) : rest[i] = steps[i + 4]
    <2> DEFINE last == Len(steps)
    <2>1. last \in Int /\ 5 \in Int /\ last >= 4
      BY <1>2, <1>10
    <2>2. \A i \in 5..last : steps[i] \in Steps
      BY <1>11
    <2> HIDE DEF last
    <2>3. /\ SubSeq(steps, 5, last) \in Seq(Steps)
          /\ Len(SubSeq(steps, 5, last)) = IF 5 <= last THEN last - 5 + 1 ELSE 0
          /\ \A i \in 1..last - 5 + 1 : SubSeq(steps, 5, last)[i] = steps[5 + i - 1]
      BY <2>1, <2>2, SubSeqProperties
    <2>4. rest = SubSeq(steps, 5, last)
      BY DEF last
    <2> HIDE DEF rest
    <2>5. Len(rest) = last - 4 /\ \A i \in 1..last - 4 : rest[i] = steps[i + 4]
      BY <2>1, <2>3, <2>4
    <2> QED
      BY <2>3, <2>4, <2>5 DEF last
  <1>13. rest = << >> <=> Len(rest) = 0
    BY <1>12, EmptySeq
  <1> HIDE DEF rest
  <1>14. After(input, failing, "rename") = IF 4 = Len(steps) THEN "end" ELSE steps[4 + 1]
    BY <1>10 DEF Runs
  <1>15. \A i \in 1..Len(rest) :
           After(input, failing, rest[i]) = IF i = Len(rest) THEN "end" ELSE rest[i + 1]
    BY <1>2, <1>12 DEF Runs
  <1>16. rest # << >> => rest[1] = steps[5]
    BY <1>2, <1>12, <1>13
  <1>17. Runs(input, failing, rest, After(input, failing, "rename"), "end")
    BY <1>2, <1>12, <1>13, <1>14, <1>15, <1>16 DEF Runs
  <1> QED
    BY <1>1, <1>12, <1>17 DEF rest

\* Every step leads to a place where the call may be.
LEMMA PlacesFollow ==
  ASSUME NEW input \in Inputs, NEW failing \in BOOLEAN, failing => input.kind = "create",
         NEW step \in Places(input, failing), step # "end"
  PROVE  After(input, failing, step) \in Places(input, failing)
  <1>1. CASE failing
    BY <1>1, InputType DEF Places, DeletePcs, After
  <1>2. CASE ~failing /\ input.kind = "create"
    BY <1>2, InputType DEF Places, PutPcs, After
  <1>3. CASE ~failing /\ input.kind = "update"
    BY <1>3 DEF Places, After
  <1>4. CASE ~failing /\ input.kind = "replace"
    BY <1>4 DEF Places, PutPcs, After
  <1>5. CASE ~failing /\ input.kind = "delete"
    BY <1>5 DEF Places, DeletePcs, After
  <1>6. CASE ~failing /\ input.kind = "catalogUpdate"
    BY <1>6 DEF Places, After
  <1>7. CASE ~failing /\ input.kind = "catalogDelete"
    BY <1>7 DEF Places, After
  <1> QED
    BY <1>1, <1>2, <1>3, <1>4, <1>5, <1>6, <1>7, InputType

-----------------------------------------------------------------------------
(* Steps of a call *)

LEMMA PlaceFacts ==
  ASSUME NEW input \in Inputs, NEW failing \in BOOLEAN, failing => input.kind = "create",
         NEW step \in Places(input, failing)
  PROVE  /\ step \in {"vacant", "insert"} => ~failing /\ input.kind = "create"
         /\ step = "find" => input.kind \in {"replace", "delete"}
         /\ step = "readRow" =>
              \/ failing
              \/ input.kind \in {"delete", "update", "catalogUpdate", "catalogDelete"}
         /\ step = "update" => input.kind \in {"update", "catalogUpdate"}
         /\ step = "remove" => failing \/ input.kind \in {"delete", "catalogDelete"}
         /\ step \in {"loadToPut", "key", "openKey", "writeKey"} =>
              /\ ~failing
              /\ input.kind = "replace" \/ (input.kind = "create" /\ input.adapter = "local")
         /\ step = "loadToDelete" =>
              (failing /\ input.adapter = "local") \/ input.kind = "delete"
         /\ step \in {"open", "write", "rename"} =>
              \/ input.kind \in {"replace", "delete"}
              \/ input.kind = "create" /\ input.adapter = "local"
         /\ step = "readRules" => ~failing /\ input.kind \in {"create", "update", "delete"}
         /\ step = "allow" => ~failing /\ input.kind \in {"create", "update"}
         /\ step = "disallow" => input.kind = "delete"
  <1>1. CASE failing
    BY <1>1 DEF Places, DeletePcs
  <1>2. CASE ~failing /\ input.kind = "create"
    BY <1>2 DEF Places, PutPcs
  <1>3. CASE ~failing /\ input.kind = "update"
    BY <1>3 DEF Places
  <1>4. CASE ~failing /\ input.kind = "replace"
    BY <1>4 DEF Places, PutPcs
  <1>5. CASE ~failing /\ input.kind = "delete"
    BY <1>5 DEF Places, DeletePcs
  <1>6. CASE ~failing /\ input.kind = "catalogUpdate"
    BY <1>6 DEF Places
  <1>7. CASE ~failing /\ input.kind = "catalogDelete"
    BY <1>7 DEF Places
  <1> QED
    BY <1>1, <1>2, <1>3, <1>4, <1>5, <1>6, <1>7, InputType

LEMMA CallType ==
  ASSUME NEW call \in Call
  PROVE  /\ call.input \in Inputs /\ call.failing \in BOOLEAN
         /\ call.todo \in Seq(Steps) /\ call.rescue \in Seq(Seq(Steps))
         /\ call.seen \in Row \cup {NoRow} /\ call.base \in Entries \cup {NoFile}
         /\ call.seenRules \in [RuleIds -> Rule \cup {NoRule}]
         /\ call.key \in CallIds \cup {NoFile}
         /\ call.file \in {"none", "tmp", "secrets", "replaced"}
  BY DEF Call

\* The call goes on to a later step, with what the step let it read.
SameCall(call, new) ==
  /\ new \in Call
  /\ new.input = call.input /\ new.failing = call.failing /\ new.rescue = call.rescue

Seen(call) == call.seen \in Row /\ TenantAllowed(call.input.by, call.seen.tenant)

\* Wherever a call goes, it has its shape if it knows what it is to know there.
LEMMA ShapeAt ==
  ASSUME NEW call \in Call, Shape(call), NEW new, SameCall(call, new), NEW pc,
         pc \in Places(call.input, call.failing),
         Runs(call.input, call.failing, new.todo, pc, "end"),
         call.input.kind # "create" => Seen(new),
         call.failing \/ call.input.kind = "delete" => new.key = NoFile,
         call.input.kind \in {"create", "replace"} /\ ~call.failing
           /\ pc \in {"open", "write", "rename"} => new.key # NoFile
  PROVE  Shape(new) /\ Pc(new) = pc
  <1>1. /\ new.todo \in Seq(Steps)
        /\ new.input = call.input /\ new.failing = call.failing /\ new.rescue = call.rescue
    BY CallType DEF SameCall
  <1>2. Pc(new) = pc
    BY <1>1, PcOfRuns
  <1>3. /\ new.failing => new.input.kind = "create"
        /\ new.rescue # << >> =>
             new.failing /\ new.input.adapter = "local" /\ new.rescue = <<DeleteSteps>>
    BY <1>1 DEF Shape
  <1> QED
    BY <1>1, <1>2, <1>3 DEF Shape, Seen

LEMMA ShapeNext ==
  ASSUME NEW call \in Call, Shape(call), NEW new, SameCall(call, new), Pc(call) # "end",
         NEW pc, pc = After(call.input, call.failing, Pc(call)),
         Runs(call.input, call.failing, new.todo, pc, "end"),
         call.input.kind # "create" => Seen(new),
         \/ new.key = call.key /\ Pc(call) \notin {"key", "writeKey"}
         \/ new.key # NoFile /\ Pc(call) \in {"key", "writeKey"}
         \/ new.key = NoFile /\ Pc(call) = "insert"
  PROVE  Shape(new) /\ Pc(new) = pc
  <1>1. /\ call.input \in Inputs /\ call.failing \in BOOLEAN
        /\ Pc(call) \in Places(call.input, call.failing)
        /\ call.failing => call.input.kind = "create"
    BY CallType DEF Shape
  <1>2. pc \in Places(call.input, call.failing)
    BY <1>1, PlacesFollow
  <1>3. call.failing \/ call.input.kind = "delete" => new.key = NoFile
    BY <1>1, PlaceFacts DEF Shape
  <1>4. pc \in {"open", "write", "rename"} =>
          Pc(call) \in {"key", "writeKey", "open", "write", "loadToDelete"}
    BY DEF After
  <1>5. call.input.kind \in {"create", "replace"} /\ ~call.failing => Pc(call) # "loadToDelete"
    BY <1>1, PlaceFacts
  <1>6. call.input.kind \in {"create", "replace"} /\ ~call.failing
          /\ pc \in {"open", "write", "rename"} => new.key # NoFile
    BY <1>4, <1>5 DEF Shape
  <1> QED
    BY <1>2, <1>3, <1>6, ShapeAt

\* Where a step that is not the first of its call leads, the call is settled.
LEMMA SettledStays ==
  ASSUME NEW call \in Call, Shape(call), Settled(call), call.input.kind # "create"
  PROVE  Seen(call)
  BY DEF Shape, Seen

LEMMA AdvanceRuns ==
  ASSUME NEW call \in Call, Shape(call), call.todo # << >>
  PROVE  /\ Tail(call.todo) \in Seq(Steps)
         /\ Runs(call.input, call.failing, Tail(call.todo),
                 After(call.input, call.failing, Pc(call)), "end")
         /\ Pc(call) = Head(call.todo) /\ Pc(call) \in Steps
         /\ After(call.input, call.failing, Pc(call)) \in Steps \cup {"end"}
  <1>1. call.todo \in Seq(Steps)
    BY CallType
  <1>2. Pc(call) = Head(call.todo) /\ Pc(call) \in Steps
    BY <1>1, HeadTailProperties DEF Pc
  <1>3. After(call.input, call.failing, Pc(call)) \in Steps \cup {"end"}
    BY DEF After, Steps
  <1> QED
    BY <1>1, <1>2, <1>3, RunsNext DEF Shape

\* The other calls stay where they are; a file of theirs may be renamed.
Alike(call, new) ==
  /\ new \in Call
  /\ new.input = call.input /\ new.todo = call.todo /\ new.rescue = call.rescue
  /\ new.failing = call.failing /\ new.seen = call.seen /\ new.key = call.key

OthersStay(c) ==
  /\ DOMAIN calls' = CallIds
  /\ \A d \in CallIds \ {c} : calls'[d] = calls[d] \/ (calls[d] # NoCall /\ Alike(calls[d], calls'[d]))

\* A call has taken a step and goes on, at pc.
GoesTo(c, pc) ==
  /\ calls[c] # NoCall /\ calls[c] \in Call /\ Shape(calls[c]) /\ Pc(calls[c]) # "end"
  /\ OthersStay(c)
  /\ SameCall(calls[c], calls'[c]) /\ Shape(calls'[c]) /\ Pc(calls'[c]) = pc

Following(c) == After(calls[c].input, calls[c].failing, Pc(calls[c]))

BaseInv == TypeOK /\ ShapeInv /\ OneCall /\ ServerInv

LEMMA Active ==
  ASSUME BaseInv, NEW c \in CallIds, calls[c] # NoCall
  PROVE  /\ calls[c] \in Call /\ Shape(calls[c]) /\ server = "up"
         /\ calls[c].input \in Inputs /\ calls[c].failing \in BOOLEAN
         /\ calls[c].todo \in Seq(Steps)
         /\ calls[c].todo # << >> => Pc(calls[c]) = Head(calls[c].todo)
         /\ calls[c].todo = << >> <=> Pc(calls[c]) = "end"
         /\ Pc(calls[c]) \in Places(calls[c].input, calls[c].failing)
         /\ calls[c].failing => calls[c].input.kind = "create"
         /\ calls[c].input.id \in Ids
  <1>1. calls[c] \in Call /\ Shape(calls[c]) /\ server = "up"
    BY DEF BaseInv, TypeOK, ShapeInv, ServerInv
  <1>2. calls[c].todo \in Seq(Steps) /\ calls[c].input \in Inputs /\ calls[c].failing \in BOOLEAN
    BY <1>1, CallType
  <1>3. calls[c].todo # << >> => Head(calls[c].todo) # "end"
    BY <1>2, HeadTailProperties DEF Steps
  <1> QED
    BY <1>1, <1>2, <1>3, InputType DEF Pc, Shape

\* The step's guard gives the call and its place.
LEMMA AtStep ==
  ASSUME BaseInv, NEW c \in CallIds, NEW step, At(c, step)
  PROVE  calls[c] # NoCall /\ calls[c].todo # << >> /\ Pc(calls[c]) = step
  BY Active DEF At

\* Most steps: the call goes on with the next step.
LEMMA GoesNext ==
  ASSUME BaseInv, NEW c \in CallIds, calls[c] # NoCall, calls[c].todo # << >>,
         NEW new, Goes(c, new), SameCall(calls[c], new), new.todo = Tail(calls[c].todo),
         calls[c].input.kind # "create" => Seen(new),
         \/ new.key = calls[c].key /\ Pc(calls[c]) \notin {"key", "writeKey"}
         \/ new.key # NoFile /\ Pc(calls[c]) \in {"key", "writeKey"}
         \/ new.key = NoFile /\ Pc(calls[c]) = "insert"
  PROVE  GoesTo(c, Following(c)) /\ calls'[c] = new
  <1> DEFINE call == calls[c]
             pc == Following(c)
  <1>1. call \in Call /\ Shape(call) /\ Pc(call) # "end"
    BY Active
  <1>2. Runs(call.input, call.failing, new.todo, pc, "end")
    BY <1>1, AdvanceRuns DEF Following
  <1>3. Shape(new) /\ Pc(new) = pc
    BY <1>1, <1>2, ShapeNext DEF Following
  <1>4. calls'[c] = new /\ OthersStay(c)
    BY DEF Goes, BaseInv, TypeOK, OthersStay
  <1> QED
    BY <1>1, <1>3, <1>4 DEF GoesTo

\* What a step of a call, wherever it leads, keeps.
LEMMA BaseStays ==
  ASSUME BaseInv, NEW c \in CallIds, calls[c] # NoCall, OthersStay(c),
         \/ calls'[c] = NoCall
         \/ calls'[c] \in Call /\ Shape(calls'[c]) /\ calls'[c].input = calls[c].input,
         UNCHANGED <<server, pending, contended>>,
         rows' \in [Ids -> Row \cup {NoRow}],
         rules' \in [RuleIds -> Rule \cup {NoRule}],
         secrets' \in Entries \cup {NoFile, Empty, Torn},
         tmp' \in Entries \cup {NoFile, Empty, Torn},
         keyFile' \in CallIds \cup {NoFile, Empty},
         ledger' \in [Refs -> {"none", "complete", "stale", "deleted"}],
         overtaken' \in BOOLEAN
  PROVE  BaseInv'
  <1>1. \A d \in CallIds : calls'[d] # NoCall =>
          /\ calls[d] # NoCall /\ calls'[d] \in Call /\ Shape(calls'[d])
          /\ calls'[d].input = calls[d].input
    <2> SUFFICES ASSUME NEW d \in CallIds, calls'[d] # NoCall
                 PROVE  /\ calls[d] # NoCall /\ calls'[d] \in Call /\ Shape(calls'[d])
                        /\ calls'[d].input = calls[d].input
      OBVIOUS
    <2>1. CASE d = c
      BY <2>1
    <2>2. CASE d # c /\ calls'[d] = calls[d]
      BY <2>2, Active
    <2>3. CASE d # c /\ calls[d] # NoCall /\ Alike(calls[d], calls'[d])
      <3>1. Shape(calls[d])
        BY <2>3, Active
      <3>2. Pc(calls'[d]) = Pc(calls[d])
        BY <2>3 DEF Alike, Pc
      <3> QED
        BY <2>3, <3>1, <3>2 DEF Alike, Shape, Settled
    <2> QED
      BY <2>1, <2>2, <2>3 DEF OthersStay
  <1>2. ShapeInv'
    BY <1>1 DEF ShapeInv
  <1>3. OneCall'
    BY <1>1 DEF BaseInv, OneCall
  <1>4. server = "up"
    BY Active
  <1>5. ServerInv'
    BY <1>4 DEF ServerInv
  <1>6. TypeOK'
    BY <1>1 DEF BaseInv, TypeOK, OthersStay
  <1> QED
    BY <1>2, <1>3, <1>5, <1>6 DEF BaseInv

\* The credential of a settled call.
LEMMA RefType ==
  ASSUME NEW call \in Call, Shape(call), Settled(call)
  PROVE  /\ RefOf(call) \in Refs /\ RuleOf(call) \in RuleIds
         /\ RefOf(call)[1] = TenantOfCall(call) /\ RefOf(call)[2] = call.input.id
         /\ call.input.kind # "create" =>
              /\ RefOf(call)[1] = call.seen.tenant
              /\ TenantAllowed(call.input.by, RefOf(call)[1])
         /\ call.input.kind = "create" => RefOf(call)[1] = call.input.tenant
  <1>1. call.input \in Inputs
    BY CallType
  <1>2. TenantOfCall(call) \in Tenants
    BY <1>1, InputType DEF TenantOfCall, Shape, Row
  <1>3. RefOf(call) \in Refs
    BY <1>1, <1>2, InputType DEF RefOf, Refs
  <1> QED
    BY <1>3, CoreModeAssumption DEF RefOf, RuleOf, TenantOfCall, Shape

LEMMA GoesOn ==
  ASSUME BaseInv, NEW c \in CallIds, NEW step, At(c, step),
         step \notin {"find", "readRow", "key", "writeKey"},
         NEW new \in Call, Goes(c, new), new.todo = Tail(calls[c].todo),
         new.input = calls[c].input, new.failing = calls[c].failing,
         new.rescue = calls[c].rescue, new.seen = calls[c].seen, new.key = calls[c].key
  PROVE  GoesTo(c, Following(c)) /\ calls'[c] = new
  <1>1. calls[c] # NoCall /\ calls[c].todo # << >> /\ Pc(calls[c]) = step
    BY AtStep
  <1>2. calls[c] \in Call /\ Shape(calls[c]) /\ calls[c].input \in Inputs
    BY <1>1, Active
  <1>3. calls[c].input.kind # "create" => Settled(calls[c])
    BY <1>1, <1>2, InputType DEF Settled
  <1>4. calls[c].input.kind # "create" => Seen(new)
    BY <1>2, <1>3, SettledStays DEF Seen
  <1> QED
    BY <1>1, <1>4, GoesNext DEF SameCall

LEMMA TailType ==
  ASSUME NEW call \in Call, call.todo # << >>
  PROVE  Tail(call.todo) \in Seq(Steps) /\ Advance(call) \in Call
  <1>1. Tail(call.todo) \in Seq(Steps)
    BY CallType, HeadTailProperties
  <1> QED
    BY <1>1 DEF Advance, Call

LEMMA VacantStep ==
  ASSUME BaseInv, NEW c \in CallIds, Vacant(c)
  PROVE  /\ GoesTo(c, Following(c)) /\ BaseInv' /\ calls'[c].key = calls[c].key
         /\ calls'[c].seen = calls[c].seen
  <1> DEFINE call == calls[c]
             new == Advance(call)
  <1>1. /\ At(c, "vacant") /\ call # NoCall /\ call.todo # << >> /\ Pc(call) = "vacant"
        /\ Goes(c, new)
        /\ UNCHANGED <<rows, rules, secrets, tmp, keyFile, server, pending, contended, overtaken>>
    BY AtStep DEF Vacant
  <1>2. call \in Call /\ Shape(call) /\ new \in Call
    BY <1>1, Active, TailType
  <1>3. /\ new.todo = Tail(call.todo) /\ new.input = call.input
        /\ new.failing = call.failing /\ new.rescue = call.rescue
        /\ new.key = call.key /\ new.seen = call.seen
    BY <1>2 DEF Advance, Call
  <1> HIDE DEF new
  <1>4. GoesTo(c, Following(c)) /\ calls'[c] = new
    BY <1>1, <1>2, <1>3, GoesOn
  <1>5. ledger' \in [Refs -> {"none", "complete", "stale", "deleted"}]
    BY DEF Vacant, BaseInv, TypeOK
  <1> QED
    BY <1>1, <1>3, <1>4, <1>5, BaseStays DEF GoesTo, SameCall, BaseInv, TypeOK

LEMMA FindStep ==
  ASSUME BaseInv, NEW c \in CallIds, Find(c)
  PROVE  /\ GoesTo(c, Following(c)) /\ BaseInv'
         /\ calls'[c].seen = rows[calls[c].input.id] /\ calls'[c].key = calls[c].key
  <1> DEFINE call == calls[c]
             row == rows[call.input.id]
             new == [Advance(call) EXCEPT !.seen = row]
  <1>1. /\ At(c, "find") /\ call # NoCall /\ call.todo # << >> /\ Pc(call) = "find"
        /\ Goes(c, new) /\ row # NoRow /\ TenantAllowed(call.input.by, row.tenant)
        /\ UNCHANGED <<rows, rules, secrets, tmp, keyFile, server, pending, ledger, contended, overtaken>>
    BY AtStep DEF Find, Visible
  <1>2. call \in Call /\ Shape(call) /\ Advance(call) \in Call /\ call.input.id \in Ids
    BY <1>1, Active, TailType
  <1>3. row \in Row
    BY <1>1, <1>2 DEF BaseInv, TypeOK
  <1>4. /\ new \in Call /\ new.todo = Tail(call.todo) /\ new.input = call.input
        /\ new.failing = call.failing /\ new.rescue = call.rescue
        /\ new.seen = row /\ new.key = call.key
    BY <1>2, <1>3 DEF Advance, Call
  <1> HIDE DEF new
  <1>5. GoesTo(c, Following(c)) /\ calls'[c] = new
    BY <1>1, <1>3, <1>4, GoesNext DEF SameCall, Seen
  <1> QED
    BY <1>1, <1>4, <1>5, BaseStays DEF GoesTo, SameCall, BaseInv, TypeOK

LEMMA ReadRowStep ==
  ASSUME BaseInv, NEW c \in CallIds, ReadRow(c)
  PROVE  /\ GoesTo(c, Following(c)) /\ BaseInv'
         /\ calls'[c].key = calls[c].key
         /\ calls'[c].seen = IF calls[c].input.kind \in {"create", "delete"} THEN calls[c].seen
                             ELSE rows[calls[c].input.id]
  <1> DEFINE call == calls[c]
             row == rows[call.input.id]
             seen == IF call.input.kind \in {"create", "delete"} THEN call.seen ELSE row
             new == [Advance(call) EXCEPT !.seen = seen]
  <1>1. /\ At(c, "readRow") /\ call # NoCall /\ call.todo # << >> /\ Pc(call) = "readRow"
        /\ row # NoRow /\ TenantAllowed(call.input.by, row.tenant)
        /\ UNCHANGED <<rows, rules, secrets, tmp, keyFile, server, pending, ledger, contended, overtaken>>
    BY AtStep DEF ReadRow, Visible
  <1>2. call \in Call /\ Shape(call) /\ Advance(call) \in Call /\ call.input.id \in Ids
    BY <1>1, Active, TailType
  <1>3. row \in Row
    BY <1>1, <1>2 DEF BaseInv, TypeOK
  <1>4. Goes(c, new)
    BY <1>2 DEF ReadRow, Advance, Call
  <1>5. call.input.kind = "delete" => Seen(call)
    BY <1>1, <1>2, SettledStays DEF Settled
  <1>6. /\ new \in Call /\ new.todo = Tail(call.todo) /\ new.input = call.input
        /\ new.failing = call.failing /\ new.rescue = call.rescue
        /\ new.seen = seen /\ new.key = call.key
    BY <1>2, <1>3 DEF Advance, Call
  <1> HIDE DEF new
  <1>7. call.input.kind # "create" => Seen(new)
    BY <1>1, <1>3, <1>5, <1>6 DEF Seen
  <1>8. GoesTo(c, Following(c)) /\ calls'[c] = new
    BY <1>1, <1>4, <1>6, <1>7, GoesNext DEF SameCall
  <1> QED
    BY <1>1, <1>6, <1>8, BaseStays DEF GoesTo, SameCall, BaseInv, TypeOK

LEMMA InsertStep ==
  ASSUME BaseInv, NEW c \in CallIds, Insert(c)
  PROVE  GoesTo(c, Following(c)) /\ BaseInv' /\ calls'[c].key = NoFile
  <1> DEFINE call == calls[c]
             new == [Advance(call) EXCEPT !.key = NoFile]
             row == Made(call.input)
  <1>1. /\ At(c, "insert") /\ call # NoCall /\ call.todo # << >> /\ Pc(call) = "insert"
        /\ Goes(c, new)
        /\ rows' = [rows EXCEPT ![call.input.id] = row]
        /\ Told(RefOf(call), "none")
        /\ UNCHANGED <<rules, secrets, tmp, keyFile, server, pending, contended, overtaken>>
    BY AtStep DEF Insert, Made
  <1>2. /\ call \in Call /\ Shape(call) /\ Advance(call) \in Call /\ call.input \in Inputs
        /\ call.input.kind = "create"
    BY <1>1, Active, TailType, PlaceFacts
  <1>3. row \in Row
    BY <1>2, InputType DEF Made, Row
  <1>4. /\ new \in Call /\ new.todo = Tail(call.todo) /\ new.input = call.input
        /\ new.failing = call.failing /\ new.rescue = call.rescue
        /\ new.key = NoFile
    BY <1>2 DEF Advance, Call
  <1> HIDE DEF new
  <1>5. GoesTo(c, Following(c)) /\ calls'[c] = new
    BY <1>1, <1>2, <1>4, GoesNext DEF SameCall
  <1> HIDE DEF row
  <1>6. rows' \in [Ids -> Row \cup {NoRow}]
    BY <1>1, <1>3 DEF BaseInv, TypeOK
  <1>7. ledger' \in [Refs -> {"none", "complete", "stale", "deleted"}]
    BY <1>1 DEF Told, BaseInv, TypeOK
  <1> QED
    BY <1>1, <1>4, <1>5, <1>6, <1>7, BaseStays DEF GoesTo, SameCall, BaseInv, TypeOK

LEMMA UpdateStep ==
  ASSUME BaseInv, NEW c \in CallIds, Update(c)
  PROVE  /\ GoesTo(c, Following(c)) /\ BaseInv' /\ calls'[c].key = calls[c].key
         /\ calls[c].input.kind \in {"update", "catalogUpdate"} /\ Seen(calls[c])
         /\ calls'[c].seen = [calls[c].seen EXCEPT !.what = "updated"]
  <1> DEFINE call == calls[c]
             written == [call.seen EXCEPT !.what = "updated"]
             new == [Advance(call) EXCEPT !.seen = written]
  <1>1. /\ At(c, "update") /\ call # NoCall /\ call.todo # << >> /\ Pc(call) = "update"
        /\ Goes(c, new)
        /\ rows' = [id \in Ids |-> IF id # call.input.id \/ rows[id] = NoRow THEN rows[id]
                                  ELSE [written EXCEPT !.tenant = rows[id].tenant]]
        /\ UNCHANGED <<rules, secrets, tmp, keyFile, server, pending, contended, overtaken>>
    BY AtStep DEF Update
  <1>2. /\ call \in Call /\ Shape(call) /\ Advance(call) \in Call /\ call.input \in Inputs
        /\ call.input.kind \in {"update", "catalogUpdate"}
    BY <1>1, Active, TailType, PlaceFacts
  <1>3. Settled(call) /\ Seen(call)
    BY <1>1, <1>2, SettledStays DEF Settled
  <1>4. written \in Row /\ written.tenant = call.seen.tenant
    BY <1>3 DEF Seen, Row
  <1>5. /\ new \in Call /\ new.todo = Tail(call.todo) /\ new.input = call.input
        /\ new.failing = call.failing /\ new.rescue = call.rescue
        /\ new.key = call.key /\ new.seen = written
    BY <1>2, <1>4 DEF Advance, Call
  <1> HIDE DEF new
  <1>6. GoesTo(c, Following(c)) /\ calls'[c] = new
    <2>1. Seen(new)
      BY <1>3, <1>4, <1>5 DEF Seen
    <2> QED
      BY <1>1, <1>5, <2>1, GoesNext DEF SameCall
  <1> HIDE DEF written
  <1>7. ASSUME NEW id \in Ids, rows[id] # NoRow
        PROVE  [written EXCEPT !.tenant = rows[id].tenant] \in Row
    BY <1>4, <1>7 DEF BaseInv, TypeOK, Row
  <1>8. rows' \in [Ids -> Row \cup {NoRow}]
    BY <1>1, <1>7 DEF BaseInv, TypeOK
  <1>9. ledger' \in [Refs -> {"none", "complete", "stale", "deleted"}]
    <2>1. RefOf(call) \in Refs
      BY <1>2, <1>3, RefType
    <2> QED
      BY <2>1 DEF Update, Told, BaseInv, TypeOK
  <1> QED
    BY <1>1, <1>2, <1>3, <1>5, <1>6, <1>8, <1>9, BaseStays DEF GoesTo, SameCall, BaseInv, TypeOK, written

LEMMA RemoveStep ==
  ASSUME BaseInv, NEW c \in CallIds, Remove(c)
  PROVE  /\ GoesTo(c, Following(c)) /\ BaseInv' /\ calls'[c].key = calls[c].key
         /\ calls'[c].seen = calls[c].seen
  <1> DEFINE call == calls[c]
             new == Advance(call)
  <1>1. /\ At(c, "remove") /\ call # NoCall /\ call.todo # << >> /\ Pc(call) = "remove"
        /\ Goes(c, new)
        /\ rows' = [rows EXCEPT ![call.input.id] = NoRow]
        /\ Told(RefOf(call), "none")
        /\ UNCHANGED <<rules, secrets, tmp, keyFile, server, pending, contended, overtaken>>
    BY AtStep DEF Remove
  <1>2. /\ call \in Call /\ Shape(call) /\ new \in Call
    BY <1>1, Active, TailType
  <1>3. /\ new.todo = Tail(call.todo) /\ new.input = call.input
        /\ new.failing = call.failing /\ new.rescue = call.rescue
        /\ new.key = call.key /\ new.seen = call.seen
    BY <1>2 DEF Advance, Call
  <1> HIDE DEF new
  <1>4. GoesTo(c, Following(c)) /\ calls'[c] = new
    BY <1>1, <1>2, <1>3, GoesOn
  <1>5. rows' \in [Ids -> Row \cup {NoRow}]
    BY <1>1 DEF BaseInv, TypeOK
  <1>6. ledger' \in [Refs -> {"none", "complete", "stale", "deleted"}]
    BY <1>1 DEF Told, BaseInv, TypeOK
  <1> QED
    BY <1>1, <1>3, <1>4, <1>5, <1>6, BaseStays DEF GoesTo, SameCall, BaseInv, TypeOK

LEMMA RecordStep ==
  ASSUME BaseInv, NEW c \in CallIds, Record(c)
  PROVE  /\ GoesTo(c, Following(c)) /\ BaseInv' /\ calls'[c].key = calls[c].key
         /\ calls'[c].seen = calls[c].seen
  <1> DEFINE call == calls[c]
             new == Advance(call)
  <1>1. /\ At(c, "record") /\ call # NoCall /\ call.todo # << >> /\ Pc(call) = "record"
        /\ Goes(c, new)
        /\ UNCHANGED <<rows, rules, secrets, tmp, keyFile, server, pending, ledger, contended, overtaken>>
    BY AtStep DEF Record
  <1>2. /\ call \in Call /\ Shape(call) /\ new \in Call
    BY <1>1, Active, TailType
  <1>3. /\ new.todo = Tail(call.todo) /\ new.input = call.input
        /\ new.failing = call.failing /\ new.rescue = call.rescue
        /\ new.key = call.key /\ new.seen = call.seen
    BY <1>2 DEF Advance, Call
  <1> HIDE DEF new
  <1>4. GoesTo(c, Following(c)) /\ calls'[c] = new
    BY <1>1, <1>2, <1>3, GoesOn
  <1> QED
    BY <1>1, <1>3, <1>4, BaseStays DEF GoesTo, SameCall, BaseInv, TypeOK

LEMMA SavedType ==
  ASSUME NEW call \in Call
  PROVE  Saved(call) \in Entries
  <1> DEFINE loaded == Loaded(call.base)
             entry == IF call.key = NoFile THEN NoEntry
                      ELSE [secret |-> call.input.secret, key |-> call.key]
  <1>1. call.input \in Inputs /\ call.key \in CallIds \cup {NoFile}
        /\ call.base \in Entries \cup {NoFile}
    BY CallType
  <1>2. loaded \in Entries
    BY <1>1 DEF Loaded, NoEntries, Entries
  <1>3. entry \in Entry \cup {NoEntry}
    BY <1>1, InputType DEF Entry
  <1>4. Saved(call) = [loaded EXCEPT ![RefOf(call)] = entry]
    BY DEF Saved
  <1> HIDE DEF loaded, entry
  <1> QED
    BY <1>2, <1>3, <1>4 DEF Entries

LEMMA LoadStep ==
  ASSUME BaseInv, NEW c \in CallIds, Load(c)
  PROVE  /\ BaseInv' /\ calls'[c].key = calls[c].key /\ calls'[c].seen = calls[c].seen
         /\ \/ GoesTo(c, Following(c))
            \/ /\ Pc(calls[c]) = "loadToDelete" /\ ~Held(RefOf(calls[c]))
               /\ GoesTo(c, After(calls[c].input, calls[c].failing, "rename"))
         /\ Pc(calls[c]) \in {"loadToPut", "loadToDelete"}
  <1> DEFINE call == calls[c]
  <1>1. /\ UNCHANGED <<rows, rules, secrets, tmp, keyFile, server, pending, ledger, contended, overtaken>>
        /\ secrets \in Entries \cup {NoFile}
    BY DEF Load, BaseInv, TypeOK
  <1>2. ASSUME NEW step \in {"loadToPut", "loadToDelete"}, At(c, step),
               Goes(c, [Advance(call) EXCEPT !.base = secrets])
        PROVE  /\ BaseInv' /\ calls'[c].key = calls[c].key /\ calls'[c].seen = calls[c].seen
               /\ GoesTo(c, Following(c)) /\ Pc(calls[c]) = step
    <2> DEFINE new == [Advance(call) EXCEPT !.base = secrets]
    <2>1. call # NoCall /\ call.todo # << >> /\ Pc(call) = step
      BY <1>2, AtStep
    <2>2. call \in Call /\ Shape(call) /\ Advance(call) \in Call
      BY <2>1, Active, TailType
    <2>3. /\ new \in Call /\ new.todo = Tail(call.todo) /\ new.input = call.input
          /\ new.failing = call.failing /\ new.rescue = call.rescue
          /\ new.key = call.key /\ new.seen = call.seen
      BY <1>1, <2>2 DEF Advance, Call
    <2> HIDE DEF new
    <2>4. Goes(c, new)
      BY <1>2 DEF new
    <2>5. GoesTo(c, Following(c)) /\ calls'[c] = new
      BY <1>2, <2>3, <2>4, GoesOn
    <2> QED
      BY <1>1, <2>1, <2>3, <2>5, BaseStays DEF GoesTo, SameCall, BaseInv, TypeOK
  <1>3. ASSUME At(c, "loadToDelete"), Loaded(secrets)[RefOf(call)] = NoEntry,
               Goes(c, [call EXCEPT !.todo = SubSeq(@, Len(DeleteSteps) + 1, Len(@))])
        PROVE  /\ BaseInv' /\ calls'[c].key = calls[c].key /\ calls'[c].seen = calls[c].seen
               /\ GoesTo(c, After(call.input, call.failing, "rename"))
               /\ Pc(calls[c]) = "loadToDelete"
    <2> DEFINE rest == SubSeq(call.todo, Len(DeleteSteps) + 1, Len(call.todo))
               new == [call EXCEPT !.todo = rest]
               pc == After(call.input, call.failing, "rename")
    <2>1. call # NoCall /\ call.todo # << >> /\ Pc(call) = "loadToDelete"
      BY <1>3, AtStep
    <2>2. /\ call \in Call /\ Shape(call) /\ call.todo \in Seq(Steps) /\ call.input \in Inputs
          /\ call.failing \in BOOLEAN /\ (call.failing => call.input.kind = "create")
          /\ "loadToDelete" \in Places(call.input, call.failing)
      BY <2>1, Active
    <2>3. Runs(call.input, call.failing, call.todo, "loadToDelete", "end")
      BY <2>1, <2>2 DEF Shape
    <2>4. rest \in Seq(Steps) /\ Runs(call.input, call.failing, rest, pc, "end")
      BY <2>1, <2>2, <2>3, RunsSkip
    <2>5. (call.failing /\ call.input.adapter = "local") \/ call.input.kind = "delete"
      BY <2>2, PlaceFacts
    <2>6. "rename" \in Places(call.input, call.failing)
      BY <2>2, <2>5 DEF Places, DeletePcs
    <2>7. pc \in Places(call.input, call.failing)
      BY <2>2, <2>6, PlacesFollow
    <2> HIDE DEF rest, pc
    <2>8. /\ new \in Call /\ new.todo = rest /\ new.input = call.input
          /\ new.failing = call.failing /\ new.rescue = call.rescue
          /\ new.key = call.key /\ new.seen = call.seen
      BY <2>2, <2>4 DEF Call
    <2>9. Goes(c, new)
      BY <1>3 DEF rest
    <2> HIDE DEF new
    <2>10. call.input.kind # "create" => Seen(new)
      BY <2>1, <2>2, <2>5, <2>8, SettledStays DEF Seen, Settled
    <2>11. call.failing \/ call.input.kind = "delete" => new.key = NoFile
      BY <2>2, <2>8 DEF Shape
    <2>12. Shape(new) /\ Pc(new) = pc
      BY <2>2, <2>4, <2>5, <2>7, <2>8, <2>10, <2>11, ShapeAt DEF SameCall
    <2>13. OthersStay(c) /\ calls'[c] = new
      BY <2>9 DEF Goes, BaseInv, TypeOK, OthersStay
    <2>14. GoesTo(c, pc)
      BY <2>1, <2>2, <2>8, <2>12, <2>13 DEF GoesTo, SameCall
    <2> QED
      BY <1>1, <2>1, <2>8, <2>13, <2>14, BaseStays DEF GoesTo, SameCall, BaseInv, TypeOK, pc
  <1>4. \/ At(c, "loadToPut") /\ Goes(c, [Advance(call) EXCEPT !.base = secrets])
        \/ /\ At(c, "loadToDelete")
           /\ Goes(c, IF Loaded(secrets)[RefOf(call)] = NoEntry
                      THEN [call EXCEPT !.todo = SubSeq(@, Len(DeleteSteps) + 1, Len(@))]
                      ELSE [Advance(call) EXCEPT !.base = secrets])
    BY DEF Load
  <1> QED
    BY <1>2, <1>3, <1>4 DEF Held

LEMMA ReadKeyStep ==
  ASSUME BaseInv, NEW c \in CallIds, ReadKey(c)
  PROVE  /\ BaseInv' /\ calls'[c].seen = calls[c].seen /\ Pc(calls[c]) = "key"
         /\ \/ GoesTo(c, "open") /\ calls'[c].key = keyFile
            \/ GoesTo(c, "openKey") /\ calls'[c].key = calls[c].key
  <1> DEFINE call == calls[c]
             rest == Tail(call.todo)
             both == <<"openKey", "writeKey">> \o rest
             asks == [call EXCEPT !.todo = both]
             goes == [Advance(call) EXCEPT !.key = keyFile]
  <1>1. /\ At(c, "key") /\ call # NoCall /\ call.todo # << >> /\ Pc(call) = "key"
        /\ keyFile # Empty
        /\ Goes(c, IF keyFile = NoFile THEN asks ELSE goes)
        /\ UNCHANGED <<rows, rules, secrets, tmp, keyFile, server, pending, ledger, contended, overtaken>>
    BY AtStep DEF ReadKey
  <1>2. /\ call \in Call /\ Shape(call) /\ Advance(call) \in Call /\ call.input \in Inputs
        /\ call.failing \in BOOLEAN /\ ~call.failing
        /\ call.input.kind = "replace" \/ (call.input.kind = "create" /\ call.input.adapter = "local")
    BY <1>1, Active, TailType, PlaceFacts
  <1>3. After(call.input, call.failing, "key") = "open"
    BY DEF After
  <1>4. rest \in Seq(Steps) /\ Runs(call.input, call.failing, rest, "open", "end")
    BY <1>1, <1>2, <1>3, AdvanceRuns
  <1>5. call.input.kind # "create" => Seen(call)
    BY <1>1, <1>2, SettledStays DEF Settled
  <1>6. CASE keyFile = NoFile
    <2> HIDE DEF rest
    <2>1. /\ <<"openKey", "writeKey">> \in Seq(Steps)
          /\ Runs(call.input, call.failing, <<"openKey", "writeKey">>, "openKey", "open")
      BY DEF Steps, Runs, After
    <2>2. both \in Seq(Steps) /\ Runs(call.input, call.failing, both, "openKey", "end")
      BY <1>4, <2>1, RunsJoin
    <2> HIDE DEF both
    <2>3. /\ asks \in Call /\ asks.todo = both /\ asks.input = call.input
          /\ asks.failing = call.failing /\ asks.rescue = call.rescue
          /\ asks.key = call.key /\ asks.seen = call.seen
      BY <1>2, <2>2 DEF Call
    <2>4. Goes(c, asks)
      BY <1>1, <1>6
    <2> HIDE DEF asks
    <2>5. "openKey" \in Places(call.input, call.failing)
      BY <1>2 DEF Places, PutPcs
    <2>6. Shape(asks) /\ Pc(asks) = "openKey"
      BY <1>2, <1>5, <2>2, <2>3, <2>5, ShapeAt DEF SameCall, Seen
    <2>7. OthersStay(c) /\ calls'[c] = asks
      BY <2>4 DEF Goes, BaseInv, TypeOK, OthersStay
    <2>8. GoesTo(c, "openKey")
      BY <1>1, <1>2, <2>3, <2>6, <2>7 DEF GoesTo, SameCall
    <2> QED
      BY <1>1, <2>3, <2>7, <2>8, BaseStays DEF GoesTo, SameCall, BaseInv, TypeOK
  <1>7. CASE keyFile # NoFile
    <2>1. keyFile \in CallIds
      BY <1>1, <1>7 DEF BaseInv, TypeOK
    <2>2. /\ goes \in Call /\ goes.todo = rest /\ goes.input = call.input
          /\ goes.failing = call.failing /\ goes.rescue = call.rescue
          /\ goes.key = keyFile /\ goes.seen = call.seen
      BY <1>2, <2>1 DEF Advance, Call
    <2>3. Goes(c, goes)
      BY <1>1, <1>7
    <2> HIDE DEF goes
    <2>4. GoesTo(c, Following(c)) /\ calls'[c] = goes
      BY <1>1, <1>5, <1>7, <2>2, <2>3, GoesNext DEF SameCall, Seen
    <2>5. Following(c) = "open"
      BY <1>1, <1>3 DEF Following
    <2> QED
      BY <1>1, <2>2, <2>4, <2>5, BaseStays DEF GoesTo, SameCall, BaseInv, TypeOK
  <1> QED
    BY <1>6, <1>7

LEMMA OpenKeyStep ==
  ASSUME BaseInv, NEW c \in CallIds, OpenKey(c)
  PROVE  /\ GoesTo(c, "writeKey") /\ BaseInv' /\ calls'[c].key = calls[c].key
         /\ calls'[c].seen = calls[c].seen /\ Pc(calls[c]) = "openKey"
  <1> DEFINE call == calls[c]
             new == Advance(call)
  <1>1. /\ At(c, "openKey") /\ call # NoCall /\ call.todo # << >> /\ Pc(call) = "openKey"
        /\ Goes(c, new) /\ keyFile' = Empty /\ overtaken' = (overtaken \/ keyFile # NoFile)
        /\ UNCHANGED <<rows, rules, secrets, tmp, server, pending, ledger, contended>>
    BY AtStep DEF OpenKey
  <1>2. /\ call \in Call /\ Shape(call) /\ new \in Call
    BY <1>1, Active, TailType
  <1>3. /\ new.todo = Tail(call.todo) /\ new.input = call.input
        /\ new.failing = call.failing /\ new.rescue = call.rescue
        /\ new.key = call.key /\ new.seen = call.seen
    BY <1>2 DEF Advance, Call
  <1> HIDE DEF new
  <1>4. GoesTo(c, Following(c)) /\ calls'[c] = new
    BY <1>1, <1>2, <1>3, GoesOn
  <1>5. Following(c) = "writeKey"
    BY <1>1 DEF Following, After
  <1>6. overtaken' \in BOOLEAN
    BY <1>1 DEF BaseInv, TypeOK
  <1> QED
    BY <1>1, <1>3, <1>4, <1>5, <1>6, BaseStays DEF GoesTo, SameCall, BaseInv, TypeOK

LEMMA WriteKeyStep ==
  ASSUME BaseInv, NEW c \in CallIds, WriteKey(c)
  PROVE  /\ GoesTo(c, "open") /\ BaseInv' /\ calls'[c].key = c
         /\ calls'[c].seen = calls[c].seen /\ Pc(calls[c]) = "writeKey"
  <1> DEFINE call == calls[c]
             new == [Advance(call) EXCEPT !.key = c]
  <1>1. /\ At(c, "writeKey") /\ call # NoCall /\ call.todo # << >> /\ Pc(call) = "writeKey"
        /\ Goes(c, new) /\ keyFile' = c
        /\ UNCHANGED <<rows, rules, secrets, tmp, server, pending, ledger, contended, overtaken>>
    BY AtStep DEF WriteKey
  <1>2. /\ call \in Call /\ Shape(call) /\ Advance(call) \in Call
        /\ call.input.kind = "replace" \/ call.input.kind = "create"
    BY <1>1, Active, TailType, PlaceFacts
  <1>3. call.input.kind # "create" => Seen(call)
    BY <1>1, <1>2, SettledStays DEF Settled
  <1>4. /\ new \in Call /\ new.todo = Tail(call.todo) /\ new.input = call.input
        /\ new.failing = call.failing /\ new.rescue = call.rescue
        /\ new.key = c /\ new.seen = call.seen /\ c # NoFile
    BY <1>2, CoreModeAssumption DEF Advance, Call
  <1> HIDE DEF new
  <1>5. GoesTo(c, Following(c)) /\ calls'[c] = new
    BY <1>1, <1>3, <1>4, GoesNext DEF SameCall, Seen
  <1>6. Following(c) = "open"
    BY <1>1 DEF Following, After
  <1> QED
    BY <1>1, <1>4, <1>5, <1>6, BaseStays DEF GoesTo, SameCall, BaseInv, TypeOK

LEMMA OpenStep ==
  ASSUME BaseInv, NEW c \in CallIds, Open(c)
  PROVE  /\ GoesTo(c, Following(c)) /\ BaseInv' /\ calls'[c].key = calls[c].key
         /\ calls'[c].seen = calls[c].seen /\ Pc(calls[c]) = "open"
  <1> DEFINE call == calls[c]
             new == [Advance(call) EXCEPT !.file = "tmp"]
  <1>1. /\ At(c, "open") /\ call # NoCall /\ call.todo # << >> /\ Pc(call) = "open"
        /\ Goes(c, new) /\ tmp' = Empty
        /\ UNCHANGED <<rows, rules, secrets, keyFile, server, pending, ledger, contended, overtaken>>
    BY AtStep DEF Open
  <1>2. /\ call \in Call /\ Shape(call) /\ Advance(call) \in Call
    BY <1>1, Active, TailType
  <1>3. /\ new \in Call /\ new.todo = Tail(call.todo) /\ new.input = call.input
        /\ new.failing = call.failing /\ new.rescue = call.rescue
        /\ new.key = call.key /\ new.seen = call.seen
    BY <1>2 DEF Advance, Call
  <1> HIDE DEF new
  <1>4. GoesTo(c, Following(c)) /\ calls'[c] = new
    BY <1>1, <1>3, GoesOn
  <1> QED
    BY <1>1, <1>3, <1>4, BaseStays DEF GoesTo, SameCall, BaseInv, TypeOK

LEMMA WriteStep ==
  ASSUME BaseInv, NEW c \in CallIds, Write(c)
  PROVE  /\ GoesTo(c, Following(c)) /\ BaseInv' /\ calls'[c].key = calls[c].key
         /\ calls'[c].seen = calls[c].seen /\ Pc(calls[c]) = "write"
         /\ ~overtaken' => ~overtaken /\ secrets' = secrets
  <1> DEFINE call == calls[c]
             new == [Advance(call) EXCEPT !.file = "none"]
  <1>1. /\ At(c, "write") /\ call # NoCall /\ call.todo # << >> /\ Pc(call) = "write"
        /\ Goes(c, new)
        /\ overtaken' = (overtaken \/ call.file # "tmp" \/ tmp # Empty)
        /\ UNCHANGED <<rows, rules, keyFile, server, pending, ledger, contended>>
    BY AtStep DEF Write
  <1>2. /\ call \in Call /\ Shape(call) /\ Advance(call) \in Call /\ Saved(call) \in Entries
    BY <1>1, Active, TailType, SavedType
  <1>3. /\ new \in Call /\ new.todo = Tail(call.todo) /\ new.input = call.input
        /\ new.failing = call.failing /\ new.rescue = call.rescue
        /\ new.key = call.key /\ new.seen = call.seen
    BY <1>2 DEF Advance, Call
  <1> HIDE DEF new
  <1>4. GoesTo(c, Following(c)) /\ calls'[c] = new
    BY <1>1, <1>3, GoesOn
  <1>5. /\ call.file = "tmp" => tmp' \in Written(tmp, Saved(call)) /\ UNCHANGED secrets
        /\ call.file = "secrets" =>
             secrets' \in Written(secrets, Saved(call)) /\ UNCHANGED tmp
        /\ call.file \notin {"tmp", "secrets"} => UNCHANGED <<secrets, tmp>>
    BY DEF Write
  <1>6. /\ secrets' \in Entries \cup {NoFile, Empty, Torn}
        /\ tmp' \in Entries \cup {NoFile, Empty, Torn}
    BY <1>2, <1>5 DEF Written, BaseInv, TypeOK
  <1>7. ~overtaken' => ~overtaken /\ secrets' = secrets
    BY <1>1, <1>5 DEF BaseInv, TypeOK
  <1>8. overtaken' \in BOOLEAN
    BY <1>1 DEF BaseInv, TypeOK
  <1> QED
    BY <1>1, <1>3, <1>4, <1>6, <1>7, <1>8, BaseStays DEF GoesTo, SameCall, BaseInv, TypeOK

LEMMA RenameStep ==
  ASSUME BaseInv, NEW c \in CallIds, Rename(c)
  PROVE  /\ GoesTo(c, Following(c)) /\ BaseInv' /\ calls'[c].key = calls[c].key
         /\ calls'[c].seen = calls[c].seen /\ Pc(calls[c]) = "rename"
  <1> DEFINE call == calls[c]
             new == [Advance(call) EXCEPT !.base = NoFile]
  <1>1. /\ call # NoCall /\ call.todo # << >> /\ Pc(call) = "rename"
        /\ calls' = [d \in CallIds |-> IF d = c THEN new ELSE Moved(calls[d])]
        /\ secrets' = tmp /\ tmp' = NoFile
        /\ overtaken' = (overtaken \/ secrets # call.base \/ tmp # Saved(call))
        /\ UNCHANGED <<rows, rules, keyFile, server, pending, ledger, contended>>
    BY AtStep DEF Rename
  <1>2. /\ call \in Call /\ Shape(call) /\ Advance(call) \in Call /\ call.input \in Inputs
        /\ Pc(call) # "end"
    BY <1>1, Active, TailType
  <1>3. /\ new \in Call /\ new.todo = Tail(call.todo) /\ new.input = call.input
        /\ new.failing = call.failing /\ new.rescue = call.rescue
        /\ new.key = call.key /\ new.seen = call.seen
    BY <1>2 DEF Advance, Call
  <1> HIDE DEF new
  <1>4. calls'[c] = new
    BY <1>1
  <1>5. OthersStay(c)
    <2> SUFFICES ASSUME NEW d \in CallIds \ {c}
                 PROVE  calls'[d] = calls[d] \/ (calls[d] # NoCall /\ Alike(calls[d], calls'[d]))
      BY <1>1 DEF OthersStay
    <2>1. calls'[d] = Moved(calls[d])
      BY <1>1
    <2>2. CASE calls[d] = NoCall
      BY <2>1, <2>2 DEF Moved
    <2>3. CASE calls[d] # NoCall
      <3> DEFINE file == CASE calls[d].file = "tmp" -> "secrets"
                           [] calls[d].file = "secrets" -> "replaced"
                           [] OTHER -> calls[d].file
      <3>1. calls[d] \in Call
        BY <2>3, Active
      <3>2. file \in {"none", "tmp", "secrets", "replaced"}
        BY <3>1, CallType
      <3>3. calls'[d] = [calls[d] EXCEPT !.file = file]
        BY <2>1, <2>3 DEF Moved
      <3> HIDE DEF file
      <3> QED
        BY <2>3, <3>1, <3>2, <3>3 DEF Alike, Call
    <2> QED
      BY <2>2, <2>3
  <1>6. call.input.kind # "create" => Seen(new)
    <2>1. call.input.kind # "create" => Settled(call)
      BY <1>1, <1>2, InputType DEF Settled
    <2> QED
      BY <1>2, <1>3, <2>1, SettledStays DEF Seen
  <1>7. Runs(call.input, call.failing, new.todo, Following(c), "end")
    BY <1>1, <1>2, <1>3, AdvanceRuns DEF Following
  <1>8. Shape(new) /\ Pc(new) = Following(c)
    BY <1>1, <1>2, <1>3, <1>6, <1>7, ShapeNext DEF SameCall, Following
  <1>9. GoesTo(c, Following(c))
    BY <1>1, <1>2, <1>3, <1>4, <1>5, <1>8 DEF GoesTo, SameCall
  <1>10. overtaken' \in BOOLEAN
    BY <1>1 DEF BaseInv, TypeOK
  <1> QED
    BY <1>1, <1>3, <1>4, <1>9, <1>10, BaseStays DEF GoesTo, SameCall, BaseInv, TypeOK

LEMMA ReadRulesStep ==
  ASSUME BaseInv, NEW c \in CallIds, ReadRules(c)
  PROVE  /\ GoesTo(c, Following(c)) /\ BaseInv' /\ calls'[c].key = calls[c].key
         /\ calls'[c].seen = calls[c].seen /\ Pc(calls[c]) = "readRules"
  <1> DEFINE call == calls[c]
             new == [Advance(call) EXCEPT !.seenRules = rules]
  <1>1. /\ At(c, "readRules") /\ call # NoCall /\ call.todo # << >> /\ Pc(call) = "readRules"
        /\ Goes(c, new)
        /\ UNCHANGED <<rows, rules, secrets, tmp, keyFile, server, pending, ledger, contended, overtaken>>
    BY AtStep DEF ReadRules
  <1>2. /\ call \in Call /\ Shape(call) /\ Advance(call) \in Call
        /\ rules \in [RuleIds -> Rule \cup {NoRule}]
    BY <1>1, Active, TailType DEF BaseInv, TypeOK
  <1>3. /\ new \in Call /\ new.todo = Tail(call.todo) /\ new.input = call.input
        /\ new.failing = call.failing /\ new.rescue = call.rescue
        /\ new.key = call.key /\ new.seen = call.seen
    BY <1>2 DEF Advance, Call
  <1> HIDE DEF new
  <1>4. GoesTo(c, Following(c)) /\ calls'[c] = new
    BY <1>1, <1>3, GoesOn
  <1> QED
    BY <1>1, <1>3, <1>4, BaseStays DEF GoesTo, SameCall, BaseInv, TypeOK

\* The rule that a call makes of its credential.
MadeRule(call) ==
  [ref |-> RefOf(call),
   what |-> IF call.input.kind = "update" THEN call.seen.what ELSE "created"]

LEMMA ReplaceRulesStep ==
  ASSUME BaseInv, NEW c \in CallIds, ReplaceRules(c)
  PROVE  /\ GoesTo(c, "end") /\ BaseInv' /\ calls'[c].key = calls[c].key
         /\ calls'[c].seen = calls[c].seen /\ Settled(calls[c])
         /\ MadeRule(calls[c]) \in Rule
         /\ \/ /\ Pc(calls[c]) = "allow"
               /\ ~overtaken' => rules' = [rules EXCEPT ![RuleOf(calls[c])] = MadeRule(calls[c])]
            \/ /\ Pc(calls[c]) = "disallow"
               /\ ~overtaken' => rules' = [rules EXCEPT ![RuleOf(calls[c])] = NoRule]
  <1> DEFINE call == calls[c]
             new == [Advance(call) EXCEPT !.seenRules = NoRules]
             what == IF call.input.kind = "update" THEN call.seen.what ELSE "created"
  <1>1. /\ Goes(c, new)
        /\ overtaken' = (overtaken \/ rules # call.seenRules)
        /\ UNCHANGED <<rows, secrets, tmp, keyFile, server, pending, ledger, contended>>
    BY DEF ReplaceRules
  <1>2. PICK step \in {"allow", "disallow"} :
          /\ At(c, step)
          /\ step = "allow" => rules' = [call.seenRules EXCEPT ![RuleOf(call)] = MadeRule(call)]
          /\ step = "disallow" => rules' = [call.seenRules EXCEPT ![RuleOf(call)] = NoRule]
    BY DEF ReplaceRules, MadeRule
  <1>3. call # NoCall /\ call.todo # << >> /\ Pc(call) = step
    BY <1>2, AtStep
  <1>4. /\ call \in Call /\ Shape(call) /\ Advance(call) \in Call /\ call.input \in Inputs
        /\ call.seenRules \in [RuleIds -> Rule \cup {NoRule}]
    BY <1>3, Active, TailType, CallType
  <1>5. /\ new \in Call /\ new.todo = Tail(call.todo) /\ new.input = call.input
        /\ new.failing = call.failing /\ new.rescue = call.rescue
        /\ new.key = call.key /\ new.seen = call.seen
    BY <1>4 DEF Advance, Call, NoRules
  <1> HIDE DEF new
  <1>6. GoesTo(c, Following(c)) /\ calls'[c] = new
    BY <1>1, <1>2, <1>5, GoesOn
  <1>7. Following(c) = "end"
    BY <1>3 DEF Following, After
  <1>8. Settled(call)
    BY <1>3, <1>4, InputType DEF Settled
  <1>9. RefOf(call) \in Refs
    BY <1>4, <1>8, RefType
  <1>10. what \in {"created", "updated"}
    BY <1>4, <1>8, SettledStays DEF Seen, Row
  <1> HIDE DEF what
  <1>11. MadeRule(call) \in Rule
    BY <1>9, <1>10 DEF MadeRule, Rule, what
  <1>12. rules' \in [RuleIds -> Rule \cup {NoRule}]
    BY <1>2, <1>4, <1>11
  <1>13. overtaken' \in BOOLEAN
    BY <1>1 DEF BaseInv, TypeOK
  <1>14. ~overtaken' => rules = call.seenRules
    BY <1>1 DEF BaseInv, TypeOK
  <1>15. BaseInv'
    BY <1>1, <1>3, <1>5, <1>6, <1>12, <1>13, BaseStays DEF GoesTo, SameCall, BaseInv, TypeOK
  <1> QED
    BY <1>2, <1>3, <1>5, <1>6, <1>7, <1>8, <1>11, <1>14, <1>15

\* A call ends, or goes on with the catch block that it is in.
GivesUp(c) ==
  LET call == calls[c]
      new == calls'[c]
  IN
  /\ call # NoCall /\ OthersStay(c)
  /\ new # NoCall =>
       /\ new \in Call /\ Shape(new) /\ new.input = call.input /\ new.failing
       /\ call.input.kind = "create" /\ new.key = NoFile
       /\ call.failing \/ Pc(call) \in {"insert", "record", "readRules", "allow"}
       /\ \/ Pc(new) = "loadToDelete"
          \/ Pc(new) = "readRow" /\ ~call.failing /\ Pc(call) \in {"readRules", "allow"}

LEMMA UndoRuns ==
  ASSUME NEW input \in Inputs, input.kind = "create"
  PROVE  /\ UndoSteps \in Seq(Steps) /\ UndoSteps # << >>
         /\ input.adapter = "env" => Runs(input, TRUE, UndoSteps, "readRow", "end")
         /\ input.adapter = "local" =>
              /\ UndoSteps \o DeleteSteps \in Seq(Steps)
              /\ Runs(input, TRUE, UndoSteps \o DeleteSteps, "readRow", "end")
         /\ Runs(input, TRUE, DeleteSteps, "loadToDelete", "end")
  <1>1. UndoSteps \in Seq(Steps) /\ UndoSteps # << >>
    BY DEF UndoSteps, Steps
  <1>2. input.adapter = "env" => Runs(input, TRUE, UndoSteps, "readRow", "end")
    BY DEF UndoSteps, Runs, After
  <1>3. /\ DeleteSteps \in Seq(Steps)
        /\ Runs(input, TRUE, DeleteSteps, "loadToDelete", "end")
    BY DeleteRuns DEF After
  <1>4. ASSUME input.adapter = "local"
        PROVE  Runs(input, TRUE, UndoSteps, "readRow", "loadToDelete")
    BY <1>4 DEF UndoSteps, Runs, After
  <1>5. input.adapter = "local" =>
          /\ UndoSteps \o DeleteSteps \in Seq(Steps)
          /\ Runs(input, TRUE, UndoSteps \o DeleteSteps, "readRow", "end")
    BY <1>1, <1>3, <1>4, RunsJoin
  <1> QED
    BY <1>1, <1>2, <1>3, <1>5

\* A call that goes on with the catch block program, and is still in those of more.
Caught(call, program, more) ==
  [call EXCEPT !.todo = program, !.rescue = more, !.failing = TRUE,
               !.base = NoFile, !.seenRules = NoRules, !.key = NoFile, !.file = "none"]

LEMMA RescuedIs ==
  ASSUME NEW call \in Call, NEW rescue
  PROVE  Rescued([call EXCEPT !.rescue = rescue]) =
           IF rescue = << >> THEN NoCall ELSE Caught(call, Head(rescue), Tail(rescue))
  BY DEF Rescued, Caught, Call

LEMMA CaughtShape ==
  ASSUME NEW call \in Call, call.input.kind = "create",
         NEW program \in Seq(Steps), NEW from \in Places(call.input, TRUE),
         Runs(call.input, TRUE, program, from, "end"),
         NEW more, more = << >> \/ (more = <<DeleteSteps>> /\ call.input.adapter = "local")
  PROVE  LET new == Caught(call, program, more) IN
         /\ new \in Call /\ Shape(new) /\ new.input = call.input /\ new.failing
         /\ new.key = NoFile /\ Pc(new) = from
  <1> DEFINE new == Caught(call, program, more)
  <1>1. DeleteSteps \in Seq(Steps) /\ call.input \in Inputs
    BY CallType, DeleteRuns
  <1>2. more \in Seq(Seq(Steps))
    <2>1. << >> \in Seq(Seq(Steps)) /\ <<DeleteSteps>> \in Seq(Seq(Steps))
      BY <1>1
    <2> QED
      BY <2>1
  <1>3. NoRules \in [RuleIds -> Rule \cup {NoRule}]
    BY DEF NoRules
  <1>4. /\ new \in Call /\ new.todo = program /\ new.rescue = more /\ new.failing = TRUE
        /\ new.input = call.input /\ new.key = NoFile
    BY <1>2, <1>3 DEF Caught, Call
  <1> HIDE DEF new
  <1>5. Pc(new) = from
    BY <1>4, PcOfRuns
  <1>6. Shape(new)
    BY <1>4, <1>5 DEF Shape
  <1> QED
    BY <1>4, <1>5, <1>6 DEF new

LEMMA ThrowStep ==
  ASSUME BaseInv, NEW c \in CallIds, Throw(c)
  PROVE  GivesUp(c) /\ BaseInv'
  <1> DEFINE call == calls[c]
             local == call.input.adapter = "local"
             new == Rescued(IF call.failing THEN call ELSE [call EXCEPT !.rescue = Rescue(call)])
  <1>1. /\ call # NoCall /\ call.todo # << >> /\ Goes(c, new)
        /\ UNCHANGED <<rows, rules, secrets, tmp, keyFile, server, pending, ledger,
                       contended, overtaken>>
    BY DEF Throw
  <1>2. /\ call \in Call /\ Shape(call) /\ call.input \in Inputs /\ call.failing \in BOOLEAN
        /\ Pc(call) = Head(call.todo) /\ Pc(call) \in Places(call.input, call.failing)
        /\ (call.failing => call.input.kind = "create")
    BY <1>1, Active
  <1>3. OthersStay(c) /\ calls'[c] = new
    BY <1>1 DEF Goes, BaseInv, TypeOK, OthersStay
  <1> DEFINE Fine == new # NoCall =>
               /\ new \in Call /\ Shape(new) /\ new.input = call.input /\ new.failing
               /\ call.input.kind = "create" /\ new.key = NoFile
               /\ call.failing \/ Pc(call) \in {"insert", "record", "readRules", "allow"}
               /\ \/ Pc(new) = "loadToDelete"
                  \/ Pc(new) = "readRow" /\ ~call.failing /\ Pc(call) \in {"readRules", "allow"}
  <1>13. /\ ~call.failing => new = Rescued([call EXCEPT !.rescue = Rescue(call)])
         /\ call.failing => new = Rescued([call EXCEPT !.rescue = call.rescue])
    <2>1. call = [call EXCEPT !.rescue = call.rescue]
      BY <1>2 DEF Call
    <2> QED
      BY <2>1
  <1> HIDE DEF new
  <1>4. ASSUME NEW program \in Seq(Steps), NEW more,
               more = << >> \/ (more = <<DeleteSteps>> /\ local),
               new = Caught(call, program, more), call.input.kind = "create",
               \/ /\ Runs(call.input, TRUE, program, "loadToDelete", "end") /\ local
                  /\ call.failing \/ Pc(call) \in {"insert", "record", "readRules", "allow"}
               \/ /\ Runs(call.input, TRUE, program, "readRow", "end")
                  /\ ~call.failing /\ Pc(call) \in {"readRules", "allow"}
        PROVE  Fine
    <2>1. CASE /\ Runs(call.input, TRUE, program, "loadToDelete", "end") /\ local
               /\ call.failing \/ Pc(call) \in {"insert", "record", "readRules", "allow"}
      <3>1. "loadToDelete" \in Places(call.input, TRUE)
        BY <2>1 DEF Places, DeletePcs
      <3>2. /\ new \in Call /\ Shape(new) /\ new.input = call.input /\ new.failing
            /\ new.key = NoFile /\ Pc(new) = "loadToDelete"
        BY <1>2, <1>4, <2>1, <3>1, CaughtShape
      <3> QED
        BY <1>4, <2>1, <3>2
    <2>2. CASE /\ Runs(call.input, TRUE, program, "readRow", "end")
               /\ ~call.failing /\ Pc(call) \in {"readRules", "allow"}
      <3>1. "readRow" \in Places(call.input, TRUE)
        BY DEF Places
      <3>2. /\ new \in Call /\ Shape(new) /\ new.input = call.input /\ new.failing
            /\ new.key = NoFile /\ Pc(new) = "readRow"
        BY <1>2, <1>4, <2>2, <3>1, CaughtShape
      <3> QED
        BY <1>4, <2>2, <3>2
    <2> QED
      BY <1>4, <2>1, <2>2
  <1>5. new = NoCall => Fine
    OBVIOUS
  <1> HIDE DEF Fine
  <1>6. /\ <<DeleteSteps>> # << >> /\ Head(<<DeleteSteps>>) = DeleteSteps
        /\ Tail(<<DeleteSteps>>) = << >>
    OBVIOUS
  <1>7. ASSUME call.failing PROVE Fine
    <2>1. CASE call.rescue = << >>
      BY <1>2, <1>5, <1>7, <1>13, <2>1, RescuedIs
    <2>2. CASE local /\ call.rescue = <<DeleteSteps>>
      <3>1. new = Caught(call, DeleteSteps, << >>)
        BY <1>2, <1>6, <1>7, <1>13, <2>2, RescuedIs
      <3> QED
        BY <1>2, <1>4, <1>7, <2>2, <3>1, UndoRuns, DeleteRuns
    <2> QED
      BY <1>2, <2>1, <2>2 DEF Shape
  <1>8. ASSUME ~call.failing /\ call.input.kind = "create" /\ Pc(call) \in {"insert", "record"}
        PROVE  Fine
    <2>1. Rescue(call) = IF local THEN <<DeleteSteps>> ELSE << >>
      BY <1>2, <1>8 DEF Rescue
    <2>2. CASE local
      <3>1. new = Caught(call, DeleteSteps, << >>)
        BY <1>2, <1>6, <1>8, <1>13, <2>1, <2>2, RescuedIs
      <3> QED
        BY <1>2, <1>4, <1>8, <2>2, <3>1, UndoRuns, DeleteRuns
    <2>3. CASE ~local
      BY <1>2, <1>5, <1>8, <1>13, <2>1, <2>3, RescuedIs
    <2> QED
      BY <2>2, <2>3
  <1>9. ASSUME ~call.failing /\ call.input.kind = "create" /\ Pc(call) \in {"readRules", "allow"}
        PROVE  Fine
    <2> DEFINE undo == UndoSteps \o DeleteSteps
    <2>1. Rescue(call) = IF local THEN <<undo, DeleteSteps>> ELSE <<UndoSteps>>
      BY <1>2, <1>9 DEF Rescue, UndoSteps
    <2>2. /\ local => undo \in Seq(Steps) /\ Runs(call.input, TRUE, undo, "readRow", "end")
          /\ ~local => UndoSteps \in Seq(Steps)
                         /\ Runs(call.input, TRUE, UndoSteps, "readRow", "end")
      BY <1>2, <1>9, UndoRuns, InputType
    <2> HIDE DEF undo
    <2>3. /\ <<undo, DeleteSteps>> # << >> /\ Head(<<undo, DeleteSteps>>) = undo
          /\ Tail(<<undo, DeleteSteps>>) = <<DeleteSteps>>
          /\ <<UndoSteps>> # << >> /\ Head(<<UndoSteps>>) = UndoSteps
          /\ Tail(<<UndoSteps>>) = << >>
      OBVIOUS
    <2>4. CASE local
      <3>1. new = Caught(call, undo, <<DeleteSteps>>)
        BY <1>2, <1>9, <1>13, <2>1, <2>3, <2>4, RescuedIs
      <3> QED
        BY <1>4, <1>9, <2>2, <2>4, <3>1
    <2>5. CASE ~local
      <3>1. new = Caught(call, UndoSteps, << >>)
        BY <1>2, <1>9, <1>13, <2>1, <2>3, <2>5, RescuedIs
      <3> QED
        BY <1>4, <1>9, <2>2, <2>5, <3>1
    <2> QED
      BY <2>4, <2>5
  <1>10. ASSUME ~call.failing,
                \/ call.input.kind # "create"
                \/ Pc(call) \notin {"insert", "record", "readRules", "allow"}
         PROVE  Fine
    <2>1. Rescue(call) = << >>
      <3>1. CASE call.input.kind # "create"
        BY <3>1 DEF Rescue
      <3>2. CASE /\ call.input.kind = "create"
                 /\ Head(call.todo) \notin {"insert", "record", "readRules", "allow"}
        BY <3>2 DEF Rescue
      <3> QED
        BY <1>2, <1>10, <3>1, <3>2
    <2> QED
      BY <1>2, <1>5, <1>10, <1>13, <2>1, RescuedIs
  <1>11. Fine
    BY <1>7, <1>8, <1>9, <1>10
  <1>12. GivesUp(c)
    BY <1>1, <1>3, <1>11 DEF GivesUp, Fine
  <1> QED
    BY <1>1, <1>3, <1>11, <1>12, BaseStays DEF BaseInv, TypeOK, Fine

LEMMA EndStep ==
  ASSUME BaseInv, NEW c \in CallIds, End(c)
  PROVE  /\ BaseInv' /\ calls[c] # NoCall /\ OthersStay(c) /\ Pc(calls[c]) = "end"
         /\ Settled(calls[c])
         /\ \/ calls[c].failing /\ GivesUp(c) /\ UNCHANGED ledger
            \/ ~calls[c].failing /\ calls'[c] = NoCall
  <1> DEFINE call == calls[c]
             ref == RefOf(call)
  <1>1. /\ call # NoCall /\ call.todo = << >>
        /\ IF call.failing THEN Goes(c, Rescued(call)) /\ UNCHANGED ledger
           ELSE Goes(c, NoCall)
        /\ UNCHANGED <<rows, rules, secrets, tmp, keyFile, server, pending, contended, overtaken>>
    BY DEF End
  <1>2. /\ call \in Call /\ Shape(call) /\ call.input \in Inputs /\ call.failing \in BOOLEAN
        /\ Pc(call) = "end" /\ (call.failing => call.input.kind = "create")
    BY <1>1, Active
  <1>3. OthersStay(c)
    BY <1>1 DEF Goes, BaseInv, TypeOK, OthersStay
  <1>4. Settled(call)
    BY <1>2, InputType DEF Settled
  <1>5. CASE call.failing
    <2> DEFINE new == Rescued(call)
    <2>1. calls'[c] = new
      BY <1>1, <1>5 DEF Goes, BaseInv, TypeOK
    <2>2. call = [call EXCEPT !.rescue = call.rescue]
      BY <1>2 DEF Call
    <2>3. new = IF call.rescue = << >> THEN NoCall
                ELSE Caught(call, Head(call.rescue), Tail(call.rescue))
      BY <1>2, <2>2, RescuedIs
    <2> HIDE DEF new
    <2>4. /\ <<DeleteSteps>> # << >> /\ Head(<<DeleteSteps>>) = DeleteSteps
          /\ Tail(<<DeleteSteps>>) = << >>
      OBVIOUS
    <2>5. ASSUME new # NoCall
          PROVE  /\ new \in Call /\ Shape(new) /\ new.input = call.input /\ new.failing
                 /\ new.key = NoFile /\ Pc(new) = "loadToDelete"
      <3>1. call.input.adapter = "local" /\ call.rescue = <<DeleteSteps>>
        BY <1>2, <2>3, <2>5 DEF Shape
      <3>2. new = Caught(call, DeleteSteps, << >>)
        BY <2>3, <2>4, <3>1
      <3>3. "loadToDelete" \in Places(call.input, TRUE)
        BY <3>1 DEF Places, DeletePcs
      <3>4. DeleteSteps \in Seq(Steps) /\ Runs(call.input, TRUE, DeleteSteps, "loadToDelete", "end")
        BY <1>2, <1>5, UndoRuns, DeleteRuns
      <3>5. ASSUME NEW more, more = << >>, new = Caught(call, DeleteSteps, more)
            PROVE  /\ new \in Call /\ Shape(new) /\ new.input = call.input /\ new.failing
                   /\ new.key = NoFile /\ Pc(new) = "loadToDelete"
        BY <1>2, <1>5, <3>3, <3>4, <3>5, CaughtShape
      <3> QED
        BY <3>2, <3>5
    <2>6. GivesUp(c)
      BY <1>1, <1>2, <1>3, <1>5, <2>1, <2>5 DEF GivesUp
    <2>7. BaseInv'
      BY <1>1, <1>3, <1>5, <2>1, <2>5, BaseStays DEF BaseInv, TypeOK
    <2> QED
      BY <1>1, <1>2, <1>3, <1>4, <1>5, <2>6, <2>7
  <1>6. CASE ~call.failing
    <2>1. calls'[c] = NoCall
      BY <1>1, <1>6 DEF Goes, BaseInv, TypeOK
    <2>2. ledger' \in [Refs -> {"none", "complete", "stale", "deleted"}]
      <3>1. ref \in Refs
        BY <1>2, <1>4, RefType
      <3>2. \/ Told(ref, "complete") \/ Told(ref, "deleted") \/ UNCHANGED ledger
        BY <1>2, <1>6, InputType DEF End
      <3> QED
        BY <3>1, <3>2 DEF Told, BaseInv, TypeOK
    <2>3. BaseInv'
      BY <1>1, <1>3, <2>1, <2>2, BaseStays DEF BaseInv, TypeOK
    <2> QED
      BY <1>1, <1>2, <1>3, <1>4, <1>6, <2>1, <2>3
  <1> QED
    BY <1>2, <1>5, <1>6

LEMMA BeginStep ==
  ASSUME BaseInv, NEW c \in CallIds, NEW input \in Inputs, Begin(c, input)
  PROVE  /\ BaseInv' /\ calls[c] = NoCall /\ OthersStay(c)
         /\ calls'[c] \in Call /\ Shape(calls'[c]) /\ calls'[c].input = input
         /\ ~calls'[c].failing /\ Pc(calls'[c]) = First(input) /\ calls'[c].key = NoFile
         /\ contended \subseteq contended'
  <1> DEFINE new == Fresh(input)
  <1>1. /\ server = "up" /\ calls[c] = NoCall /\ Goes(c, new)
        /\ contended' = contended \cup
             {id \in {input.id} : \E d \in CallIds : calls[d] # NoCall /\ calls[d].input.id = id}
        /\ UNCHANGED <<rows, rules, secrets, tmp, keyFile, server, pending, ledger, overtaken>>
    BY DEF Begin
  <1>2. Program(input) \in Seq(Steps) /\ Runs(input, FALSE, Program(input), First(input), "end")
    BY ProgramRuns
  <1>3. << >> \in Seq(Seq(Steps)) /\ NoRules \in [RuleIds -> Rule \cup {NoRule}]
    BY DEF NoRules
  <1>4. /\ new \in Call /\ new.input = input /\ new.todo = Program(input)
        /\ new.rescue = << >> /\ new.failing = FALSE /\ new.key = NoFile
    BY <1>2, <1>3 DEF Fresh, Call
  <1> HIDE DEF new
  <1>5. Pc(new) = First(input)
    BY <1>2, <1>4, PcOfRuns
  <1>6. First(input) \in Places(input, FALSE)
    BY InputType DEF First, Places
  <1>7. First(input) \notin {"open", "write", "rename"}
    BY InputType DEF First
  <1>8. ~(Settled(new) /\ input.kind # "create")
    BY <1>4, <1>5, InputType DEF First, Settled
  <1>9. Shape(new)
    BY <1>2, <1>4, <1>5, <1>6, <1>7, <1>8 DEF Shape
  <1>10. calls'[c] = new /\ OthersStay(c) /\ \A d \in CallIds \ {c} : calls'[d] = calls[d]
    BY <1>1 DEF Goes, BaseInv, TypeOK, OthersStay
  <1>11. ShapeInv'
    BY <1>9, <1>10 DEF BaseInv, ShapeInv
  <1>12. OneCall'
    <2> SUFFICES ASSUME NEW a \in CallIds, NEW b \in CallIds,
                        calls'[a] # NoCall, calls'[b] # NoCall,
                        calls'[a].input.id = calls'[b].input.id,
                        calls'[a].input.id \notin contended', a # b
                 PROVE  FALSE
      BY DEF OneCall
    <2>1. CASE a = c
      BY <1>1, <1>4, <1>10, <2>1
    <2>2. CASE b = c
      BY <1>1, <1>4, <1>10, <2>2
    <2>3. CASE a # c /\ b # c
      BY <1>1, <1>10, <2>3 DEF BaseInv, OneCall
    <2> QED
      BY <2>1, <2>2, <2>3
  <1>13. ServerInv'
    BY <1>1 DEF ServerInv
  <1>14. TypeOK'
    <2>1. contended' \subseteq Ids
      BY <1>1, InputType DEF BaseInv, TypeOK
    <2> QED
      BY <1>1, <1>4, <1>10, <2>1 DEF BaseInv, TypeOK, OthersStay
  <1> QED
    BY <1>1, <1>4, <1>5, <1>9, <1>10, <1>11, <1>12, <1>13, <1>14 DEF BaseInv

LEMMA CrashStep ==
  ASSUME BaseInv, Crash
  PROVE  BaseInv'
  BY DEF Crash, BaseInv, TypeOK, ShapeInv, OneCall, ServerInv

LEMMA RestartStep ==
  ASSUME BaseInv, Restart
  PROVE  BaseInv'
  <1>1. /\ server = "down" /\ server' = "starting"
        /\ pending' \subseteq Listed(DefaultTenant)
        /\ UNCHANGED <<rows, rules, secrets, tmp, keyFile, calls, ledger, contended, overtaken>>
    BY DEF Restart
  <1>2. TypeOK'
    BY <1>1 DEF BaseInv, TypeOK, Listed
  <1>3. ServerInv'
    BY <1>1 DEF BaseInv, ServerInv, Listed
  <1> QED
    BY <1>1, <1>2, <1>3 DEF BaseInv, ShapeInv, OneCall

LEMMA ReconcileStep ==
  ASSUME BaseInv, NEW id \in Ids, Reconcile(id)
  PROVE  /\ BaseInv' /\ <<DefaultTenant, id>> \in Refs
         /\ RuleIdOf[<<DefaultTenant, id>>] \in RuleIds
         /\ rows[id] \in Row /\ rows[id].tenant = DefaultTenant
  <1> DEFINE ref == <<DefaultTenant, id>>
             rule == [ref |-> ref, what |-> rows[id].what]
  <1>1. /\ server = "starting" /\ id \in pending
        /\ rules' = [rules EXCEPT ![RuleIdOf[ref]] = rule]
        /\ pending' = pending \ {id}
        /\ UNCHANGED <<rows, secrets, tmp, keyFile, calls, server, ledger, contended, overtaken>>
    BY DEF Reconcile
  <1>2. ref \in Refs /\ RuleIdOf[ref] \in RuleIds
    BY CoreModeAssumption DEF Refs
  <1>3. rows[id] \in Row /\ rows[id].tenant = DefaultTenant
    BY <1>1 DEF BaseInv, ServerInv, TypeOK
  <1>4. rule \in Rule
    BY <1>2, <1>3 DEF Rule, Row
  <1> HIDE DEF rule
  <1>5. TypeOK'
    BY <1>1, <1>4 DEF BaseInv, TypeOK
  <1>6. ServerInv'
    BY <1>1 DEF BaseInv, ServerInv
  <1> QED
    BY <1>1, <1>2, <1>3, <1>5, <1>6 DEF BaseInv, ShapeInv, OneCall

LEMMA ServeStep ==
  ASSUME BaseInv, Serve
  PROVE  BaseInv'
  BY DEF Serve, BaseInv, TypeOK, ShapeInv, OneCall, ServerInv

LEMMA BaseInit ==
  ASSUME Init
  PROVE  BaseInv
  <1>1. NoRules \in [RuleIds -> Rule \cup {NoRule}]
    BY DEF NoRules
  <1> QED
    BY <1>1 DEF Init, BaseInv, TypeOK, ShapeInv, OneCall, ServerInv

LEMMA BaseNext ==
  ASSUME BaseInv, [Next]_vars
  PROVE  BaseInv'
  <1>1. CASE UNCHANGED vars
    BY <1>1 DEF vars, BaseInv, TypeOK, ShapeInv, OneCall, ServerInv
  <1>2. ASSUME NEW c \in CallIds, Step(c) PROVE BaseInv'
    BY <1>2, VacantStep, FindStep, ReadRowStep, InsertStep, UpdateStep, RemoveStep,
       RecordStep, LoadStep, ReadKeyStep, OpenKeyStep, WriteKeyStep, OpenStep, WriteStep,
       RenameStep, ReadRulesStep, ReplaceRulesStep, ThrowStep, EndStep DEF Step
  <1>3. ASSUME NEW c \in CallIds, NEW input \in Inputs, Begin(c, input) PROVE BaseInv'
    BY <1>3, BeginStep
  <1>4. ASSUME NEW id \in Ids, Reconcile(id) PROVE BaseInv'
    BY <1>4, ReconcileStep
  <1> QED
    BY <1>1, <1>2, <1>3, <1>4, CrashStep, RestartStep, ServeStep DEF Next

LEMMA BaseAlways == Spec => []BaseInv
  <1> QED
    BY BaseInit, BaseNext, PTL DEF Spec

\* Every variable keeps its type, whatever calls arrive, fail or are cut off
\* by a crash (CoreModeService, LocalSecretStore).
THEOREM CoreModeTypes == Spec => []TypeOK
  <1>1. BaseInv => TypeOK
    BY DEF BaseInv
  <1> QED
    BY <1>1, BaseAlways, PTL

-----------------------------------------------------------------------------
(* A restart restores the rules *)

\* Calls leave alone whether the server is up, and which calls overlapped.
LEMMA StepFrame ==
  ASSUME NEW c \in CallIds, Step(c)
  PROVE  calls[c] # NoCall /\ UNCHANGED <<server, pending, contended>>
  <1>1. CASE Vacant(c) \/ Find(c) \/ ReadRow(c) \/ Insert(c) \/ Update(c) \/ Remove(c) \/ Record(c)
    BY <1>1 DEF Vacant, Find, ReadRow, Insert, Update, Remove, Record, At
  <1>2. CASE \/ Load(c) \/ ReadKey(c) \/ OpenKey(c) \/ WriteKey(c) \/ Open(c) \/ Write(c)
             \/ Rename(c)
    BY <1>2 DEF Load, ReadKey, OpenKey, WriteKey, Open, Write, Rename, At
  <1>3. CASE ReadRules(c) \/ ReplaceRules(c) \/ Throw(c) \/ End(c)
    BY <1>3 DEF ReadRules, ReplaceRules, Throw, End, At
  <1> QED
    BY <1>1, <1>2, <1>3 DEF Step

LEMMA RestartInvNext ==
  ASSUME RuleIdsDistinct, BaseInv, RestartInv, [Next]_vars
  PROVE  RestartInv'
  <1>1. CASE UNCHANGED vars
    BY <1>1 DEF vars, RestartInv, RuleRestored, Listed
  <1>2. ASSUME NEW c \in CallIds, Step(c) PROVE RestartInv'
    <2>1. server = "up"
      BY <1>2, StepFrame, Active
    <2> QED
      BY <1>2, <2>1, StepFrame DEF RestartInv
  <1>3. ASSUME NEW c \in CallIds, NEW input \in Inputs, Begin(c, input) PROVE RestartInv'
    BY <1>3 DEF Begin, RestartInv
  <1>4. ASSUME NEW id \in Ids, Reconcile(id) PROVE RestartInv'
    <2> DEFINE ref == <<DefaultTenant, id>>
    <2>1. /\ server = "starting" /\ rows' = rows
          /\ rules' = [rules EXCEPT ![RuleIdOf[ref]] = [ref |-> ref, what |-> rows[id].what]]
          /\ pending' = pending \ {id} /\ RuleIdOf[ref] \in RuleIds /\ ref \in Refs
          /\ rules \in [RuleIds -> Rule \cup {NoRule}]
      BY <1>4, ReconcileStep DEF Reconcile, BaseInv, TypeOK
    <2>2. Listed(DefaultTenant)' = Listed(DefaultTenant)
      BY <2>1 DEF Listed
    <2> SUFFICES ASSUME NEW j \in Listed(DefaultTenant), rows[j].owner = "local"
                 PROVE  j \in pending' \/ RuleRestored(j)'
      BY <2>1, <2>2 DEF RestartInv
    <2>3. CASE j = id
      BY <2>1, <2>3 DEF RuleRestored
    <2>4. CASE j # id
      <3>1. <<DefaultTenant, j>> \in Refs /\ <<DefaultTenant, j>> # ref
        BY <2>4, CoreModeAssumption DEF Refs, Listed
      <3>2. RuleIdOf[<<DefaultTenant, j>>] # RuleIdOf[ref]
        BY <2>1, <3>1 DEF RuleIdsDistinct
      <3>3. RuleRestored(j) => RuleRestored(j)'
        BY <2>1, <3>2 DEF RuleRestored
      <3> QED
        BY <2>1, <2>4, <3>3 DEF RestartInv
    <2> QED
      BY <2>3, <2>4
  <1>5. CASE Restart
    BY <1>5 DEF Restart, RestartInv, Listed
  <1>6. CASE Crash \/ Serve
    BY <1>6 DEF Crash, Serve, RestartInv
  <1> QED
    BY <1>1, <1>2, <1>3, <1>4, <1>5, <1>6 DEF Next

\* A server that has started serves only with an up-to-date rule for each
\* locally owned credential it listed, when rule ids tell credentials apart
\* (reconcileLocalCredentialPolicies).
THEOREM RestartRestores ==
  ASSUME RuleIdsDistinct
  PROVE  Spec => RestartRestoresRules
  <1>1. Init => RestartInv
    BY DEF Init, RestartInv
  <1>2. BaseInv /\ RestartInv /\ [Next]_vars => RestartInv'
    BY RestartInvNext
  <1>3. ASSUME RestartInv, Serve, NEW id \in Listed(DefaultTenant), rows[id].owner = "local"
        PROVE  rules[RuleIdOf[<<DefaultTenant, id>>]] =
                 [ref |-> <<DefaultTenant, id>>, what |-> rows[id].what]
    BY <1>3 DEF Serve, RestartInv, RuleRestored
  <1>4. RestartInv =>
          (Serve => \A id \in Listed(DefaultTenant) : rows[id].owner = "local" =>
             rules[RuleIdOf[<<DefaultTenant, id>>]] =
               [ref |-> <<DefaultTenant, id>>, what |-> rows[id].what])
    BY <1>3
  <1> QED
    BY <1>1, <1>2, <1>4, BaseAlways, PTL DEF Spec, RestartRestoresRules

-----------------------------------------------------------------------------
(* The files *)

LEMMA OthersAre ==
  ASSUME NEW c \in CallIds, OthersStay(c), NEW d \in CallIds \ {c}, calls'[d] # NoCall
  PROVE  /\ calls[d] # NoCall /\ calls'[d].input = calls[d].input
         /\ calls'[d].failing = calls[d].failing /\ Pc(calls'[d]) = Pc(calls[d])
         /\ calls'[d].seen = calls[d].seen /\ calls'[d].key = calls[d].key
  BY DEF OthersStay, Alike, Pc

LEMMA FileStays ==
  ASSUME BaseInv, FileInv, NEW c \in CallIds, OthersStay(c),
         UNCHANGED keyFile, ~overtaken' => ~overtaken /\ secrets' = secrets,
         calls'[c] # NoCall =>
           calls'[c].key \in {NoFile, keyFile} /\ Pc(calls'[c]) # "writeKey"
  PROVE  FileInv'
  BY OthersAre DEF FileInv, Held

\* The steps of most calls: a step does not lead to the writing of the key.
LEMMA FileGoes ==
  ASSUME BaseInv, FileInv, NEW c \in CallIds, GoesTo(c, Following(c)), Pc(calls[c]) # "openKey",
         UNCHANGED keyFile, ~overtaken' => ~overtaken /\ secrets' = secrets,
         calls'[c].key = NoFile \/ calls'[c].key = calls[c].key
  PROVE  FileInv'
  <1>1. OthersStay(c) /\ calls[c] # NoCall /\ Pc(calls'[c]) = Following(c)
    BY DEF GoesTo
  <1>2. Following(c) # "writeKey"
    BY DEF Following, After
  <1>3. ASSUME ~overtaken' PROVE calls'[c].key \in {NoFile, keyFile}
    BY <1>1, <1>3 DEF FileInv
  <1> QED
    BY <1>1, <1>2, <1>3, OthersAre DEF FileInv, Held

\* The rename of a call that overtakes no other saves its own secret.
LEMMA RenameSaves ==
  ASSUME BaseInv, NEW c \in CallIds, Rename(c), ~overtaken', Settled(calls[c])
  PROVE  /\ ~overtaken /\ secrets \in Entries \cup {NoFile} /\ secrets' \in Entries
         /\ Loaded(secrets)' =
              [Loaded(secrets) EXCEPT
                 ![RefOf(calls[c])] =
                   IF calls[c].key = NoFile THEN NoEntry
                   ELSE [secret |-> calls[c].input.secret, key |-> calls[c].key]]
         /\ RefOf(calls[c]) \in Refs
         /\ Loaded(secrets) \in Entries /\ Loaded(secrets)' \in Entries
  <1> DEFINE call == calls[c]
  <1>1. /\ call # NoCall /\ secrets' = tmp
        /\ overtaken' = (overtaken \/ secrets # call.base \/ tmp # Saved(call))
    BY AtStep DEF Rename
  <1>2. call \in Call /\ Shape(call) /\ Saved(call) \in Entries
    BY <1>1, Active, SavedType
  <1>3. ~overtaken /\ secrets = call.base /\ secrets' = Saved(call)
    BY <1>1 DEF BaseInv, TypeOK
  <1>4. secrets \in Entries \cup {NoFile}
    BY <1>2, <1>3, CallType
  <1>5. secrets' # NoFile
    BY <1>2, <1>3, CoreModeAssumption
  <1>6. Loaded(secrets)' = Saved(call)
    BY <1>3, <1>5 DEF Loaded
  <1>7. Loaded(secrets) \in Entries
    BY <1>4 DEF Loaded, NoEntries, Entries
  <1> QED
    BY <1>2, <1>3, <1>4, <1>6, <1>7, RefType DEF Saved

LEMMA FileStep ==
  ASSUME BaseInv, FileInv, NEW c \in CallIds, Step(c)
  PROVE  FileInv'
  <1>0. calls[c] # NoCall
    BY StepFrame
  <1>1. CASE Vacant(c)
    <2>1. At(c, "vacant") /\ UNCHANGED <<secrets, keyFile, overtaken>>
      BY <1>1 DEF Vacant
    <2> QED
      BY <1>1, <2>1, VacantStep, AtStep, FileGoes
  <1>2. CASE Find(c)
    <2>1. At(c, "find") /\ UNCHANGED <<secrets, keyFile, overtaken>>
      BY <1>2 DEF Find
    <2> QED
      BY <1>2, <2>1, FindStep, AtStep, FileGoes
  <1>3. CASE ReadRow(c)
    <2>1. At(c, "readRow") /\ UNCHANGED <<secrets, keyFile, overtaken>>
      BY <1>3 DEF ReadRow
    <2> QED
      BY <1>3, <2>1, ReadRowStep, AtStep, FileGoes
  <1>4. CASE Insert(c)
    <2>1. At(c, "insert") /\ UNCHANGED <<secrets, keyFile, overtaken>>
      BY <1>4 DEF Insert
    <2> QED
      BY <1>4, <2>1, InsertStep, AtStep, FileGoes
  <1>5. CASE Update(c)
    <2>1. At(c, "update") /\ UNCHANGED <<secrets, keyFile, overtaken>>
      BY <1>5 DEF Update
    <2>2. Pc(calls[c]) = "update"
      BY <2>1, AtStep
    <2>3. GoesTo(c, Following(c)) /\ calls'[c].key = calls[c].key
      BY <1>5, UpdateStep
    <2> QED
      BY <2>1, <2>2, <2>3, FileGoes
  <1>6. CASE Remove(c)
    <2>1. At(c, "remove") /\ UNCHANGED <<secrets, keyFile, overtaken>>
      BY <1>6 DEF Remove
    <2> QED
      BY <1>6, <2>1, RemoveStep, AtStep, FileGoes
  <1>7. CASE Record(c)
    <2>1. At(c, "record") /\ UNCHANGED <<secrets, keyFile, overtaken>>
      BY <1>7 DEF Record
    <2> QED
      BY <1>7, <2>1, RecordStep, AtStep, FileGoes
  <1>8. CASE Load(c)
    <2>1. UNCHANGED <<keyFile, secrets, overtaken>>
      BY <1>8 DEF Load
    <2>2. CASE GoesTo(c, Following(c))
      BY <1>8, <2>1, <2>2, LoadStep, FileGoes
    <2>3. CASE GoesTo(c, After(calls[c].input, calls[c].failing, "rename"))
      <3>1. After(calls[c].input, calls[c].failing, "rename") # "writeKey"
        BY DEF After
      <3> QED
        BY <1>8, <2>1, <2>3, <3>1, LoadStep, OthersAre DEF FileInv, Held, GoesTo
    <2> QED
      BY <1>8, <2>2, <2>3, LoadStep
  <1>9. CASE ReadKey(c)
    <2>1. UNCHANGED <<keyFile, secrets, overtaken>>
      BY <1>9 DEF ReadKey
    <2> QED
      BY <1>9, <2>1, ReadKeyStep, OthersAre DEF FileInv, Held, GoesTo
  <1>10. CASE OpenKey(c)
    <2>1. /\ GoesTo(c, "writeKey") /\ OthersStay(c) /\ calls'[c].key = calls[c].key
          /\ Pc(calls'[c]) = "writeKey"
          /\ keyFile' = Empty /\ overtaken' = (overtaken \/ keyFile # NoFile)
          /\ secrets' = secrets
      BY <1>10, OpenKeyStep DEF OpenKey, GoesTo
    <2> SUFFICES ASSUME ~overtaken' PROVE FileInv'
      BY DEF FileInv
    <2>2. ~overtaken /\ keyFile = NoFile
      BY <2>1 DEF BaseInv, TypeOK
    <2>3. \A ref \in Refs : ~Held(ref)
      <3> SUFFICES ASSUME NEW ref \in Refs, Held(ref) PROVE FALSE
        OBVIOUS
      <3>1. Loaded(secrets) \in Entries
        BY <2>2 DEF FileInv, Loaded, NoEntries, Entries
      <3>2. Loaded(secrets)[ref] \in Entry
        BY <3>1 DEF Held, Entries
      <3> QED
        BY <2>2, <3>2, CoreModeAssumption DEF FileInv, Entry
    <2>4. \A d \in CallIds : calls[d] # NoCall => calls[d].key = NoFile /\ Pc(calls[d]) # "writeKey"
      BY <2>2, CoreModeAssumption DEF FileInv
    <2>5. \A d \in CallIds : calls'[d] # NoCall =>
            calls'[d].key = NoFile /\ (Pc(calls'[d]) = "writeKey" => d = c)
      BY <1>0, <2>1, <2>4, OthersAre
    <2>6. \A ref \in Refs : ~Held(ref)'
      BY <2>1, <2>3 DEF Held
    <2> QED
      BY <2>1, <2>2, <2>5, <2>6 DEF FileInv
  <1>11. CASE WriteKey(c)
    <2>1. /\ GoesTo(c, "open") /\ OthersStay(c) /\ calls'[c].key = c
          /\ Pc(calls'[c]) = "open" /\ Pc(calls[c]) = "writeKey"
          /\ keyFile' = c /\ overtaken' = overtaken /\ secrets' = secrets
      BY <1>11, WriteKeyStep DEF WriteKey, GoesTo
    <2> SUFFICES ASSUME ~overtaken' PROVE FileInv'
      BY DEF FileInv
    <2>2. ~overtaken /\ keyFile = Empty
      BY <1>0, <2>1 DEF FileInv
    <2>3. \A ref \in Refs : ~Held(ref)
      <3> SUFFICES ASSUME NEW ref \in Refs, Held(ref) PROVE FALSE
        OBVIOUS
      <3>1. Loaded(secrets) \in Entries
        BY <2>2 DEF FileInv, Loaded, NoEntries, Entries
      <3>2. Loaded(secrets)[ref] \in Entry
        BY <3>1 DEF Held, Entries
      <3> QED
        BY <2>2, <3>2, CoreModeAssumption DEF FileInv, Entry
    <2>4. \A d \in CallIds : calls[d] # NoCall =>
            calls[d].key = NoFile /\ (Pc(calls[d]) = "writeKey" => d = c)
      <3>1. \A d \in CallIds : calls[d] # NoCall => calls[d].key \in CallIds \cup {NoFile}
        BY Active, CallType
      <3> QED
        BY <1>0, <2>1, <2>2, <3>1, CoreModeAssumption DEF FileInv
    <2>5. \A d \in CallIds : calls'[d] # NoCall =>
            calls'[d].key \in {NoFile, keyFile'} /\ Pc(calls'[d]) # "writeKey"
      BY <1>0, <2>1, <2>4, OthersAre
    <2>6. \A ref \in Refs : ~Held(ref)'
      BY <2>1, <2>3 DEF Held
    <2> QED
      BY <2>1, <2>2, <2>5, <2>6 DEF FileInv
  <1>12. CASE Open(c)
    BY <1>12, OpenStep, FileGoes DEF Open
  <1>13. CASE Write(c)
    BY <1>13, WriteStep, FileGoes DEF Write
  <1>14. CASE Rename(c)
    <2> DEFINE call == calls[c]
    <2>1. /\ OthersStay(c) /\ calls'[c].key = call.key /\ Pc(calls'[c]) = Following(c)
          /\ Pc(call) = "rename" /\ call \in Call /\ call.input \in Inputs
          /\ keyFile' = keyFile
      BY <1>0, <1>14, RenameStep, Active DEF Rename, GoesTo
    <2> SUFFICES ASSUME ~overtaken' PROVE FileInv'
      BY DEF FileInv
    <2>2. Settled(call)
      BY <2>1, InputType DEF Settled
    <2>3. /\ ~overtaken /\ secrets' \in Entries
          /\ Loaded(secrets)' =
               [Loaded(secrets) EXCEPT
                  ![RefOf(call)] = IF call.key = NoFile THEN NoEntry
                                   ELSE [secret |-> call.input.secret, key |-> call.key]]
          /\ RefOf(call) \in Refs /\ Loaded(secrets) \in Entries
      BY <1>14, <2>2, RenameSaves
    <2>4. call.key \in {NoFile, keyFile}
      BY <1>0, <2>3 DEF FileInv
    <2>5. Following(c) # "writeKey"
      BY <2>1 DEF Following, After
    <2>6. \A d \in CallIds : calls'[d] # NoCall =>
            /\ calls[d] # NoCall /\ calls'[d].key \in {NoFile, keyFile}
            /\ Pc(calls'[d]) = "writeKey" => Pc(calls[d]) = "writeKey"
      BY <1>0, <2>1, <2>3, <2>4, <2>5, OthersAre DEF FileInv
    <2>7. ASSUME NEW ref \in Refs, Held(ref)' PROVE Loaded(secrets)'[ref].key = keyFile
      <3>1. Loaded(secrets)[ref] # NoEntry => Loaded(secrets)[ref].key = keyFile
        BY <2>3 DEF FileInv, Held
      <3>2. CASE ref = RefOf(call)
        BY <2>3, <2>4, <2>7, <3>2 DEF Held, Entries
      <3>3. CASE ref # RefOf(call)
        BY <2>3, <2>7, <3>1, <3>3 DEF Held, Entries
      <3> QED
        BY <3>2, <3>3
    <2> QED
      BY <2>1, <2>3, <2>6, <2>7 DEF FileInv
  <1>15. CASE ReadRules(c)
    BY <1>15, ReadRulesStep, FileGoes DEF ReadRules
  <1>16. CASE ReplaceRules(c)
    <2>1. UNCHANGED <<keyFile, secrets>> /\ (~overtaken' => ~overtaken)
      BY <1>16 DEF ReplaceRules, BaseInv, TypeOK
    <2> QED
      BY <1>0, <1>16, <2>1, ReplaceRulesStep, OthersAre DEF FileInv, Held, GoesTo
  <1>17. CASE Throw(c)
    BY <1>17, ThrowStep, FileStays DEF Throw, GivesUp
  <1>18. CASE End(c)
    BY <1>18, EndStep, FileStays DEF End, GivesUp
  <1> QED
    BY <1>1, <1>2, <1>3, <1>4, <1>5, <1>6, <1>7, <1>8, <1>9, <1>10, <1>11, <1>12, <1>13,
       <1>14, <1>15, <1>16, <1>17, <1>18 DEF Step

LEMMA FileNext ==
  ASSUME BaseInv, FileInv, [Next]_vars
  PROVE  FileInv'
  <1>1. CASE UNCHANGED vars
    BY <1>1 DEF vars, FileInv, Held
  <1>2. ASSUME NEW c \in CallIds, NEW input \in Inputs, Begin(c, input) PROVE FileInv'
    <2>1. First(input) # "writeKey"
      BY InputType DEF First
    <2> QED
      BY <1>2, <2>1, BeginStep, FileStays DEF Begin
  <1>3. ASSUME NEW id \in Ids, Reconcile(id) PROVE FileInv'
    BY <1>3 DEF Reconcile, FileInv, Held
  <1>4. CASE Crash
    BY <1>4 DEF Crash, FileInv, Held
  <1>5. CASE Restart \/ Serve
    BY <1>5 DEF Restart, Serve, FileInv, Held
  <1> QED
    BY <1>1, <1>2, <1>3, <1>4, <1>5, FileStep DEF Next

LEMMA FileAlways == Spec => []FileInv
  <1>1. Init => FileInv
    <2>1. ASSUME Init, NEW ref \in Refs PROVE ~Held(ref)
      BY <2>1 DEF Init, Held, Loaded, NoEntries
    <2> QED
      BY <2>1 DEF Init, FileInv
  <1>2. BaseInv /\ FileInv /\ [Next]_vars => FileInv'
    BY FileNext
  <1> QED
    BY <1>1, <1>2, BaseAlways, PTL DEF Spec

-----------------------------------------------------------------------------
(* Credentials apart *)

\* A step of a call touches its own credential alone: of the others the row,
\* the secret, the rule and what callers were told stay as they are.
Apart(c) ==
  /\ \A id \in Ids : id # calls[c].input.id => rows'[id] = rows[id]
  /\ \A ref \in Refs : ref # RefOf(calls[c]) =>
       /\ ledger'[ref] = ledger[ref]
       /\ Loaded(secrets)'[ref] = Loaded(secrets)[ref]
       /\ rules'[RuleIdOf[ref]] = rules[RuleIdOf[ref]]
       /\ ref[2] \notin contended =>
            /\ HasRow(ref)' <=> HasRow(ref)
            /\ HasRow(ref) => rows'[ref[2]] = rows[ref[2]]

LEMMA GoodApart ==
  ASSUME NEW c \in CallIds, Apart(c), NEW ref \in Refs, ref # RefOf(calls[c]),
         ref[2] \notin contended, Good(ref)
  PROVE  Good(ref)'
  <1>1. /\ ledger'[ref] = ledger[ref]
        /\ Held(ref)' <=> Held(ref)
        /\ rules'[RuleIdOf[ref]] = rules[RuleIdOf[ref]]
        /\ HasRow(ref)' <=> HasRow(ref)
        /\ HasRow(ref) => rows'[ref[2]] = rows[ref[2]]
    BY DEF Apart, Held
  <1> QED
    BY <1>1 DEF Good

LEMMA KnowsApart ==
  ASSUME BaseInv, NEW c \in CallIds, calls[c] # NoCall, OthersStay(c), Apart(c),
         NEW d \in CallIds \ {c}, calls'[d] # NoCall, calls[d].input.id \notin contended,
         Knows(calls[d])
  PROVE  Knows(calls[d])'
  <1> DEFINE call == calls[d]
             new == calls'[d]
             ref == RefOf(call)
  <1>1. /\ call # NoCall /\ new.input = call.input /\ new.failing = call.failing
        /\ Pc(new) = Pc(call) /\ new.seen = call.seen
    BY OthersAre
  <1>2. call \in Call /\ Shape(call) /\ call.input.id \in Ids
    BY <1>1, Active
  <1>3. Settled(new) <=> Settled(call)
    BY <1>1 DEF Settled
  <1> SUFFICES ASSUME Settled(call) PROVE Knows(calls[d])'
    BY <1>3 DEF Knows
  <1>4. call.input.id # calls[c].input.id
    BY <1>1 DEF BaseInv, OneCall
  <1>5. ref \in Refs /\ ref # RefOf(calls[c]) /\ RefOf(new) = ref /\ RuleOf(new) = RuleOf(call)
    BY <1>1, <1>2, <1>4, RefType DEF RefOf, RuleOf, TenantOfCall
  <1>6. /\ rows'[call.input.id] = rows[call.input.id]
        /\ ledger'[ref] = ledger[ref]
        /\ Held(ref) <=> Loaded(secrets)'[ref] # NoEntry
        /\ rules'[RuleOf(call)] = rules[RuleOf(call)]
    BY <1>2, <1>4, <1>5 DEF Apart, Held, RuleOf
  <1>7. ASSUME call.input.kind = "create"
        PROVE  KnowsCreate(calls[d])'
    <2>1. KnowsCreate(call)
      BY <1>7 DEF Knows
    <2> QED
      BY <1>1, <1>5, <1>6, <2>1 DEF KnowsCreate, Held
  <1>8. ASSUME call.input.kind # "create"
        PROVE  KnowsOther(calls[d])'
    <2>1. KnowsOther(call)
      BY <1>8 DEF Knows
    <2>2. Keeps(new) <=> Keeps(call)
      BY <1>1 DEF Keeps
    <2> QED
      BY <1>1, <1>5, <1>6, <2>1, <2>2 DEF KnowsOther, Held
  <1> QED
    BY <1>1, <1>7, <1>8 DEF Knows

\* What is shown of each step: it keeps the credentials apart, and the call
\* knows again, where it is then, what it is to know.
Advances(c) ==
  /\ ~overtaken /\ OthersStay(c) /\ Apart(c)
  /\ calls[c].input.id \notin contended =>
       /\ calls'[c] # NoCall => Knows(calls[c])'
       /\ \A ref \in Refs : ref = RefOf(calls[c]) => Good(ref)'

LEMMA Advanced ==
  ASSUME BaseInv, KnowledgeInv, NEW c \in CallIds, calls[c] # NoCall,
         ~overtaken' => Advances(c), contended' = contended,
         calls'[c] # NoCall => calls'[c].input = calls[c].input
  PROVE  KnowledgeInv'
  <1> SUFFICES ASSUME ~overtaken'
               PROVE  /\ \A d \in CallIds :
                           calls'[d] # NoCall /\ calls'[d].input.id \notin contended =>
                             Knows(calls[d])'
                      /\ \A ref \in Refs : ref[2] \notin contended => Good(ref)'
    BY DEF KnowledgeInv
  <1>1. ~overtaken /\ OthersStay(c) /\ Apart(c)
    BY DEF Advances
  <1>2. ASSUME NEW d \in CallIds, calls'[d] # NoCall, calls'[d].input.id \notin contended,
               d # c
        PROVE  Knows(calls[d])'
    <2>1. calls[d] # NoCall /\ calls'[d].input = calls[d].input
      BY <1>1, <1>2, OthersAre
    <2>2. Knows(calls[d])
      BY <1>1, <1>2, <2>1 DEF KnowledgeInv
    <2> QED
      BY <1>1, <1>2, <2>1, <2>2, KnowsApart
  <1>3. ASSUME calls'[c] # NoCall, calls'[c].input.id \notin contended
        PROVE  Knows(calls[c])'
    BY <1>3 DEF Advances
  <1>4. ASSUME NEW ref \in Refs, ref[2] \notin contended PROVE Good(ref)'
    <2>1. CASE ref = RefOf(calls[c])
      <3>1. ref[2] = calls[c].input.id
        BY <2>1 DEF RefOf
      <3> QED
        BY <1>4, <2>1, <3>1 DEF Advances
    <2>2. CASE ref # RefOf(calls[c])
      <3>1. Good(ref)
        BY <1>1, <1>4 DEF KnowledgeInv
      <3> QED
        BY <1>1, <1>4, <2>2, <3>1, GoodApart
    <2> QED
      BY <2>1, <2>2
  <1> QED
    BY <1>2, <1>3, <1>4

\* A step that changes nothing but its call.
LEMMA Quiet ==
  ASSUME BaseInv, KnowledgeInv, NEW c \in CallIds, calls[c] # NoCall, OthersStay(c),
         ~overtaken, UNCHANGED <<rows, rules, ledger, secrets>>,
         calls[c].input.id \notin contended /\ calls'[c] # NoCall => Knows(calls[c])'
  PROVE  Advances(c)
  <1>1. Apart(c)
    BY DEF Apart, HasRow, Loaded
  <1>2. ASSUME NEW ref \in Refs, ref = RefOf(calls[c]), calls[c].input.id \notin contended
        PROVE  Good(ref)'
    <2>1. ref[2] = calls[c].input.id
      BY <1>2 DEF RefOf
    <2>2. Good(ref)
      BY <1>2, <2>1 DEF KnowledgeInv
    <2> QED
      BY <2>2 DEF Good, HasRow, Held, Loaded
  <1> QED
    BY <1>1, <1>2 DEF Advances

\* The steps that only lead on to another: what the call knew it knows still.
QuietSteps == {"record", "loadToPut", "loadToDelete", "key", "openKey", "writeKey",
               "open", "write", "readRules"}

LEMMA QuietGoes ==
  ASSUME BaseInv, KnowledgeInv, NEW c \in CallIds, NEW pc, GoesTo(c, pc), ~overtaken,
         UNCHANGED <<rows, rules, ledger, secrets>>, calls'[c].seen = calls[c].seen,
         Pc(calls[c]) \in QuietSteps,
         \/ pc = Following(c)
         \/ pc = "openKey" /\ Pc(calls[c]) = "key"
         \/ /\ pc = After(calls[c].input, calls[c].failing, "rename")
            /\ Pc(calls[c]) = "loadToDelete" /\ ~Held(RefOf(calls[c]))
  PROVE  Advances(c)
  <1> DEFINE call == calls[c]
             new == calls'[c]
             ref == RefOf(call)
             step == Pc(call)
  <1>1. /\ call # NoCall /\ OthersStay(c) /\ Pc(new) = pc
        /\ new.input = call.input /\ new.failing = call.failing
    BY DEF GoesTo, SameCall
  <1>2. /\ call \in Call /\ Shape(call) /\ call.input \in Inputs /\ call.failing \in BOOLEAN
        /\ step \in Places(call.input, call.failing)
        /\ call.failing => call.input.kind = "create"
    BY <1>1, Active
  <1>3. Settled(call)
    BY <1>2, InputType DEF Settled, QuietSteps
  <1>4. RefOf(new) = ref /\ RuleOf(new) = RuleOf(call)
    BY <1>1 DEF RefOf, RuleOf, TenantOfCall
  <1> SUFFICES ASSUME calls[c].input.id \notin contended
               PROVE  Knows(calls[c])'
    BY <1>1, Quiet
  <1>5. Knows(call)
    BY <1>1 DEF KnowledgeInv
  <1>6. ASSUME call.input.kind = "create"
        PROVE  KnowsCreate(calls[c])'
    <2>1. KnowsCreate(call)
      BY <1>3, <1>5, <1>6 DEF Knows
    <2>2. ledger[ref] = "none" /\ ledger'[ref] = "none"
      BY <2>1 DEF KnowsCreate, QuietSteps
    <2>3. CASE call.failing
      <3>1. pc \notin {"readRow", "remove"}
        BY <2>3, <1>6 DEF Following, After, QuietSteps
      <3> QED
        BY <1>1, <1>4, <2>2, <2>3, <3>1 DEF KnowsCreate
    <2>4. CASE ~call.failing
      <3>1. step # "loadToDelete"
        BY <1>2, <1>6, <2>4, PlaceFacts
      <3>2. pc \in {"insert", "record", "readRules", "allow", "end"} =>
              step \in {"record", "readRules"} /\ pc # "end" /\ pc # "insert"
        BY <1>6, <2>4, <3>1 DEF Following, After, QuietSteps
      <3>3. step \in {"record", "readRules"} =>
              /\ rows[call.input.id] = Made(call.input)
              /\ call.input.adapter = "local" => Held(ref)
        BY <2>1, <2>4 DEF KnowsCreate
      <3> QED
        BY <1>1, <1>4, <2>2, <2>4, <3>2, <3>3 DEF KnowsCreate, Held, Loaded
    <2> QED
      BY <1>2, <2>3, <2>4
  <1>7. ASSUME call.input.kind # "create"
        PROVE  KnowsOther(calls[c])'
    <2>1. KnowsOther(call)
      BY <1>3, <1>5, <1>7 DEF Knows
    <2>2. ~call.failing
      BY <1>2, <1>7
    <2>3. pc \notin {"readRow", "remove"}
      BY <1>7, <2>2 DEF Following, After, QuietSteps
    <2>4. ASSUME call.input.kind = "update" PROVE pc # "end"
      <3>1. step \in {"record", "readRules"}
        BY <1>2, <2>2, <2>4, PlaceFacts DEF QuietSteps
      <3> QED
        BY <2>2, <2>4, <3>1 DEF Following, After
    <2>5. ASSUME call.input.kind = "delete"
          PROVE  /\ pc # "end"
                 /\ pc \in {"readRules", "disallow"} => ~Held(ref)
      <3>1. pc # "end" /\ (pc \in {"readRules", "disallow"} => step \in {"readRules", "loadToDelete"})
        BY <2>5 DEF Following, After, QuietSteps
      <3>2. step = "readRules" => ~Held(ref)
        BY <2>1, <2>5 DEF KnowsOther
      <3>3. step = "loadToDelete" /\ pc \in {"readRules", "disallow"} => ~Held(ref)
        BY <2>5 DEF Following, After
      <3> QED
        BY <3>1, <3>2, <3>3
    <2>6. call.input.kind \in {"update", "catalogUpdate", "replace"} => rows[call.input.id] = call.seen
      BY <2>1 DEF KnowsOther, Keeps
    <2>7. call.input.kind = "delete" => ledger[ref] = "none" /\ rows[call.input.id] = NoRow
      BY <2>1 DEF KnowsOther, QuietSteps
    <2> QED
      BY <1>1, <1>2, <1>4, <2>3, <2>4, <2>5, <2>6, <2>7, InputType
         DEF KnowsOther, Keeps, Held, Loaded
  <1> QED
    BY <1>1, <1>6, <1>7 DEF Knows

\* What a step finds.
LEMMA Before ==
  ASSUME BaseInv, NEW c \in CallIds, calls[c] # NoCall
  PROVE  /\ calls[c] \in Call /\ Shape(calls[c]) /\ calls[c].input \in Inputs
         /\ calls[c].failing \in BOOLEAN
         /\ Pc(calls[c]) \in Places(calls[c].input, calls[c].failing)
         /\ calls[c].failing => calls[c].input.kind = "create"
         /\ calls[c].input.id \in Ids
         /\ RefOf(calls[c])[2] = calls[c].input.id
         /\ Settled(calls[c]) =>
              /\ RefOf(calls[c]) \in Refs
              /\ RefOf(calls[c]) = <<TenantOfCall(calls[c]), calls[c].input.id>>
         /\ KnowledgeInv /\ ~overtaken /\ calls[c].input.id \notin contended =>
              /\ Knows(calls[c])
              /\ \A ref \in Refs : ref = RefOf(calls[c]) => Good(ref)
  <1>1. /\ calls[c] \in Call /\ Shape(calls[c]) /\ calls[c].input \in Inputs
        /\ calls[c].failing \in BOOLEAN
        /\ Pc(calls[c]) \in Places(calls[c].input, calls[c].failing)
        /\ calls[c].failing => calls[c].input.kind = "create"
        /\ calls[c].input.id \in Ids
    BY Active
  <1>2. RefOf(calls[c])[2] = calls[c].input.id
    BY DEF RefOf
  <1>3. Settled(calls[c]) => RefOf(calls[c]) \in Refs
    BY <1>1, RefType
  <1> QED
    BY <1>1, <1>2, <1>3 DEF KnowledgeInv, RefOf

\* What a step leaves, when it leaves what its call has read.
LEMMA Afterwards ==
  ASSUME BaseInv, NEW c \in CallIds, NEW pc, GoesTo(c, pc)
  PROVE  /\ OthersStay(c) /\ calls[c] # NoCall /\ Pc(calls'[c]) = pc
         /\ calls'[c].input = calls[c].input /\ calls'[c].failing = calls[c].failing
         /\ calls[c].input.kind = "create" \/ calls'[c].seen.tenant = calls[c].seen.tenant =>
              RefOf(calls'[c]) = RefOf(calls[c]) /\ RuleOf(calls'[c]) = RuleOf(calls[c])
  BY DEF GoesTo, SameCall, RefOf, RuleOf, TenantOfCall

LEMMA VacantKnows ==
  ASSUME CreatesStayHome, BaseInv, KnowledgeInv, NEW c \in CallIds, Vacant(c), ~overtaken'
  PROVE  Advances(c)
  <1> DEFINE call == calls[c]
             new == calls'[c]
             ref == RefOf(call)
  <1>1. /\ Pc(call) = "vacant" /\ call # NoCall
        /\ ledger' = [ledger EXCEPT ![ref] = IF @ = "deleted" THEN "none" ELSE @]
        /\ UNCHANGED <<rows, rules, secrets, overtaken>>
        /\ ~Visible(call)
    BY AtStep DEF Vacant
  <1>2. GoesTo(c, Following(c))
    BY VacantStep
  <1>3. call.input.kind = "create" /\ ~call.failing
    BY <1>1, Before, PlaceFacts
  <1>4. /\ OthersStay(c) /\ Pc(new) = Following(c) /\ new.input = call.input
        /\ new.failing = call.failing /\ RefOf(new) = ref
    BY <1>2, <1>3, Afterwards
  <1>5. Settled(call) /\ ref \in Refs /\ ref = <<call.input.tenant, call.input.id>>
    BY <1>1, <1>3, Before DEF Settled, TenantOfCall
  <1>6. Apart(c)
    BY <1>1, <1>5 DEF Apart, HasRow, Loaded, BaseInv, TypeOK
  <1>7. ASSUME call.input.id \notin contended
        PROVE  KnowsCreate(calls[c])' /\ Good(ref) /\ ledger'[ref] = "none"
    <2>1. Good(ref)
      BY <1>1, <1>5, <1>7, Before
    <2>2. ~HasRow(ref)
      <3>1. TenantAllowed(call.input.by, call.input.tenant)
        BY <1>1, <1>3, Before DEF CreatesStayHome
      <3> QED
        BY <1>1, <1>5, <3>1 DEF HasRow, Visible
    <2>3. ledger[ref] \in {"none", "deleted"}
      BY <1>5, <2>1, <2>2 DEF Good, BaseInv, TypeOK
    <2>4. ledger'[ref] = "none"
      BY <1>1, <1>5, <2>3 DEF BaseInv, TypeOK
    <2>5. Following(c) = IF call.input.adapter = "local" THEN "loadToPut" ELSE "insert"
      BY <1>1 DEF Following, After
    <2> QED
      BY <1>3, <1>4, <2>1, <2>4, <2>5 DEF KnowsCreate
  <1>8. ASSUME call.input.id \notin contended, NEW r \in Refs, r = ref PROVE Good(r)'
    BY <1>7, <1>8 DEF Good
  <1>9. call.input.id \notin contended => Knows(calls[c])'
    BY <1>3, <1>4, <1>7 DEF Knows
  <1> QED
    BY <1>1, <1>4, <1>6, <1>8, <1>9 DEF Advances

LEMMA FindKnows ==
  ASSUME BaseInv, KnowledgeInv, NEW c \in CallIds, Find(c), ~overtaken'
  PROVE  Advances(c)
  <1> DEFINE call == calls[c]
             new == calls'[c]
  <1>1. Pc(call) = "find" /\ call # NoCall /\ UNCHANGED <<rows, rules, ledger, secrets, overtaken>>
    BY AtStep DEF Find
  <1>2. GoesTo(c, Following(c)) /\ new.seen = rows[call.input.id]
    BY FindStep
  <1>3. /\ OthersStay(c) /\ Pc(new) = Following(c) /\ new.input = call.input
    BY <1>2, Afterwards
  <1>4. call.input.kind \in {"replace", "delete"}
    BY <1>1, Before, PlaceFacts
  <1>5. Following(c) = IF call.input.kind = "replace" THEN "loadToPut" ELSE "readRow"
    BY <1>1 DEF Following, After
  <1>6. KnowsOther(calls[c])'
    BY <1>1, <1>2, <1>3, <1>4, <1>5 DEF KnowsOther, Keeps
  <1>7. Knows(calls[c])'
    BY <1>3, <1>4, <1>6 DEF Knows
  <1> QED
    BY <1>1, <1>3, <1>7, Quiet

LEMMA ReadRowKnows ==
  ASSUME BaseInv, KnowledgeInv, NEW c \in CallIds, ReadRow(c), ~overtaken'
  PROVE  Advances(c)
  <1> DEFINE call == calls[c]
             new == calls'[c]
  <1>1. Pc(call) = "readRow" /\ call # NoCall /\ UNCHANGED <<rows, rules, ledger, secrets, overtaken>>
    BY AtStep DEF ReadRow
  <1>2. /\ GoesTo(c, Following(c))
        /\ new.seen = IF call.input.kind \in {"create", "delete"} THEN call.seen
                      ELSE rows[call.input.id]
    BY ReadRowStep
  <1>3. /\ OthersStay(c) /\ Pc(new) = Following(c) /\ new.input = call.input
        /\ new.failing = call.failing
        /\ call.input.kind = "create" => RefOf(new) = RefOf(call)
    BY <1>2, Afterwards
  <1>4. \/ call.failing /\ call.input.kind = "create"
        \/ call.input.kind \in {"delete", "update", "catalogUpdate", "catalogDelete"}
    BY <1>1, Before, PlaceFacts
  <1>5. Following(c) = IF call.input.kind \in {"update", "catalogUpdate"} THEN "update"
                       ELSE "remove"
    BY <1>1 DEF Following, After
  <1> SUFFICES ASSUME call.input.id \notin contended PROVE Knows(calls[c])'
    BY <1>1, <1>3, Quiet
  <1>6. Knows(call)
    BY <1>1, Before
  <1>7. ASSUME call.input.kind = "create" PROVE KnowsCreate(calls[c])'
    <2>1. KnowsCreate(call) /\ call.failing
      BY <1>4, <1>6, <1>7 DEF Knows, Settled
    <2> QED
      BY <1>1, <1>3, <1>5, <1>7, <2>1 DEF KnowsCreate
  <1>8. ASSUME call.input.kind = "delete" PROVE KnowsOther(calls[c])'
    <2>1. KnowsOther(call)
      BY <1>1, <1>6, <1>8 DEF Knows, Settled
    <2>2. rows[call.input.id] = call.seen
      BY <1>1, <1>8, <2>1 DEF KnowsOther, Keeps
    <2> QED
      BY <1>1, <1>2, <1>3, <1>5, <1>8, <2>2 DEF KnowsOther, Keeps
  <1>9. ASSUME call.input.kind \in {"update", "catalogUpdate", "catalogDelete"}
        PROVE  KnowsOther(calls[c])'
    BY <1>1, <1>2, <1>3, <1>5, <1>9 DEF KnowsOther, Keeps
  <1> QED
    BY <1>3, <1>4, <1>7, <1>8, <1>9 DEF Knows

LEMMA InsertKnows ==
  ASSUME BaseInv, KnowledgeInv, NEW c \in CallIds, Insert(c), ~overtaken'
  PROVE  Advances(c)
  <1> DEFINE call == calls[c]
             new == calls'[c]
             ref == RefOf(call)
  <1>1. /\ Pc(call) = "insert" /\ call # NoCall
        /\ rows[call.input.id] = NoRow
        /\ rows' = [rows EXCEPT ![call.input.id] = Made(call.input)]
        /\ ledger' = [ledger EXCEPT ![ref] = "none"]
        /\ UNCHANGED <<rules, secrets, overtaken>>
    BY AtStep DEF Insert, Told, Made
  <1>2. GoesTo(c, Following(c))
    BY InsertStep
  <1>3. call.input.kind = "create" /\ ~call.failing
    BY <1>1, Before, PlaceFacts
  <1>4. /\ OthersStay(c) /\ Pc(new) = Following(c) /\ new.input = call.input
        /\ new.failing = call.failing /\ RefOf(new) = ref
    BY <1>2, <1>3, Afterwards
  <1>5. /\ Settled(call) /\ ref \in Refs /\ ref = <<call.input.tenant, call.input.id>>
        /\ call.input.id \in Ids
    BY <1>1, <1>3, Before DEF Settled, TenantOfCall
  <1>6. /\ rows'[call.input.id] = Made(call.input)
        /\ \A id \in Ids : id # call.input.id => rows'[id] = rows[id]
    BY <1>1, <1>5 DEF BaseInv, TypeOK
  <1>7. ASSUME NEW r \in Refs, r # ref
        PROVE  (HasRow(r)' <=> HasRow(r)) /\ (HasRow(r) => rows'[r[2]] = rows[r[2]])
    <2>1. r[2] \in Ids /\ r = <<r[1], r[2]>>
      BY DEF Refs
    <2>2. CASE r[2] # call.input.id
      BY <1>6, <2>1, <2>2 DEF HasRow
    <2>3. CASE r[2] = call.input.id
      <3>1. r[1] # call.input.tenant
        BY <1>5, <1>7, <2>1, <2>3
      <3> QED
        BY <1>1, <1>6, <2>3, <3>1 DEF HasRow, Made
    <2> QED
      BY <2>2, <2>3
  <1>8. Apart(c)
    BY <1>1, <1>5, <1>6, <1>7 DEF Apart, Loaded, BaseInv, TypeOK
  <1>9. ledger'[ref] = "none"
    BY <1>1, <1>5 DEF BaseInv, TypeOK
  <1>10. Following(c) = "record"
    BY <1>1 DEF Following, After
  <1>11. ASSUME call.input.id \notin contended PROVE Knows(calls[c])'
    <2>1. call.input.adapter = "local" => Held(ref)
      BY <1>1, <1>3, <1>5, <1>11, Before DEF Knows, KnowsCreate
    <2>2. KnowsCreate(calls[c])'
      BY <1>1, <1>3, <1>4, <1>6, <1>9, <1>10, <2>1 DEF KnowsCreate, Held, Loaded
    <2> QED
      BY <1>3, <1>4, <2>2 DEF Knows
  <1>12. ASSUME NEW r \in Refs, r = ref PROVE Good(r)'
    BY <1>9, <1>12 DEF Good
  <1> QED
    BY <1>1, <1>4, <1>8, <1>11, <1>12 DEF Advances

\* The row that a call writes or removes is that of its own credential.
LEMMA OwnRow ==
  ASSUME BaseInv, KnowledgeInv, ~overtaken, NEW c \in CallIds, calls[c] # NoCall,
         Pc(calls[c]) \in {"update", "remove"}, rows[calls[c].input.id] # NoRow,
         calls[c].input.id \notin contended
  PROVE  rows[calls[c].input.id].tenant = RefOf(calls[c])[1]
  <1> DEFINE call == calls[c]
  <1>1. Knows(call) /\ Settled(call)
    BY Before, InputType DEF Settled
  <1>2. CASE call.input.kind = "create"
    <2>1. call.failing /\ Pc(call) = "remove"
      BY <1>2, Before, PlaceFacts
    <2> QED
      BY <1>1, <1>2, <2>1 DEF Knows, KnowsCreate, RefOf, TenantOfCall
  <1>3. CASE call.input.kind # "create"
    <2>1. call.input.kind \in {"update", "catalogUpdate", "delete", "catalogDelete"}
          /\ (Pc(call) = "update" => call.input.kind \in {"update", "catalogUpdate"})
      BY <1>3, Before, PlaceFacts
    <2>2. Keeps(call)
      BY <2>1, Before, PlaceFacts DEF Keeps
    <2>3. rows[call.input.id] = call.seen
      BY <1>1, <1>3, <2>2 DEF Knows, KnowsOther
    <2> QED
      BY <1>3, <2>3 DEF RefOf, TenantOfCall
  <1> QED
    BY <1>2, <1>3

LEMMA UpdateKnows ==
  ASSUME BaseInv, KnowledgeInv, NEW c \in CallIds, Update(c), ~overtaken'
  PROVE  Advances(c)
  <1> DEFINE call == calls[c]
             new == calls'[c]
             ref == RefOf(call)
             id == call.input.id
             written == [call.seen EXCEPT !.what = "updated"]
  <1>1. /\ Pc(call) = "update" /\ call # NoCall
        /\ rows' = [j \in Ids |-> IF j # id \/ rows[j] = NoRow THEN rows[j]
                                 ELSE [written EXCEPT !.tenant = rows[j].tenant]]
        /\ ledger' = [ledger EXCEPT ![ref] = IF ledger[ref] = "complete" THEN "stale"
                                             ELSE ledger[ref]]
        /\ UNCHANGED <<rules, secrets, overtaken>>
    BY AtStep DEF Update, Told
  <1>2. /\ GoesTo(c, Following(c)) /\ new.seen = written
        /\ call.input.kind \in {"update", "catalogUpdate"} /\ call.seen \in Row
    BY UpdateStep DEF Seen
  <1>3. /\ written \in Row /\ written.tenant = call.seen.tenant
        /\ written.adapter = call.seen.adapter /\ written.owner = call.seen.owner
    BY <1>2 DEF Row
  <1> HIDE DEF written
  <1>4. /\ OthersStay(c) /\ Pc(new) = Following(c) /\ new.input = call.input
        /\ RefOf(new) = ref
    BY <1>2, <1>3, Afterwards
  <1>5. /\ Settled(call) /\ ref \in Refs /\ ref = <<call.seen.tenant, id>> /\ id \in Ids
    BY <1>1, <1>2, Before DEF Settled, TenantOfCall
  <1>6. /\ \A j \in Ids : j # id => rows'[j] = rows[j]
        /\ rows[id] = NoRow => rows'[id] = NoRow
        /\ rows[id] # NoRow => rows'[id] = [written EXCEPT !.tenant = rows[id].tenant]
    BY <1>1, <1>5
  <1>7. ASSUME rows[id] # NoRow
        PROVE  /\ rows'[id] \in Row /\ rows'[id] # NoRow /\ rows'[id].tenant = rows[id].tenant
               /\ rows'[id].adapter = call.seen.adapter
               /\ rows[id] = call.seen => rows'[id] = written
    <2>1. rows[id] \in Row
      BY <1>5, <1>7 DEF BaseInv, TypeOK
    <2>2. rows'[id] \in Row
      BY <1>3, <1>6, <1>7, <2>1 DEF Row
    <2> QED
      BY <1>3, <1>6, <1>7, <2>1, <2>2, CoreModeAssumption DEF Row
  <1>8. ASSUME NEW r \in Refs, r # ref, r[2] \notin contended
        PROVE  (HasRow(r)' <=> HasRow(r)) /\ (HasRow(r) => rows'[r[2]] = rows[r[2]])
    <2>1. r[2] \in Ids /\ r = <<r[1], r[2]>>
      BY DEF Refs
    <2>2. CASE r[2] # id
      BY <1>6, <2>1, <2>2 DEF HasRow
    <2>3. CASE r[2] = id
      <3>1. r[1] # ref[1]
        BY <1>5, <1>8, <2>1, <2>3
      <3>2. rows[id] # NoRow => rows[id].tenant = ref[1]
        BY <1>1, <1>8, <2>3, OwnRow
      <3> QED
        BY <1>6, <1>7, <2>3, <3>1, <3>2 DEF HasRow
    <2> QED
      BY <2>2, <2>3
  <1>9. Apart(c)
    BY <1>1, <1>5, <1>6, <1>8 DEF Apart, Loaded, BaseInv, TypeOK
  <1>10. Following(c) = "record"
    BY <1>1 DEF Following, After
  <1>11. ASSUME id \notin contended
         PROVE  /\ rows[id] = call.seen /\ rows[id] # NoRow /\ rows'[id] = written
                /\ HasRow(ref) /\ rows'[ref[2]] # NoRow /\ rows'[ref[2]].tenant = ref[1]
    <2>1. rows[id] = call.seen
      BY <1>1, <1>2, <1>5, <1>11, Before DEF Knows, KnowsOther, Keeps
    <2>2. rows[id] # NoRow
      BY <1>2, <2>1, CoreModeAssumption
    <2>3. ref[1] = call.seen.tenant /\ ref[2] = id
      BY <1>5
    <2>4. rows'[id] = written
      BY <1>7, <2>1, <2>2
    <2>5. HasRow(ref)
      BY <2>1, <2>2, <2>3 DEF HasRow
    <2>6. rows'[ref[2]] # NoRow /\ rows'[ref[2]].tenant = ref[1]
      BY <1>3, <1>7, <2>2, <2>3, <2>4
    <2> QED
      BY <2>1, <2>2, <2>4, <2>5, <2>6
  <1>12. ASSUME id \notin contended PROVE Knows(calls[c])'
    <2>1. KnowsOther(calls[c])'
      BY <1>2, <1>4, <1>10, <1>11, <1>12 DEF KnowsOther
    <2> QED
      BY <1>2, <1>4, <2>1 DEF Knows
  <1>13. ASSUME id \notin contended, NEW r \in Refs, r = ref PROVE Good(r)'
    <2>1. Good(r) /\ r[2] = id
      BY <1>1, <1>13, Before
    <2>2. /\ ledger'[r] \in {"complete", "stale"} =>
               ledger[r] \in {"complete", "stale"} /\ ledger'[r] # "complete"
          /\ ledger'[r] = "deleted" => ledger[r] = "deleted"
      BY <1>1, <1>5, <1>13 DEF BaseInv, TypeOK
    <2>3. rows'[id].adapter = rows[id].adapter
      BY <1>3, <1>11, <1>13
    <2>4. HasRow(r) /\ HasRow(r)'
      BY <1>11, <1>13 DEF HasRow
    <2>5. UNCHANGED <<rules, secrets>>
      BY <1>1
    <2> QED
      BY <2>1, <2>2, <2>3, <2>4, <2>5 DEF Good, Held, Loaded
  <1> QED
    BY <1>1, <1>4, <1>9, <1>12, <1>13 DEF Advances

LEMMA RemoveKnows ==
  ASSUME BaseInv, KnowledgeInv, NEW c \in CallIds, Remove(c), ~overtaken'
  PROVE  Advances(c)
  <1> DEFINE call == calls[c]
             new == calls'[c]
             ref == RefOf(call)
             id == call.input.id
  <1>1. /\ Pc(call) = "remove" /\ call # NoCall
        /\ rows[id] # NoRow
        /\ rows' = [rows EXCEPT ![id] = NoRow]
        /\ ledger' = [ledger EXCEPT ![ref] = "none"]
        /\ UNCHANGED <<rules, secrets, overtaken>>
    BY AtStep DEF Remove, Told
  <1>2. GoesTo(c, Following(c)) /\ new.seen = call.seen
    BY RemoveStep
  <1>3. /\ OthersStay(c) /\ Pc(new) = Following(c) /\ new.input = call.input
        /\ new.failing = call.failing /\ RefOf(new) = ref
    BY <1>2, Afterwards
  <1>4. \/ call.failing /\ call.input.kind = "create"
        \/ call.input.kind \in {"delete", "catalogDelete"}
    BY <1>1, Before, PlaceFacts
  <1>5. /\ Settled(call) /\ ref \in Refs /\ ref = <<ref[1], id>> /\ id \in Ids
    <2>1. Settled(call)
      BY <1>1, <1>4 DEF Settled
    <2> QED
      BY <1>1, <2>1, Before
  <1>6. rows'[id] = NoRow /\ \A j \in Ids : j # id => rows'[j] = rows[j]
    BY <1>1, <1>5 DEF BaseInv, TypeOK
  <1>7. ASSUME NEW r \in Refs, r # ref, r[2] \notin contended
        PROVE  (HasRow(r)' <=> HasRow(r)) /\ (HasRow(r) => rows'[r[2]] = rows[r[2]])
    <2>1. r[2] \in Ids /\ r = <<r[1], r[2]>>
      BY DEF Refs
    <2>2. CASE r[2] # id
      BY <1>6, <2>1, <2>2 DEF HasRow
    <2>3. CASE r[2] = id
      <3>1. r[1] # ref[1]
        BY <1>5, <1>7, <2>1, <2>3
      <3>2. rows[id].tenant = ref[1]
        BY <1>1, <1>7, <2>3, OwnRow
      <3> QED
        BY <1>6, <2>3, <3>1, <3>2 DEF HasRow
    <2> QED
      BY <2>2, <2>3
  <1>8. Apart(c)
    BY <1>1, <1>5, <1>6, <1>7 DEF Apart, Loaded, BaseInv, TypeOK
  <1>9. ledger'[ref] = "none"
    BY <1>1, <1>5 DEF BaseInv, TypeOK
  <1>10. Following(c) = "record"
    BY <1>1 DEF Following, After
  <1>11. Knows(calls[c])'
    <2>1. call.input.kind = "create" => KnowsCreate(calls[c])'
      BY <1>3, <1>4, <1>9, <1>10 DEF KnowsCreate
    <2>2. call.input.kind # "create" => KnowsOther(calls[c])'
      BY <1>3, <1>4, <1>6, <1>9, <1>10 DEF KnowsOther, Keeps
    <2> QED
      BY <1>3, <2>1, <2>2 DEF Knows
  <1>12. ASSUME NEW r \in Refs, r = ref PROVE Good(r)'
    BY <1>9, <1>12 DEF Good
  <1> QED
    BY <1>1, <1>3, <1>8, <1>11, <1>12 DEF Advances

LEMMA RenameKnows ==
  ASSUME BaseInv, KnowledgeInv, NEW c \in CallIds, Rename(c), ~overtaken'
  PROVE  Advances(c)
  <1> DEFINE call == calls[c]
             new == calls'[c]
             ref == RefOf(call)
             id == call.input.id
             entry == IF call.key = NoFile THEN NoEntry
                      ELSE [secret |-> call.input.secret, key |-> call.key]
  <1>1. /\ Pc(call) = "rename" /\ call # NoCall /\ UNCHANGED <<rows, rules, ledger>>
        /\ GoesTo(c, Following(c)) /\ new.seen = call.seen
    BY RenameStep, AtStep DEF Rename, GoesTo
  <1>2. /\ OthersStay(c) /\ Pc(new) = Following(c) /\ new.input = call.input
        /\ new.failing = call.failing /\ RefOf(new) = ref /\ RuleOf(new) = RuleOf(call)
    BY <1>1, Afterwards
  <1>3. /\ call \in Call /\ Shape(call) /\ call.input \in Inputs /\ call.failing \in BOOLEAN
        /\ call.failing => call.input.kind = "create"
        /\ \/ call.input.kind \in {"replace", "delete"}
           \/ call.input.kind = "create" /\ call.input.adapter = "local"
        /\ call.key \in CallIds \cup {NoFile}
    <2>1. /\ call \in Call /\ Shape(call) /\ call.input \in Inputs /\ call.failing \in BOOLEAN
          /\ Pc(call) \in Places(call.input, call.failing)
          /\ call.failing => call.input.kind = "create"
      BY <1>1, Before
    <2> QED
      BY <1>1, <2>1, PlaceFacts, CallType
  <1>4. Settled(call)
    BY <1>1, <1>3 DEF Settled
  <1>5. /\ ~overtaken /\ ref \in Refs
        /\ Loaded(secrets)' = [Loaded(secrets) EXCEPT ![ref] = entry]
        /\ Loaded(secrets) \in Entries /\ Loaded(secrets)' \in Entries
    BY <1>4, RenameSaves
  <1>6. entry = NoEntry <=> call.key = NoFile
    <2>1. call.key # NoFile => entry \in Entry
      BY <1>3, InputType DEF Entry
    <2> QED
      BY <2>1, CoreModeAssumption
  <1> HIDE DEF entry
  <1>7. /\ Loaded(secrets)'[ref] # NoEntry <=> call.key # NoFile
        /\ \A r \in Refs : r # ref => Loaded(secrets)'[r] = Loaded(secrets)[r]
    BY <1>5, <1>6 DEF Entries
  <1>8. Apart(c)
    BY <1>1, <1>7 DEF Apart, HasRow
  <1>9. /\ call.failing \/ call.input.kind = "delete" => call.key = NoFile
        /\ ~(call.failing \/ call.input.kind = "delete") => call.key # NoFile
    BY <1>1, <1>3 DEF Shape
  <1>10. Following(c) = IF call.input.kind = "delete" THEN "readRules"
                        ELSE IF call.input.kind = "create" /\ ~call.failing THEN "insert"
                        ELSE "end"
    BY <1>1 DEF Following, After
  <1>11. ASSUME id \notin contended PROVE Knows(call) /\ \A r \in Refs : r = ref => Good(r)
    BY <1>1, <1>5, <1>11, Before
  <1>12. ASSUME id \notin contended PROVE Knows(calls[c])'
    <2>1. ASSUME call.input.kind = "create" PROVE KnowsCreate(calls[c])'
      <3>1. ledger[ref] = "none"
        BY <1>1, <1>4, <1>11, <1>12, <2>1 DEF Knows, KnowsCreate
      <3> QED
        BY <1>1, <1>2, <1>3, <1>7, <1>9, <1>10, <2>1, <3>1 DEF KnowsCreate, Held
    <2>2. ASSUME call.input.kind # "create" PROVE KnowsOther(calls[c])'
      <3>1. KnowsOther(call)
        BY <1>4, <1>11, <1>12, <2>2 DEF Knows
      <3>2. /\ call.input.kind = "replace" => rows[id] = call.seen
            /\ call.input.kind = "delete" => ledger[ref] = "none" /\ rows[id] = NoRow
        BY <1>1, <3>1 DEF KnowsOther, Keeps
      <3> QED
        BY <1>1, <1>2, <1>3, <1>7, <1>9, <1>10, <2>2, <3>2 DEF KnowsOther, Keeps, Held
    <2> QED
      BY <1>2, <2>1, <2>2 DEF Knows
  <1>13. ASSUME id \notin contended, NEW r \in Refs, r = ref PROVE Good(r)'
    <2>1. Good(r) /\ Knows(call)
      BY <1>11, <1>13
    <2>2. CASE call.input.kind \in {"create", "delete"}
      <3>1. ledger[ref] = "none"
        BY <1>1, <1>4, <2>1, <2>2 DEF Knows, KnowsCreate, KnowsOther
      <3> QED
        BY <1>1, <1>13, <3>1 DEF Good
    <2>3. CASE call.input.kind = "replace"
      <3>1. rows[id] = call.seen /\ call.seen \in Row
        BY <1>3, <1>4, <2>1, <2>3, SettledStays DEF Knows, KnowsOther, Keeps, Seen
      <3>2. HasRow(ref)
        BY <2>3, <3>1, CoreModeAssumption DEF HasRow, RefOf, TenantOfCall
      <3>3. ledger[ref] # "deleted"
        BY <1>13, <2>1, <3>2 DEF Good
      <3>4. Loaded(secrets)'[ref] # NoEntry
        BY <1>3, <1>7, <1>9, <2>3
      <3> QED
        BY <1>1, <1>13, <2>1, <3>3, <3>4 DEF Good, HasRow, Held
    <2> QED
      BY <1>3, <2>2, <2>3
  <1> QED
    BY <1>2, <1>5, <1>8, <1>12, <1>13 DEF Advances

LEMMA ReplaceRulesKnows ==
  ASSUME RuleIdsDistinct, BaseInv, KnowledgeInv, NEW c \in CallIds, ReplaceRules(c), ~overtaken'
  PROVE  Advances(c)
  <1> DEFINE call == calls[c]
             new == calls'[c]
             ref == RefOf(call)
             id == call.input.id
             rule == IF Pc(call) = "allow" THEN MadeRule(call) ELSE NoRule
  <1>1. /\ ~overtaken /\ UNCHANGED <<rows, secrets, ledger>>
        /\ GoesTo(c, "end") /\ new.seen = call.seen
        /\ Settled(call) /\ MadeRule(call) \in Rule
        /\ Pc(call) \in {"allow", "disallow"}
        /\ rules' = [rules EXCEPT ![RuleOf(call)] = rule]
    BY ReplaceRulesStep DEF ReplaceRules, BaseInv, TypeOK
  <1> HIDE DEF rule
  <1>2. /\ OthersStay(c) /\ call # NoCall /\ Pc(new) = "end" /\ new.input = call.input
        /\ new.failing = call.failing /\ RefOf(new) = ref /\ RuleOf(new) = RuleOf(call)
    BY <1>1, Afterwards
  <1>3. /\ call \in Call /\ Shape(call) /\ call.input \in Inputs
        /\ ref \in Refs /\ RuleOf(call) \in RuleIds /\ RuleOf(call) = RuleIdOf[ref]
        /\ Pc(call) = "allow" => ~call.failing /\ call.input.kind \in {"create", "update"}
        /\ Pc(call) = "disallow" => call.input.kind = "delete"
    <2>1. /\ call \in Call /\ Shape(call) /\ call.input \in Inputs /\ call.failing \in BOOLEAN
          /\ Pc(call) \in Places(call.input, call.failing)
          /\ call.failing => call.input.kind = "create"
      BY <1>2, Before
    <2>2. ref \in Refs /\ RuleOf(call) \in RuleIds
      BY <1>1, <2>1, RefType
    <2> QED
      BY <2>1, <2>2, PlaceFacts DEF RuleOf
  <1>4. /\ rules'[RuleIdOf[ref]] = rule
        /\ \A r \in Refs : r # ref => rules'[RuleIdOf[r]] = rules[RuleIdOf[r]]
    <2>1. \A r \in Refs : RuleIdOf[r] \in RuleIds /\ (r # ref => RuleIdOf[r] # RuleIdOf[ref])
      BY <1>3, CoreModeAssumption DEF RuleIdsDistinct
    <2> QED
      BY <1>1, <1>3, <2>1 DEF BaseInv, TypeOK
  <1>5. Apart(c)
    BY <1>1, <1>4 DEF Apart, HasRow, Loaded
  <1>6. ASSUME id \notin contended PROVE Knows(call) /\ \A r \in Refs : r = ref => Good(r)
    BY <1>1, <1>2, <1>6, Before
  <1>7. /\ MadeRule(call) # NoRule /\ MadeRule(call).ref = ref
        /\ MadeRule(call) = [ref |-> ref, what |-> IF call.input.kind = "update"
                                                   THEN call.seen.what ELSE "created"]
    BY <1>1, CoreModeAssumption DEF MadeRule
  <1>8. CASE call.input.kind = "create"
    <2>1. rule = [ref |-> ref, what |-> "created"] /\ ~call.failing
      BY <1>1, <1>3, <1>7, <1>8 DEF rule
    <2>2. ASSUME id \notin contended
          PROVE  KnowsCreate(calls[c])' /\ ledger[ref] = "none"
      <3>1. KnowsCreate(call)
        BY <1>1, <1>6, <1>8, <2>2 DEF Knows
      <3>2. /\ ledger[ref] = "none" /\ rows[id] = Made(call.input)
            /\ call.input.adapter = "local" => Held(ref)
        BY <1>1, <1>3, <1>8, <2>1, <3>1 DEF KnowsCreate
      <3> QED
        BY <1>1, <1>2, <1>3, <1>4, <2>1, <3>2 DEF KnowsCreate, Held, Loaded
    <2>3. id \notin contended => Knows(calls[c])'
      BY <1>2, <1>8, <2>2 DEF Knows
    <2>4. ASSUME id \notin contended, NEW r \in Refs, r = ref PROVE Good(r)'
      BY <1>1, <2>2, <2>4 DEF Good
    <2> QED
      BY <1>1, <1>2, <1>5, <2>3, <2>4 DEF Advances
  <1>9. CASE call.input.kind = "update"
    <2>1. rule = MadeRule(call) /\ rule = [ref |-> ref, what |-> call.seen.what] /\ rule # NoRule
      BY <1>1, <1>3, <1>7, <1>9 DEF rule
    <2>2. ASSUME id \notin contended
          PROVE  rows[id] = call.seen /\ rows[id] # NoRow /\ rows[id].tenant = ref[1] /\ ref[2] = id
      <3>1. rows[id] = call.seen
        BY <1>1, <1>6, <1>9, <2>2 DEF Knows, KnowsOther, Keeps
      <3>2. call.seen \in Row
        BY <1>1, <1>3, <1>9, SettledStays DEF Seen
      <3> QED
        BY <1>9, <3>1, <3>2, CoreModeAssumption DEF RefOf, TenantOfCall
    <2>3. ASSUME id \notin contended PROVE Knows(calls[c])'
      <3>1. KnowsOther(calls[c])'
        BY <1>1, <1>2, <1>3, <1>4, <1>9, <2>1, <2>2, <2>3 DEF KnowsOther
      <3> QED
        BY <1>2, <1>9, <3>1 DEF Knows
    <2>4. ASSUME id \notin contended, NEW r \in Refs, r = ref PROVE Good(r)'
      <3>1. Good(r) /\ HasRow(r)
        BY <1>6, <2>2, <2>4 DEF HasRow
      <3>2. rules'[RuleIdOf[r]] = rule /\ rule.ref = r /\ rule.what = rows[r[2]].what
        BY <1>4, <2>1, <2>2, <2>4
      <3>3. UNCHANGED <<rows, secrets, ledger>>
        BY <1>1
      <3> QED
        BY <2>1, <3>1, <3>2, <3>3 DEF Good, HasRow, Held, Loaded
    <2> QED
      BY <1>1, <1>2, <1>5, <2>3, <2>4 DEF Advances
  <1>10. CASE call.input.kind = "delete"
    <2>1. rule = NoRule /\ Pc(call) = "disallow"
      BY <1>1, <1>3, <1>10 DEF rule
    <2>2. ASSUME id \notin contended
          PROVE  KnowsOther(calls[c])' /\ ledger[ref] = "none"
      <3>1. KnowsOther(call)
        BY <1>1, <1>6, <1>10, <2>2 DEF Knows
      <3>2. ledger[ref] = "none" /\ rows[id] = NoRow /\ ~Held(ref)
        BY <1>10, <2>1, <3>1 DEF KnowsOther
      <3> QED
        BY <1>1, <1>2, <1>3, <1>4, <1>10, <2>1, <3>2 DEF KnowsOther, Keeps, Held, Loaded
    <2>3. id \notin contended => Knows(calls[c])'
      BY <1>2, <1>10, <2>2 DEF Knows
    <2>4. ASSUME id \notin contended, NEW r \in Refs, r = ref PROVE Good(r)'
      BY <1>1, <2>2, <2>4 DEF Good
    <2> QED
      BY <1>1, <1>2, <1>5, <2>3, <2>4 DEF Advances
  <1> QED
    BY <1>1, <1>3, <1>8, <1>9, <1>10

\* A creation that fails: it goes on with a catch block, or ends.
LEMMA GivingUpKnows ==
  ASSUME BaseInv, KnowledgeInv, NEW c \in CallIds, GivesUp(c), ~overtaken,
         UNCHANGED <<rows, rules, ledger, secrets>>
  PROVE  Advances(c)
  <1> DEFINE call == calls[c]
             new == calls'[c]
             ref == RefOf(call)
  <1>1. call # NoCall /\ OthersStay(c)
    BY DEF GivesUp
  <1> SUFFICES ASSUME call.input.id \notin contended, new # NoCall
               PROVE  Knows(calls[c])'
    BY <1>1, Quiet
  <1>2. /\ new.input = call.input /\ new.failing /\ call.input.kind = "create"
        /\ call.failing \/ Pc(call) \in {"insert", "record", "readRules", "allow"}
        /\ \/ Pc(new) = "loadToDelete"
           \/ Pc(new) = "readRow" /\ ~call.failing /\ Pc(call) \in {"readRules", "allow"}
    BY DEF GivesUp
  <1>3. RefOf(new) = ref
    BY <1>2 DEF RefOf, TenantOfCall
  <1>4. KnowsCreate(call)
    BY <1>1, <1>2, Before DEF Knows, Settled
  <1>5. Pc(call) # "vacant"
    BY <1>1, <1>2, Before, PlaceFacts
  <1>6. ledger[ref] = "none"
    BY <1>4, <1>5 DEF KnowsCreate
  <1>7. Pc(new) \in {"readRow", "remove"} => rows[call.input.id] = Made(call.input)
    BY <1>2, <1>4 DEF KnowsCreate
  <1>8. KnowsCreate(calls[c])'
    BY <1>2, <1>3, <1>6, <1>7 DEF KnowsCreate, Made
  <1> QED
    BY <1>2, <1>8 DEF Knows

LEMMA EndKnows ==
  ASSUME BaseInv, KnowledgeInv, NEW c \in CallIds, End(c), ~overtaken'
  PROVE  Advances(c)
  <1> DEFINE call == calls[c]
             ref == RefOf(call)
             id == call.input.id
  <1>1. /\ call # NoCall /\ OthersStay(c) /\ Pc(call) = "end" /\ Settled(call)
        /\ UNCHANGED <<rows, rules, secrets, overtaken>>
        /\ \/ call.failing /\ GivesUp(c) /\ UNCHANGED ledger
           \/ ~call.failing /\ calls'[c] = NoCall
    BY EndStep DEF End
  <1>2. CASE call.failing
    BY <1>1, <1>2, GivingUpKnows
  <1>3. CASE ~call.failing
    <2>1. calls'[c] = NoCall
      BY <1>1, <1>3
    <2>2. call \in Call /\ Shape(call) /\ call.input \in Inputs /\ ref \in Refs /\ ref[2] = id
      BY <1>1, Before
    <2>3. /\ call.input.kind = "create" => Told(ref, "complete")
          /\ call.input.kind = "update" /\ ledger[ref] = "stale" => Told(ref, "complete")
          /\ call.input.kind = "delete" => Told(ref, "deleted")
          /\ \/ call.input.kind \in {"replace", "catalogUpdate", "catalogDelete"}
             \/ call.input.kind = "update" /\ ledger[ref] # "stale"
             => UNCHANGED ledger
      BY <1>3, <2>2, InputType DEF End
    <2>4. \A r \in Refs : r # ref => ledger'[r] = ledger[r]
      BY <2>2, <2>3, InputType DEF Told, BaseInv, TypeOK
    <2>5. Apart(c)
      BY <1>1, <2>4 DEF Apart, HasRow, Loaded
    <2>6. ASSUME id \notin contended, NEW r \in Refs, r = ref PROVE Good(r)'
      <3>1. Good(r) /\ Knows(call)
        BY <1>1, <2>6, Before
      <3>2. UNCHANGED <<rows, rules, secrets>> /\ RuleOf(call) = RuleIdOf[r] /\ r[2] = id
        BY <1>1, <2>2, <2>6 DEF RuleOf
      <3>3. CASE call.input.kind = "create"
        <4>1. /\ rows[id] = Made(call.input)
              /\ call.input.adapter = "local" => Held(ref)
              /\ rules[RuleIdOf[r]] = [ref |-> r, what |-> "created"]
          BY <1>1, <1>3, <2>6, <3>1, <3>2, <3>3 DEF Knows, KnowsCreate
        <4>2. Made(call.input) \in Row /\ [ref |-> r, what |-> "created"] \in Rule
          BY <2>2, InputType DEF Made, Row, Rule
        <4>3. r[1] = call.input.tenant /\ HasRow(r)
          BY <2>6, <3>2, <3>3, <4>1, <4>2, CoreModeAssumption
             DEF RefOf, TenantOfCall, HasRow, Made
        <4>4. ledger'[r] = "complete"
          BY <2>2, <2>3, <2>6, <3>3 DEF Told, BaseInv, TypeOK
        <4>5. /\ rows[r[2]].adapter = "local" => Held(r)
              /\ rules[RuleIdOf[r]] # NoRule /\ rules[RuleIdOf[r]].ref = r
              /\ rules[RuleIdOf[r]].what = rows[r[2]].what
          BY <2>6, <3>2, <4>1, <4>2, CoreModeAssumption DEF Made
        <4> QED
          BY <3>2, <4>3, <4>4, <4>5 DEF Good, HasRow, Held, Loaded
      <3>4. CASE call.input.kind = "update" /\ ledger[ref] = "stale"
        <4>1. /\ rows[id] = call.seen
              /\ rules[RuleIdOf[r]] = [ref |-> r, what |-> call.seen.what]
          BY <1>1, <2>6, <3>1, <3>2, <3>4 DEF Knows, KnowsOther, Keeps
        <4>2. ledger'[r] = "complete"
          BY <2>2, <2>3, <2>6, <3>4 DEF Told, BaseInv, TypeOK
        <4>3. rules[RuleIdOf[r]].what = rows[r[2]].what
          BY <3>2, <4>1
        <4> QED
          BY <2>6, <3>1, <3>2, <3>4, <4>2, <4>3 DEF Good, HasRow, Held, Loaded
      <3>5. CASE call.input.kind = "delete"
        <4>1. rows[id] = NoRow /\ ~Held(r) /\ rules[RuleIdOf[r]] = NoRule
          BY <1>1, <2>6, <3>1, <3>2, <3>5 DEF Knows, KnowsOther
        <4>2. ledger'[r] = "deleted"
          BY <2>2, <2>3, <2>6, <3>5 DEF Told, BaseInv, TypeOK
        <4> QED
          BY <3>2, <4>1, <4>2 DEF Good, HasRow, Held, Loaded
      <3>6. CASE UNCHANGED ledger
        BY <3>1, <3>2, <3>6 DEF Good, HasRow, Held, Loaded
      <3> QED
        BY <2>2, <2>3, <3>3, <3>4, <3>5, <3>6, InputType
    <2> QED
      BY <1>1, <2>1, <2>5, <2>6 DEF Advances
  <1> QED
    BY <1>1, <1>2, <1>3

LEMMA StepAdvances ==
  ASSUME RuleIdsDistinct, CreatesStayHome, BaseInv, KnowledgeInv,
         NEW c \in CallIds, Step(c), ~overtaken'
  PROVE  Advances(c)
  <1>1. CASE Vacant(c) \/ Find(c) \/ ReadRow(c) \/ Insert(c) \/ Update(c) \/ Remove(c)
    BY <1>1, VacantKnows, FindKnows, ReadRowKnows, InsertKnows, UpdateKnows, RemoveKnows
  <1>2. CASE Record(c)
    <2>1. Pc(calls[c]) = "record" /\ UNCHANGED <<rows, rules, ledger, secrets, overtaken>>
      BY <1>2, AtStep DEF Record
    <2> QED
      BY <1>2, <2>1, RecordStep, QuietGoes DEF QuietSteps
  <1>3. CASE Load(c)
    <2>1. UNCHANGED <<rows, rules, ledger, secrets, overtaken>>
      BY <1>3 DEF Load
    <2>2. Pc(calls[c]) \in QuietSteps /\ calls'[c].seen = calls[c].seen
      BY <1>3, LoadStep DEF QuietSteps
    <2>3. CASE GoesTo(c, Following(c))
      BY <2>1, <2>2, <2>3, QuietGoes
    <2>4. CASE /\ Pc(calls[c]) = "loadToDelete" /\ ~Held(RefOf(calls[c]))
               /\ GoesTo(c, After(calls[c].input, calls[c].failing, "rename"))
      BY <2>1, <2>2, <2>4, QuietGoes
    <2> QED
      BY <1>3, <2>3, <2>4, LoadStep
  <1>4. CASE ReadKey(c)
    <2>1. UNCHANGED <<rows, rules, ledger, secrets, overtaken>>
      BY <1>4 DEF ReadKey
    <2>2. Pc(calls[c]) = "key" /\ calls'[c].seen = calls[c].seen
      BY <1>4, ReadKeyStep
    <2>3. Following(c) = "open"
      BY <2>2 DEF Following, After
    <2>4. GoesTo(c, "open") \/ GoesTo(c, "openKey")
      BY <1>4, ReadKeyStep
    <2> QED
      BY <2>1, <2>2, <2>3, <2>4, QuietGoes DEF QuietSteps
  <1>5. CASE OpenKey(c) \/ WriteKey(c)
    <2>1. UNCHANGED <<rows, rules, ledger, secrets>> /\ ~overtaken
      BY <1>5 DEF OpenKey, WriteKey, BaseInv, TypeOK
    <2>2. /\ calls'[c].seen = calls[c].seen
          /\ \/ Pc(calls[c]) = "openKey" /\ GoesTo(c, "writeKey")
             \/ Pc(calls[c]) = "writeKey" /\ GoesTo(c, "open")
      BY <1>5, OpenKeyStep, WriteKeyStep
    <2>3. GoesTo(c, Following(c))
      BY <2>2 DEF Following, After
    <2> QED
      BY <2>1, <2>2, <2>3, QuietGoes DEF QuietSteps
  <1>6. CASE Open(c)
    <2>1. UNCHANGED <<rows, rules, ledger, secrets, overtaken>>
      BY <1>6 DEF Open
    <2> QED
      BY <1>6, <2>1, OpenStep, QuietGoes DEF QuietSteps
  <1>7. CASE Write(c)
    <2>1. UNCHANGED <<rows, rules, ledger>>
      BY <1>7 DEF Write
    <2>2. ~overtaken /\ secrets' = secrets
      BY <1>7, WriteStep
    <2> QED
      BY <1>7, <2>1, <2>2, WriteStep, QuietGoes DEF QuietSteps
  <1>8. CASE Rename(c) \/ ReplaceRules(c) \/ End(c)
    BY <1>8, RenameKnows, ReplaceRulesKnows, EndKnows
  <1>9. CASE ReadRules(c)
    <2>1. UNCHANGED <<rows, rules, ledger, secrets, overtaken>>
      BY <1>9 DEF ReadRules
    <2> QED
      BY <1>9, <2>1, ReadRulesStep, QuietGoes DEF QuietSteps
  <1>10. CASE Throw(c)
    <2>1. UNCHANGED <<rows, rules, ledger, secrets, overtaken>>
      BY <1>10 DEF Throw
    <2> QED
      BY <1>10, <2>1, ThrowStep, GivingUpKnows
  <1> QED
    BY <1>1, <1>2, <1>3, <1>4, <1>5, <1>6, <1>7, <1>8, <1>9, <1>10 DEF Step

\* No step changes what a call is about.
LEMMA InputStays ==
  ASSUME BaseInv, NEW c \in CallIds, Step(c), calls'[c] # NoCall
  PROVE  calls'[c].input = calls[c].input
  <1>1. CASE Vacant(c) \/ Find(c) \/ ReadRow(c) \/ Insert(c) \/ Update(c) \/ Remove(c) \/ Record(c)
    BY <1>1, VacantStep, FindStep, ReadRowStep, InsertStep, UpdateStep, RemoveStep, RecordStep
       DEF GoesTo, SameCall
  <1>2. CASE \/ Load(c) \/ ReadKey(c) \/ OpenKey(c) \/ WriteKey(c) \/ Open(c) \/ Write(c)
             \/ Rename(c)
    BY <1>2, LoadStep, ReadKeyStep, OpenKeyStep, WriteKeyStep, OpenStep, WriteStep, RenameStep
       DEF GoesTo, SameCall
  <1>3. CASE ReadRules(c) \/ ReplaceRules(c) \/ Throw(c) \/ End(c)
    BY <1>3, ReadRulesStep, ReplaceRulesStep, ThrowStep, EndStep DEF GoesTo, SameCall, GivesUp
  <1> QED
    BY <1>1, <1>2, <1>3 DEF Step

LEMMA KnowledgeNext ==
  ASSUME RuleIdsDistinct, CreatesStayHome, BaseInv, KnowledgeInv, [Next]_vars
  PROVE  KnowledgeInv'
  <1> DEFINE Stores == <<rows, rules, secrets, ledger, overtaken>>
  <1>1. ASSUME NEW c \in CallIds, Step(c) PROVE KnowledgeInv'
    BY <1>1, StepFrame, InputStays, StepAdvances, Advanced
  <1>2. ASSUME UNCHANGED Stores, NEW d \in CallIds, calls'[d] = calls[d], Knows(calls[d])
        PROVE  Knows(calls[d])'
    BY <1>2 DEF Knows, KnowsCreate, KnowsOther, Held, Loaded
  <1>3. ASSUME UNCHANGED Stores, NEW ref \in Refs, Good(ref) PROVE Good(ref)'
    BY <1>3 DEF Good, HasRow, Held, Loaded
  <1>4. ASSUME UNCHANGED Stores, UNCHANGED contended,
               \A d \in CallIds : calls'[d] = calls[d] \/ calls'[d] = NoCall
        PROVE  KnowledgeInv'
    <2>1. ASSUME ~overtaken', NEW d \in CallIds, calls'[d] # NoCall,
                 calls'[d].input.id \notin contended'
          PROVE  Knows(calls[d])'
      <3>1. calls'[d] = calls[d]
        BY <1>4, <2>1
      <3>2. Knows(calls[d])
        BY <1>4, <2>1, <3>1 DEF KnowledgeInv
      <3> QED
        BY <1>2, <1>4, <3>1, <3>2
    <2>2. ASSUME ~overtaken', NEW ref \in Refs, ref[2] \notin contended' PROVE Good(ref)'
      <3>1. Good(ref)
        BY <1>4, <2>2 DEF KnowledgeInv
      <3> QED
        BY <1>3, <1>4, <3>1
    <2> QED
      BY <2>1, <2>2 DEF KnowledgeInv
  <1>5. ASSUME NEW c \in CallIds, NEW input \in Inputs, Begin(c, input) PROVE KnowledgeInv'
    <2>1. /\ UNCHANGED Stores /\ contended \subseteq contended'
          /\ calls'[c].input = input /\ ~calls'[c].failing /\ Pc(calls'[c]) = First(input)
          /\ \A d \in CallIds \ {c} : calls'[d] = calls[d]
      BY <1>5, BeginStep DEF Begin, Goes, BaseInv, TypeOK
    <2>2. Knows(calls[c])'
      <3>1. CASE input.kind = "create"
        BY <2>1, <3>1 DEF Knows, KnowsCreate, First
      <3>2. CASE input.kind # "create"
        <4>1. ~Settled(calls'[c])
          BY <2>1, <3>2, InputType DEF Settled, First
        <4> QED
          BY <4>1 DEF Knows
      <3> QED
        BY <3>1, <3>2
    <2>3. ASSUME ~overtaken', NEW d \in CallIds, calls'[d] # NoCall,
                 calls'[d].input.id \notin contended', d # c
          PROVE  Knows(calls[d])'
      <3>1. calls'[d] = calls[d]
        BY <2>1, <2>3
      <3>2. Knows(calls[d])
        BY <2>1, <2>3, <3>1 DEF KnowledgeInv
      <3> QED
        BY <1>2, <2>1, <3>1, <3>2
    <2>4. ASSUME ~overtaken', NEW ref \in Refs, ref[2] \notin contended' PROVE Good(ref)'
      <3>1. Good(ref)
        BY <2>1, <2>4 DEF KnowledgeInv
      <3> QED
        BY <1>3, <2>1, <3>1
    <2> QED
      BY <2>2, <2>3, <2>4 DEF KnowledgeInv
  <1>6. ASSUME NEW id \in Ids, Reconcile(id) PROVE KnowledgeInv'
    <2> DEFINE mine == <<DefaultTenant, id>>
               rule == [ref |-> mine, what |-> rows[id].what]
    <2>1. /\ UNCHANGED <<rows, secrets, ledger, overtaken, calls, contended>>
          /\ rules' = [rules EXCEPT ![RuleIdOf[mine]] = rule]
          /\ \A d \in CallIds : calls[d] = NoCall
      BY <1>6 DEF Reconcile, BaseInv, ServerInv
    <2>2. /\ mine \in Refs /\ RuleIdOf[mine] \in RuleIds
          /\ rows[id] \in Row /\ rows[id].tenant = DefaultTenant
      BY <1>6, ReconcileStep
    <2>3. rule \in Rule /\ HasRow(mine)
      BY <2>2, CoreModeAssumption DEF Rule, Row, HasRow
    <2>4. /\ rule # NoRule /\ rule.ref = mine /\ rule.what = rows[id].what
      BY <2>3, CoreModeAssumption
    <2> HIDE DEF rule
    <2>5. ASSUME NEW ref \in Refs, Good(ref) PROVE Good(ref)'
      <3>1. CASE ref = mine
        <4>1. rules'[RuleIdOf[ref]] = rule
          BY <2>1, <2>2, <3>1 DEF BaseInv, TypeOK
        <4> QED
          BY <2>1, <2>3, <2>4, <2>5, <3>1, <4>1 DEF Good, HasRow, Held, Loaded
      <3>2. CASE ref # mine
        <4>1. rules'[RuleIdOf[ref]] = rules[RuleIdOf[ref]]
          BY <2>1, <2>2, <3>2, CoreModeAssumption DEF RuleIdsDistinct, BaseInv, TypeOK
        <4> QED
          BY <2>1, <2>5, <4>1 DEF Good, HasRow, Held, Loaded
      <3> QED
        BY <3>1, <3>2
    <2> QED
      BY <2>1, <2>5 DEF KnowledgeInv
  <1>7. CASE UNCHANGED vars
    BY <1>4, <1>7 DEF vars
  <1>8. CASE Crash \/ Restart \/ Serve
    BY <1>4, <1>8 DEF Crash, Restart, Serve
  <1> QED
    BY <1>1, <1>5, <1>6, <1>7, <1>8 DEF Next

LEMMA KnowledgeAlways ==
  ASSUME RuleIdsDistinct, CreatesStayHome
  PROVE  Spec => []KnowledgeInv
  <1>1. Init => KnowledgeInv
    BY DEF Init, KnowledgeInv, Good
  <1>2. BaseInv /\ KnowledgeInv /\ [Next]_vars => KnowledgeInv'
    BY KnowledgeNext
  <1> QED
    BY <1>1, <1>2, BaseAlways, PTL DEF Spec

-----------------------------------------------------------------------------
(* What callers are told, and what tenants have *)

\* A secret that is there can be read: its key is the one in the key file.
LEMMA HeldIsReadable ==
  ASSUME FileInv, ~overtaken, NEW ref \in Refs
  PROVE  Readable(ref) <=> Held(ref)
  BY CoreModeAssumption DEF FileInv, Readable, Held

\* As long as no writer replaces a file or the rules over a state it has not
\* read, what the caller of a creation or deletion was told is so of the row,
\* the secret and the rule together, whatever fails or crashes in between
\* (createCredential, updateCredentialContext, deleteCredential).
THEOREM CallersAreToldTheTruth ==
  ASSUME RuleIdsDistinct, CreatesStayHome
  PROVE  Spec => []AcknowledgedCallsAreComplete
  <1>1. FileInv /\ KnowledgeInv => AcknowledgedCallsAreComplete
    <2> SUFFICES ASSUME FileInv, KnowledgeInv, ~overtaken, NEW ref \in Refs,
                        ref[2] \notin contended
                 PROVE  /\ ledger[ref] \in {"complete", "stale"} =>
                             /\ HasRow(ref)
                             /\ rows[ref[2]].adapter = "local" => Readable(ref)
                             /\ rules[RuleIdOf[ref]] # NoRule
                             /\ rules[RuleIdOf[ref]].ref = ref
                             /\ ledger[ref] = "complete" =>
                                  rules[RuleIdOf[ref]].what = rows[ref[2]].what
                        /\ ledger[ref] = "deleted" =>
                             /\ ~HasRow(ref)
                             /\ ~Readable(ref)
                             /\ rules[RuleIdOf[ref]] = NoRule
      BY DEF AcknowledgedCallsAreComplete
    <2>1. Good(ref)
      BY DEF KnowledgeInv
    <2>2. Readable(ref) <=> Held(ref)
      BY HeldIsReadable
    <2> QED
      BY <2>1, <2>2 DEF Good
  <1> QED
    BY <1>1, FileAlways, KnowledgeAlways, PTL

\* A call that has not read its row yet only reads, or throws.
LEMMA UnsettledReads ==
  ASSUME BaseInv, NEW c \in CallIds, Step(c), ~Settled(calls[c])
  PROVE  UNCHANGED <<rows, rules, secrets, keyFile>>
  <1>1. calls[c] # NoCall /\ Pc(calls[c]) \in {"find", "readRow"}
    BY StepFrame, Before, InputType DEF Settled
  <1>2. Find(c) \/ ReadRow(c) \/ Throw(c)
    <2>1. \A step : At(c, step) => step \in {"find", "readRow"}
      BY <1>1, AtStep
    <2>2. ~(Vacant(c) \/ Insert(c) \/ Update(c) \/ Remove(c) \/ Record(c))
      <3>1. /\ ~At(c, "vacant") /\ ~At(c, "insert") /\ ~At(c, "update")
            /\ ~At(c, "remove") /\ ~At(c, "record")
        BY <2>1
      <3> QED
        BY <3>1 DEF Vacant, Insert, Update, Remove, Record
    <2>3. ~Load(c)
      <3>1. ~At(c, "loadToPut") /\ ~At(c, "loadToDelete")
        BY <2>1
      <3> QED
        BY <3>1 DEF Load
    <2>4. ~(ReadKey(c) \/ OpenKey(c) \/ WriteKey(c) \/ Open(c) \/ Write(c) \/ Rename(c))
      BY <2>1 DEF ReadKey, OpenKey, WriteKey, Open, Write, Rename
    <2>5. ~(ReadRules(c) \/ ReplaceRules(c))
      BY <2>1 DEF ReadRules, ReplaceRules
    <2>6. ~End(c)
      BY <1>1, EndStep
    <2> QED
      BY <2>2, <2>3, <2>4, <2>5, <2>6 DEF Step
  <1> QED
    BY <1>2 DEF Find, ReadRow, Throw

\* The credential a call is about is of a tenant that its caller may act for.
LEMMA OwnTenant ==
  ASSUME CreatesStayHome, BaseInv, NEW c \in CallIds, calls[c] # NoCall, Settled(calls[c])
  PROVE  TenantAllowed(calls[c].input.by, RefOf(calls[c])[1])
  <1>1. calls[c] \in Call /\ Shape(calls[c]) /\ calls[c].input \in Inputs
    BY Before
  <1> QED
    BY <1>1, RefType DEF CreatesStayHome

LEMMA HoldingsStay ==
  ASSUME RuleIdsDistinct, CreatesStayHome, BaseInv, FileInv, KnowledgeInv, FileInv',
         NEW c \in CallIds, Step(c), ~overtaken', NEW ref \in Refs, ref[2] \notin contended,
         ~TenantAllowed(calls[c].input.by, ref[1])
  PROVE  Holdings(ref)' = Holdings(ref)
  <1>1. calls[c] # NoCall
    BY StepFrame
  <1>2. CASE Settled(calls[c])
    <2>1. ref # RefOf(calls[c])
      BY <1>1, <1>2, OwnTenant
    <2>2. ~overtaken /\ Apart(c)
      BY StepAdvances DEF Advances
    <2>3. /\ Loaded(secrets)'[ref] = Loaded(secrets)[ref]
          /\ rules'[RuleIdOf[ref]] = rules[RuleIdOf[ref]]
          /\ HasRow(ref)' <=> HasRow(ref)
          /\ HasRow(ref) => rows'[ref[2]] = rows[ref[2]]
      BY <2>1, <2>2 DEF Apart
    <2>4. RowOf(ref)' = RowOf(ref)
      BY <2>3 DEF RowOf
    <2>5. Readable(ref) <=> Held(ref)
      BY <2>2, HeldIsReadable
    <2>6. Readable(ref)' <=> Held(ref)'
      BY CoreModeAssumption DEF FileInv, Readable, Held
    <2>7. SecretOf(ref)' = SecretOf(ref)
      BY <2>3, <2>5, <2>6 DEF SecretOf, Held
    <2> QED
      BY <2>3, <2>4, <2>7 DEF Holdings
  <1>3. CASE ~Settled(calls[c])
    BY <1>3, UnsettledReads DEF Holdings, RowOf, SecretOf, HasRow, Readable, Loaded
  <1> QED
    BY <1>2, <1>3

\* A call that moves has taken the step itself.
LEMMA MovesItself ==
  ASSUME BaseInv, [Next]_vars, NEW c \in CallIds, calls[c] # NoCall, server' # "down",
         calls'[c] = NoCall \/ calls'[c].todo # calls[c].todo
  PROVE  Step(c)
  <1>1. calls'[c] # calls[c]
    OBVIOUS
  <1>2. ASSUME NEW d \in CallIds, Step(d), d # c PROVE FALSE
    <2>1. OthersStay(d)
      <3>1. CASE Vacant(d) \/ Find(d) \/ ReadRow(d) \/ Insert(d) \/ Update(d) \/ Remove(d) \/ Record(d)
        BY <3>1, VacantStep, FindStep, ReadRowStep, InsertStep, UpdateStep, RemoveStep, RecordStep
           DEF GoesTo
      <3>2. CASE \/ Load(d) \/ ReadKey(d) \/ OpenKey(d) \/ WriteKey(d) \/ Open(d) \/ Write(d)
                 \/ Rename(d)
        BY <3>2, LoadStep, ReadKeyStep, OpenKeyStep, WriteKeyStep, OpenStep, WriteStep, RenameStep
           DEF GoesTo
      <3>3. CASE ReadRules(d) \/ ReplaceRules(d) \/ Throw(d) \/ End(d)
        BY <3>3, ReadRulesStep, ReplaceRulesStep, ThrowStep, EndStep DEF GoesTo, GivesUp
      <3> QED
        BY <1>2, <3>1, <3>2, <3>3 DEF Step
    <2>2. Alike(calls[c], calls'[c])
      BY <1>1, <1>2, <2>1 DEF OthersStay
    <2> QED
      BY <2>2, CoreModeAssumption DEF Alike
  <1>3. ASSUME NEW d \in CallIds, NEW input \in Inputs, Begin(d, input) PROVE FALSE
    BY <1>1, <1>3 DEF Begin, Goes
  <1>4. UNCHANGED calls => FALSE
    BY <1>1
  <1> QED
    BY <1>2, <1>3, <1>4 DEF Next, Crash, Restart, Serve, Reconcile, vars

\* No step of a call changes what another tenant than its caller's has: its
\* rows and what is in them, the secrets it can read and their values, and its
\* rules (CoreModeService, BrokerService).
THEOREM CallsKeepTenantsApart ==
  ASSUME RuleIdsDistinct, CreatesStayHome
  PROVE  Spec => TenantsStayApart
  <1> DEFINE Untouched ==
        ~overtaken' =>
          \A c \in CallIds, ref \in Refs :
            MovesFromOutside(c, ref) => Holdings(ref)' = Holdings(ref)
  <1>1. BaseInv /\ FileInv /\ KnowledgeInv /\ [Next]_vars => Untouched
    <2> SUFFICES ASSUME BaseInv, FileInv, KnowledgeInv, [Next]_vars, ~overtaken',
                        NEW c \in CallIds, NEW ref \in Refs, MovesFromOutside(c, ref)
                 PROVE  Holdings(ref)' = Holdings(ref)
      OBVIOUS
    <2>1. FileInv'
      BY FileNext
    <2>2. Step(c)
      BY MovesItself DEF MovesFromOutside
    <2> QED
      BY <2>1, <2>2, HoldingsStay DEF MovesFromOutside
  <1>2. TenantsStayApart <=> [][Untouched]_vars
    BY DEF TenantsStayApart
  <1> HIDE DEF Untouched
  <1> QED
    BY <1>1, <1>2, BaseAlways, FileAlways, KnowledgeAlways, PTL DEF Spec
=============================================================================
