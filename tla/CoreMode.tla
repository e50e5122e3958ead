------------------------------ MODULE CoreMode ------------------------------
(***************************************************************************)
(* The core-mode credentials of KeyLore.  CoreModeService keeps three      *)
(* stores in step with no transaction over them: the catalogue (through    *)
(* BrokerService), the policy rules, and the encrypted secrets of          *)
(* LocalSecretStore, which are one file, written whole to a temporary file *)
(* that is then renamed, and a key file made on first use.                 *)
(*                                                                         *)
(* A call is a program of steps.  A step whose guard does not hold, and    *)
(* any step whose database or disk fails, throws: the call goes on with    *)
(* the catch blocks it is in, or ends.  The process may crash at any point *)
(* and reconciles the rules when it starts again.                          *)
(***************************************************************************)
EXTENDS Naturals, FiniteSets, Sequences

CONSTANTS
  Tenants, DefaultTenant, NoTenant,
  Ids,             \* the ids of credentials, in their order
  Limit,           \* how many credentials listCredentials returns
  Callers,
  TenantOf,        \* [Callers -> Tenants \cup {NoTenant}]: context.tenantId
  Secrets,
  RuleIds,
  RuleIdOf,        \* [Refs -> RuleIds]: two references may have one rule id
  CallIds,         \* slots for calls in progress
  Inputs,          \* the calls that may arrive
  NoCall, NoRow, NoRule, NoEntry,
  NoFile, Empty, Torn  \* a file that is absent, truncated or of mixed content

Refs == Tenants \X Ids     \* local:<tenant>:<id>

Kinds == {"create", "update", "replace", "delete",           \* CoreModeService
          "catalogUpdate", "catalogDelete"}                  \* BrokerService alone

Input ==
  [kind : Kinds, by : Callers, tenant : Tenants, id : Ids,
   adapter : {"local", "env"}, owner : {"local", "team"}, secret : Secrets]

\* what: the part of the row its rule is made from.
Row == [tenant : Tenants, owner : {"local", "team"}, adapter : {"local", "env"},
        what : {"created", "updated"}]

Rule == [ref : Refs, what : {"created", "updated"}]

\* A secret is encrypted with a key, which is named for the call that made it.
Entry == [secret : Secrets, key : CallIds]

Entries == [Refs -> Entry \cup {NoEntry}]

Steps == {"vacant", "find", "readRow", "insert", "update", "remove", "record",
          "loadToPut", "loadToDelete", "key", "openKey", "writeKey", "open",
          "write", "rename", "readRules", "allow", "disallow"}

\* rescue: the catch blocks the call is in, innermost first, as programs.
Call ==
  [input : Inputs, todo : Seq(Steps), rescue : Seq(Seq(Steps)), failing : BOOLEAN,
   seen : Row \cup {NoRow},
   base : Entries \cup {NoFile},              \* the secrets as it loaded them
   seenRules : [RuleIds -> Rule \cup {NoRule}],
   key : CallIds \cup {NoFile},
   file : {"none", "tmp", "secrets", "replaced"}] \* where its open file is now

ASSUME CoreModeAssumption ==
  /\ Ids \subseteq Nat /\ IsFiniteSet(Ids) /\ Limit \in Nat
  /\ DefaultTenant \in Tenants /\ NoTenant \notin Tenants
  /\ TenantOf \in [Callers -> Tenants \cup {NoTenant}]
  /\ RuleIdOf \in [Refs -> RuleIds]
  /\ Inputs \subseteq Input
  /\ NoCall \notin Call /\ NoRow \notin Row /\ NoRule \notin Rule /\ NoEntry \notin Entry
  /\ NoFile \notin {Empty, Torn} \cup CallIds /\ Empty \notin CallIds
  /\ {NoFile, Empty, Torn} \cap Entries = {}

VARIABLES
  rows,       \* the table credentials, whose primary key is the id alone
  rules,      \* the table policy_rules
  secrets,    \* the file of the secrets
  tmp,        \* the temporary file beside it
  keyFile,
  calls,
  server,     \* "down", "starting" or "up"
  pending,    \* the credentials the reconciliation has left
  ledger,     \* history: what callers were told about each reference
  contended,  \* history: ids with two calls in progress at the same time
  overtaken   \* history: a file or the rules were replaced over a newer state

vars == <<rows, rules, secrets, tmp, keyFile, calls, server, pending, ledger,
          contended, overtaken>>

-----------------------------------------------------------------------------
(* Types *)

TypeOK ==
  /\ rows \in [Ids -> Row \cup {NoRow}]
  /\ rules \in [RuleIds -> Rule \cup {NoRule}]
  /\ secrets \in Entries \cup {NoFile, Empty, Torn}
  /\ tmp \in Entries \cup {NoFile, Empty, Torn}
  /\ keyFile \in CallIds \cup {NoFile, Empty}
  /\ DOMAIN calls = CallIds /\ \A c \in CallIds : calls[c] \in Call \cup {NoCall}
  /\ server \in {"down", "starting", "up"}
  /\ pending \subseteq Ids
  /\ ledger \in [Refs -> {"none", "complete", "stale", "deleted"}]
  /\ contended \subseteq Ids /\ overtaken \in BOOLEAN

-----------------------------------------------------------------------------
(* Programs *)

PutSteps == <<"loadToPut", "key", "open", "write", "rename">>
DeleteSteps == <<"loadToDelete", "open", "write", "rename">>
AllowSteps == <<"readRules", "allow">>
UndoSteps == <<"readRow", "remove", "record">>

Program(input) ==
  CASE input.kind = "create" /\ input.adapter = "local" ->
         <<"vacant">> \o PutSteps \o <<"insert", "record">> \o AllowSteps
    [] input.kind = "create" /\ input.adapter = "env" ->
         <<"vacant", "insert", "record">> \o AllowSteps
    [] input.kind = "update" -> <<"readRow", "update", "record">> \o AllowSteps
    [] input.kind = "replace" -> <<"find">> \o PutSteps
    [] input.kind = "delete" ->
         <<"find", "readRow", "remove", "record">> \o DeleteSteps
           \o <<"readRules", "disallow">>
    [] input.kind = "catalogUpdate" -> <<"readRow", "update", "record">>
    [] input.kind = "catalogDelete" -> <<"readRow", "remove", "record">>

\* What createCredential does, in its nested catch blocks, when a step throws.
Rescue(call) ==
  LET local == call.input.adapter = "local" IN
  IF call.input.kind # "create" THEN << >>
  ELSE CASE Head(call.todo) \in {"insert", "record"} ->
              IF local THEN <<DeleteSteps>> ELSE << >>
         [] Head(call.todo) \in {"readRules", "allow"} ->
              IF local THEN <<UndoSteps \o DeleteSteps, DeleteSteps>> ELSE <<UndoSteps>>
         [] OTHER -> << >>

-----------------------------------------------------------------------------
(* Helpers *)

NoEntries == [ref \in Refs |-> NoEntry]
NoRules == [id \in RuleIds |-> NoRule]

TenantAllowed(caller, tenant) == TenantOf[caller] \in {NoTenant, tenant}

VisibleToAll(call) == rows[call.input.id] # NoRow

Visible(call) ==
  LET row == rows[call.input.id] IN
  row # NoRow /\ TenantAllowed(call.input.by, row.tenant)

\* A creation names its tenant; the other calls work on that of the row.
TenantOfCall(call) ==
  IF call.input.kind = "create" THEN call.input.tenant ELSE call.seen.tenant

RefOf(call) == <<TenantOfCall(call), call.input.id>>

RuleOf(call) == RuleIdOf[RefOf(call)]

Loaded(base) == IF base = NoFile THEN NoEntries ELSE base

\* What a call that loaded the secrets is to save.
Saved(call) ==
  [Loaded(call.base) EXCEPT
     ![RefOf(call)] = IF call.key = NoFile THEN NoEntry
                      ELSE [secret |-> call.input.secret, key |-> call.key]]

At(c, step) ==
  /\ calls[c] # NoCall
  /\ calls[c].todo # << >>
  /\ Head(calls[c].todo) = step

Advance(call) == [call EXCEPT !.todo = Tail(@)]

Goes(c, call) == calls' = [calls EXCEPT ![c] = call]

Told(ref, what) == ledger' = [ledger EXCEPT ![ref] = what]

-----------------------------------------------------------------------------
(* Calls begin, throw and end *)

Fresh(input) ==
  [input |-> input, todo |-> Program(input), rescue |-> << >>, failing |-> FALSE,
   seen |-> NoRow, base |-> NoFile, seenRules |-> NoRules, key |-> NoFile,
   file |-> "none"]

Begin(c, input) ==
  /\ server = "up" /\ calls[c] = NoCall
  /\ Goes(c, Fresh(input))
  /\ contended' = contended \cup
       {id \in {input.id} : \E d \in CallIds : calls[d] # NoCall /\ calls[d].input.id = id}
  /\ UNCHANGED <<rows, rules, secrets, tmp, keyFile, server, pending, ledger, overtaken>>

\* The catch blocks run one after the other, whether or not they throw too.
Rescued(call) ==
  IF call.rescue = << >> THEN NoCall
  ELSE [call EXCEPT !.todo = Head(call.rescue), !.rescue = Tail(@), !.failing = TRUE,
                    !.base = NoFile, !.seenRules = NoRules, !.key = NoFile, !.file = "none"]

Throw(c) ==
  LET call == calls[c] IN
  /\ call # NoCall /\ call.todo # << >>
  /\ Goes(c, Rescued(IF call.failing THEN call
                     ELSE [call EXCEPT !.rescue = Rescue(call)]))
  /\ UNCHANGED <<rows, rules, secrets, tmp, keyFile, server, pending, ledger,
                 contended, overtaken>>

\* The caller is told that the call succeeded, or the error is thrown on.
End(c) ==
  LET call == calls[c]
      ref == RefOf(call)
  IN
  /\ call # NoCall /\ call.todo = << >>
  /\ IF call.failing
     THEN Goes(c, Rescued(call)) /\ UNCHANGED ledger
     ELSE /\ Goes(c, NoCall)
          /\ CASE call.input.kind = "create" -> Told(ref, "complete")
               [] call.input.kind = "update" /\ ledger[ref] = "stale" ->
                    Told(ref, "complete")
               [] call.input.kind = "delete" -> Told(ref, "deleted")
               [] OTHER -> UNCHANGED ledger
  /\ UNCHANGED <<rows, rules, secrets, tmp, keyFile, server, pending, contended, overtaken>>

-----------------------------------------------------------------------------
(* The catalogue *)

VacantUnchecked(c) ==
  /\ At(c, "vacant")
  /\ Goes(c, Advance(calls[c]))
  /\ ledger' = [ledger EXCEPT ![RefOf(calls[c])] = IF @ = "deleted" THEN "none" ELSE @]
  /\ UNCHANGED <<rows, rules, secrets, tmp, keyFile, server, pending, contended, overtaken>>

\* createCredential looks the id up as its caller sees the catalogue.
Vacant(c) ==
  LET call == calls[c] IN
  /\ At(c, "vacant")
  /\ ~Visible(call)
  /\ Goes(c, Advance(call))
  /\ ledger' = [ledger EXCEPT ![RefOf(call)] = IF @ = "deleted" THEN "none" ELSE @]
  /\ UNCHANGED <<rows, rules, secrets, tmp, keyFile, server, pending, contended, overtaken>>

Find(c) ==
  LET call == calls[c]
      row == rows[call.input.id]
  IN
  /\ At(c, "find")
  /\ Visible(call)
  /\ call.input.kind = "replace" => row.owner = "local"
  /\ Goes(c, [Advance(call) EXCEPT !.seen = row])
  /\ UNCHANGED <<rows, rules, secrets, tmp, keyFile, server, pending, ledger,
                 contended, overtaken>>

\* The broker reads the row for its tenant before it writes it.  An update
\* reads it twice, the broker and then the repository: one read here.
ReadRow(c) ==
  LET call == calls[c] IN
  /\ At(c, "readRow")
  /\ Visible(call)
  /\ Goes(c, [Advance(call) EXCEPT !.seen = IF call.input.kind \in {"create", "delete"}
                                          THEN @ ELSE rows[call.input.id]])
  /\ UNCHANGED <<rows, rules, secrets, tmp, keyFile, server, pending, ledger,
                 contended, overtaken>>

Insert(c) ==
  LET call == calls[c]
      input == call.input
  IN
  /\ At(c, "insert")
  /\ TenantAllowed(input.by, input.tenant)
  /\ rows[input.id] = NoRow
  /\ rows' = [rows EXCEPT ![input.id] =
                [tenant |-> input.tenant, owner |-> input.owner,
                 adapter |-> input.adapter, what |-> "created"]]
  /\ Goes(c, [Advance(call) EXCEPT !.key = NoFile])
  /\ Told(RefOf(call), "none")
  /\ UNCHANGED <<rules, secrets, tmp, keyFile, server, pending, contended, overtaken>>

\* The row read is merged with the patch; no row is written if it is gone.
Update(c) ==
  LET call == calls[c]
      written == [call.seen EXCEPT !.what = "updated"]
      ref == RefOf(call)
  IN
  /\ At(c, "update")
  /\ rows' = [id \in Ids |-> IF id # call.input.id \/ rows[id] = NoRow THEN rows[id]
                            ELSE [written EXCEPT !.tenant = rows[id].tenant]]
  /\ Goes(c, [Advance(call) EXCEPT !.seen = written])
  /\ Told(ref, IF ledger[ref] = "complete" THEN "stale" ELSE ledger[ref])
  /\ UNCHANGED <<rules, secrets, tmp, keyFile, server, pending, contended, overtaken>>

Remove(c) ==
  LET call == calls[c] IN
  /\ At(c, "remove")
  /\ rows[call.input.id] # NoRow
  /\ rows' = [rows EXCEPT ![call.input.id] = NoRow]
  /\ Goes(c, Advance(call))
  /\ Told(RefOf(call), "none")
  /\ UNCHANGED <<rules, secrets, tmp, keyFile, server, pending, contended, overtaken>>

\* The event of the catalogue; it throws when it cannot be written.
Record(c) ==
  /\ At(c, "record")
  /\ Goes(c, Advance(calls[c]))
  /\ UNCHANGED <<rows, rules, secrets, tmp, keyFile, server, pending, ledger,
                 contended, overtaken>>

-----------------------------------------------------------------------------
(* The store of the secrets *)

\* Anything but an absent or a whole file is not valid JSON, and throws.
Load(c) ==
  LET call == calls[c] IN
  /\ secrets \notin {Empty, Torn}
  /\ \/ /\ At(c, "loadToPut")
        /\ Goes(c, [Advance(call) EXCEPT !.base = secrets])
     \/ /\ At(c, "loadToDelete")
        /\ Goes(c, IF Loaded(secrets)[RefOf(call)] = NoEntry
                   THEN [call EXCEPT !.todo = SubSeq(@, Len(DeleteSteps) + 1, Len(@))]
                   ELSE [Advance(call) EXCEPT !.base = secrets])
  /\ UNCHANGED <<rows, rules, secrets, tmp, keyFile, server, pending, ledger,
                 contended, overtaken>>

\* A truncated key file yields a key of no length, and the cipher throws.
ReadKey(c) ==
  LET call == calls[c] IN
  /\ At(c, "key")
  /\ keyFile # Empty
  /\ Goes(c, IF keyFile = NoFile
             THEN [call EXCEPT !.todo = <<"openKey", "writeKey">> \o Tail(@)]
             ELSE [Advance(call) EXCEPT !.key = keyFile])
  /\ UNCHANGED <<rows, rules, secrets, tmp, keyFile, server, pending, ledger,
                 contended, overtaken>>

\* writeFile creates the file or truncates the one it finds.
OpenKey(c) ==
  /\ At(c, "openKey")
  /\ keyFile' = Empty
  /\ Goes(c, Advance(calls[c]))
  /\ overtaken' = (overtaken \/ keyFile # NoFile)
  /\ UNCHANGED <<rows, rules, secrets, tmp, server, pending, ledger, contended>>

WriteKey(c) ==
  /\ At(c, "writeKey")
  /\ keyFile' = c
  /\ Goes(c, [Advance(calls[c]) EXCEPT !.key = c])
  /\ UNCHANGED <<rows, rules, secrets, tmp, server, pending, ledger, contended, overtaken>>

Open(c) ==
  /\ At(c, "open")
  /\ tmp' = Empty
  /\ Goes(c, [Advance(calls[c]) EXCEPT !.file = "tmp"])
  /\ UNCHANGED <<rows, rules, secrets, keyFile, server, pending, ledger, contended, overtaken>>

\* Over the content of another writer the longer of the two shows through.
Written(file, new) == IF file = Empty THEN {new} ELSE {new, Torn}

\* The open file may have been renamed since, or replaced by a later rename.
Write(c) ==
  LET call == calls[c] IN
  /\ At(c, "write")
  /\ Goes(c, [Advance(call) EXCEPT !.file = "none"])
  /\ overtaken' = (overtaken \/ call.file # "tmp" \/ tmp # Empty)
  /\ CASE call.file = "tmp" -> tmp' \in Written(tmp, Saved(call)) /\ UNCHANGED secrets
       [] call.file = "secrets" ->
            secrets' \in Written(secrets, Saved(call)) /\ UNCHANGED tmp
       [] OTHER -> UNCHANGED <<secrets, tmp>>
  /\ UNCHANGED <<rows, rules, keyFile, server, pending, ledger, contended>>

Moved(call) ==
  IF call = NoCall THEN call
  ELSE [call EXCEPT !.file = CASE @ = "tmp" -> "secrets"
                               [] @ = "secrets" -> "replaced"
                               [] OTHER -> @]

Rename(c) ==
  LET call == calls[c] IN
  /\ At(c, "rename")
  /\ tmp # NoFile
  /\ secrets' = tmp
  /\ tmp' = NoFile
  /\ calls' = [d \in CallIds |->
                 IF d = c THEN [Advance(call) EXCEPT !.base = NoFile] ELSE Moved(calls[d])]
  /\ overtaken' = (overtaken \/ secrets # call.base \/ tmp # Saved(call))
  /\ UNCHANGED <<rows, rules, keyFile, server, pending, ledger, contended>>

-----------------------------------------------------------------------------
(* The rules *)

ReadRules(c) ==
  /\ At(c, "readRules")
  /\ Goes(c, [Advance(calls[c]) EXCEPT !.seenRules = rules])
  /\ UNCHANGED <<rows, rules, secrets, tmp, keyFile, server, pending, ledger,
                 contended, overtaken>>

\* replaceAll writes every rule as it was read, but for that of the credential.
ReplaceRules(c) ==
  LET call == calls[c]
      what == IF call.input.kind = "update" THEN call.seen.what ELSE "created"
  IN
  /\ \/ /\ At(c, "allow")
        /\ rules' = [call.seenRules EXCEPT
                       ![RuleOf(call)] = [ref |-> RefOf(call), what |-> what]]
     \/ /\ At(c, "disallow")
        /\ rules' = [call.seenRules EXCEPT ![RuleOf(call)] = NoRule]
  /\ Goes(c, [Advance(call) EXCEPT !.seenRules = NoRules])
  /\ overtaken' = (overtaken \/ rules # call.seenRules)
  /\ UNCHANGED <<rows, secrets, tmp, keyFile, server, pending, ledger, contended>>

-----------------------------------------------------------------------------
(* Crash and restart *)

Crash ==
  /\ server # "down"
  /\ server' = "down"
  /\ calls' = [c \in CallIds |-> NoCall]
  /\ pending' = {}
  /\ UNCHANGED <<rows, rules, secrets, tmp, keyFile, ledger, contended, overtaken>>

\* listCredentials: the first rows by id, of which the caller's are kept.
Listed(tenant) ==
  {id \in Ids :
     /\ rows[id] # NoRow
     /\ Cardinality({j \in Ids : j <= id /\ rows[j] # NoRow}) <= Limit
     /\ rows[id].tenant = tenant}

Restart ==
  /\ server = "down"
  /\ server' = "starting"
  /\ pending' = {id \in Listed(DefaultTenant) : rows[id].owner = "local"}
  /\ UNCHANGED <<rows, rules, secrets, tmp, keyFile, calls, ledger, contended, overtaken>>

ReconcileMissing(id) ==
  LET ref == <<DefaultTenant, id>> IN
  /\ server = "starting"
  /\ id \in pending
  /\ rules' = [rules EXCEPT ![RuleIdOf[ref]] =
                 IF @ # NoRule THEN @ ELSE [ref |-> ref, what |-> rows[id].what]]
  /\ pending' = pending \ {id}
  /\ UNCHANGED <<rows, secrets, tmp, keyFile, calls, server, ledger, contended, overtaken>>

\* reconcileLocalCredentialPolicies reads and replaces the rules for one
\* credential after the other; nothing else runs yet.
Reconcile(id) ==
  LET ref == <<DefaultTenant, id>> IN
  /\ server = "starting"
  /\ id \in pending
  /\ rules' = [rules EXCEPT ![RuleIdOf[ref]] = [ref |-> ref, what |-> rows[id].what]]
  /\ pending' = pending \ {id}
  /\ UNCHANGED <<rows, secrets, tmp, keyFile, calls, server, ledger, contended, overtaken>>

Serve ==
  /\ server = "starting" /\ pending = {}
  /\ server' = "up"
  /\ UNCHANGED <<rows, rules, secrets, tmp, keyFile, calls, pending, ledger,
                 contended, overtaken>>

-----------------------------------------------------------------------------
Init ==
  /\ rows = [id \in Ids |-> NoRow]
  /\ rules = NoRules
  /\ secrets = NoFile /\ tmp = NoFile /\ keyFile = NoFile
  /\ calls = [c \in CallIds |-> NoCall]
  /\ server = "down" /\ pending = {}
  /\ ledger = [ref \in Refs |-> "none"]
  /\ contended = {} /\ overtaken = FALSE

Step(c) ==
  \/ Vacant(c) \/ Find(c) \/ ReadRow(c) \/ Insert(c) \/ Update(c) \/ Remove(c) \/ Record(c)
  \/ Load(c) \/ ReadKey(c) \/ OpenKey(c) \/ WriteKey(c) \/ Open(c) \/ Write(c) \/ Rename(c)
  \/ ReadRules(c) \/ ReplaceRules(c)
  \/ Throw(c) \/ End(c)

Next ==
  \/ \E c \in CallIds, input \in Inputs : Begin(c, input)
  \/ \E c \in CallIds : Step(c)
  \/ Crash \/ Restart \/ Serve
  \/ \E id \in Ids : Reconcile(id)

Spec == Init /\ [][Next]_vars

-----------------------------------------------------------------------------
(* Properties *)

Readable(ref) ==
  /\ secrets \notin {Empty, Torn}
  /\ Loaded(secrets)[ref] # NoEntry
  /\ Loaded(secrets)[ref].key = keyFile

HasRow(ref) == rows[ref[2]] # NoRow /\ rows[ref[2]].tenant = ref[1]

\* As long as no writer replaces a file or the rules over a state it has not
\* read, a credential whose creation was acknowledged has its row, its rule
\* and, if it is a local one, a secret that can be decrypted, and one whose
\* deletion was acknowledged has left none of them, whatever fails, crashes or
\* is attempted again in between (createCredential, deleteCredential).
AcknowledgedCallsAreComplete ==
  ~overtaken =>
    \A ref \in Refs : ref[2] \notin contended =>
      /\ ledger[ref] \in {"complete", "stale"} =>
           /\ HasRow(ref)
           /\ rows[ref[2]].adapter = "local" => Readable(ref)
           /\ rules[RuleIdOf[ref]] # NoRule
           /\ rules[RuleIdOf[ref]].ref = ref
           /\ ledger[ref] = "complete" => rules[RuleIdOf[ref]].what = rows[ref[2]].what
      /\ ledger[ref] = "deleted" =>
           /\ ~HasRow(ref)
           /\ ~Readable(ref)
           /\ rules[RuleIdOf[ref]] = NoRule

\* A restarted server serves only with an up-to-date rule for each locally
\* owned credential of the default tenant that it listed, whatever was left
\* undone before (reconcileLocalCredentialPolicies).
RestartRestoresRules ==
  [][Serve => \A id \in Listed(DefaultTenant) : rows[id].owner = "local" =>
       rules[RuleIdOf[<<DefaultTenant, id>>]] =
         [ref |-> <<DefaultTenant, id>>, what |-> rows[id].what]]_vars

RowOf(ref) == IF HasRow(ref) THEN rows[ref[2]] ELSE NoRow

SecretOf(ref) == IF Readable(ref) THEN Loaded(secrets)[ref] ELSE NoEntry

Holdings(ref) == <<RowOf(ref), SecretOf(ref), rules[RuleIdOf[ref]]>>

\* A call that its caller makes from outside the tenant of the reference, and
\* that does not overlap with a call for the same id, takes a step.
MovesFromOutside(c, ref) ==
  /\ calls[c] # NoCall /\ server' # "down"
  /\ calls'[c] = NoCall \/ calls'[c].todo # calls[c].todo
  /\ ~TenantAllowed(calls[c].input.by, ref[1])
  /\ ref[2] \notin contended

\* No step of a call changes what another tenant than the caller's has: its
\* rows and what is in them, the secrets it can read and their values, and its
\* rules (docs/api.md:11, "Tenant-scoped callers only see and mutate records
\* from their own tenant").
TenantsStayApart ==
  [][~overtaken' =>
       \A c \in CallIds, ref \in Refs :
         MovesFromOutside(c, ref) => Holdings(ref)' = Holdings(ref)]_vars

\* The secret of a credential whose creation was acknowledged stays readable
\* whatever callers of other tenants ask for, creations that name its tenant
\* included (docs/api.md:11).
OthersSecretsStay ==
  [][~overtaken' =>
       \A c \in CallIds, ref \in Refs :
         /\ MovesFromOutside(c, ref)
         /\ ledger[ref] = "complete" /\ Readable(ref)
         => Readable(ref)']_vars
=============================================================================
