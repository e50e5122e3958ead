# KeyLore in TLA+

KeyLore brokers credentials for language models and tools: a caller asks to use a
credential for one outgoing call, and the server decides, asks people when policy says so,
sends the secret to the target itself, and writes an audit log. This directory holds TLA+
specifications of the parts of it in which the order of things matters, the TLC
configurations that check them on small instances, and TLAPS proofs of what matters most
for every instance.

All paths below are relative to the repository root.

## 1. Inventory

KeyLore is one Node.js process (or several of them) in front of PostgreSQL, or one process
with an embedded database that queues its statements and transactions. Inside a process
nothing runs in parallel, but every `await` lets other requests run, and several processes
may share the database. So the unit of atomicity is a database statement, or a transaction
that holds its row `FOR UPDATE`; everything between two of them is local.

| Component (source) | State | Operations | Status |
|---|---|---|---|
| Approval requests (`src/services/approval-service.ts`, `src/repositories/pg-approval-repository.ts`) | rows with status, quorum, two counters, reviews, expiry | create, review, expire, verify | `Approvals` |
| Break-glass grants (`break-glass-service.ts`, `pg-break-glass-repository.ts`) | the same, plus activation and revocation | create, review, revoke, expire, verify, record use | `BreakGlass` |
| Access broker (`broker-service.ts`, `policy-engine.ts`) | none of its own: calls in progress | request, simulate, dry-run, ask for break-glass, execute | `Broker` |
| OAuth token service (`auth-service.ts`, five `pg-*` repositories) | clients, codes, refresh tokens, access tokens, tenants | authorize, three grants under three authentication methods, bearer authentication, update, rotate, revoke, sweep | `TokenService` |
| Rotation service (`rotation-service.ts`, `pg-rotation-run-repository.ts`) | runs, and the credential they rotate | create, plan, start, complete, fail | `Rotation` |
| Credential catalogue (`pg-credential-repository.ts`, the catalogue methods of `broker-service.ts`) | credential rows | create, update (read, merge, write), delete, list | `CoreMode`; parts in `Broker`, `Rotation` |
| Core mode (`core-mode-service.ts`) | none: credentials, secrets and rules at once | create, update, replace the secret, delete, reconcile at start | `CoreMode` |
| Local secret store (`local-secret-store.ts`) | one encrypted file, its temporary copy and its key | put, get, delete | `CoreMode` |
| Policy rules (`pg-policy-repository.ts`) | the rule set, replaced as a whole | read, replace | `CoreMode`; the decision in `Broker` |
| Tenants (`tenant-service.ts`) | status | enable, disable | part in `TokenService`, `FrontEnd` |
| HTTP and MCP front ends (`http/server.ts`, `mcp/create-server.ts`, `mcp/stdio.ts`) | the requests in progress, the MCP sessions of the process | authenticate, dispatch to a route or a tool, open and close sessions | `FrontEnd` |
| Rate limiter (`rate-limit-service.ts`) | one bucket per client address | check, clean up | `Admission` |
| Client assertions (`auth-service.ts`, `pg-oauth-client-assertion-repository.ts`) | the register of used `jti`s | verify, register, clean up | `Admission` |
| Maintenance loop (`maintenance-service.ts`) | a timer and a running flag | seven sweeps in a row | `Admission`, and its sweeps in the modules whose tables they sweep |
| Backup and restore (`backup-service.ts`) | none: nearly all tables | export, restore, of everything or of one tenant | `Backup` |
| Audit log (`pg-audit-log.ts`) | events | record, query | `record`, in the modules that call it |
| Secret adapters and registry (`src/adapters`) | failure counter and circuit per adapter | resolve, inspect, health | not modelled |
| Trace export (`trace-export-service.ts`) | queue, timer, in-flight flag | enqueue, flush, stop | not modelled |
| Egress policy, notifications, sandbox runner, admin pages, CLI | none that outlives a request | | not modelled (section 9) |

### How they interact

The front ends authenticate a request through the token service and hand its context
(principal, tenant, scopes) to the services. The broker reads the catalogue and the rules,
asks the approval service and the break-glass service whether an id it was given still
authorises the request, may create a request in either, has the secret resolved by an
adapter, sends it, and records what it did in the audit log. The rotation service reads the
catalogue and the adapters and writes the catalogue. The maintenance loop calls the expiry
sweep of every table, which the services also run on their own. Every one of these calls is
a method call in one process; what they share is the database.

### What is hard about it

- *Interleaving.* Reviews, sweeps, revocations, uses, plans and edits overlap at every
  `await`, also from several processes. Some statements are guarded by the row they change
  (`UPDATE ... WHERE status = ...`, `SELECT ... FOR UPDATE`), some write back what was read
  an await earlier (client updates, credential updates, rule sets).
- *Staleness.* The broker decides on a credential it read first, rules it read next and an
  authority it checked after that, and then waits for an adapter before it uses them.
- *Partial failure.* Every operation is a sequence of statements: a failure or a crash
  between them leaves the first ones done. The audit event of a change comes in a statement
  after the change.
- *Time.* Approvals, grants, codes and tokens expire; being past the deadline and being
  marked as expired are different states, and only sweeps make the second of the first.
- *No transaction over two stores.* A core-mode credential is a row, a rule and an entry of a
  file; each is replaced in a step of its own, the file through a temporary name, and catch
  blocks undo by hand what came before a failure.
- *Two databases.* What is one step over the embedded database is several over PostgreSQL: the
  reads of an export, the statements of a restore, the check of the rate limit.

### What makes each part correct

- Approvals and grants: a quorum of *different* people, none of whom refused; a refusal or
  an end is final; tenants do not decide for each other; the log tells the truth; nothing
  stays open for ever.
- Broker: a secret leaves only on an authority that holds for that caller and that request,
  in its tenant, and not on one that had already ended; dry runs change nothing; what is
  authorised and used is on record.
- Tokens: codes and refresh tokens are single-use, tokens only narrow, the dead give
  nothing, a disabled tenant gets nothing, mutations of a client take effect. Two of these
  the code does not keep when calls race: that a refresh token is used once, and that an
  update of a client leaves no older privileges (section 6).
- Rotation: one open run per credential, a completed run was applied, closed runs stay
  closed, the log agrees with the runs.
- Front ends: an operation runs with the authority its own request brought, whatever session
  carries it; the two front ends ask for the same roles.
- Admission: the limit is a limit, an assertion is accepted once, what has expired goes.
- Core mode: what was acknowledged is complete, whatever failed before; a restart repairs the
  rules; tenants do not touch each other's holdings.
- Backup: a full backup is of one moment; a restore replaces what it is to replace; a
  tenant's restore stays in the tenant, as far as the code keeps that (section 6).

`PROJECT.json` lists the hazards one by one, at their lines, with the properties that
watch them or the reason why none does yet.

## 2. Modules

```
QuorumGrant            what a reviewed request promises (abstract)
   ^        ^          INSTANCE with a refinement mapping
Approvals  BreakGlass  the two services that keep such requests
   ^        ^          INSTANCE, sharing one clock
   +-Broker-+          the calls that use them
TokenService           OAuth clients, codes and tokens
Rotation               rotation runs and the credentials they rotate
FrontEnd               routes, tools, sessions: who calls what, with which authority
Admission              rate limit, client assertions, the maintenance loop
CoreMode               catalogue, rules and secret file behind core-mode credentials
Backup                 export and restore beside the writes of the server
Storage                which database a deployment runs on, for Admission and Backup
```

`TypeOK` is a theorem of every component, except of `Broker`, whose types are part of `CallsInv`.

`ApprovalsProofs`, `BreakGlassProofs`, `RotationProofs`, `TokenServiceProofs`, `BrokerProofs`,
`FrontEndProofs` and `CoreModeProofs` hold the theorems about the module they are named after,
`StorageProofs` those about `Admission` and `Backup`, the two that depend on the database;
`BrokerProofs` takes those about the two services it composes from their proofs modules, through
`INSTANCE`. The module `MC...` of a module gives its constants their values. Some definitions are there for one purpose:
next to a definition that translates code stands a variant of it, named for the mistake it
makes (`AcceptsRepeatedReview`, `StalePendingOnly`, `RedeemableForEver`, ...). No specification
uses them; put in the place of the definition they stand next to, each breaks a property,
which shows that the property can fail.

### Conventions

- A table is a function from the ids that may be generated to rows; a row with status
  `unused` has not been inserted. An id is never used twice.
- A handler that is suspended between two statements is a record: a member of `inFlight` in
  `Approvals` and `BreakGlass`, `calls[c]` with a program counter `pc` elsewhere. It keeps
  what the handler keeps in local variables across the await, and nothing more.
- One action is one statement with the local code up to the next await. The checks a handler
  makes on what it has read are guards or choices of that action.
- `Fail(c)` and `Crash` let any statement fail and the process stop anywhere: what was
  written stays, what the handler knew is gone.
- `clock` is what both `Date.now()` and `NOW()` return; one unit is the shortest lifetime
  that matters. `Tick` moves it between any two statements.
- Data are atoms. A request stands for all access requests with equal credential, operation,
  target, headers and payload, which is what `accessFingerprint` hashes, so a fingerprint is
  a pair of principal and request. Scopes and roles are one set of atoms.
- Fields marked *history* record what the properties talk about and no guard reads.

### Approvals (`Approvals.tla`)

`approvals` is the table `approval_requests` with both of its counters and the reviews;
`audit` its events; `inFlight` the handlers.

| Action | Code |
|---|---|
| `CreatePending` | `ApprovalService.createPending` and the insertion; its caller has checked the tenant |
| `BeginReview` | the first statement of `review`: `expireStale` |
| `AcceptReview` / `RejectReview` | the review transaction: status, tenant and duplicate checks, counters, next status |
| `RecordAudit` | `audit.record` |
| `ExpireStale` | `expireStale` from `list`, `verifyApproval` or the maintenance loop |
| `Crash`, `Tick` | the process stops; time passes |

The quorum is a configuration value that a restart may change; a row keeps the one it was
created with, so each creation picks one of `Quorums`.

### Break-glass grants (`BreakGlass.tla`)

As `Approvals`, with what is different in the code: the duration asked for is capped
(`GrantedDuration`), a quorum makes the request `active`, an active grant can be revoked
(`Revoke`, one guarded `UPDATE`), and the sweep also ends active grants.

### Access broker (`Broker.tla`)

Composes the two services, through `INSTANCE`, with the catalogue (`credentials`), the rule
set (`rules`), the calls in progress (`calls`) and the access events (`accessAudit`).

| Action | Code |
|---|---|
| `Receive` | the call arrives, `credentials.getById`, the tenant check |
| `Block`, `EvaluateRules` | `validateTarget`; `policies.read` and `PolicyEngine.evaluate` |
| `RecordDecision` | the `authz.decision` event |
| `SweepGrants`, `CheckGrant`, `NoteGrant` | `verifyActive` (sweep, then read) and `recordUse` |
| `SweepApprovals`, `CheckApproval`, `CreatePending` | `verifyApproval` and `createPending` |
| `RequestGrant` | `createBreakGlassRequest` |
| `Send`, `Answered`, `RecordUse` | the adapter resolves and `fetch` starts; the answer; the `credential.use` event |
| `Fail`, `Crash` | any await rejects; the process stops |
| `CreateCredential`, `UpdateCredential`, `DeleteCredential`, `ReplaceRules` | administration beside the call; an id may be deleted and created again in another tenant |
| `ApprovalStep`, `GrantStep` | everything operators and sweeps do in the two services |

`Send` is one action because the resolved secret reaches `fetch` without another await that
could reject in between changing anything the properties read. The matching of hosts,
operations, roles and environments is abstracted: a credential state says which requests it
permits, and a rule set which effect a request has.

### Token service (`TokenService.tla`)

`clients` with the authentication method and the secret as a version number, `codes`,
`refreshTokens`, `accessTokens`, `activeTenants`. A call keeps the client row it read on
arrival, as the code does, and authenticates against that: with nothing, with a client
assertion, or with a shared secret (`Authenticates`).

| Action | Code |
|---|---|
| `ReadClient`, `ReadBearer`, `ReadForWrite` | the first read of each handler |
| `CheckTenant` | `requireActiveTenant` and the checks that follow it without an await |
| `CreateCode` | `authorize` |
| `ConsumeCode` | `consumeByHash`, one transaction, and the checks after it |
| `ReadRefresh`, `CheckRefreshTenant` | the refresh grant reads its token, without a lock |
| `IssueAccess`, `IssueRefresh`, `ReplaceRefresh` | the two insertions and the guarded update of the old refresh token, whose outcome the code ignores |
| `Touch` | `touch` of an access token that was accepted |
| `Upsert`, `RevokeAccess`, `RevokeRefresh`, `RevokeCodes` | `updateClient` and `rotateClientSecret` |
| `RevokeAccessToken`, `RevokeRefreshToken`, `DisableTenant`, `EnableTenant` | administration |
| `SweepAccess`, `SweepRefresh`, `SweepCodes` | the maintenance loop |

### Rotation (`Rotation.tla`)

`runs` is the table `rotation_runs`, `credentials` the rows of the catalogue as far as
rotation concerns them, with a history `had` of the references a row has had.

| Action | Code |
|---|---|
| `ReadForCreate`, `ListForPlan` | `createManual` and `planDue` read the catalogue |
| `FindOpen`, `Inspect` | `findOpenByCredentialId`, `inspectCredential` with the due dates |
| `InsertRun`, `InsertRefused` | the insertion, under the foreign key and the unique index over open runs |
| `ReadRun` | `start`, `complete` and `fail` read the run for its tenant, not its status |
| `ReadCredential` | `complete` reads the credential and builds the patch |
| `UpdateRead`, `UpdateWrite` | `PgCredentialRepository.update`: read, merge, write every column |
| `Transition`, `TransitionRefused` | the guarded transaction |
| `Record` | the audit event |
| `ReadForEdit` | `BrokerService.updateCredential`, which uses the same update |
| `CreateCredential`, `DeleteCredential` | the catalogue; deletion cascades to the runs |

Of a credential's tenant the module takes that it never changes. No update touches it, but a
credential can be deleted and its id created again in another tenant; no property of this
module depends on the tenant of a row. `Broker` and `Backup` have that case: in `Backup` it is
what makes a run reference another tenant's credential.

### Front ends (`FrontEnd.tla`)

A route or a tool is a row of a table: the service operation it calls, the scope and the roles
it asks for. The tables are the blocks of `handleApiRequest` and the `registerTool` calls of
`createKeyLoreMcpServer`, read off one by one; an empty set of roles means any. `issued`, `live` and
`disabled` are the tokens and tenants as authentication sees them, `sessions` the map
`transports` with the token that opened each (a history: the code keeps no owner), `req` the
requests in progress.

| Action | Code |
|---|---|
| `Arrive`, `ReadToken`, `RefuseToken` | `authenticateRequest` and the two reads of `authenticateBearerToken` |
| `CallRoute` | the block of a route: scopes, roles, then the service |
| `EnterMcp`, `OpenSession`, `CloseSession`, `LeaveMcp` | `/mcp` and `handleMcpRequest` |
| `CallTool`, `CallStdioTool` | a tool over HTTP and over stdio; `ContextFromExtra` is the authority it runs with |
| `Perform` | the service; only revocations and tenant updates change what later requests may do |
| `HandleOAuthToken`, `LocalSession` | the two ways to a token that need none |
| `Restart` | sessions and requests are gone |

### Admission (`Admission.tla`)

`bucket` is the row of one client address, `jtis` the register of client assertions, `slot`
the requests in progress, `sweep` the maintenance run. `admitted` and `accepted` are
histories.

| Action | Code |
|---|---|
| `Arrive`, `Check` | `check` reads the clock, then its transaction, over the embedded database |
| `ReadBucket`, `WriteSeen`, `RetryCheck`, `LoseBucket` | the same over PostgreSQL: `SELECT`, then `INSERT` or `UPDATE`; a duplicate key is tried once more; an `UPDATE` of a row that has gone throws |
| `VerifyClientAssertion`, `RegisterAssertion`, `RegisterFails`, `PassBy` | `verifyClientAssertion` and `register`, which takes every error for a replay |
| `StartRun`, `Sweep`, `SweepFails` | `runOnce`, one sweep after the other |
| `TimerOverlapsRun`, `SweepFails` of a timer's run | `void this.runOnce("scheduled")`: no one catches, and an unhandled rejection ends a Node process |
| `Crash`, `Restart`, `Tick` | the process and the clock |

### Core mode (`CoreMode.tla`)

`rows`, `rules` and `secrets` are the three stores, `tmp` and `keyFile` the other two files.
A call is a program: the sequence of the steps it has left (`todo`) and the programs of the
catch blocks it is in (`rescue`). `Program` and `Rescue` are the bodies of the methods of
`CoreModeService`; each step is an action that does what the code does at that place, and
`Throw` may happen instead of any of them. `ReadRow` stands for the two reads of an update,
the broker's (`src/services/broker-service.ts:237`) and the repository's
(`src/repositories/pg-credential-repository.ts:219`): what the properties look at is written
by the later statement either way, and `Update` finds out for itself whether the row is gone.

| Action | Code |
|---|---|
| `Vacant`, `Find`, `ReadRow` | `getCredential` as the caller sees it; the broker's own read |
| `Insert`, `Update`, `Remove`, `Record` | the catalogue and its audit event |
| `Load`, `ReadKey`, `OpenKey`, `WriteKey`, `Open`, `Write`, `Rename` | `LocalSecretStore`, one file operation each; a file that another call renamed or truncated meanwhile is written where it is now |
| `ReadRules`, `ReplaceRules` | `syncCoreAllowRule`, `deleteCoreAllowRule` |
| `Begin`, `Throw`, `End` | the call, its catch blocks, its answer |
| `Crash`, `Restart`, `Reconcile`, `Serve` | `createKeyLoreApp` reconciles before it serves |

### Backup (`Backup.tla`)

A row is its table, key, tenant and the row it references. `exports` holds what each export
has read so far, `restore` the transaction in progress with the rows it has deleted, `writers`
the row that each request of the rest of the server is about to insert.

| Action | Code |
|---|---|
| `StartExport`, `ReadTable` | `exportBackup`: one step over the embedded database, table by table over PostgreSQL |
| `StartRestore` | `restoreBackupPayload` of any payload that parses (`src/http/server.ts:1544`), one this server never exported included, and, for a tenant, `assertTenantScopedBackup` |
| `DeleteTable` | one `DELETE`, with its cascades |
| `InsertAndCommit`, `RollBack` | the insertions and `COMMIT`, where keys and references allow it |
| `BeginWrite` | a request reads what its row depends on: the credential of a run and its tenant (`createManual`), the client of a token, the tenant of a credential or client, whether a client's name is free |
| `InsertRow`, `AbandonWrite` | it inserts the row, under the keys and references as they are then; a client's row is upserted; or it is refused |
| `Erase` | credentials and rules deleted by operators, codes, assertion ids and rate limits by cleanups, with their cascades |

What `BeginWrite` has read may be gone, or belong to another tenant, when `InsertRow` comes: the
foreign keys compare keys only. Over the embedded database the queue lets nobody in during a
restore; over PostgreSQL others commit between its statements, and wait only for the rows it
has deleted.

## 3. Runs

Distinct states and times are those of one laptop-sized machine with two workers.

| Run | Instance | What it shows |
|---|---|---|
| `approvals` | one request, four principals (two of one tenant, one of another, one unbound), quorums 1 and 2, three handlers at once, clock to 2; 341k states | an approved row has a quorum of different approvers and no refusal (`DistinctQuorum`); reviewers stay in their tenant; the log tells of nothing that did not happen; decided rows never change; a pending request settles (`PendingSettles`); the table implements `QuorumGrant` |
| `break_glass` | one grant, three principals, durations up to one beyond the maximum, three handlers; 453k | the same for grants, which operators of other tenants cannot review or revoke (`OperatorsStayInTenant`) and all of which end (`GrantsEnd`) |
| `broker_approvals` | two calls out of four kinds, an approval, a reviewer's handler, a credential of either of two tenants, two rule sets; 781k | `UseIsAuthorized`, `NoUseOfEndedAuthority`, `TenantScopedCalls`; and `UsesApprovals`: the broker drives `Approvals` only by its own actions |
| `broker_grants` | two calls, a grant that needs two approvals, a credential policy denies; 390k | the same authority questions for grants, `AuditAroundUse`, and `UsesBreakGlass` |
| `token_grants` | two clients, one code, two refresh and two access tokens, two calls, sweeps, failures, a disabled tenant; 1.6M | `DeadTokensGiveNothing`: a code or refresh token that was consumed, rotated, revoked or out of time when a call arrived gives it nothing, however the call interleaves; `CodesAreSingleUse`, `TokensOnlyNarrow` |
| `token_admin` | machine calls with a secret or an assertion, bearer calls, updates, changes of method and rotations of one client, two at a time; 977k | `DisabledTenantGetsNothing` |
| `rotation` | six kinds of calls, two at a time, two credentials of two tenants, two runs; 1.8M | `OneOpenRun`, `CompletedMeansApplied`, `AuditMatchesOutcome`, `ClosedRunsStay` |
| `front_end` | two requests at a time, four tokens (an administrator's, a consumer's with every scope, a narrow one bound to the MCP endpoint, one handed out later), two tenants, one MCP session; 1.0M | `RunsAsItsCaller`; `FrontEndsAgree`; `DutiesAreSeparated`, the separation `docs/configuration.md:225` names |
| `admission` | two requests, either database, a limit of one, one assertion, instants 0, 1 and 5; 149k | `LocalLimitHolds`, `AssertionsAreUsedOnce`, and `ExpiredRowsAreSwept` under fairness |
| `core_credentials` | two calls out of six kinds by callers of two tenants and of none, on two ids, one of which both tenants create, in either order; failures, undo steps, crashes; 2.4M | `AcknowledgedCallsAreComplete`, `RestartRestoresRules`; `TenantsStayApart`: rows with their content, secrets with their values, rules |
| `backup` | a credential id used by two tenants, a run, a client with a token, one request, an operator of each tenant and one of none, four payloads, either database; 7.9M, close to three minutes | `LocalBackupsAreComplete`, `FullRestoreReplacesAll`, `ScopedRestoresAreContained` |

One run, `core_foreign_create`, checks a sentence of the documentation that the code does not
keep (section 6), and ends in the counterexample: property `OthersSecretsStay`.

Deadlock is checked in every run: a sweep is always possible, or a call can always arrive.

### Bounds and why they are enough

- *One request or grant.* Rows of these tables never look at each other; the sweep treats
  each by itself. The composition needs one of each as well.
- *Three handlers* (`MaxInFlight`): two reviews that race and a third that finishes the
  quorum or revokes. *Two calls* elsewhere: every hazard listed is a race of two, beside
  sweeps and administration, which are actions of their own and need no slot.
- *Clock*: lifetimes are one unit, so a clock of 1 or 2 lets a row be made, reviewed, used and
  overtaken by its deadline at every step in between. It stops at `MaxClock`; a creation
  that would live past it is not taken.
- *Quorums 1 and 2*: whether a quorum is met at once or after a wait. Larger quorums are the
  theorems' business, which hold for all.
- *Tokens*: with two access and two refresh tokens a code can be redeemed and its refresh
  token rotated once, which is all that `token_grants` needs: a second use of either finds
  it dead. Two rotations of one token that both answer would need three of each; no property
  is about them, since the code does not keep the one there should be (section 6).
- *Failures* are not bounded (`MayFail` is true in both runs of the token service).
- `MaxSecret` bounds the number of rotations of a client secret: one, to see it undone.
- `Asks` (front ends): one slot asks for every operation, the other for those that change what
  requests may do and for two tools, which gives every order of a call and a revocation.
- `Times`: two instants one window apart, so that a window can follow another, and one at which
  buckets are old (four windows) and the assertion has expired. Counters stop at `CountBound`,
  one above the limit.
- `Undisturbed` (core mode, a state constraint): two calls for one id do not overlap, and a
  run ends where a writer replaced a file or the rules over a state it had not read. The
  code loses updates there; the properties promise nothing beyond that point, and say so
  themselves (`~overtaken`, `contended`). Calls for different ids overlap freely up to it.
- `StartRestore` (backup): one restore at a time. Over the embedded database the queue ensures
  that; over PostgreSQL two restores may overlap, and nothing is said of those.
- `Payloads` (backup): nothing at all, a whole tenant, a tenant whose run takes another's
  credential for its own, and a tenant that takes the credential's id. `OneAtATime` (a state
  constraint): over PostgreSQL no export and restore at once; the properties of exports and
  of unscoped restores are about the embedded database, and the theorems have no such bound.
  One export slot keeps the last backup; a restore may come at any later time, by another
  operator.
- *Writers* (backup): one request. A run made from a stale read of its credential takes one,
  beside which an operator deletes the credential and a restore of the other tenant creates
  its id again.
- Symmetry is used over calls, and over access tokens, which no definition tells apart, and
  never in a run with a liveness property.

## 4. Fairness

`PendingSettles` and `GrantsEnd` need `WF(Tick)` (time passes) and
`WF(ExpireStale)` (`MaintenanceService.start` runs
the sweeps every `KEYLORE_MAINTENANCE_INTERVAL_MS` when maintenance is enabled, as it is by
default, and the sweeps of approvals and grants are the first two of a run). No
fairness is assumed of reviewers, handlers or calls: they may all stop for ever.

`ExpiredRowsAreSwept` looks at the loop itself, with everything that can go wrong in it: a
sweep fails, a failed run of the timer ends the process, the timer fires into a run. It needs
that a supervisor restarts the process (`WF(Restart)`), that the timer fires again and again
while the process is up (`SF(StartRun("scheduled"))`), and of each sweep that, tried again and
again, it succeeds again and again before the timer fires next (`SF(Sweep)` for each). The last
one is an assumption about the database and the interval, not something the code ensures.

## 5. Proofs

The theorems hold for every set of principals, tenants, requests, tokens, runs, credentials,
rows and calls, and for every bound, under the assumptions the modules name. They say that

- the absent values (`NoTenant`, `NoToken`, `NoCredential`, `NoBucket`, ...) are not among the
  real ones, and that quorums, lifetimes, the limit and the window are positive;
- the ids of codes, refresh tokens and access tokens differ from each other, and so do those of
  approvals and grants: in the code they are different random values, kept in different tables;
- the inputs of a call name the rows their kind needs (a refresh grant brings a refresh token);
- the rows a database starts with keep what the schema keeps: keys are unique, and the row that
  another one references is there; payloads are any sets of rows of the tables that a backup
  has (`BackupAssumption`);
- a file that is absent, truncated or torn is none of whole content, and no key file holds a
  key that is empty (`CoreModeAssumption`).

TLC evaluates each assumption in the runs. The invariants `IInv` below were checked by TLC on
the instances of the runs before they were proved.

**Approvals and grants.** `DistinctQuorum` is not inductive: the code decides by two
counters, and the property is about people. `RowInv` ties them: the counter of approvals is
the number of different approvers in the reviews, a row without a counted refusal holds none,
and the status is the one the counters give. The duplicate check keeps the first part
(a new reviewer raises both sides by one), and `NextStatus` the rest. `AuditIsTruthful` needs
`AuditInv`: a handler that has changed a row and not yet written its event already knows
something true (`Claimed`), and no step takes back what a row was claimed to hold
(`ClaimsStay`), because fingerprints are written once and reviews only grow.

| Theorem | Says |
|---|---|
| `ApprovalsTypes`, `BreakGlassTypes` | `[]TypeOK` |
| `ApprovedOnlyByQuorum`, `ActiveOnlyByQuorum` | `[]DistinctQuorum` |
| `DenialIsFinal` | `[]DenialFinalizes`: a row with a refusal is not approved |
| `ReviewersStayInTenant`, `OperatorsActInTheirTenant` | `[]ReviewsStayInTenant`, `[]OperatorsStayInTenant` |
| `AuditTellsTheTruth` | `[]AuditIsTruthful` |
| `DecidedRowsAreFrozen`, `EndedGrantsStayEnded` | the action properties `DecisionsAreFinal`, `EndedStaysEnded` |
| `ApprovalsImplementQuorumGrant`, `BreakGlassImplementsQuorumGrant` | `Spec => QG!Spec`: the initial states map to the abstract one, and every step to an abstract step or a stutter (a sweep to `Lapse`, a review to `Approve` or `Refuse`) |

**Rotation.** The invariants are proved together, as `IInv`. A guarded transition says
nothing by itself about the credential, which was written an await earlier by a
read-merge-write that others may overwrite. What makes the argument inductive is what a
suspended call still knows: its run was inserted and belongs to the credential it holds
(`Tied`); the target of a completion is still in the patch to be written, or the credential
has already had it (`Applying`); the event about to be recorded is true of the run
(`Truthful`), and stays so because no transition leaves a closed status
(`OutcomesAreStable`); and no run outlives its credential (`ForeignKeys`). `RunMoves` and
`CredentialMoves` say once what any step can do to one run and one credential, `CallSteps`
what it leaves of a call, and the invariants follow from these.

| Theorem | Says |
|---|---|
| `RotationTypes` | `[]TypeOK` |
| `ClosedRunsAreFrozen` | `ClosedRunsStay` |
| `AtMostOneOpenRun` | `[]OneOpenRun`, for any number of racing creations and plans |
| `CompletedRunsWereApplied` | `[]CompletedMeansApplied` |
| `AuditTellsTheOutcome` | `[]AuditMatchesOutcome` |

**Token service.** A call is suspended again and again, and each property is about what it read
at one of its awaits. `Knows(c)` says what remains true of it whatever others do: what was dead
when it arrived is dead (`DeadIsDead`), a token it read alive and that was dead on arrival had
run out of time (`BearerIsKnown`), the tenant that was off on arrival is off for its check
(`OffIsOff`), the code or refresh token it found good covers what it is about to issue
(`FoundIsGood`), and the heir it issued is its own (`HeirIsOwn`). `CodesAreSingleUse` counts
tokens; `SingleUse` adds that at most one call holds the consumed code, and only while nothing
was issued for it. `TokensOnlyNarrow` needs `HeirsNarrow` for the chain of successors.
`CodesMoveOn`, `RefreshTokensMoveOn` and `AccessTokensMoveOn` say once what any step can do to
a row, and the rest is drawn from them.

| Theorem | Says |
|---|---|
| `TokenServiceTypes` | `[]TypeOK` |
| `CodesGiveOneToken` | `[]CodesAreSingleUse`, for any number of racing redemptions |
| `DeadTokensStayUseless` | `[]DeadTokensGiveNothing` |
| `IssuedTokensOnlyNarrow` | `[]TokensOnlyNarrow` |
| `DisabledTenantsGetNothing` | `[]DisabledTenantGetsNothing` |

**Broker.** First the simulation: every step of the broker is, for the tables of a service, a
step of that service or a stutter (`ApprovalsStep`, `GrantsStep`). With it the inductive
invariants of `ApprovalsProofs` and `BreakGlassProofs` hold in the composition (`ServicesInv`),
and so do their facts about single steps: a decided row stays, an expiry is written once, a
granted row keeps its reviews. What a call has found out at one await and uses at a later one is
then stable: the approval that let it through is still approved (`HoldsApproval`); the grant may
have ended since, but it was active by a quorum, for this caller and request (`HoldsGrant`); what
was over when it arrived is over (`OverIsOver`); the decision is on record from the await after
it on (`OnRecord`). `InOrder` says what each position of a call implies about what it holds.

| Theorem | Says |
|---|---|
| `BrokerUsesApprovals`, `BrokerUsesBreakGlass` | `UsesApprovals`, `UsesBreakGlass`: every behaviour of the broker is one of the service |
| `SecretsNeedAuthority` | `[]UseIsAuthorized`: the chain from the secret that leaves to a quorum of different people |
| `EndedAuthorityIsUnused` | `[]NoUseOfEndedAuthority` |
| `CallsStayInTenant` | `[]TenantScopedCalls` |
| `AuditSurroundsUse` | `[]AuditAroundUse` |

**Front ends.** `Knows(q)` says what each await has found out about the token of a request: it
was issued; a token seen alive had not been revoked before the request arrived; the context a
service runs with is the one the token of this request gives, whichever session it goes
through. The tables of routes and tools are constants, and two lemmas read them through:
every tool is a route (`ToolsAreRoutes`), and every route that belongs to a duty asks for a role
of that duty (`RoutesKeepDuties`).

| Theorem | Says |
|---|---|
| `FrontEndTypes` | `[]TypeOK` |
| `OperationsRunAsTheirCallers` | `[]RunsAsItsCaller` |
| `ToolsAskNoLess` | `[]FrontEndsAgree` |
| `RolesSeparateDuties` | `[]DutiesAreSeparated` |

**Admission.** An assertion that was accepted is in the register for as long as it could be
replayed (`Spent`); the sweep takes only expired ones. For the limit, `Counts` says that the
count of the bucket covers what its window has admitted, and that a window whose bucket was
swept or replaced cannot begin again, since the clock has passed its start.

| Theorem | Says |
|---|---|
| `AdmissionTypes` | `[]TypeOK` |
| `AssertionsAreSingleUse` | `[]AssertionsAreUsedOnce`, for any number of requests, crashes and sweeps |
| `RateLimitHoldsLocally` | `[]LocalLimitHolds` |

**Backup.** That the database has unique keys and no reference without its row is an invariant
(`DbInv`) that a restore threatens in two ways: what it deletes must take its children with it,
also those that others commit between its statements over PostgreSQL, where the lock on a deleted
parent holds them back (`Cascaded`); and what it inserts is checked against what is there by
then. `DbInv` says nothing of tenants, because the code keeps no reference inside its tenant. Over
the embedded database an export is one read of that database (`ExportInv`), and nobody writes while
a restore waits, so that all that is left when it commits is what its deletions missed
(`Emptied`). `Contained` says of the rows that a tenant's restore has deleted so far that each is of
the tenant or references a row of it that goes too. `BackupInv` puts these together.

| Theorem | Says |
|---|---|
| `BackupTypes` | `[]BackupTypeOK` |
| `FullBackupsAreComplete` | `[]LocalBackupsAreComplete` |
| `FullRestoresReplaceAll` | `FullRestoreReplacesAll` |
| `ScopedRestoresStayContained` | `ScopedRestoresAreContained`, over either database and for any payload |

**Core mode.** A call is a sequence of steps, and a proof cannot list every suffix of every
program. So programs are read as a control-flow graph: `After` gives the step that follows a
step of a call, in its body or in a catch block, `Runs` says that a sequence is a path of that
graph to its end, and `ProgramRuns`, `UndoRuns` and `RunsSkip` show once that the bodies, the catch
blocks and what is left of them when a deletion finds nothing are such paths. From there
on a call has a place, `Pc`, like the calls of the other modules. `Shape` says where a call may
be and what it has read by then; each step keeps it (`VacantStep` ... `EndStep`).

Three invariants carry the properties. `FileInv`: unless a writer has overtaken another, the
secret file is whole, every entry and every call in progress uses the one key in the key file,
and only the call that has truncated that file may write it. `KnowledgeInv`: a call knows, at each
place, what it has done to the three stores (`Knows`: a creation that has inserted its row
finds it as it made it, a deletion past the row finds none, ...), and what callers were told of a
credential is so (`Good`). It holds for an id on which no two calls overlapped, where a
call is the only one (`OneCall`). `Apart` is what the others need from a step: it leaves their row,
their secret, their rule and their ledger alone. `RestartInv` says of a starting server that a
credential it listed has its rule or is still pending.

Two hypotheses are facts the code does not ensure, and each theorem states those it needs:

- `RuleIdsDistinct`: no two credentials share a rule id. `coreRuleId` joins tenant and id with a
  hyphen (`src/services/core-mode-service.ts:26`), and two that share one overwrite each other's
  rule.
- `CreatesStayHome`: no one asks to create a credential for a tenant not the caller's. The code
  does refuse such a creation, but only after it has replaced the secret: that is the first
  disagreement of section 6.

Both hold in the instance of `core_credentials`; the second fails in that of
`core_foreign_create`, whose counterexample shows that it cannot be dropped.

| Theorem | Says |
|---|---|
| `CoreModeTypes` | `[]TypeOK`, without either hypothesis |
| `RestartRestores` | `RestartRestoresRules`, with `RuleIdsDistinct` |
| `CallersAreToldTheTruth` | `[]AcknowledgedCallsAreComplete`, for any number of calls, failures and crashes |
| `CallsKeepTenantsApart` | `TenantsStayApart` |

**Only model-checked.** The liveness properties `PendingSettles`, `GrantsEnd` and
`ExpiredRowsAreSwept`, for good: the prover handles neither liveness under fairness nor
`ENABLED`. No recursive operator is used, and nothing rests on induction over data; that a
program is a path of the graph is proved by its few cases, and that the rest of a path is one
from the definition of `Tail`.

## 6. Where the code and the documentation disagree

The first is a run that ends in a counterexample, and a finding in `PROJECT.json`. The others are
behaviours of the modules as well, but no run is spent on them.

1. `docs/api.md:11` says tenant-scoped callers only mutate records of their own tenant. A
   core-mode creation that names another tenant is refused, but only after the secret of that
   tenant's credential has been replaced (`src/services/core-mode-service.ts:142`), and the
   catch block then deletes it (line 154): run `core_foreign_create`, property
   `OthersSecretsStay`. The counterexample starts from a credential whose creation was
   acknowledged, shows its secret replaced by that of the foreign caller, the insertion
   refused, and the entry gone.
2. `docs/api.md:349` and `docs/tenant-operations.md:43` say that a tenant's restore only replaces
   rows of the tenant. `createManual` inserts a run with the tenant it read before two awaits
   (`src/services/rotation-service.ts:96`, `:107`); when the credential was deleted and created
   again in another tenant meanwhile, the run references that tenant's credential, and a
   restore of that tenant deletes it by the cascade (`src/services/backup-service.ts:552`). A
   payload may also bring such a run, since `assertTenantScopedBackup` compares `tenantId`s
   only. `ScopedRestoresAreContained` is what does hold.
3. `docs/conformance.md:19` speaks of rotated refresh tokens as single-use codes are. Two refresh
   calls that read one token before either replaces it both answer with new tokens
   (`src/services/auth-service.ts:659` does not look at the outcome of the guarded update). One
   that arrives after the rotation gets nothing (`DeadTokensGiveNothing`).
4. `docs/threat-model.md:30` says mutations of a client leave no old privileges active. A token
   call that read its client before an update stores a token with the old scopes after the
   update has revoked the others (`src/services/auth-service.ts:502`).
5. `docs/architecture.md:30` says use is written to the audit log. The `credential.use` event is
   written after the target has answered (`src/services/broker-service.ts:659`): if the answer
   never comes, the secret was sent and no use is on record. The decision is on record in every
   case (`AuditAroundUse`).
6. `docs/api.md:213` says the secret is rotated. An update that read the client before a rotation
   writes the old secret hash back (`src/services/auth-service.ts:850`).
7. `docs/api.md:399` and `:405` say a failed rotation leaves the binding alone. Completing a run
   that has failed moves the credential's reference, then finds the transition refused
   (`src/services/rotation-service.ts:252`). `CompletedMeansApplied` and `ClosedRunsStay` still
   hold.
8. `docs/configuration.md:52` calls the limit a maximum per window. Over PostgreSQL racing
   requests read one count and write the same next one (`src/services/rate-limit-service.ts:35`):
   `RateLimitHolds` fails there, and `LocalLimitHolds` is about the embedded database.

## 7. What the properties do not say

- `NoUseOfEndedAuthority` is about authorities that had ended when the call arrived. One that
  ends between its check and the request to the target is still used; the code does not look
  again, and nothing in the documentation says it does.
- `AuditIsTruthful` and `AuditMatchesOutcome` say that events are true, not that there is one
  for every change: the event is a statement of its own and a crash before it loses it.
- `CompletedMeansApplied` says that the credential has *had* the target of a completed run.
  A later or overlapping edit may have put another reference there.
- `DisabledTenantGetsNothing` is about calls that arrive while the tenant is disabled. A call
  that has passed its check finishes. The same goes for `RunsAsItsCaller` and a revoked token.
- `AssertionsAreUsedOnce` takes the clock of the process and that of the database to agree.
- `AcknowledgedCallsAreComplete` is silent once a writer has overtaken another: two creations
  at the same moment can lose an entry of the secret file, a rule, or the first key, and a
  deletion that overlaps a creation of the same id can take the new secret with it.
- Rule ids replace characters and join tenant and id with a hyphen, so that two credentials can
  share one; the instance keeps them apart (`RuleIdOf`), the theorems by `RuleIdsDistinct`.
- `RestartRestoresRules` is about the credentials the reconciliation lists: the first fifty
  rows (`Limit`), of which it keeps those of the default tenant.
- `LocalBackupsAreComplete` says nothing of PostgreSQL, where a backup may hold a run without its
  credential, nor of the backup of one tenant, which leaves out a row of another tenant that one
  of its own references; such a backup is refused by the foreign key when it is restored into an
  empty database.
- `FullRestoreReplacesAll` is about the embedded database: over PostgreSQL others commit rows
  between the statements of a restore, which stay.
- `ReviewsStayInTenant` and `OperatorsStayInTenant` say that the tenant was checked, not that check
  and review are one transaction. They are two in the code and one step here: no statement changes
  the tenant of such a row, and ids are random.
- `TokensOnlyNarrow` compares a token with what it descends from, not with its client, which may
  have been narrowed since (section 6).
- `DeadTokensGiveNothing` is about what was dead when the call arrived. A token that is revoked or
  rotated between its read and the answer still gives that call what it asked for.
- A restore brings back what the backup knew. Tokens revoked since are live again, and an
  unscoped operator who restores one tenant's backup deletes every other tenant. That is
  what the code does, and no property speaks of it.

## 8. Plan

In the order of what they add:

1. *Core mode*: an abstract map from credentials to secrets as what the store promises while
   calls do not overlap, with `FileInv` for the refinement.
2. *Adapters and exporters*: the circuit breaker of the adapter registry, the trace exporter's
   queue.
3. In `TokenService`: creation of clients.

## 9. Not modelled, and why

- Egress policy, policy matching, redaction, sanitising: functions of their input, without
  state; in `Broker` a target passes or not, a credential permits a request or not.
- Notifications: one webhook per event. A webhook that fails is caught and recorded; only when
  that record cannot be written does the caller see an error.
- Secret adapters: one request to a secret manager each; to the broker a resolution succeeds
  or fails.
- Sandbox runner: a child process with the secret in its environment. `runSandboxed`
  (`src/services/broker-service.ts:612`) checks that the credential is of the caller's tenant and
  goes on: no policy is evaluated, no approval asked for. `FrontEnd` has the scope and the roles
  that its route and tool demand.
- Of the front ends: paths, bodies, answers and their status codes, the files that
  `/v1/core/tooling/apply` writes, admin pages; the command line and the configuration.
- The circuit breaker of the adapter registry and the trace exporter: both in memory, one
  decides how fast a resolution fails, the other carries diagnostic spans.
- Start and stop of the process beyond the reconciliation: migrations, bootstrap files, the
  shutdown that closes sessions and the database.
- Storage, migrations, the in-memory database: PostgreSQL is taken to run single statements
  and row-locked transactions atomically, as its isolation gives for these queries.
