------------------------------ MODULE FrontEnd ------------------------------
(***************************************************************************)
(* The HTTP server of KeyLore with its MCP endpoint, and the stdio server: *)
(* how a request becomes an operation of a service, and with whose         *)
(* authority.  Many requests are in progress at once; between the reads of *)
(* one request others revoke tokens, disable tenants and open and close    *)
(* MCP sessions, which belong to no token and live in memory only.         *)
(*                                                                         *)
(* A route or a tool is a row: the service operation it calls, the scope   *)
(* and the roles it asks for.  Which row a request names is decided when   *)
(* it is looked up; paths, bodies and answers are left out.                *)
(***************************************************************************)
EXTENDS Naturals, FiniteSets

CONSTANTS
  Requests,      \* slots for requests in progress
  TokenIds,
  NoToken,
  InitialTokens, \* the tokens that exist at the start
  Issued,        \* what each token was issued with
  Tenants,
  SessionIds,
  Asks,          \* [Requests -> sets of operations the slot may ask for]
  Quickstart     \* whether the local quickstart is enabled

Roles ==
  {"admin", "auth_admin", "operator", "maintenance_operator",
   "backup_operator", "breakglass_operator", "auditor", "approver", "consumer"}

AllScopes ==
  {"catalog:read", "catalog:write", "admin:read", "admin:write", "auth:read",
   "auth:write", "broker:use", "sandbox:run", "audit:read", "approval:read",
   "approval:review", "system:read", "system:write", "backup:read",
   "backup:write", "breakglass:request", "breakglass:read",
   "breakglass:review", "mcp:use"}

Resources == {"any", "api", "mcp"}

AuthContext ==
  [principal : TokenIds \cup {"local-operator"}, scopes : SUBSET AllScopes,
   roles : SUBSET Roles, tenant : Tenants \cup {"any"}, resource : Resources]

ASSUME FrontEndAssumption ==
  /\ NoToken \notin TokenIds
  /\ InitialTokens \subseteq TokenIds
  /\ Issued \in [TokenIds -> AuthContext]
  /\ \A t \in TokenIds : Issued[t].principal = t /\ Issued[t].tenant \in Tenants
  /\ Quickstart \in BOOLEAN
  /\ DOMAIN Asks = Requests

-----------------------------------------------------------------------------
(* The routes of the REST API.                                             *)

Rows(ops, scope, roles) ==
  {[op |-> op, scope |-> scope, roles |-> roles] : op \in ops}

AnyRole == {}
NoScope == "none"
Operators == {"admin", "operator"}
AuthAdmins == {"admin", "auth_admin"}
Reporters == {"admin", "operator", "auditor"}
Maintainers == {"admin", "maintenance_operator"}
Rotators == {"admin", "operator", "maintenance_operator"}
BackupOperators == {"admin", "backup_operator"}
Reviewers == {"admin", "approver"}
BreakGlassOperators == {"admin", "breakglass_operator"}

AuthorizeRoute == Rows({"auth.authorize"}, NoScope, AnyRole)

ToolingRoutes ==
  Rows({"auth.authenticateBearerToken"}, "catalog:read", Operators)
  \cup Rows({"tooling.apply"}, "catalog:write", Operators)

CoreRoutes ==
  Rows({"broker.searchCatalog"}, "catalog:read", AnyRole)
  \cup Rows({"broker.getCredential"}, "catalog:read", Operators)
  \cup Rows({"broker.createCredential", "coreMode.createCredential",
             "coreMode.updateCredentialContext", "coreMode.replaceLocalSecret",
             "coreMode.deleteCredential"}, "catalog:write", Operators)

BrokerRoutes ==
  Rows({"broker.searchCatalog"}, "catalog:read", AnyRole)
  \cup Rows({"broker.requestAccess", "broker.simulateAccess"}, "broker:use", AnyRole)
  \cup Rows({"broker.runSandboxed"}, "sandbox:run", Operators)
  \cup Rows({"broker.listRecentAuditEvents"}, "audit:read", {"admin", "auditor"})

AuthRoutes ==
  Rows({"auth.listClients", "auth.listTokens", "auth.listRefreshTokens"},
       "auth:read", AuthAdmins)
  \cup Rows({"auth.createClient"}, "auth:write", AuthAdmins)

TenantRoutes ==
  Rows({"tenants.list"}, "admin:read", {"admin"})
  \cup Rows({"tenants.create", "tenants.bootstrap"}, "admin:write", {"admin"})

\* A plausible mistake: the readers' roles on the writing routes too.
SystemRoutesForReaders ==
  Rows({"broker.adapterHealth", "maintenance.status", "traceExports.status",
        "traces.recent"}, "system:read", Maintainers \cup {"auditor"})
  \cup Rows({"traceExports.flushNow", "maintenance.runOnce"}, "system:write",
            Maintainers \cup {"auditor"})

SystemRoutes ==
  Rows({"broker.adapterHealth", "maintenance.status", "traceExports.status",
        "traces.recent"}, "system:read", Maintainers \cup {"auditor"})
  \cup Rows({"traceExports.flushNow", "maintenance.runOnce"}, "system:write",
            Maintainers)

RotationRoutes ==
  Rows({"rotations.list"}, "system:read", Rotators \cup {"auditor"})
  \cup Rows({"rotations.createManual", "rotations.planDue", "rotations.start",
             "rotations.complete", "rotations.fail"}, "system:write", Rotators)

BackupRoutes ==
  Rows({"backup.exportBackup", "backup.parseBackupPayload"}, "backup:read",
       BackupOperators)
  \cup Rows({"backup.restoreBackupPayload"}, "backup:write", BackupOperators)

ApprovalRoutes ==
  Rows({"broker.listApprovalRequests"}, "approval:read", Reviewers)
  \cup Rows({"broker.reviewApprovalRequest"}, "approval:review", Reviewers)

BreakGlassRoutes ==
  Rows({"broker.listBreakGlassRequests"}, "breakglass:read",
       Reviewers \cup BreakGlassOperators \cup {"auditor"})
  \cup Rows({"broker.createBreakGlassRequest"}, "breakglass:request",
            BreakGlassOperators)
  \cup Rows({"broker.reviewBreakGlassRequest"}, "breakglass:review", Reviewers)
  \cup Rows({"broker.revokeBreakGlassRequest"}, "breakglass:review",
            Reviewers \cup BreakGlassOperators)

ClientRoutes ==
  Rows({"auth.updateClient", "auth.rotateClientSecret", "auth.revokeToken",
        "auth.revokeRefreshToken"}, "auth:write", AuthAdmins)

ItemRoutes ==
  Rows({"tenants.get"}, "admin:read", {"admin"})
  \cup Rows({"tenants.update"}, "admin:write", {"admin"})
  \cup Rows({"broker.listCredentialReports"}, "catalog:read", Reporters)
  \cup Rows({"broker.getCredential"}, "catalog:read", AnyRole)
  \cup Rows({"broker.updateCredential", "broker.deleteCredential"},
            "catalog:write", Operators)

Routes ==
  UNION {AuthorizeRoute, ToolingRoutes, CoreRoutes, BrokerRoutes, AuthRoutes, TenantRoutes,
         SystemRoutes, RotationRoutes, BackupRoutes, ApprovalRoutes,
         BreakGlassRoutes, ClientRoutes, ItemRoutes}

-----------------------------------------------------------------------------
(* The tools of the MCP server.                                            *)

\* A plausible mistake: a tool without the roles its route asks for.
CatalogToolsForAll ==
  Rows({"broker.searchCatalog", "broker.getCredential",
        "broker.listCredentialReports"}, "catalog:read", AnyRole)

CatalogTools ==
  Rows({"broker.searchCatalog", "broker.getCredential"}, "catalog:read", AnyRole)
  \cup Rows({"broker.listCredentialReports"}, "catalog:read", Reporters)

BrokerTools ==
  Rows({"broker.requestAccess", "broker.simulateAccess"}, "broker:use", AnyRole)
  \cup Rows({"broker.listRecentAuditEvents"}, "audit:read", {"admin", "auditor"})

SystemTools ==
  Rows({"broker.adapterHealth", "maintenance.status", "traces.recent",
        "traceExports.status"}, "system:read", Maintainers \cup {"auditor"})

RotationTools ==
  Rows({"rotations.list"}, "system:read", Rotators \cup {"auditor"})
  \cup Rows({"rotations.planDue", "rotations.createManual", "rotations.complete"},
            "system:write", Rotators)

EmergencyTools ==
  Rows({"broker.createBreakGlassRequest"}, "breakglass:request",
       BreakGlassOperators)
  \cup Rows({"broker.listBreakGlassRequests"}, "breakglass:read",
            Reviewers \cup BreakGlassOperators \cup {"auditor"})
  \cup Rows({"broker.reviewBreakGlassRequest"}, "breakglass:review", Reviewers)
  \cup Rows({"broker.revokeBreakGlassRequest"}, "breakglass:review",
            Reviewers \cup BreakGlassOperators)

SandboxTools == Rows({"broker.runSandboxed"}, "sandbox:run", Operators)

Tools ==
  UNION {CatalogTools, BrokerTools, SystemTools, RotationTools, EmergencyTools,
         SandboxTools}

-----------------------------------------------------------------------------
(* Authority.                                                              *)

\* What the stdio server runs with: every scope, every role but consumer, no
\* tenant.
LocalOperator ==
  [principal |-> "local-operator", scopes |-> AllScopes,
   roles |-> Roles \ {"consumer"}, tenant |-> "any", resource |-> "any"]

HasScope(context, scope) == scope \in context.scopes \cup {NoScope}

HasRole(context, roles) == roles = AnyRole \/ roles \cap context.roles # {}

MayCall(context, row) == HasScope(context, row.scope) /\ HasRole(context, row.roles)

\* A token bound to a resource is good for that resource only.
ResourceMatches(t, target) == Issued[t].resource \in {"any", target}

-----------------------------------------------------------------------------
VARIABLES
  issued,    \* the tokens handed out so far
  live,      \* those whose row is active
  disabled,  \* the disabled tenants
  sessions,  \* the MCP sessions of this process: who opened each
  req        \* the requests in progress

vars == <<issued, live, disabled, sessions, req>>

\* revoked: what the model remembers of the request, that its token was dead
\* when it arrived.
Idle ==
  [pc |-> "idle", token |-> NoToken, revoked |-> FALSE, via |-> "none",
   op |-> "none", context |-> LocalOperator]

Request ==
  [pc : {"idle", "token", "tenant", "mcp", "run"},
   token : TokenIds \cup {NoToken}, revoked : BOOLEAN,
   via : {"none", "api", "mcp", "stdio"},
   op : {"none"} \cup {row.op : row \in Routes},
   context : AuthContext]

TypeOK ==
  /\ issued \subseteq TokenIds /\ live \subseteq issued
  /\ disabled \subseteq Tenants
  /\ DOMAIN sessions \subseteq SessionIds
  /\ \A s \in DOMAIN sessions : sessions[s] \in TokenIds
  /\ req \in [Requests -> Request]

Init ==
  /\ issued = InitialTokens
  /\ live = InitialTokens
  /\ disabled = {}
  /\ sessions = [s \in {} |-> NoToken]
  /\ req = [r \in Requests |-> Idle]

Answer(r) == req' = [req EXCEPT ![r] = Idle]

\* A request arrives and has passed the rate limit.
Arrive(r) ==
  /\ req[r].pc = "idle"
  /\ \E t \in issued, target \in {"api", "mcp"} :
       req' = [req EXCEPT ![r] = [Idle EXCEPT !.pc = "token", !.token = t,
                                              !.revoked = t \notin live,
                                              !.via = target]]
  /\ UNCHANGED <<issued, live, disabled, sessions>>

\* authenticateBearerToken reads the row of the token.
ReadToken(r) ==
  /\ req[r].pc = "token"
  /\ IF req[r].token \in live
     THEN req' = [req EXCEPT ![r].pc = "tenant"]
     ELSE Answer(r)
  /\ UNCHANGED <<issued, live, disabled, sessions>>

\* The rest of authenticateBearerToken: the tenant's row, then the resource.
Authenticated(r) ==
  LET t == req[r].token IN
  /\ Issued[t].tenant \notin disabled
  /\ ResourceMatches(t, req[r].via)

RefuseToken(r) ==
  /\ req[r].pc = "tenant"
  /\ ~Authenticated(r)
  /\ Answer(r)
  /\ UNCHANGED <<issued, live, disabled, sessions>>

\* authenticateRequest and the checks of the route's own block.
CallRoute(r) ==
  /\ req[r].pc = "tenant"
  /\ req[r].via = "api"
  /\ Authenticated(r)
  /\ \E row \in Routes :
       /\ row.op \in Asks[r]
       /\ IF MayCall(Issued[req[r].token], row)
          THEN req' = [req EXCEPT ![r].pc = "run", ![r].op = row.op,
                                  ![r].context = Issued[req[r].token]]
          ELSE Answer(r)
  /\ UNCHANGED <<issued, live, disabled, sessions>>

\* authenticateRequest on /mcp; what the request carries from here on has the
\* resource of the endpoint.
EnterMcp(r) ==
  /\ req[r].pc = "tenant"
  /\ req[r].via = "mcp"
  /\ Authenticated(r)
  /\ IF HasScope(Issued[req[r].token], "mcp:use")
     THEN req' = [req EXCEPT ![r].pc = "mcp",
                             ![r].context = [Issued[req[r].token] EXCEPT
                                               !.resource = "mcp"]]
     ELSE Answer(r)
  /\ UNCHANGED <<issued, live, disabled, sessions>>

\* handleMcpRequest: a POST without a session identifier opens a session, a
\* DELETE closes one; a GET of one changes nothing, an identifier that is not
\* in the table is refused.
OpenSession(r) ==
  /\ req[r].pc = "mcp"
  /\ \E s \in SessionIds \ DOMAIN sessions :
       sessions' = [i \in DOMAIN sessions \cup {s} |->
                      IF i = s THEN req[r].token ELSE sessions[i]]
  /\ Answer(r)
  /\ UNCHANGED <<issued, live, disabled>>

CloseSession(r) ==
  /\ req[r].pc = "mcp"
  /\ \E s \in DOMAIN sessions :
       sessions' = [i \in DOMAIN sessions \ {s} |-> sessions[i]]
  /\ Answer(r)
  /\ UNCHANGED <<issued, live, disabled>>

LeaveMcp(r) ==
  /\ req[r].pc = "mcp"
  /\ Answer(r)
  /\ UNCHANGED <<issued, live, disabled, sessions>>

\* A plausible mistake: the session keeps the authority it was opened with.
ContextFromOpener(r, s) ==
  IF req[r].via = "stdio" THEN LocalOperator
  ELSE [Issued[sessions[s]] EXCEPT !.resource = "mcp"]

\* The authority of a tool call: what the transport passes on of the request
\* that carries the call, or the local operator when nothing is passed on.
ContextFromExtra(r, s) ==
  IF req[r].via = "stdio" THEN LocalOperator ELSE req[r].context

\* A tool call over an open session, whichever token opened it.
CallTool(r) ==
  /\ req[r].pc = "mcp"
  /\ \E s \in DOMAIN sessions, row \in Tools :
       /\ row.op \in Asks[r]
       /\ LET context == ContextFromExtra(r, s) IN
          IF MayCall(context, row)
          THEN req' = [req EXCEPT ![r].pc = "run", ![r].op = row.op,
                                  ![r].context = context]
          ELSE Answer(r)
  /\ UNCHANGED <<issued, live, disabled, sessions>>

\* The stdio server has one transport and no HTTP request behind a call.
CallStdioTool(r) ==
  /\ req[r].pc = "idle"
  /\ \E row \in Tools :
       /\ row.op \in Asks[r]
       /\ MayCall(LocalOperator, row)
       /\ req' = [req EXCEPT ![r] = [Idle EXCEPT !.pc = "run", !.via = "stdio",
                                                 !.op = row.op]]
  /\ UNCHANGED <<issued, live, disabled, sessions>>

\* The service operation.  Of what the services do, three things change what
\* later requests may do.
Perform(r) ==
  /\ req[r].pc = "run"
  /\ Answer(r)
  /\ CASE req[r].op = "auth.revokeToken" ->
            /\ \E t \in live : live' = live \ {t}
            /\ UNCHANGED disabled
       [] req[r].op = "tenants.update" ->
            /\ \E tenant \in Tenants :
                 disabled' = IF tenant \in disabled THEN disabled \ {tenant}
                             ELSE disabled \cup {tenant}
            /\ UNCHANGED live
       [] OTHER -> UNCHANGED <<live, disabled>>
  /\ UNCHANGED <<issued, sessions>>

\* POST /oauth/token: whatever AuthService hands out is a new active token.
HandOut ==
  \E t \in TokenIds \ issued : issued' = issued \cup {t} /\ live' = live \cup {t}

HandleOAuthToken(r) ==
  /\ req[r].pc = "idle"
  /\ HandOut
  /\ UNCHANGED <<disabled, sessions, req>>

\* POST /v1/core/local-session, from loopback: the bootstrap client's token.
LocalSession(r) ==
  /\ Quickstart
  /\ req[r].pc = "idle"
  /\ HandOut
  /\ UNCHANGED <<disabled, sessions, req>>

\* The process restarts: sessions and requests are gone, the rows stay.
Restart ==
  /\ sessions' = [s \in {} |-> NoToken]
  /\ req' = [r \in Requests |-> Idle]
  /\ UNCHANGED <<issued, live, disabled>>

Next ==
  \/ \E r \in Requests :
       \/ Arrive(r) \/ ReadToken(r) \/ RefuseToken(r) \/ CallRoute(r)
       \/ EnterMcp(r) \/ OpenSession(r) \/ CloseSession(r) \/ LeaveMcp(r)
       \/ CallTool(r) \/ CallStdioTool(r) \/ Perform(r)
       \/ HandleOAuthToken(r) \/ LocalSession(r)
  \/ Restart

Spec == Init /\ [][Next]_vars

-----------------------------------------------------------------------------
Running(r) == req[r].pc = "run"

\* An operation runs with the authority its own request brought: the scopes,
\* roles and tenant of that request's token, which was not yet revoked when
\* the request arrived, whoever opened the MCP session; only a stdio call runs
\* as the local operator.
RunsAsItsCaller ==
  \A r \in Requests :
    Running(r) =>
      IF req[r].via = "stdio" THEN req[r].context = LocalOperator
      ELSE /\ req[r].token \in issued /\ ~req[r].revoked
           /\ req[r].context \in {Issued[req[r].token],
                                  [Issued[req[r].token] EXCEPT !.resource = "mcp"]}
           /\ ResourceMatches(req[r].token, req[r].via)

\* What a token may have done through an MCP tool it may also ask of the REST
\* API: no tool asks for less than every route to the same operation.
FrontEndsAgree ==
  \A r \in Requests :
    Running(r) =>
      \E row \in Routes : row.op = req[r].op /\ MayCall(req[r].context, row)

\* Roles separate the duties docs/configuration.md:225 names (auth
\* administration, maintenance, backup restore, audit reads, approval review,
\* break-glass review), through routes and tools alike.
Duties ==
  {<<{"auth.createClient", "auth.updateClient", "auth.rotateClientSecret",
      "auth.revokeToken", "auth.revokeRefreshToken"}, {"admin", "auth_admin"}>>,
   <<{"maintenance.runOnce", "traceExports.flushNow"},
     {"admin", "maintenance_operator"}>>,
   <<{"backup.restoreBackupPayload"}, {"admin", "backup_operator"}>>,
   <<{"broker.listRecentAuditEvents"}, {"admin", "auditor"}>>,
   <<{"broker.reviewApprovalRequest", "broker.reviewBreakGlassRequest"},
     {"admin", "approver"}>>}

DutiesAreSeparated ==
  \A r \in Requests : \A duty \in Duties :
    Running(r) /\ req[r].op \in duty[1] => req[r].context.roles \cap duty[2] # {}
=============================================================================
