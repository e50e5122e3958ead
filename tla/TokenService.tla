---------------------------- MODULE TokenService ----------------------------
(***************************************************************************)
(* The OAuth token service of KeyLore: AuthService over the tables of      *)
(* clients, authorization codes, refresh tokens and access tokens.  Token  *)
(* calls (authorize, the three grants, bearer authentication) and          *)
(* administration of clients, tokens and tenants run concurrently; each    *)
(* action is one statement, and a call keeps the client row it read first. *)
(***************************************************************************)
EXTENDS Naturals, FiniteSets

CONSTANTS
  Clients, Tenants,
  ClientTenant,   \* [Clients -> Tenants]; no update changes it
  Scopes,         \* scopes and roles: a token carries a set of them
  Kinds,          \* the grant types a client may be configured with
  CodeIds, RefreshIds, AccessIds,
  NoToken, NoRow, NoInput,
  CallIds,        \* slots for calls in progress
  Inputs,         \* the calls that may arrive
  Patches,        \* the patches updateClient may be given
  InitialScopes,  \* the scopes clients are created with
  InitialMethod,  \* [Clients -> Methods]: how they authenticate
  CodeTtl, RefreshTtl, AccessTtl,
  MayFail,        \* whether statements may fail and the process may stop
  MaxSecret,      \* bound: how many secrets are generated, the first included
  MaxClock        \* bound: where the clock stops

Grants == {"client_credentials", "authorization_code", "refresh_token"}
TokenCalls == Grants \cup {"authorize"}

\* shared_secret: client_secret_basic and client_secret_post.
Methods == {"shared_secret", "none", "private_key_jwt"}

\* A shared secret is its number among those generated; 0: none is stored.
ClientRow ==
  [active : BOOLEAN, scopes : SUBSET Scopes, grants : SUBSET Kinds,
   method : Methods, secret : Nat]

TokenIds == CodeIds \cup RefreshIds \cup AccessIds

\* asserted: the client assertion of the call verifies (Admission has its
\* registration).  proof: the redirect URI and the PKCE verifier match those of
\* the code, or the resource that of the refresh token.
Input ==
  [kind : TokenCalls, client : Clients, secret : Nat \ {0}, asserted : BOOLEAN,
   scopes : SUBSET Scopes,
   token : CodeIds \cup RefreshIds \cup {NoToken}, proof : BOOLEAN]
  \cup [kind : {"bearer"}, client : Clients, token : AccessIds]
  \cup [kind : {"update"}, client : Clients, patch : Patches]
  \cup [kind : {"rotate"}, client : Clients]

ASSUME TokenServiceAssumption ==
  /\ ClientTenant \in [Clients -> Tenants]
  /\ Kinds \subseteq Grants
  /\ InitialScopes \subseteq Scopes
  /\ InitialMethod \in [Clients -> Methods]
  /\ CodeIds \cap RefreshIds = {} /\ CodeIds \cap AccessIds = {}
  /\ RefreshIds \cap AccessIds = {}
  /\ NoToken \notin TokenIds
  /\ NoRow \notin ClientRow
  /\ Inputs \subseteq Input /\ NoInput \notin Input
  /\ \A input \in Inputs :
       /\ input.kind = "authorization_code" => input.token \in CodeIds
       /\ input.kind = "refresh_token" => input.token \in RefreshIds
  /\ \A patch \in Patches :
       /\ DOMAIN patch \subseteq {"active", "scopes", "grants", "method"}
       /\ "active" \in DOMAIN patch => patch["active"] \in BOOLEAN
       /\ "scopes" \in DOMAIN patch => patch["scopes"] \subseteq Scopes
       /\ "grants" \in DOMAIN patch => patch["grants"] \subseteq Kinds
       /\ "method" \in DOMAIN patch => patch["method"] \in Methods
  /\ CodeTtl \in Nat \ {0} /\ RefreshTtl \in Nat \ {0} /\ AccessTtl \in Nat \ {0}
  /\ MayFail \in BOOLEAN
  /\ MaxSecret \in Nat /\ MaxClock \in Nat

VARIABLES
  clients,        \* the table oauth_clients
  minted,         \* how many client secrets were generated
  activeTenants,  \* the tenants whose status is active
  codes,          \* the table oauth_authorization_codes
  refreshTokens,  \* the table refresh_tokens
  accessTokens,   \* the table access_tokens
  calls,
  clock

vars == <<clients, minted, activeTenants, codes, refreshTokens, accessTokens, calls, clock>>

-----------------------------------------------------------------------------
(* Types *)

Statuses == {"unused", "active", "consumed", "revoked", "removed"}

\* redeemed (history): how often a code gave an access token.
Token ==
  [status : Statuses, client : Clients \cup {NoRow}, scopes : SUBSET Scopes,
   expiresAt : Nat, redeemed : Nat, replacedBy : RefreshIds \cup {NoToken}]

Pcs ==
  {"idle", "tenant", "createCode", "consume", "readRefresh", "refreshTenant",
   "issueAccess", "issueRefresh", "replace", "accepted",
   "upsert", "revokeAccess", "revokeRefresh", "revokeCodes"}

CallRecord ==
  [pc : Pcs, input : Inputs \cup {NoInput},
   row : ClientRow \cup {NoRow},     \* the client as it was read
   scopes : SUBSET Scopes,           \* what the call grants
   heir : RefreshIds \cup {NoToken}, \* the refresh token it issued
   over : SUBSET TokenIds,           \* history: the tokens dead on arrival
   off : BOOLEAN]                    \* history: the tenant was disabled on
                                     \*   arrival and has been since

TypeOK ==
  /\ clients \in [Clients -> ClientRow]
  /\ minted \in Nat
  /\ activeTenants \subseteq Tenants
  /\ codes \in [CodeIds -> Token]
  /\ refreshTokens \in [RefreshIds -> Token]
  /\ accessTokens \in [AccessIds -> Token]
  /\ calls \in [CallIds -> CallRecord]
  /\ clock \in Nat

-----------------------------------------------------------------------------
(* Helpers *)

Unused ==
  [status |-> "unused", client |-> NoRow, scopes |-> {}, expiresAt |-> 0,
   redeemed |-> 0, replacedBy |-> NoToken]

NewToken(client, scopes, ttl) ==
  [status |-> "active", client |-> client, scopes |-> scopes,
   expiresAt |-> clock + ttl, redeemed |-> 0, replacedBy |-> NoToken]

Idle ==
  [pc |-> "idle", input |-> NoInput, row |-> NoRow, scopes |-> {},
   heir |-> NoToken, over |-> {}, off |-> FALSE]

Live(token) == token.status = "active" /\ token.expiresAt > clock

Ended(token) == token.status # "unused" /\ ~Live(token)

Over ==
  {id \in CodeIds : Ended(codes[id])}
  \cup {id \in RefreshIds : Ended(refreshTokens[id])}
  \cup {id \in AccessIds : Ended(accessTokens[id])}

Tenant(client) == ClientTenant[client]

\* What is left of the scopes a call asks for.
Granted(asked, allowed) == asked \cap allowed

Revoked(tokens, client) ==
  [id \in DOMAIN tokens |->
     IF tokens[id].status = "active" /\ tokens[id].client = client
     THEN [tokens[id] EXCEPT !.status = "revoked"] ELSE tokens[id]]

Swept(tokens) ==
  [id \in DOMAIN tokens |->
     IF tokens[id].status = "active" /\ tokens[id].expiresAt <= clock
     THEN [tokens[id] EXCEPT !.status = "revoked"] ELSE tokens[id]]

Patched(row, patch) ==
  [field \in DOMAIN row |-> IF field \in DOMAIN patch THEN patch[field] ELSE row[field]]

\* A client that does not authenticate with a secret keeps none.
Merged(row, patch) ==
  LET merged == Patched(row, patch) IN
  IF merged.method = "shared_secret" THEN merged ELSE [merged EXCEPT !.secret = 0]

-----------------------------------------------------------------------------
(* Arrival: the first read *)

Init ==
  /\ clients = [client \in Clients |->
                  [active |-> TRUE, scopes |-> InitialScopes, grants |-> Kinds,
                   method |-> InitialMethod[client],
                   secret |-> IF InitialMethod[client] = "shared_secret" THEN 1 ELSE 0]]
  /\ minted = 1
  /\ activeTenants = Tenants
  /\ codes = [id \in CodeIds |-> Unused]
  /\ refreshTokens = [id \in RefreshIds |-> Unused]
  /\ accessTokens = [id \in AccessIds |-> Unused]
  /\ calls = [c \in CallIds |-> Idle]
  /\ clock = 0

Goes(c, call) == calls' = [calls EXCEPT ![c] = call]

tables == <<clients, minted, activeTenants, codes, refreshTokens, accessTokens>>

Arrival(input, pc) ==
  [Idle EXCEPT !.pc = pc, !.input = input, !.row = clients[input.client],
               !.over = Over, !.off = Tenant(input.client) \notin activeTenants]

\* authorize and issueToken read the client; a disabled one is refused, and
\* a call that is refused on arrival changes nothing and is not represented.
ReadClient(c, input) ==
  /\ calls[c].pc = "idle"
  /\ input.kind \in TokenCalls
  /\ clients[input.client].active
  /\ Goes(c, Arrival(input, "tenant"))
  /\ UNCHANGED <<tables, clock>>

\* authenticateBearerToken reads the access token.
ReadBearer(c, input) ==
  /\ calls[c].pc = "idle"
  /\ input.kind = "bearer"
  /\ accessTokens[input.token].status = "active"
  /\ accessTokens[input.token].client = input.client
  /\ Goes(c, Arrival(input, "tenant"))
  /\ UNCHANGED <<tables, clock>>

\* updateClient and rotateClientSecret read the row they will write back; a
\* client without a secret has none to rotate.
ReadForWrite(c, input) ==
  /\ calls[c].pc = "idle"
  /\ \/ input.kind = "update"
     \/ input.kind = "rotate" /\ clients[input.client].method = "shared_secret"
  /\ Goes(c, Arrival(input, "upsert"))
  /\ UNCHANGED <<tables, clock>>

-----------------------------------------------------------------------------
(* Token calls *)

\* authenticateClientCredentials.
Authenticates(row, input) ==
  \/ row.method = "none"
  \/ row.method = "private_key_jwt" /\ input.asserted
  \/ row.method = "shared_secret" /\ row.secret # 0 /\ input.secret = row.secret

\* requireActiveTenant, and what the handler checks before its next await:
\* the credentials and configuration of the client as it was read, and for a
\* bearer token its expiry.
Passes(call) ==
  LET input == call.input IN
  CASE input.kind \in Grants ->
         Authenticates(call.row, input) /\ input.kind \in call.row.grants
    [] input.kind = "authorize" -> "authorization_code" \in call.row.grants
    [] input.kind = "bearer" -> accessTokens[input.token].expiresAt > clock

AfterTenant(call) ==
  LET scopes == Granted(call.input.scopes, call.row.scopes) IN
  CASE call.input.kind = "client_credentials" /\ scopes # {} ->
         [call EXCEPT !.pc = "issueAccess", !.scopes = scopes]
    [] call.input.kind = "authorize" /\ scopes # {} ->
         [call EXCEPT !.pc = "createCode", !.scopes = scopes]
    [] call.input.kind = "authorization_code" -> [call EXCEPT !.pc = "consume"]
    [] call.input.kind = "refresh_token" -> [call EXCEPT !.pc = "readRefresh"]
    [] OTHER -> Idle

CheckCredentialsOnly(c) ==
  LET call == calls[c] IN
  /\ call.pc = "tenant"
  /\ Goes(c, IF ~Passes(call) THEN Idle
             ELSE IF call.input.kind = "bearer" THEN [call EXCEPT !.pc = "accepted"]
             ELSE AfterTenant(call))
  /\ UNCHANGED <<tables, clock>>

CheckTenant(c) ==
  LET call == calls[c] IN
  /\ call.pc = "tenant"
  /\ Goes(c, IF Tenant(call.input.client) \notin activeTenants \/ ~Passes(call)
             THEN Idle
             ELSE IF call.input.kind = "bearer" THEN [call EXCEPT !.pc = "accepted"]
             ELSE AfterTenant(call))
  /\ UNCHANGED <<tables, clock>>

CreateCode(c, id) ==
  LET call == calls[c] IN
  /\ call.pc = "createCode"
  /\ codes[id].status = "unused"
  /\ codes' = [codes EXCEPT ![id] = NewToken(call.input.client, call.scopes, CodeTtl)]
  /\ Goes(c, Idle)
  /\ UNCHANGED <<clients, minted, activeTenants, refreshTokens, accessTokens, clock>>

ConsumedLater(code) == code

\* consumeByHash is one transaction.  It consumes the code before the
\* handler looks at whose it is; a code found expired is revoked.
Consumed(code) ==
  CASE Live(code) -> [code EXCEPT !.status = "consumed"]
    [] code.status = "active" /\ ~Live(code) -> [code EXCEPT !.status = "revoked"]
    [] code.status # "active" -> code

\* The checks on a code or a refresh token once it is read.
BelongsToAnyone(call, token) ==
  /\ Live(token)
  /\ call.input.proof
  /\ Granted(call.input.scopes, token.scopes) # {}

RedeemableForEver(call, token) ==
  /\ token.client = call.input.client
  /\ call.input.proof
  /\ Granted(call.input.scopes, token.scopes) # {}

Redeemable(call, token) ==
  /\ Live(token)
  /\ token.client = call.input.client
  /\ call.input.proof
  /\ Granted(call.input.scopes, token.scopes) # {}

ConsumeCode(c) ==
  LET call == calls[c]
      code == codes[call.input.token]
  IN
  /\ call.pc = "consume"
  /\ codes' = [codes EXCEPT ![call.input.token] = Consumed(@)]
  /\ Goes(c, IF Redeemable(call, code)
             THEN [call EXCEPT !.pc = "issueAccess",
                               !.scopes = Granted(call.input.scopes, code.scopes)]
             ELSE Idle)
  /\ UNCHANGED <<clients, minted, activeTenants, refreshTokens, accessTokens, clock>>

\* The refresh token is read without a lock.
ReadRefresh(c) ==
  LET call == calls[c]
      token == refreshTokens[call.input.token]
  IN
  /\ call.pc = "readRefresh"
  /\ Goes(c, IF Redeemable(call, token)
             THEN [call EXCEPT !.pc = "refreshTenant",
                               !.scopes = Granted(call.input.scopes, token.scopes)]
             ELSE Idle)
  /\ UNCHANGED <<tables, clock>>

CheckRefreshTenant(c) ==
  LET call == calls[c] IN
  /\ call.pc = "refreshTenant"
  /\ Goes(c, IF Tenant(call.input.client) \in activeTenants
             THEN [call EXCEPT !.pc = "issueAccess"] ELSE Idle)
  /\ UNCHANGED <<tables, clock>>

Redeem(token) == [token EXCEPT !.redeemed = @ + 1]

IssueAccess(c, id) ==
  LET call == calls[c] IN
  /\ call.pc = "issueAccess"
  /\ accessTokens[id].status = "unused"
  /\ accessTokens' = [accessTokens EXCEPT
                        ![id] = NewToken(call.input.client, call.scopes, AccessTtl)]
  /\ codes' = IF call.input.kind = "authorization_code"
              THEN [codes EXCEPT ![call.input.token] = Redeem(@)] ELSE codes
  /\ Goes(c, IF \/ call.input.kind = "client_credentials"
                \/ "refresh_token" \notin call.row.grants
             THEN Idle ELSE [call EXCEPT !.pc = "issueRefresh"])
  /\ UNCHANGED <<clients, minted, activeTenants, refreshTokens, clock>>

IssueRefresh(c, id) ==
  LET call == calls[c] IN
  /\ call.pc = "issueRefresh"
  /\ refreshTokens[id].status = "unused"
  /\ refreshTokens' = [refreshTokens EXCEPT
                         ![id] = NewToken(call.input.client, call.scopes, RefreshTtl)]
  /\ Goes(c, IF call.input.kind = "refresh_token"
             THEN [call EXCEPT !.pc = "replace", !.heir = id] ELSE Idle)
  /\ UNCHANGED <<clients, minted, activeTenants, codes, accessTokens, clock>>

\* UPDATE ... WHERE status = 'active'; the handler does not look at the
\* number of rows, and answers with the new tokens either way.
Replaced(token, heir) ==
  IF token.status = "active"
  THEN [token EXCEPT !.status = "revoked", !.replacedBy = heir] ELSE token

ReplaceRefresh(c) ==
  LET call == calls[c] IN
  /\ call.pc = "replace"
  /\ refreshTokens' = [refreshTokens EXCEPT
                         ![call.input.token] = Replaced(@, call.heir)]
  /\ Goes(c, Idle)
  /\ UNCHANGED <<clients, minted, activeTenants, codes, accessTokens, clock>>

\* touch, and the answer to the request the token came with.
Touch(c) ==
  /\ calls[c].pc = "accepted"
  /\ Goes(c, Idle)
  /\ UNCHANGED <<tables, clock>>

-----------------------------------------------------------------------------
(* Administration *)

\* The upsert writes every column of the row back, merged with the patch or
\* with the new secret.  A patch of the display name alone revokes nothing.
Upsert(c) ==
  LET call == calls[c]
      client == call.input.client
      updated == call.input.kind = "update"
  IN
  /\ call.pc = "upsert"
  /\ updated \/ minted < MaxSecret
  /\ clients' = [clients EXCEPT
                   ![client] = IF updated THEN Merged(call.row, call.input.patch)
                               ELSE [call.row EXCEPT !.secret = minted + 1]]
  /\ minted' = IF updated THEN minted ELSE minted + 1
  /\ Goes(c, IF updated /\ DOMAIN call.input.patch = {} THEN Idle
             ELSE [call EXCEPT !.pc = "revokeAccess"])
  /\ UNCHANGED <<activeTenants, codes, refreshTokens, accessTokens, clock>>

RevokeAccess(c) ==
  /\ calls[c].pc = "revokeAccess"
  /\ accessTokens' = Revoked(accessTokens, calls[c].input.client)
  /\ Goes(c, [calls[c] EXCEPT !.pc = "revokeRefresh"])
  /\ UNCHANGED <<clients, minted, activeTenants, codes, refreshTokens, clock>>

RevokeRefresh(c) ==
  /\ calls[c].pc = "revokeRefresh"
  /\ refreshTokens' = Revoked(refreshTokens, calls[c].input.client)
  /\ Goes(c, [calls[c] EXCEPT !.pc = "revokeCodes"])
  /\ UNCHANGED <<clients, minted, activeTenants, codes, accessTokens, clock>>

RevokeCodes(c) ==
  /\ calls[c].pc = "revokeCodes"
  /\ codes' = Revoked(codes, calls[c].input.client)
  /\ Goes(c, Idle)
  /\ UNCHANGED <<clients, minted, activeTenants, refreshTokens, accessTokens, clock>>

\* revokeToken and revokeRefreshToken: one UPDATE of an active row.
RevokeAccessToken(id) ==
  /\ accessTokens[id].status = "active"
  /\ accessTokens' = [accessTokens EXCEPT ![id].status = "revoked"]
  /\ UNCHANGED <<clients, minted, activeTenants, codes, refreshTokens, calls, clock>>

RevokeRefreshToken(id) ==
  /\ refreshTokens[id].status = "active"
  /\ refreshTokens' = [refreshTokens EXCEPT ![id].status = "revoked"]
  /\ UNCHANGED <<clients, minted, activeTenants, codes, accessTokens, calls, clock>>

DisableTenant(tenant) ==
  /\ tenant \in activeTenants
  /\ activeTenants' = activeTenants \ {tenant}
  /\ UNCHANGED <<clients, minted, codes, refreshTokens, accessTokens, calls, clock>>

EnableTenant(tenant) ==
  /\ tenant \notin activeTenants
  /\ activeTenants' = activeTenants \cup {tenant}
  /\ calls' = [c \in CallIds |->
                 IF calls[c].input # NoInput /\ Tenant(calls[c].input.client) = tenant
                 THEN [calls[c] EXCEPT !.off = FALSE] ELSE calls[c]]
  /\ UNCHANGED <<clients, minted, codes, refreshTokens, accessTokens, clock>>

\* The maintenance loop: tokens are marked, codes are deleted.
SweepAccess ==
  /\ accessTokens' = Swept(accessTokens)
  /\ UNCHANGED <<clients, minted, activeTenants, codes, refreshTokens, calls, clock>>

SweepRefresh ==
  /\ refreshTokens' = Swept(refreshTokens)
  /\ UNCHANGED <<clients, minted, activeTenants, codes, accessTokens, calls, clock>>

SweepCodes ==
  /\ codes' = [id \in CodeIds |-> IF Ended(codes[id])
                                  THEN [codes[id] EXCEPT !.status = "removed"]
                                  ELSE codes[id]]
  /\ UNCHANGED <<clients, minted, activeTenants, refreshTokens, accessTokens, calls, clock>>

\* A statement fails, or the process stops with every call it has: what was
\* written stays, the rest of the call does not happen.
Fail(c) ==
  /\ MayFail
  /\ calls[c].pc # "idle"
  /\ Goes(c, Idle)
  /\ UNCHANGED <<tables, clock>>

Tick ==
  /\ clock < MaxClock
  /\ clock' = clock + 1
  /\ UNCHANGED <<tables, calls>>

Step(c) ==
  \/ \E input \in Inputs :
       ReadClient(c, input) \/ ReadBearer(c, input) \/ ReadForWrite(c, input)
  \/ CheckTenant(c) \/ ConsumeCode(c) \/ ReadRefresh(c) \/ CheckRefreshTenant(c)
  \/ \E id \in CodeIds : CreateCode(c, id)
  \/ \E id \in AccessIds : IssueAccess(c, id)
  \/ \E id \in RefreshIds : IssueRefresh(c, id)
  \/ ReplaceRefresh(c) \/ Touch(c)
  \/ Upsert(c) \/ RevokeAccess(c) \/ RevokeRefresh(c) \/ RevokeCodes(c)
  \/ Fail(c)

Next ==
  \/ \E c \in CallIds : Step(c)
  \/ \E id \in AccessIds : RevokeAccessToken(id)
  \/ \E id \in RefreshIds : RevokeRefreshToken(id)
  \/ \E tenant \in Tenants : DisableTenant(tenant) \/ EnableTenant(tenant)
  \/ SweepAccess \/ SweepRefresh \/ SweepCodes
  \/ Tick

Spec == Init /\ [][Next]_vars

-----------------------------------------------------------------------------
(* Properties *)

\* The call has passed every check on its code, its token or its client.
Committed(call) == call.pc \in {"issueAccess", "issueRefresh", "replace", "accepted"}

Source(id) == IF id \in CodeIds THEN codes[id] ELSE refreshTokens[id]

\* docs/conformance.md: "single-use authorization codes".  However many calls
\* bring the same code, at most one access token is issued for it.
CodesAreSingleUse ==
  \A id \in CodeIds : codes[id].redeemed <= 1

\* docs/roadmap.md: rotated refresh-token replay is rejected.  A code that was
\* consumed or a token that was revoked, rotated or past its expiry when a call
\* arrived gives that call nothing.
DeadTokensGiveNothing ==
  \A c \in CallIds :
    Committed(calls[c]) /\ calls[c].input.kind # "client_credentials" =>
      calls[c].input.token \notin calls[c].over

\* A code or refresh token works for its own client only, and what is issued
\* for it carries no scope or role that it did not.
TokensOnlyNarrow ==
  /\ \A c \in CallIds :
       LET call == calls[c] IN
       Committed(call) /\ call.input.kind \in {"authorization_code", "refresh_token"} =>
         /\ Source(call.input.token).client = call.input.client
         /\ call.scopes \subseteq Source(call.input.token).scopes
  /\ \A id \in RefreshIds :
       LET heir == refreshTokens[id].replacedBy IN
       heir # NoToken =>
         /\ refreshTokens[heir].client = refreshTokens[id].client
         /\ refreshTokens[heir].scopes \subseteq refreshTokens[id].scopes

\* docs/conformance.md: "disabled-tenant token behavior".  While a tenant is
\* disabled, a call that arrives gets no token and no token is accepted.
DisabledTenantGetsNothing ==
  \A c \in CallIds : Committed(calls[c]) => ~calls[c].off

=============================================================================
