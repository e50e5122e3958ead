------------------------- MODULE TokenServiceProofs -------------------------
(***************************************************************************)
(* What holds of TokenService for every set of clients, tenants, scopes,   *)
(* tokens and calls, and every bound: the types, that codes are used once, *)
(* that dead tokens and disabled tenants give nothing, and that what is    *)
(* issued for a token is no wider than it.                                 *)
(***************************************************************************)
EXTENDS TokenService, TLAPS

\* The calls that may be suspended at each await.
KindsAt(pc) ==
  CASE pc = "tenant" -> TokenCalls \cup {"bearer"}
    [] pc = "createCode" -> {"authorize"}
    [] pc = "consume" -> {"authorization_code"}
    [] pc \in {"readRefresh", "refreshTenant", "replace"} -> {"refresh_token"}
    [] pc \in {"issueAccess", "issueRefresh"} -> Grants
    [] pc = "accepted" -> {"bearer"}
    [] pc \in {"upsert", "revokeAccess", "revokeRefresh", "revokeCodes"} ->
         {"update", "rotate"}

\* A call in progress has an input and has read its client.
Received(call) ==
  call.pc # "idle" =>
    /\ call.input \in Inputs
    /\ call.row \in ClientRow
    /\ call.input.kind \in KindsAt(call.pc)
    /\ call.pc = "replace" => call.heir \in RefreshIds

TypeInv == TypeOK /\ \A c \in CallIds : Received(calls[c])

\* A token that is used stays used, keeps what it was issued with, and is
\* never active again.
Later(old, new) ==
  old.status # "unused" =>
    /\ new.status # "unused"
    /\ new.client = old.client /\ new.scopes = old.scopes
    /\ new.expiresAt = old.expiresAt
    /\ old.status # "active" => new.status # "active"

TokenAt(id) ==
  IF id \in CodeIds THEN codes[id]
  ELSE IF id \in RefreshIds THEN refreshTokens[id]
  ELSE accessTokens[id]

\* The call has passed requireActiveTenant.
PastTenant(call) ==
  call.pc \in {"createCode", "consume", "readRefresh", "refreshTenant"} \/ Committed(call)

\* The code or refresh token of the call was found to be good for it.
FoundGood(call) ==
  /\ call.pc = "refreshTenant" \/ Committed(call)
  /\ call.input.kind \in {"authorization_code", "refresh_token"}

\* The token was issued to the client of the call, and for what the call grants.
Covers(token, call) ==
  /\ token.status # "unused"
  /\ token.client = call.input.client
  /\ call.scopes \subseteq token.scopes

\* What a suspended call still knows.  What was dead when it arrived is dead.
DeadIsDead(c) ==
  \A id \in calls[c].over : Ended(TokenAt(id))

\* A bearer token read active that was dead on arrival is one whose time was up.
BearerIsKnown(c) ==
  LET input == calls[c].input
      bearer == accessTokens[input.token]
  IN
  calls[c].pc = "tenant" /\ input.kind = "bearer" =>
    /\ bearer.status # "unused"
    /\ input.token \in calls[c].over => bearer.expiresAt <= clock

\* The tenant that was off on arrival is off, and the call has not passed it.
OffIsOff(c) ==
  /\ calls[c].off => Tenant(calls[c].input.client) \notin activeTenants
  /\ PastTenant(calls[c]) => ~calls[c].off

\* The code or token found good was alive on arrival and covers the call.
FoundIsGood(c) ==
  LET input == calls[c].input IN
  /\ FoundGood(calls[c]) \/ calls[c].pc = "accepted" => input.token \notin calls[c].over
  /\ FoundGood(calls[c]) /\ input.kind = "authorization_code" =>
       Covers(codes[input.token], calls[c])
  /\ FoundGood(calls[c]) /\ input.kind = "refresh_token" =>
       Covers(refreshTokens[input.token], calls[c])

\* The heir the call issued is its client's and carries what the call grants.
HeirIsOwn(c) ==
  LET heir == refreshTokens[calls[c].heir] IN
  calls[c].pc = "replace" =>
    Covers(heir, calls[c]) /\ heir.scopes = calls[c].scopes

Knows(c) ==
  /\ DeadIsDead(c) /\ BearerIsKnown(c) /\ OffIsOff(c) /\ FoundIsGood(c) /\ HeirIsOwn(c)

\* A successor is of the client of its predecessor, and no wider.
HeirNarrows(id) ==
  LET token == refreshTokens[id]
      heir == refreshTokens[token.replacedBy]
  IN
  token.replacedBy # NoToken =>
    /\ token.status # "unused" /\ heir.status # "unused"
    /\ heir.client = token.client
    /\ heir.scopes \subseteq token.scopes

HeirsNarrow == \A id \in RefreshIds : HeirNarrows(id)

\* The call holds a consumed code for which it has yet to issue a token.
Redeeming(call, id) ==
  /\ call.pc = "issueAccess"
  /\ call.input.kind = "authorization_code"
  /\ call.input.token = id

\* CodesAreSingleUse counts tokens that were issued; what makes it inductive is
\* that at most one call can still issue another, and only if none was.
SingleUse(id) ==
  /\ codes[id].redeemed <= 1
  /\ codes[id].status \in {"unused", "active"} => codes[id].redeemed = 0
  /\ \A c \in CallIds : Redeeming(calls[c], id) =>
       /\ codes[id].status \notin {"unused", "active"}
       /\ codes[id].redeemed = 0
  /\ \A c, d \in CallIds :
       Redeeming(calls[c], id) /\ Redeeming(calls[d], id) => c = d

CodesInv == \A id \in CodeIds : SingleUse(id)

IInv ==
  /\ TypeInv
  /\ \A c \in CallIds : calls[c].pc # "idle" => Knows(c)
  /\ HeirsNarrow
  /\ CodesInv

-----------------------------------------------------------------------------
(* Inputs *)

LEMMA InputTypes ==
  ASSUME NEW input \in Inputs
  PROVE  /\ input.client \in Clients
         /\ input # NoInput
         /\ input.kind \in TokenCalls =>
              input.scopes \in SUBSET Scopes /\ input.proof \in BOOLEAN
         /\ input.kind = "authorization_code" => input.token \in CodeIds
         /\ input.kind = "refresh_token" => input.token \in RefreshIds
         /\ input.kind = "bearer" => input.token \in AccessIds
         /\ input.kind = "update" => input.patch \in Patches
         /\ input.kind \in TokenCalls \cup {"bearer", "update", "rotate"}
  BY TokenServiceAssumption DEF Input, TokenCalls, Grants

LEMMA PatchTypes ==
  ASSUME NEW row \in ClientRow, NEW patch \in Patches
  PROVE  Merged(row, patch) \in ClientRow
  <1>1. DOMAIN row = {"active", "scopes", "grants", "method", "secret"}
    BY DEF ClientRow
  <1>2. /\ "active" \in DOMAIN patch => patch["active"] \in BOOLEAN
        /\ "scopes" \in DOMAIN patch => patch["scopes"] \subseteq Scopes
        /\ "grants" \in DOMAIN patch => patch["grants"] \subseteq Kinds
        /\ "method" \in DOMAIN patch => patch["method"] \in Methods
        /\ DOMAIN patch \subseteq {"active", "scopes", "grants", "method"}
    BY TokenServiceAssumption
  <1> DEFINE merged == Patched(row, patch)
  <1>3. merged = [active |-> merged["active"], scopes |-> merged["scopes"],
                  grants |-> merged["grants"], method |-> merged["method"],
                  secret |-> merged["secret"]]
    BY <1>1 DEF Patched
  <1>4. /\ merged["active"] \in BOOLEAN /\ merged["scopes"] \in SUBSET Scopes
        /\ merged["grants"] \in SUBSET Kinds /\ merged["method"] \in Methods
        /\ merged["secret"] \in Nat
    <2>1. /\ row["active"] \in BOOLEAN /\ row["scopes"] \in SUBSET Scopes
          /\ row["grants"] \in SUBSET Kinds /\ row["method"] \in Methods
          /\ row["secret"] \in Nat
      BY DEF ClientRow
    <2> QED
      BY <1>1, <1>2, <2>1 DEF Patched
  <1> HIDE DEF merged
  <1>5. merged \in ClientRow /\ [merged EXCEPT !.secret = 0] \in ClientRow
    <2>1. merged \in ClientRow
      BY <1>3, <1>4 DEF ClientRow
    <2> QED
      BY <2>1 DEF ClientRow
  <1> QED
    BY <1>5 DEF Merged, merged

-----------------------------------------------------------------------------
(* Tokens *)

LEMMA TokenTypes ==
  ASSUME TypeOK
  PROVE  /\ Unused \in Token
         /\ \A client \in Clients, scopes \in SUBSET Scopes, ttl \in Nat :
              NewToken(client, scopes, ttl) \in Token
         /\ \A token \in Token : Consumed(token) \in Token /\ Redeem(token) \in Token
         /\ \A token \in Token, heir \in RefreshIds : Replaced(token, heir) \in Token
         /\ \A token \in Token, status \in Statuses :
              [token EXCEPT !.status = status] \in Token
  <1>1. Unused \in Token
    BY TokenServiceAssumption DEF Unused, Token, Statuses
  <1>2. \A client \in Clients, scopes \in SUBSET Scopes, ttl \in Nat :
              NewToken(client, scopes, ttl) \in Token
    BY TokenServiceAssumption DEF NewToken, Token, Statuses, TypeOK
  <1>3. \A token \in Token, status \in Statuses :
              [token EXCEPT !.status = status] \in Token
    BY DEF Token
  <1>4. \A token \in Token : Consumed(token) \in Token
    BY <1>3 DEF Consumed, Live, Statuses
  <1>5. \A token \in Token : Redeem(token) \in Token
    BY DEF Redeem, Token
  <1>6. \A token \in Token, heir \in RefreshIds : Replaced(token, heir) \in Token
    BY DEF Replaced, Token, Statuses
  <1> QED
    BY <1>1, <1>2, <1>3, <1>4, <1>5, <1>6

LEMMA SweptTypes ==
  ASSUME TypeOK, NEW Ids, NEW tokens \in [Ids -> Token]
  PROVE  /\ Swept(tokens) \in [Ids -> Token]
         /\ \A client : Revoked(tokens, client) \in [Ids -> Token]
  BY TokenTypes DEF Swept, Revoked, Statuses

-----------------------------------------------------------------------------
(* Types *)

LEMMA CallsStayTyped ==
  ASSUME TypeInv, NEW c \in CallIds, NEW call, call \in CallRecord, Received(call),
         Goes(c, call)
  PROVE  /\ calls' \in [CallIds -> CallRecord]
         /\ \A d \in CallIds : Received(calls'[d])
  BY DEF TypeInv, TypeOK, Goes

LEMMA IdleTyped == Idle \in CallRecord /\ Received(Idle)
  BY TokenServiceAssumption DEF Idle, CallRecord, Pcs, Received, TokenIds

LEMMA ArrivalTyped ==
  ASSUME TypeInv, NEW input \in Inputs, NEW pc \in Pcs \ {"replace"},
         input.kind \in KindsAt(pc)
  PROVE  Arrival(input, pc) \in CallRecord /\ Received(Arrival(input, pc))
  <1>1. input.client \in Clients /\ clients[input.client] \in ClientRow
    BY InputTypes DEF TypeInv, TypeOK
  <1>2. Over \in SUBSET TokenIds
    BY DEF Over, TokenIds
  <1> DEFINE off == Tenant(input.client) \notin activeTenants
             read(value) == [Idle EXCEPT !.pc = pc, !.input = input,
                                         !.row = clients[input.client],
                                         !.over = Over, !.off = value]
  <1>3. \A value \in BOOLEAN : read(value) \in CallRecord
    BY <1>1, <1>2, IdleTyped DEF CallRecord
  <1>4. \A value \in BOOLEAN : Received(read(value))
    BY <1>1, IdleTyped DEF CallRecord, Received
  <1>5. off \in BOOLEAN
    OBVIOUS
  <1> HIDE DEF off, read
  <1>6. read(off) \in CallRecord /\ Received(read(off))
    BY <1>3, <1>4, <1>5
  <1> QED
    BY <1>6 DEF Arrival, off, read

\* A call that goes on keeps what it has; it may add scopes or an heir.
LEMMA GoesOnTyped ==
  ASSUME TypeInv, NEW c \in CallIds, calls[c].pc # "idle",
         NEW pc \in Pcs \ {"replace"}, calls[c].input.kind \in KindsAt(pc)
  PROVE  /\ [calls[c] EXCEPT !.pc = pc] \in CallRecord
         /\ Received([calls[c] EXCEPT !.pc = pc])
         /\ \A scopes \in SUBSET Scopes :
              /\ [calls[c] EXCEPT !.pc = pc, !.scopes = scopes] \in CallRecord
              /\ Received([calls[c] EXCEPT !.pc = pc, !.scopes = scopes])
  <1>1. calls[c] \in CallRecord /\ Received(calls[c])
    BY DEF TypeInv, TypeOK
  <1> QED
    BY <1>1 DEF CallRecord, Received

\* The awaits of a token call that has passed requireActiveTenant.
LEMMA AfterTenantTyped ==
  ASSUME TypeInv, NEW c \in CallIds, calls[c].pc = "tenant",
         calls[c].input.kind # "bearer"
  PROVE  AfterTenant(calls[c]) \in CallRecord /\ Received(AfterTenant(calls[c]))
  <1> DEFINE call == calls[c]
             scopes == Granted(call.input.scopes, call.row.scopes)
  <1>1. call \in CallRecord /\ Received(call) /\ call.input \in Inputs
    BY DEF TypeInv, TypeOK, Received
  <1>2. call.input.kind \in TokenCalls
    BY <1>1 DEF Received, KindsAt
  <1>3. scopes \in SUBSET Scopes
    BY <1>1, <1>2, InputTypes DEF Granted
  <1>4. CASE call.input.kind = "client_credentials"
    <2>1. /\ [call EXCEPT !.pc = "issueAccess", !.scopes = scopes] \in CallRecord
          /\ Received([call EXCEPT !.pc = "issueAccess", !.scopes = scopes])
      BY <1>3, <1>4, GoesOnTyped DEF Pcs, KindsAt, Grants
    <2> QED
      BY <1>4, <2>1, IdleTyped DEF AfterTenant
  <1>5. CASE call.input.kind = "authorize"
    <2>1. /\ [call EXCEPT !.pc = "createCode", !.scopes = scopes] \in CallRecord
          /\ Received([call EXCEPT !.pc = "createCode", !.scopes = scopes])
      BY <1>3, <1>5, GoesOnTyped DEF Pcs, KindsAt
    <2> QED
      BY <1>5, <2>1, IdleTyped DEF AfterTenant
  <1>6. CASE call.input.kind = "authorization_code"
    <2>1. /\ [call EXCEPT !.pc = "consume"] \in CallRecord
          /\ Received([call EXCEPT !.pc = "consume"])
      BY <1>6, GoesOnTyped DEF Pcs, KindsAt
    <2> QED
      BY <1>6, <2>1 DEF AfterTenant
  <1>7. CASE call.input.kind = "refresh_token"
    <2>1. /\ [call EXCEPT !.pc = "readRefresh"] \in CallRecord
          /\ Received([call EXCEPT !.pc = "readRefresh"])
      BY <1>7, GoesOnTyped DEF Pcs, KindsAt
    <2> QED
      BY <1>7, <2>1 DEF AfterTenant
  <1> QED
    BY <1>2, <1>4, <1>5, <1>6, <1>7 DEF TokenCalls, Grants

\* What each step of a call leaves of that call.
LEMMA StepTypes ==
  ASSUME TypeInv, NEW c \in CallIds, Step(c)
  PROVE  TypeInv'
  <1> USE DEF TypeInv
  <1>0. /\ calls[c] \in CallRecord /\ Received(calls[c])
        /\ calls[c].pc # "idle" =>
             calls[c].input \in Inputs /\ calls[c].input.client \in Clients
    BY InputTypes DEF TypeOK, Received
  <1>1. ASSUME NEW input \in Inputs,
               ReadClient(c, input) \/ ReadBearer(c, input) \/ ReadForWrite(c, input)
        PROVE  TypeInv'
    <2>1. CASE ReadForWrite(c, input)
      <3>1. Arrival(input, "upsert") \in CallRecord /\ Received(Arrival(input, "upsert"))
        BY <2>1, ArrivalTyped DEF ReadForWrite, Pcs, KindsAt
      <3> QED
        BY <2>1, <3>1, CallsStayTyped DEF ReadForWrite, TypeOK, tables
    <2>2. CASE ReadClient(c, input) \/ ReadBearer(c, input)
      <3>1. Arrival(input, "tenant") \in CallRecord /\ Received(Arrival(input, "tenant"))
        BY <2>2, ArrivalTyped DEF ReadClient, ReadBearer, Pcs, KindsAt
      <3> QED
        BY <2>2, <3>1, CallsStayTyped DEF ReadClient, ReadBearer, TypeOK, tables
    <2> QED
      BY <1>1, <2>1, <2>2
  <1>2. CASE CheckTenant(c)
    <2>1. CASE Goes(c, Idle)
      BY <1>2, <2>1, IdleTyped, CallsStayTyped DEF CheckTenant, TypeOK, tables
    <2>2. CASE calls[c].input.kind = "bearer" /\ Goes(c, [calls[c] EXCEPT !.pc = "accepted"])
      <3>1. /\ [calls[c] EXCEPT !.pc = "accepted"] \in CallRecord
            /\ Received([calls[c] EXCEPT !.pc = "accepted"])
        BY <1>2, <2>2, GoesOnTyped DEF CheckTenant, Pcs, KindsAt
      <3> QED
        BY <1>2, <2>2, <3>1, CallsStayTyped DEF CheckTenant, TypeOK, tables
    <2>3. CASE calls[c].input.kind # "bearer" /\ Goes(c, AfterTenant(calls[c]))
      BY <1>2, <2>3, AfterTenantTyped, CallsStayTyped DEF CheckTenant, TypeOK, tables
    <2> QED
      BY <1>2, <2>1, <2>2, <2>3 DEF CheckTenant
  <1>3. CASE ConsumeCode(c)
    <2> DEFINE call == calls[c]
               code == codes[call.input.token]
               scopes == Granted(call.input.scopes, code.scopes)
    <2>1. call.input.kind = "authorization_code" /\ call.input.token \in CodeIds
      BY <1>0, <1>3, InputTypes DEF ConsumeCode, Received, KindsAt
    <2>2. code \in Token /\ Consumed(code) \in Token
      BY <2>1, TokenTypes DEF TypeOK
    <2>3. scopes \in SUBSET Scopes
      BY <2>2 DEF Granted, Token
    <2>4. /\ [call EXCEPT !.pc = "issueAccess", !.scopes = scopes] \in CallRecord
          /\ Received([call EXCEPT !.pc = "issueAccess", !.scopes = scopes])
      BY <1>3, <2>1, <2>3, GoesOnTyped DEF ConsumeCode, Pcs, KindsAt, Grants
    <2>5. /\ calls' \in [CallIds -> CallRecord]
          /\ \A d \in CallIds : Received(calls'[d])
      BY <1>3, <2>4, IdleTyped, CallsStayTyped DEF ConsumeCode
    <2> QED
      BY <1>3, <2>1, <2>2, <2>5 DEF ConsumeCode, TypeOK
  <1>4. CASE ReadRefresh(c)
    <2> DEFINE call == calls[c]
               token == refreshTokens[call.input.token]
               scopes == Granted(call.input.scopes, token.scopes)
    <2>1. call.input.kind = "refresh_token" /\ call.input.token \in RefreshIds
      BY <1>0, <1>4, InputTypes DEF ReadRefresh, Received, KindsAt
    <2>2. scopes \in SUBSET Scopes
      BY <2>1 DEF Granted, Token, TypeOK
    <2>3. /\ [call EXCEPT !.pc = "refreshTenant", !.scopes = scopes] \in CallRecord
          /\ Received([call EXCEPT !.pc = "refreshTenant", !.scopes = scopes])
      BY <1>4, <2>1, <2>2, GoesOnTyped DEF ReadRefresh, Pcs, KindsAt
    <2> QED
      BY <1>4, <2>3, IdleTyped, CallsStayTyped DEF ReadRefresh, TypeOK, tables
  <1>5. CASE CheckRefreshTenant(c)
    <2>1. /\ [calls[c] EXCEPT !.pc = "issueAccess"] \in CallRecord
          /\ Received([calls[c] EXCEPT !.pc = "issueAccess"])
      BY <1>0, <1>5, GoesOnTyped DEF CheckRefreshTenant, Received, Pcs, KindsAt, Grants
    <2> QED
      BY <1>5, <2>1, IdleTyped, CallsStayTyped DEF CheckRefreshTenant, TypeOK, tables
  <1>6. ASSUME NEW id \in CodeIds, CreateCode(c, id)
        PROVE  TypeInv'
    <2>1. NewToken(calls[c].input.client, calls[c].scopes, CodeTtl) \in Token
      BY <1>0, <1>6, TokenTypes, TokenServiceAssumption DEF CreateCode, CallRecord
    <2> QED
      BY <1>6, <2>1, IdleTyped, CallsStayTyped DEF CreateCode, TypeOK
  <1>7. ASSUME NEW id \in AccessIds, IssueAccess(c, id)
        PROVE  TypeInv'
    <2>1. NewToken(calls[c].input.client, calls[c].scopes, AccessTtl) \in Token
      BY <1>0, <1>7, TokenTypes, TokenServiceAssumption DEF IssueAccess, CallRecord
    <2>2. codes' \in [CodeIds -> Token]
      BY <1>0, <1>7, InputTypes, TokenTypes DEF IssueAccess, TypeOK
    <2>3. /\ [calls[c] EXCEPT !.pc = "issueRefresh"] \in CallRecord
          /\ Received([calls[c] EXCEPT !.pc = "issueRefresh"])
      BY <1>0, <1>7, GoesOnTyped DEF IssueAccess, Received, Pcs, KindsAt
    <2>4. /\ calls' \in [CallIds -> CallRecord]
          /\ \A d \in CallIds : Received(calls'[d])
      BY <1>7, <2>3, IdleTyped, CallsStayTyped DEF IssueAccess
    <2> QED
      BY <1>7, <2>1, <2>2, <2>4 DEF IssueAccess, TypeOK
  <1>8. ASSUME NEW id \in RefreshIds, IssueRefresh(c, id)
        PROVE  TypeInv'
    <2> DEFINE replacing == [calls[c] EXCEPT !.pc = "replace", !.heir = id]
    <2>1. NewToken(calls[c].input.client, calls[c].scopes, RefreshTtl) \in Token
      BY <1>0, <1>8, TokenTypes, TokenServiceAssumption DEF IssueRefresh, CallRecord
    <2>2. calls[c].input.kind = "refresh_token" =>
            replacing \in CallRecord /\ Received(replacing)
      BY <1>0, <1>8 DEF IssueRefresh, CallRecord, Received, Pcs, KindsAt
    <2>3. /\ calls' \in [CallIds -> CallRecord]
          /\ \A d \in CallIds : Received(calls'[d])
      BY <1>8, <2>2, IdleTyped, CallsStayTyped DEF IssueRefresh
    <2> QED
      BY <1>8, <2>1, <2>3 DEF IssueRefresh, TypeOK
  <1>9. CASE ReplaceRefresh(c)
    <2>1. calls[c].input.token \in RefreshIds /\ calls[c].heir \in RefreshIds
      BY <1>0, <1>9, InputTypes DEF ReplaceRefresh, Received, KindsAt
    <2>2. refreshTokens' \in [RefreshIds -> Token]
      BY <1>9, <2>1, TokenTypes DEF ReplaceRefresh, TypeOK
    <2> QED
      BY <1>9, <2>2, IdleTyped, CallsStayTyped DEF ReplaceRefresh, TypeOK
  <1>10. CASE Touch(c) \/ Fail(c)
    BY <1>10, IdleTyped, CallsStayTyped DEF Touch, Fail, TypeOK, tables
  <1>11. CASE Upsert(c)
    <2> DEFINE call == calls[c]
               client == call.input.client
    <2>1. call.input.kind \in {"update", "rotate"} /\ call.row \in ClientRow
      BY <1>0, <1>11 DEF Upsert, Received, KindsAt
    <2>2. call.input.kind = "update" => Merged(call.row, call.input.patch) \in ClientRow
      BY <1>0, <1>11, <2>1, InputTypes, PatchTypes DEF Upsert
    <2>3. minted + 1 \in Nat /\ [call.row EXCEPT !.secret = minted + 1] \in ClientRow
      <3>1. \A row \in ClientRow, n \in Nat : [row EXCEPT !.secret = n] \in ClientRow
        BY DEF ClientRow
      <3>2. minted + 1 \in Nat
        BY DEF TypeOK
      <3> QED
        BY <2>1, <3>1, <3>2
    <2>4. clients' \in [Clients -> ClientRow] /\ minted' \in Nat
      BY <1>0, <1>11, <2>1, <2>2, <2>3 DEF Upsert, TypeOK
    <2>5. /\ [call EXCEPT !.pc = "revokeAccess"] \in CallRecord
          /\ Received([call EXCEPT !.pc = "revokeAccess"])
      BY <1>11, <2>1, GoesOnTyped DEF Upsert, Pcs, KindsAt
    <2>6. /\ calls' \in [CallIds -> CallRecord]
          /\ \A d \in CallIds : Received(calls'[d])
      BY <1>11, <2>5, IdleTyped, CallsStayTyped DEF Upsert
    <2> QED
      BY <1>11, <2>4, <2>6 DEF Upsert, TypeOK
  <1>12. CASE RevokeAccess(c)
    <2>1. /\ [calls[c] EXCEPT !.pc = "revokeRefresh"] \in CallRecord
          /\ Received([calls[c] EXCEPT !.pc = "revokeRefresh"])
      BY <1>0, <1>12, GoesOnTyped DEF RevokeAccess, Received, Pcs, KindsAt
    <2>2. accessTokens' \in [AccessIds -> Token]
      BY <1>12, SweptTypes DEF RevokeAccess, TypeOK
    <2> QED
      BY <1>12, <2>1, <2>2, CallsStayTyped DEF RevokeAccess, TypeOK
  <1>13. CASE RevokeRefresh(c)
    <2>1. /\ [calls[c] EXCEPT !.pc = "revokeCodes"] \in CallRecord
          /\ Received([calls[c] EXCEPT !.pc = "revokeCodes"])
      BY <1>0, <1>13, GoesOnTyped DEF RevokeRefresh, Received, Pcs, KindsAt
    <2>2. refreshTokens' \in [RefreshIds -> Token]
      <3>1. refreshTokens' = Revoked(refreshTokens, calls[c].input.client)
        BY <1>13 DEF RevokeRefresh
      <3>2. refreshTokens \in [RefreshIds -> Token]
        BY DEF TypeOK
      <3> QED
        BY <3>1, <3>2, SweptTypes
    <2>3. /\ calls' \in [CallIds -> CallRecord]
          /\ \A d \in CallIds : Received(calls'[d])
      BY <1>13, <2>1, CallsStayTyped DEF RevokeRefresh
    <2> QED
      BY <1>13, <2>2, <2>3 DEF RevokeRefresh, TypeOK
  <1>14. CASE RevokeCodes(c)
    <2>1. codes' \in [CodeIds -> Token]
      <3>1. codes' = Revoked(codes, calls[c].input.client)
        BY <1>14 DEF RevokeCodes
      <3>2. codes \in [CodeIds -> Token]
        BY DEF TypeOK
      <3> QED
        BY <3>1, <3>2, SweptTypes
    <2>2. /\ calls' \in [CallIds -> CallRecord]
          /\ \A d \in CallIds : Received(calls'[d])
      BY <1>14, IdleTyped, CallsStayTyped DEF RevokeCodes
    <2> QED
      BY <1>14, <2>1, <2>2 DEF RevokeCodes, TypeOK
  <1> QED
    BY <1>1, <1>2, <1>3, <1>4, <1>5, <1>6, <1>7, <1>8, <1>9, <1>10, <1>11, <1>12,
       <1>13, <1>14 DEF Step

LEMMA TypeStep == TypeInv /\ [Next]_vars => TypeInv'
  <1> SUFFICES ASSUME TypeInv, [Next]_vars PROVE TypeInv'
    OBVIOUS
  <1> USE DEF TypeInv
  <1>1. ASSUME NEW id \in AccessIds, RevokeAccessToken(id)
        PROVE  TypeInv'
    BY <1>1, TokenTypes DEF RevokeAccessToken, TypeOK, Statuses
  <1>2. ASSUME NEW id \in RefreshIds, RevokeRefreshToken(id)
        PROVE  TypeInv'
    BY <1>2, TokenTypes DEF RevokeRefreshToken, TypeOK, Statuses
  <1>3. ASSUME NEW tenant \in Tenants, DisableTenant(tenant)
        PROVE  TypeInv'
    BY <1>3 DEF DisableTenant, TypeOK
  <1>4. ASSUME NEW tenant \in Tenants, EnableTenant(tenant)
        PROVE  TypeInv'
    <2>1. \A d \in CallIds : /\ [calls[d] EXCEPT !.off = FALSE] \in CallRecord
                             /\ Received([calls[d] EXCEPT !.off = FALSE])
      BY DEF TypeOK, CallRecord, Received
    <2> QED
      BY <1>4, <2>1 DEF EnableTenant, TypeOK
  <1>5. CASE SweepAccess \/ SweepRefresh
    BY <1>5, SweptTypes DEF SweepAccess, SweepRefresh, TypeOK
  <1>6. CASE SweepCodes
    BY <1>6, TokenTypes DEF SweepCodes, TypeOK, Statuses
  <1>7. CASE Tick
    BY <1>7 DEF Tick, tables, TypeOK
  <1>8. CASE UNCHANGED vars
    BY <1>8 DEF vars, TypeOK
  <1> QED
    BY <1>1, <1>2, <1>3, <1>4, <1>5, <1>6, <1>7, <1>8, StepTypes DEF Next

LEMMA InitTypes == Init => TypeInv
  <1> SUFFICES ASSUME Init PROVE TypeInv
    OBVIOUS
  <1>1. clients \in [Clients -> ClientRow]
    <2>1. \A method \in Methods, secret \in Nat :
            [active |-> TRUE, scopes |-> InitialScopes, grants |-> Kinds, method |-> method,
             secret |-> secret] \in ClientRow
      BY TokenServiceAssumption DEF ClientRow
    <2> QED
      BY <2>1, TokenServiceAssumption DEF Init
  <1>2. clock \in Nat /\ minted \in Nat /\ activeTenants = Tenants
    BY DEF Init
  <1>3. Unused \in Token
    BY TokenServiceAssumption DEF Unused, Token, Statuses
  <1> QED
    BY <1>1, <1>2, <1>3, IdleTyped DEF Init, TypeInv, TypeOK

LEMMA TypesInvariant == Spec => []TypeInv
  BY InitTypes, TypeStep, PTL DEF Spec

\* The tables and the calls of the token service always have their types.
THEOREM TokenServiceTypes == Spec => []TypeOK
  BY TypesInvariant, PTL DEF TypeInv

-----------------------------------------------------------------------------
(* Tokens move on *)

LEMMA CodesMoveOn ==
  ASSUME TypeInv, [Next]_vars, NEW id \in CodeIds
  PROVE  Later(codes[id], codes'[id])
  <1>1. codes[id] \in Token /\ clock \in Nat
    BY DEF TypeInv, TypeOK
  <1>2. CASE UNCHANGED codes
    BY <1>2 DEF Later
  <1>3. ASSUME NEW c \in CallIds, NEW new \in CodeIds, CreateCode(c, new)
        PROVE  Later(codes[id], codes'[id])
    BY <1>3 DEF CreateCode, Later, TypeInv, TypeOK
  <1>4. ASSUME NEW c \in CallIds, ConsumeCode(c)
        PROVE  Later(codes[id], codes'[id])
    <2>1. codes'[id] = codes[id] \/ codes'[id] = Consumed(codes[id])
      BY <1>4 DEF ConsumeCode, TypeInv, TypeOK
    <2>2. Later(codes[id], Consumed(codes[id]))
      BY <1>1 DEF Later, Consumed, Live, Token
    <2> QED
      BY <2>1, <2>2 DEF Later
  <1>5. ASSUME NEW c \in CallIds, NEW new \in AccessIds, IssueAccess(c, new)
        PROVE  Later(codes[id], codes'[id])
    <2>1. codes'[id] = codes[id] \/ codes'[id] = Redeem(codes[id])
      BY <1>5 DEF IssueAccess, TypeInv, TypeOK
    <2>2. Later(codes[id], Redeem(codes[id]))
      BY <1>1 DEF Later, Redeem, Token
    <2> QED
      BY <2>1, <2>2 DEF Later
  <1>6. ASSUME NEW c \in CallIds, RevokeCodes(c)
        PROVE  Later(codes[id], codes'[id])
    <2>1. \/ codes'[id] = codes[id]
          \/ codes'[id] = [codes[id] EXCEPT !.status = "revoked"]
      BY <1>6 DEF RevokeCodes, Revoked, TypeInv, TypeOK
    <2> QED
      BY <1>1, <2>1 DEF Later, Token
  <1>7. CASE SweepCodes
    <2>1. \/ codes'[id] = codes[id]
          \/ codes'[id] = [codes[id] EXCEPT !.status = "removed"]
      BY <1>7 DEF SweepCodes
    <2> QED
      BY <1>1, <2>1 DEF Later, Token
  <1> QED
    BY <1>2, <1>3, <1>4, <1>5, <1>6, <1>7
       DEF Next, Step, vars, tables, ReadClient, ReadBearer, ReadForWrite, CheckTenant,
           ReadRefresh, CheckRefreshTenant, IssueRefresh, ReplaceRefresh, Touch, Upsert,
           RevokeAccess, RevokeRefresh, Fail, RevokeAccessToken, RevokeRefreshToken,
           DisableTenant, EnableTenant, SweepAccess, SweepRefresh, Tick

LEMMA RefreshTokensMoveOn ==
  ASSUME TypeInv, [Next]_vars, NEW id \in RefreshIds
  PROVE  Later(refreshTokens[id], refreshTokens'[id])
  <1>1. refreshTokens[id] \in Token /\ clock \in Nat
    BY DEF TypeInv, TypeOK
  <1>2. CASE UNCHANGED refreshTokens
    BY <1>2 DEF Later
  <1>3. ASSUME NEW c \in CallIds, NEW new \in RefreshIds, IssueRefresh(c, new)
        PROVE  Later(refreshTokens[id], refreshTokens'[id])
    <2>1. CASE id # new
      BY <1>3, <2>1 DEF IssueRefresh, Later, TypeInv, TypeOK
    <2>2. CASE id = new
      BY <1>3, <2>2 DEF IssueRefresh, Later, TypeInv, TypeOK
    <2> QED
      BY <2>1, <2>2
  <1>4. ASSUME NEW c \in CallIds, ReplaceRefresh(c)
        PROVE  Later(refreshTokens[id], refreshTokens'[id])
    <2> DEFINE heir == calls[c].heir
    <2>1. \/ refreshTokens'[id] = refreshTokens[id]
          \/ refreshTokens'[id] = Replaced(refreshTokens[id], heir)
      BY <1>4 DEF ReplaceRefresh, TypeInv, TypeOK
    <2>2. /\ Replaced(refreshTokens[id], heir) \in [status : Statuses,
               client : Clients \cup {NoRow}, scopes : SUBSET Scopes, expiresAt : Nat,
               redeemed : Nat, replacedBy : {refreshTokens[id].replacedBy, heir}]
          /\ Replaced(refreshTokens[id], heir).status # "active"
          /\ Later(refreshTokens[id], Replaced(refreshTokens[id], heir))
      BY <1>1 DEF Replaced, Token, Statuses, Later
    <2> QED
      BY <2>1, <2>2 DEF Later
  <1>5. ASSUME NEW c \in CallIds, RevokeRefresh(c)
        PROVE  Later(refreshTokens[id], refreshTokens'[id])
    <2>1. \/ refreshTokens'[id] = refreshTokens[id]
          \/ refreshTokens'[id] = [refreshTokens[id] EXCEPT !.status = "revoked"]
      BY <1>5 DEF RevokeRefresh, Revoked, TypeInv, TypeOK
    <2> QED
      BY <1>1, <2>1 DEF Later, Token
  <1>6. ASSUME NEW new \in RefreshIds, RevokeRefreshToken(new)
        PROVE  Later(refreshTokens[id], refreshTokens'[id])
    <2>1. \/ refreshTokens'[id] = refreshTokens[id]
          \/ refreshTokens'[id] = [refreshTokens[id] EXCEPT !.status = "revoked"]
      BY <1>6 DEF RevokeRefreshToken, TypeInv, TypeOK
    <2> QED
      BY <1>1, <1>6, <2>1 DEF RevokeRefreshToken, Later, Token
  <1>7. CASE SweepRefresh
    <2>1. \/ refreshTokens'[id] = refreshTokens[id]
          \/ refreshTokens'[id] = [refreshTokens[id] EXCEPT !.status = "revoked"]
      BY <1>7 DEF SweepRefresh, Swept, TypeInv, TypeOK
    <2> QED
      BY <1>1, <2>1 DEF Later, Token
  <1> QED
    BY <1>2, <1>3, <1>4, <1>5, <1>6, <1>7
       DEF Next, Step, vars, tables, ReadClient, ReadBearer, ReadForWrite, CheckTenant,
           ConsumeCode, CreateCode, IssueAccess, ReadRefresh, CheckRefreshTenant, Touch,
           Upsert, RevokeAccess, RevokeCodes, Fail, RevokeAccessToken,
           DisableTenant, EnableTenant, SweepAccess, SweepCodes, Tick

LEMMA AccessTokensMoveOn ==
  ASSUME TypeInv, [Next]_vars, NEW id \in AccessIds
  PROVE  Later(accessTokens[id], accessTokens'[id])
  <1>1. accessTokens[id] \in Token /\ clock \in Nat
    BY DEF TypeInv, TypeOK
  <1>2. CASE UNCHANGED accessTokens
    BY <1>2 DEF Later
  <1>3. ASSUME NEW c \in CallIds, NEW new \in AccessIds, IssueAccess(c, new)
        PROVE  Later(accessTokens[id], accessTokens'[id])
    BY <1>3 DEF IssueAccess, Later, TypeInv, TypeOK
  <1>4. CASE \/ accessTokens'[id] = accessTokens[id]
             \/ accessTokens'[id] = [accessTokens[id] EXCEPT !.status = "revoked"]
    BY <1>1, <1>4 DEF Later, Token
  <1>5. ASSUME NEW c \in CallIds, RevokeAccess(c)
        PROVE  Later(accessTokens[id], accessTokens'[id])
    BY <1>4, <1>5 DEF RevokeAccess, Revoked, TypeInv, TypeOK
  <1>6. ASSUME NEW new \in AccessIds, RevokeAccessToken(new)
        PROVE  Later(accessTokens[id], accessTokens'[id])
    BY <1>4, <1>6 DEF RevokeAccessToken, TypeInv, TypeOK
  <1>7. CASE SweepAccess
    BY <1>4, <1>7 DEF SweepAccess, Swept, TypeInv, TypeOK
  <1> QED
    BY <1>2, <1>3, <1>5, <1>6, <1>7
       DEF Next, Step, vars, tables, ReadClient, ReadBearer, ReadForWrite, CheckTenant,
           ConsumeCode, CreateCode, IssueRefresh, ReplaceRefresh, ReadRefresh,
           CheckRefreshTenant, Touch, Upsert, RevokeRefresh, RevokeCodes, Fail,
           RevokeRefreshToken, DisableTenant, EnableTenant, SweepRefresh, SweepCodes, Tick

LEMMA ClockMovesOn ==
  ASSUME TypeInv, [Next]_vars
  PROVE  clock \in Nat /\ clock' \in Nat /\ clock <= clock'
  <1>1. clock \in Nat /\ clock' \in Nat
    BY TypeStep DEF TypeInv, TypeOK
  <1>2. clock' = clock \/ clock' = clock + 1
    BY DEF Next, Step, vars, tables, ReadClient, ReadBearer, ReadForWrite, CheckTenant,
           ConsumeCode, CreateCode, IssueAccess, IssueRefresh, ReplaceRefresh,
           ReadRefresh, CheckRefreshTenant, Touch, Upsert, RevokeAccess,
           RevokeRefresh, RevokeCodes, Fail, RevokeAccessToken, RevokeRefreshToken,
           DisableTenant, EnableTenant, SweepAccess, SweepRefresh, SweepCodes, Tick
  <1> QED
    BY <1>1, <1>2

\* What is dead stays dead, in whichever table it is.
LEMMA DeadStayDead ==
  ASSUME TypeInv, [Next]_vars, NEW id \in TokenIds, Ended(TokenAt(id))
  PROVE  Ended(TokenAt(id))'
  <1>1. ASSUME NEW old \in Token, NEW new \in Token, Later(old, new),
               old.status # "unused", ~(old.status = "active" /\ old.expiresAt > clock)
        PROVE  new.status # "unused" /\ ~(new.status = "active" /\ new.expiresAt > clock')
    BY <1>1, ClockMovesOn DEF Later, Token
  <1>2. TypeInv'
    BY TypeStep
  <1>3. CASE id \in CodeIds
    <2>1. codes[id] \in Token /\ codes'[id] \in Token
      BY <1>2, <1>3 DEF TypeInv, TypeOK
    <2> QED
      BY <1>1, <1>3, <2>1, CodesMoveOn DEF TokenAt, Ended, Live
  <1>4. CASE id \in RefreshIds
    <2>1. refreshTokens[id] \in Token /\ refreshTokens'[id] \in Token /\ id \notin CodeIds
      BY <1>2, <1>4, TokenServiceAssumption DEF TypeInv, TypeOK
    <2> QED
      BY <1>1, <1>4, <2>1, RefreshTokensMoveOn DEF TokenAt, Ended, Live
  <1>5. CASE id \in AccessIds
    <2>1. /\ accessTokens[id] \in Token /\ accessTokens'[id] \in Token
          /\ id \notin CodeIds /\ id \notin RefreshIds
      BY <1>2, <1>5, TokenServiceAssumption DEF TypeInv, TypeOK
    <2> QED
      BY <1>1, <1>5, <2>1, AccessTokensMoveOn DEF TokenAt, Ended, Live
  <1> QED
    BY <1>3, <1>4, <1>5 DEF TokenIds

-----------------------------------------------------------------------------
(* What a suspended call knows *)

LEMMA ArrivalReads ==
  ASSUME TypeInv, NEW input, NEW pc
  PROVE  /\ Arrival(input, pc).pc = pc
         /\ Arrival(input, pc).input = input
         /\ Arrival(input, pc).over = Over
         /\ Arrival(input, pc).off = (Tenant(input.client) \notin activeTenants)
  <1> DEFINE off == Tenant(input.client) \notin activeTenants
             read(value) == [Idle EXCEPT !.pc = pc, !.input = input,
                                         !.row = clients[input.client],
                                         !.over = Over, !.off = value]
  <1>1. \A value : /\ read(value).pc = pc /\ read(value).input = input
                   /\ read(value).over = Over /\ read(value).off = value
    BY DEF Idle
  <1> HIDE DEF off, read
  <1>2. /\ read(off).pc = pc /\ read(off).input = input
        /\ read(off).over = Over /\ read(off).off = off
    BY <1>1
  <1> QED
    BY <1>2 DEF Arrival, off, read

\* A step of a call ends it, lets it arrive, or keeps what it arrived with.
LEMMA StepKeeps ==
  ASSUME TypeInv, NEW c \in CallIds, Step(c)
  PROVE  \/ calls'[c].pc = "idle"
         \/ /\ calls'[c].over = Over /\ UNCHANGED <<tables, clock>>
            /\ \E input \in Inputs :
                 /\ calls'[c].input = input
                 /\ calls'[c].off = (Tenant(input.client) \notin activeTenants)
                 /\ input.kind = "bearer" => accessTokens[input.token].status = "active"
            /\ calls'[c].pc \in {"tenant", "upsert"}
         \/ /\ calls[c].pc # "idle" /\ calls'[c].pc # "tenant"
            /\ calls'[c].input = calls[c].input
            /\ calls'[c].over = calls[c].over
            /\ calls'[c].off = calls[c].off
  <1> DEFINE Kept(call) ==
               /\ call.input = calls[c].input
               /\ call.over = calls[c].over
               /\ call.off = calls[c].off
  <1>0. calls \in [CallIds -> CallRecord] /\ calls[c] \in CallRecord
    BY DEF TypeInv, TypeOK
  <1>8. Idle.pc = "idle"
    BY DEF Idle
  <1>1. ASSUME NEW input \in Inputs,
               ReadClient(c, input) \/ ReadBearer(c, input) \/ ReadForWrite(c, input)
        PROVE  /\ calls'[c].over = Over /\ UNCHANGED <<tables, clock>>
               /\ calls'[c].input = input
               /\ calls'[c].off = (Tenant(input.client) \notin activeTenants)
               /\ input.kind = "bearer" => accessTokens[input.token].status = "active"
               /\ calls'[c].pc \in {"tenant", "upsert"}
    <2>1. PICK pc \in {"tenant", "upsert"} : calls'[c] = Arrival(input, pc)
      BY <1>0, <1>1 DEF ReadClient, ReadBearer, ReadForWrite, Goes
    <2> QED
      BY <1>1, <2>1, ArrivalReads DEF ReadClient, ReadBearer, ReadForWrite, TokenCalls, Grants
  <1>2. CASE CheckTenant(c)
    <2> DEFINE call == calls[c]
               scopes == Granted(call.input.scopes, call.row.scopes)
    <2>1. \/ calls'[c] = Idle
          \/ calls'[c] = [call EXCEPT !.pc = "accepted"]
          \/ calls'[c] = AfterTenant(call)
      BY <1>0, <1>2 DEF CheckTenant, Goes
    <2>2. \/ AfterTenant(call) = Idle
          \/ AfterTenant(call) = [call EXCEPT !.pc = "issueAccess", !.scopes = scopes]
          \/ AfterTenant(call) = [call EXCEPT !.pc = "createCode", !.scopes = scopes]
          \/ AfterTenant(call) = [call EXCEPT !.pc = "consume"]
          \/ AfterTenant(call) = [call EXCEPT !.pc = "readRefresh"]
      BY DEF AfterTenant
    <2> HIDE DEF scopes
    <2> QED
      BY <1>0, <1>2, <1>8, <2>1, <2>2 DEF CheckTenant, CallRecord
  <1>3. CASE ConsumeCode(c) \/ ReadRefresh(c) \/ CheckRefreshTenant(c)
    <2>1. \/ calls'[c] = Idle
          \/ \E scopes : calls'[c] = [calls[c] EXCEPT !.pc = "issueAccess", !.scopes = scopes]
          \/ \E scopes : calls'[c] = [calls[c] EXCEPT !.pc = "refreshTenant", !.scopes = scopes]
          \/ calls'[c] = [calls[c] EXCEPT !.pc = "issueAccess"]
      BY <1>0, <1>3 DEF ConsumeCode, ReadRefresh, CheckRefreshTenant, Goes
    <2> QED
      BY <1>0, <1>3, <1>8, <2>1 DEF ConsumeCode, ReadRefresh, CheckRefreshTenant, CallRecord
  <1>4. ASSUME NEW id, CreateCode(c, id)
        PROVE  calls'[c].pc = "idle"
    BY <1>0, <1>4 DEF CreateCode, Goes, Idle
  <1>5. ASSUME NEW id, IssueAccess(c, id) \/ IssueRefresh(c, id)
        PROVE  \/ calls'[c].pc = "idle"
               \/ calls[c].pc # "idle" /\ calls'[c].pc # "tenant" /\ Kept(calls'[c])
    <2>1. \/ calls'[c] = Idle
          \/ calls'[c] = [calls[c] EXCEPT !.pc = "issueRefresh"]
          \/ calls'[c] = [calls[c] EXCEPT !.pc = "replace", !.heir = id]
      BY <1>0, <1>5 DEF IssueAccess, IssueRefresh, Goes
    <2> QED
      BY <1>0, <1>5, <1>8, <2>1 DEF IssueAccess, IssueRefresh, CallRecord
  <1>6. CASE ReplaceRefresh(c) \/ Touch(c) \/ RevokeCodes(c) \/ Fail(c)
    BY <1>0, <1>6 DEF ReplaceRefresh, Touch, RevokeCodes, Fail, Goes, Idle
  <1>7. CASE Upsert(c) \/ RevokeAccess(c) \/ RevokeRefresh(c)
    BY <1>0, <1>7 DEF Upsert, RevokeAccess, RevokeRefresh, Goes, Idle, CallRecord
  <1> QED
    BY <1>1, <1>2, <1>3, <1>4, <1>5, <1>6, <1>7 DEF Step

LEMMA OthersStay ==
  ASSUME TypeInv, NEW c \in CallIds, NEW d \in CallIds, Step(d), d # c
  PROVE  calls'[c] = calls[c]
  BY DEF Step, ReadClient, ReadBearer, ReadForWrite, CheckTenant, ConsumeCode, CreateCode,
    IssueAccess, IssueRefresh, ReplaceRefresh, ReadRefresh, CheckRefreshTenant, Touch,
    Upsert, RevokeAccess, RevokeRefresh, RevokeCodes, Fail, Goes, TypeInv, TypeOK

\* A call changes by a step of its own, or when its tenant is enabled.
LEMMA CallsMoveOn ==
  ASSUME TypeInv, [Next]_vars, NEW c \in CallIds
  PROVE  \/ calls'[c] = calls[c]
         \/ Step(c)
         \/ /\ calls'[c] = [calls[c] EXCEPT !.off = FALSE]
            /\ UNCHANGED <<codes, refreshTokens, accessTokens, clock>>
  <1>2. ASSUME NEW tenant \in Tenants, EnableTenant(tenant)
        PROVE  \/ calls'[c] = calls[c]
               \/ /\ calls'[c] = [calls[c] EXCEPT !.off = FALSE]
                  /\ UNCHANGED <<codes, refreshTokens, accessTokens, clock>>
    BY <1>2 DEF EnableTenant
  <1> QED
    BY <1>2, OthersStay DEF Next, vars, RevokeAccessToken, RevokeRefreshToken, DisableTenant,
      SweepAccess, SweepRefresh, SweepCodes, Tick

LEMMA DeadIsDeadStep ==
  ASSUME TypeInv, [Next]_vars, NEW c \in CallIds, calls'[c].pc # "idle",
         calls[c].pc # "idle" => DeadIsDead(c)
  PROVE  DeadIsDead(c)'
  <1>1. calls[c] \in CallRecord
    BY DEF TypeInv, TypeOK
  <1>2. ASSUME calls'[c].over = calls[c].over, calls[c].pc # "idle"
        PROVE  DeadIsDead(c)'
    BY <1>1, <1>2, DeadStayDead DEF DeadIsDead, CallRecord
  <1>3. ASSUME calls'[c].over = Over, UNCHANGED <<tables, clock>>
        PROVE  DeadIsDead(c)'
    <2>1. \A id \in Over : Ended(TokenAt(id))
      BY TokenServiceAssumption DEF Over, TokenAt
    <2> QED
      BY <1>3, <2>1 DEF DeadIsDead, TokenAt, Ended, Live, tables
  <1> QED
    BY <1>1, <1>2, <1>3, StepKeeps, CallsMoveOn DEF CallRecord

LEMMA BearerIsKnownStep ==
  ASSUME TypeInv, [Next]_vars, NEW c \in CallIds, calls'[c].pc # "idle",
         calls[c].pc # "idle" => BearerIsKnown(c)
  PROVE  BearerIsKnown(c)'
  <1> DEFINE input == calls'[c].input
  <1> SUFFICES ASSUME calls'[c].pc = "tenant", input.kind = "bearer"
               PROVE  /\ accessTokens'[input.token].status # "unused"
                      /\ input.token \in calls'[c].over =>
                           accessTokens'[input.token].expiresAt <= clock'
    BY DEF BearerIsKnown
  <1>1. calls[c] \in CallRecord /\ calls'[c] \in CallRecord /\ Received(calls'[c])
    BY TypeStep DEF TypeInv, TypeOK
  <1>2. input.token \in AccessIds
    BY <1>1, InputTypes DEF Received
  <1>3. /\ accessTokens[input.token] \in Token
        /\ Later(accessTokens[input.token], accessTokens'[input.token])
        /\ clock \in Nat /\ clock' \in Nat /\ clock <= clock'
    BY <1>2, AccessTokensMoveOn, ClockMovesOn DEF TypeInv, TypeOK
  <1>4. ASSUME calls[c].pc = "tenant", calls[c].input = input,
               calls[c].over = calls'[c].over
        PROVE  /\ accessTokens'[input.token].status # "unused"
               /\ input.token \in calls'[c].over =>
                    accessTokens'[input.token].expiresAt <= clock'
    BY <1>3, <1>4 DEF BearerIsKnown, Later, Token
  <1>5. ASSUME calls'[c].over = Over, UNCHANGED <<tables, clock>>,
               accessTokens[input.token].status = "active"
        PROVE  /\ accessTokens'[input.token].status # "unused"
               /\ input.token \in calls'[c].over =>
                    accessTokens'[input.token].expiresAt <= clock'
    <2>1. input.token \in Over => Ended(accessTokens[input.token])
      BY <1>2, TokenServiceAssumption DEF Over
    <2> QED
      BY <1>3, <1>5, <2>1 DEF tables, Ended, Live, Token
  <1> QED
    BY <1>1, <1>4, <1>5, StepKeeps, CallsMoveOn DEF CallRecord

\* Only requireActiveTenant lets a call pass its tenant.
LEMMA PassesItsTenant ==
  ASSUME TypeInv, NEW c \in CallIds, Step(c), PastTenant(calls'[c])
  PROVE  \/ PastTenant(calls[c])
         \/ Tenant(calls[c].input.client) \in activeTenants
  <1>0. calls \in [CallIds -> CallRecord] /\ calls[c] \in CallRecord
    BY DEF TypeInv, TypeOK
  <1>1. calls'[c].pc \notin {"idle", "tenant", "upsert", "revokeAccess", "revokeRefresh",
                             "revokeCodes"}
    BY DEF PastTenant, Committed
  <1>2. CASE CheckTenant(c)
    <2>1. Goes(c, Idle) => calls'[c].pc = "idle"
      BY <1>0 DEF Goes, Idle
    <2> QED
      BY <1>1, <1>2, <2>1 DEF CheckTenant
  <1>3. ASSUME NEW input \in Inputs,
               ReadClient(c, input) \/ ReadBearer(c, input) \/ ReadForWrite(c, input)
        PROVE  FALSE
    <2>1. PICK pc \in {"tenant", "upsert"} : calls'[c] = Arrival(input, pc)
      BY <1>0, <1>3 DEF ReadClient, ReadBearer, ReadForWrite, Goes
    <2> QED
      BY <1>1, <2>1, ArrivalReads
  <1>4. CASE Upsert(c) \/ RevokeAccess(c) \/ RevokeRefresh(c) \/ RevokeCodes(c) \/ Fail(c)
    BY <1>0, <1>1, <1>4 DEF Upsert, RevokeAccess, RevokeRefresh, RevokeCodes, Fail, Goes,
      Idle, CallRecord
  <1> QED
    BY <1>2, <1>3, <1>4 DEF Step, PastTenant, Committed, ConsumeCode, ReadRefresh,
      CheckRefreshTenant, CreateCode, IssueAccess, IssueRefresh, ReplaceRefresh, Touch

LEMMA StepsLeaveTenants ==
  ASSUME NEW c, Step(c)
  PROVE  UNCHANGED activeTenants
  BY DEF Step, tables, ReadClient, ReadBearer, ReadForWrite, CheckTenant, ConsumeCode,
    CreateCode, IssueAccess, IssueRefresh, ReplaceRefresh, ReadRefresh,
    CheckRefreshTenant, Touch, Upsert, RevokeAccess, RevokeRefresh, RevokeCodes, Fail

LEMMA OffIsOffStep ==
  ASSUME TypeInv, [Next]_vars, NEW c \in CallIds, calls'[c].pc # "idle",
         calls[c].pc # "idle" => OffIsOff(c)
  PROVE  OffIsOff(c)'
  <1>1. calls[c] \in CallRecord /\ Received(calls[c])
    BY DEF TypeInv, TypeOK
  <1>2. CASE Step(c)
    <2>1. UNCHANGED activeTenants
      BY <1>2, StepsLeaveTenants
    <2>2. ASSUME calls'[c].pc \in {"tenant", "upsert"},
                 calls'[c].off = (Tenant(calls'[c].input.client) \notin activeTenants)
          PROVE  OffIsOff(c)'
      BY <2>1, <2>2 DEF OffIsOff, PastTenant, Committed
    <2>3. ASSUME calls[c].pc # "idle", calls'[c].input = calls[c].input,
                 calls'[c].off = calls[c].off
          PROVE  OffIsOff(c)'
      BY <1>2, <2>1, <2>3, PassesItsTenant DEF OffIsOff
    <2> QED
      BY <1>2, <2>2, <2>3, StepKeeps
  <1>3. ASSUME NEW tenant \in Tenants, EnableTenant(tenant)
        PROVE  OffIsOff(c)'
    <2>1. CASE calls'[c] = [calls[c] EXCEPT !.off = FALSE]
      BY <1>1, <2>1 DEF OffIsOff, CallRecord
    <2>2. CASE calls'[c] = calls[c] /\ Tenant(calls[c].input.client) # tenant
      BY <1>3, <2>2 DEF OffIsOff, EnableTenant
    <2>3. calls'[c] = IF calls[c].input # NoInput /\ Tenant(calls[c].input.client) = tenant
                      THEN [calls[c] EXCEPT !.off = FALSE] ELSE calls[c]
      BY <1>3 DEF EnableTenant
    <2>4. CASE calls[c].pc = "idle"
      BY <1>1, <2>1, <2>3, <2>4 DEF CallRecord
    <2>5. CASE calls[c].pc # "idle"
      BY <1>1, <2>1, <2>2, <2>3, <2>5, InputTypes DEF Received
    <2> QED
      BY <2>4, <2>5
  <1>4. CASE calls'[c] = calls[c] /\ activeTenants' \subseteq activeTenants
    BY <1>4 DEF OffIsOff
  <1>5. ASSUME NEW d \in CallIds, Step(d), d # c
        PROVE  OffIsOff(c)'
    BY <1>4, <1>5, OthersStay, StepsLeaveTenants
  <1>6. ASSUME NEW tenant \in Tenants, DisableTenant(tenant)
        PROVE  OffIsOff(c)'
    BY <1>4, <1>6 DEF DisableTenant
  <1>7. CASE UNCHANGED <<calls, activeTenants>>
    BY <1>4, <1>7
  <1> QED
    BY <1>2, <1>3, <1>5, <1>6, <1>7 DEF Next, vars, tables, RevokeAccessToken,
      RevokeRefreshToken, SweepAccess, SweepRefresh, SweepCodes, Tick

LEMMA CoversStays ==
  ASSUME NEW old, NEW new, Later(old, new), NEW before, NEW after, Covers(old, before),
         after.input = before.input, after.scopes = before.scopes
  PROVE  Covers(new, after)
  BY DEF Later, Covers

\* What a call that was found good brought keeps covering it.
LEMMA FoundStaysGood ==
  ASSUME TypeInv, [Next]_vars, NEW c \in CallIds, calls'[c].pc # "idle",
         FoundIsGood(c), calls'[c].input = calls[c].input,
         calls'[c].over = calls[c].over, calls'[c].scopes = calls[c].scopes,
         FoundGood(calls'[c]) => FoundGood(calls[c]),
         calls'[c].pc = "accepted" => calls[c].pc = "accepted"
  PROVE  FoundIsGood(c)'
  <1> DEFINE input == calls[c].input
  <1>1. Received(calls'[c])
    BY TypeStep DEF TypeInv
  <1>2. /\ input.kind = "authorization_code" => input.token \in CodeIds
        /\ input.kind = "refresh_token" => input.token \in RefreshIds
    BY <1>1, InputTypes DEF Received
  <1>3. FoundGood(calls'[c]) /\ input.kind = "authorization_code" =>
          Covers(codes'[input.token], calls'[c])
    BY <1>2, CodesMoveOn, CoversStays DEF FoundIsGood
  <1>4. FoundGood(calls'[c]) /\ input.kind = "refresh_token" =>
          Covers(refreshTokens'[input.token], calls'[c])
    BY <1>2, RefreshTokensMoveOn, CoversStays DEF FoundIsGood
  <1> QED
    BY <1>3, <1>4 DEF FoundIsGood

LEMMA FoundIsGoodStep ==
  ASSUME TypeInv, [Next]_vars, NEW c \in CallIds, calls'[c].pc # "idle",
         calls[c].pc # "idle" => DeadIsDead(c) /\ BearerIsKnown(c) /\ FoundIsGood(c)
  PROVE  FoundIsGood(c)'
  <1> DEFINE call == calls[c]
             input == call.input
  <1>0. /\ calls \in [CallIds -> CallRecord] /\ call \in CallRecord /\ Received(call)
        /\ calls'[c] \in CallRecord
    BY TypeStep DEF TypeInv, TypeOK
  <1>1. CASE ~FoundGood(calls'[c]) /\ calls'[c].pc # "accepted"
    BY <1>1 DEF FoundIsGood
  <1>2. CASE calls'[c] = calls[c] \/ calls'[c] = [calls[c] EXCEPT !.off = FALSE]
    <2>1. /\ calls'[c].pc = call.pc /\ calls'[c].input = input
          /\ calls'[c].over = call.over /\ calls'[c].scopes = call.scopes
      BY <1>0, <1>2 DEF CallRecord
    <2> QED
      BY <2>1, FoundStaysGood DEF FoundGood, Committed
  <1>3. CASE CheckTenant(c)
    <2>1. CASE calls'[c] = Idle
      BY <2>1 DEF Idle
    <2>2. CASE input.kind = "bearer" /\ Passes(call) /\ calls'[c] = [call EXCEPT !.pc = "accepted"]
      <3>1. /\ input.token \in AccessIds
            /\ accessTokens[input.token].expiresAt > clock
            /\ call.pc = "tenant"
            /\ accessTokens[input.token] \in Token /\ clock \in Nat
        BY <1>0, <1>3, <2>2, InputTypes
           DEF CheckTenant, Passes, Received, TypeInv, TypeOK, Grants
      <3>2. input.token \notin call.over
        BY <1>3, <2>2, <3>1 DEF BearerIsKnown, Token
      <3>3. /\ calls'[c].input = input /\ calls'[c].over = call.over
        BY <1>0, <2>2 DEF CallRecord
      <3> QED
        BY <2>2, <3>2, <3>3 DEF FoundIsGood
    <2>3. CASE calls'[c] = AfterTenant(call)
      <3>1. call.pc = "tenant"
        BY <1>3 DEF CheckTenant
      <3>2. ~FoundGood(calls'[c]) /\ calls'[c].pc # "accepted"
        BY <1>0, <2>3 DEF AfterTenant, FoundGood, Committed, CallRecord, Idle
      <3> QED
        BY <1>1, <3>2
    <2> QED
      BY <1>0, <1>3, <2>1, <2>2, <2>3 DEF CheckTenant, Goes
  <1>4. CASE ConsumeCode(c)
    <2> DEFINE code == codes[input.token]
    <2>1. input.kind = "authorization_code" /\ input.token \in CodeIds /\ code \in Token
      BY <1>0, <1>4, InputTypes DEF ConsumeCode, Received, KindsAt, TypeInv, TypeOK
    <2>2. /\ Redeemable(call, code)
          /\ calls'[c] = [call EXCEPT !.pc = "issueAccess",
                                      !.scopes = Granted(input.scopes, code.scopes)]
      <3>1. Idle.pc = "idle"
        BY DEF Idle
      <3> QED
        BY <1>0, <1>4, <3>1 DEF ConsumeCode, Goes
    <2>3. /\ calls'[c].input = input /\ calls'[c].over = call.over
          /\ calls'[c].scopes = Granted(input.scopes, code.scopes)
      BY <1>0, <2>2 DEF CallRecord
    <2>4. input.token \notin call.over
      BY <1>4, <2>1, <2>2 DEF ConsumeCode, DeadIsDead, TokenAt, Ended, Redeemable
    <2>5. Covers(code, calls'[c])
      BY <2>1, <2>2, <2>3 DEF Covers, Redeemable, Live, Granted
    <2>6. Covers(codes'[input.token], calls'[c])
      BY <2>1, <2>5, CodesMoveOn, CoversStays
    <2> QED
      BY <2>1, <2>3, <2>4, <2>6 DEF FoundIsGood
  <1>5. CASE ReadRefresh(c)
    <2> DEFINE token == refreshTokens[input.token]
    <2>1. input.kind = "refresh_token" /\ input.token \in RefreshIds /\ token \in Token
      BY <1>0, <1>5, InputTypes DEF ReadRefresh, Received, KindsAt, TypeInv, TypeOK
    <2>2. /\ Redeemable(call, token)
          /\ calls'[c] = [call EXCEPT !.pc = "refreshTenant",
                                      !.scopes = Granted(input.scopes, token.scopes)]
      <3>1. Idle.pc = "idle"
        BY DEF Idle
      <3> QED
        BY <1>0, <1>5, <3>1 DEF ReadRefresh, Goes
    <2>3. /\ calls'[c].input = input /\ calls'[c].over = call.over
          /\ calls'[c].scopes = Granted(input.scopes, token.scopes)
      BY <1>0, <2>2 DEF CallRecord
    <2>4. input.token \notin call.over
      BY <1>5, <2>1, <2>2, TokenServiceAssumption
         DEF ReadRefresh, DeadIsDead, TokenAt, Ended, Redeemable
    <2>5. Covers(token, calls'[c])
      BY <2>1, <2>2, <2>3 DEF Covers, Redeemable, Live, Granted
    <2>6. Covers(refreshTokens'[input.token], calls'[c])
      BY <2>1, <2>5, RefreshTokensMoveOn, CoversStays
    <2> QED
      BY <2>1, <2>3, <2>4, <2>6 DEF FoundIsGood
  <1>6. ASSUME NEW id, CheckRefreshTenant(c) \/ IssueAccess(c, id) \/ IssueRefresh(c, id)
        PROVE  FoundIsGood(c)'
    <2>1. \/ calls'[c] = [call EXCEPT !.pc = "issueAccess"] /\ call.pc = "refreshTenant"
          \/ calls'[c] = [call EXCEPT !.pc = "issueRefresh"] /\ call.pc = "issueAccess"
          \/ /\ calls'[c] = [call EXCEPT !.pc = "replace", !.heir = id]
             /\ call.pc = "issueRefresh"
      <3>1. Idle.pc = "idle"
        BY DEF Idle
      <3> QED
        BY <1>0, <1>6, <3>1 DEF CheckRefreshTenant, IssueAccess, IssueRefresh, Goes
    <2>2. /\ calls'[c].input = input /\ calls'[c].over = call.over
          /\ calls'[c].scopes = call.scopes /\ calls'[c].pc # "accepted"
          /\ call.pc \in {"refreshTenant", "issueAccess", "issueRefresh"}
      BY <1>0, <2>1 DEF CallRecord
    <2>3. FoundGood(calls'[c]) => FoundGood(call)
      BY <2>2 DEF FoundGood, Committed
    <2> QED
      BY <2>2, <2>3, FoundStaysGood
  <1>7. ASSUME NEW input1 \in Inputs,
               \/ ReadClient(c, input1) \/ ReadBearer(c, input1) \/ ReadForWrite(c, input1)
        PROVE  FoundIsGood(c)'
    <2>1. PICK pc \in {"tenant", "upsert"} : calls'[c] = Arrival(input1, pc)
      BY <1>0, <1>7 DEF ReadClient, ReadBearer, ReadForWrite, Goes
    <2> QED
      BY <1>1, <2>1, ArrivalReads DEF FoundGood, Committed
  <1>8. CASE Upsert(c) \/ RevokeAccess(c) \/ RevokeRefresh(c)
    <2>1. calls'[c].pc \in {"idle", "revokeAccess", "revokeRefresh", "revokeCodes"}
      BY <1>0, <1>8 DEF Upsert, RevokeAccess, RevokeRefresh, Goes, Idle, CallRecord
    <2> QED
      BY <1>1, <2>1 DEF FoundGood, Committed
  <1>9. ASSUME NEW id, CreateCode(c, id) \/ ReplaceRefresh(c) \/ Touch(c)
               \/ RevokeCodes(c) \/ Fail(c)
        PROVE  FALSE
    BY <1>0, <1>9 DEF CreateCode, ReplaceRefresh, Touch, RevokeCodes, Fail, Goes, Idle
  <1> QED
    BY <1>2, <1>3, <1>4, <1>5, <1>6, <1>7, <1>8, <1>9, CallsMoveOn DEF Step

\* The call as it was when it issued the heir covers it.
LEMMA HeirIsOwnStep ==
  ASSUME TypeInv, [Next]_vars, NEW c \in CallIds, calls[c].pc # "idle" => HeirIsOwn(c)
  PROVE  HeirIsOwn(c)'
  <1> DEFINE call == calls[c]
  <1> SUFFICES ASSUME calls'[c].pc = "replace"
               PROVE  /\ Covers(refreshTokens'[calls'[c].heir], calls'[c])
                      /\ refreshTokens'[calls'[c].heir].scopes = calls'[c].scopes
    BY DEF HeirIsOwn
  <1>0. /\ calls \in [CallIds -> CallRecord] /\ call \in CallRecord /\ Received(call)
        /\ calls'[c] \in CallRecord /\ Received(calls'[c])
    BY TypeStep DEF TypeInv, TypeOK
  <1>1. CASE calls'[c] = calls[c] \/ calls'[c] = [calls[c] EXCEPT !.off = FALSE]
    <2>1. /\ call.pc = "replace" /\ calls'[c].input = call.input
          /\ calls'[c].scopes = call.scopes /\ calls'[c].heir = call.heir
      BY <1>0, <1>1 DEF CallRecord
    <2>2. call.heir \in RefreshIds
      BY <1>0, <2>1 DEF Received
    <2>3. Later(refreshTokens[call.heir], refreshTokens'[call.heir])
      BY <2>2, RefreshTokensMoveOn
    <2>4. Covers(refreshTokens'[call.heir], calls'[c])
      BY <2>1, <2>3, CoversStays DEF HeirIsOwn
    <2> QED
      BY <2>1, <2>3, <2>4 DEF HeirIsOwn, Later, Covers
  <1>2. ASSUME NEW id \in RefreshIds, IssueRefresh(c, id)
        PROVE  /\ Covers(refreshTokens'[calls'[c].heir], calls'[c])
               /\ refreshTokens'[calls'[c].heir].scopes = calls'[c].scopes
    <2>1. calls'[c] = [call EXCEPT !.pc = "replace", !.heir = id]
      <3>1. Idle.pc = "idle"
        BY DEF Idle
      <3> QED
        BY <1>0, <1>2, <3>1 DEF IssueRefresh, Goes
    <2>2. /\ calls'[c].input = call.input /\ calls'[c].heir = id
          /\ calls'[c].scopes = call.scopes
      BY <1>0, <2>1 DEF CallRecord
    <2>3. refreshTokens'[id] = NewToken(call.input.client, call.scopes, RefreshTtl)
      BY <1>2 DEF IssueRefresh, TypeInv, TypeOK
    <2> QED
      BY <2>2, <2>3 DEF NewToken, Covers
  <1>3. CASE CheckTenant(c)
    BY <1>0, <1>3 DEF CheckTenant, AfterTenant, Goes, Idle, CallRecord
  <1>4. ASSUME NEW id, CreateCode(c, id) \/ ReplaceRefresh(c) \/ Touch(c)
               \/ RevokeCodes(c) \/ Fail(c) \/ Upsert(c) \/ RevokeAccess(c)
               \/ RevokeRefresh(c)
        PROVE  FALSE
    BY <1>0, <1>4 DEF CreateCode, ReplaceRefresh, Touch, RevokeCodes, Fail, Goes, Idle,
      Upsert, RevokeAccess, RevokeRefresh, CallRecord
  <1>5. ASSUME NEW id, ConsumeCode(c) \/ ReadRefresh(c) \/ CheckRefreshTenant(c)
               \/ IssueAccess(c, id)
        PROVE  FALSE
    <2>1. \/ calls'[c] = Idle
          \/ \E pc \in {"issueAccess", "refreshTenant", "issueRefresh"} :
               \/ calls'[c] = [call EXCEPT !.pc = pc]
               \/ \E scopes : calls'[c] = [call EXCEPT !.pc = pc, !.scopes = scopes]
      BY <1>0, <1>5 DEF ConsumeCode, ReadRefresh, CheckRefreshTenant, IssueAccess, Goes
    <2>2. Idle.pc # "replace"
      BY DEF Idle
    <2> QED
      BY <1>0, <2>1, <2>2 DEF CallRecord
  <1>6. ASSUME NEW input1 \in Inputs,
               \/ ReadClient(c, input1) \/ ReadBearer(c, input1) \/ ReadForWrite(c, input1)
        PROVE  FALSE
    <2>1. PICK pc \in {"tenant", "upsert"} : calls'[c] = Arrival(input1, pc)
      BY <1>0, <1>6 DEF ReadClient, ReadBearer, ReadForWrite, Goes
    <2> QED
      BY <2>1, ArrivalReads
  <1> QED
    BY <1>1, <1>2, <1>3, <1>4, <1>5, <1>6, CallsMoveOn DEF Step

-----------------------------------------------------------------------------
(* Successors, and codes *)

\* Only ReplaceRefresh gives a refresh token a successor.
LEMMA HeirsStay ==
  ASSUME TypeInv, [Next]_vars, NEW id \in RefreshIds
  PROVE  \/ refreshTokens'[id].replacedBy = refreshTokens[id].replacedBy
         \/ \E c \in CallIds, new \in RefreshIds : IssueRefresh(c, new) /\ id = new
         \/ \E c \in CallIds : /\ ReplaceRefresh(c) /\ id = calls[c].input.token
                               /\ refreshTokens[id].status = "active"
  <1> DEFINE Same == refreshTokens'[id].replacedBy = refreshTokens[id].replacedBy
  <1>1. refreshTokens[id] \in Token
    BY DEF TypeInv, TypeOK
  <1>2. CASE UNCHANGED refreshTokens
    BY <1>2
  <1>3. ASSUME NEW c \in CallIds, NEW new \in RefreshIds, IssueRefresh(c, new), id # new
        PROVE  Same
    BY <1>3 DEF IssueRefresh, TypeInv, TypeOK
  <1>4. ASSUME NEW c \in CallIds, ReplaceRefresh(c),
               id # calls[c].input.token \/ refreshTokens[id].status # "active"
        PROVE  Same
    BY <1>4 DEF ReplaceRefresh, Replaced, TypeInv, TypeOK
  <1>5. CASE \/ refreshTokens'[id] = refreshTokens[id]
             \/ refreshTokens'[id] = [refreshTokens[id] EXCEPT !.status = "revoked"]
    BY <1>1, <1>5 DEF Token
  <1>6. ASSUME NEW c \in CallIds, RevokeRefresh(c)
        PROVE  Same
    BY <1>5, <1>6 DEF RevokeRefresh, Revoked, TypeInv, TypeOK
  <1>7. ASSUME NEW new \in RefreshIds, RevokeRefreshToken(new)
        PROVE  Same
    BY <1>5, <1>7 DEF RevokeRefreshToken, TypeInv, TypeOK
  <1>8. CASE SweepRefresh
    BY <1>5, <1>8 DEF SweepRefresh, Swept, TypeInv, TypeOK
  <1> QED
    BY <1>2, <1>3, <1>4, <1>6, <1>7, <1>8
       DEF Next, Step, vars, tables, ReadClient, ReadBearer, ReadForWrite, CheckTenant,
           ConsumeCode, CreateCode, IssueAccess, ReadRefresh, CheckRefreshTenant, Touch,
           Upsert, RevokeAccess, RevokeCodes, Fail, RevokeAccessToken,
           DisableTenant, EnableTenant, SweepAccess, SweepCodes, Tick

LEMMA HeirNarrowsStep ==
  ASSUME TypeInv, [Next]_vars, NEW id \in RefreshIds, HeirNarrows(id),
         \A c \in CallIds : calls[c].pc # "idle" => Knows(c)
  PROVE  HeirNarrows(id)'
  <1>1. refreshTokens[id] \in Token
    BY DEF TypeInv, TypeOK
  <1>2. \A other \in RefreshIds : Later(refreshTokens[other], refreshTokens'[other])
    BY RefreshTokensMoveOn
  <1>3. CASE refreshTokens'[id].replacedBy = refreshTokens[id].replacedBy
    BY <1>1, <1>2, <1>3 DEF HeirNarrows, Later, Token
  <1>4. ASSUME NEW c \in CallIds, NEW new \in RefreshIds, IssueRefresh(c, new), id = new
        PROVE  HeirNarrows(id)'
    <2>1. refreshTokens'[id] = NewToken(calls[c].input.client, calls[c].scopes, RefreshTtl)
      BY <1>4 DEF IssueRefresh, TypeInv, TypeOK
    <2>2. refreshTokens'[id].replacedBy = NoToken
      BY <2>1 DEF NewToken
    <2> QED
      BY <2>2 DEF HeirNarrows
  <1>5. ASSUME NEW c \in CallIds, ReplaceRefresh(c), id = calls[c].input.token,
               refreshTokens[id].status = "active"
        PROVE  HeirNarrows(id)'
    <2> DEFINE call == calls[c]
               heir == refreshTokens[call.heir]
    <2>1. call.heir \in RefreshIds /\ call.input.kind = "refresh_token" /\ call.pc = "replace"
      BY <1>5 DEF ReplaceRefresh, TypeInv, Received, KindsAt
    <2>2. refreshTokens'[id] = Replaced(refreshTokens[id], call.heir)
      BY <1>5 DEF ReplaceRefresh, TypeInv, TypeOK
    <2>3. refreshTokens'[id].replacedBy = call.heir
      BY <1>1, <1>5, <2>2 DEF Replaced, Token
    <2>4. Covers(heir, call) /\ heir.scopes = call.scopes
      BY <2>1, <1>5 DEF Knows, HeirIsOwn, ReplaceRefresh
    <2>5. Covers(refreshTokens[id], call)
      BY <2>1, <1>5 DEF Knows, FoundIsGood, FoundGood, Committed
    <2> QED
      BY <1>2, <2>1, <2>3, <2>4, <2>5 DEF HeirNarrows, Later, Covers
  <1> QED
    BY <1>3, <1>4, <1>5, HeirsStay

\* Only the call that consumed the code comes to hold it.
LEMMA OnlyConsumersHoldCodes ==
  ASSUME TypeInv, [Next]_vars, NEW c \in CallIds, NEW id \in CodeIds,
         Redeeming(calls'[c], id), ~Redeeming(calls[c], id)
  PROVE  ConsumeCode(c) /\ calls[c].input.token = id /\ Live(codes[id])
  <1> DEFINE call == calls[c]
  <1>0. /\ calls \in [CallIds -> CallRecord] /\ call \in CallRecord /\ Received(call)
        /\ calls'[c].pc = "issueAccess" /\ calls'[c].input.kind = "authorization_code"
    BY DEF TypeInv, TypeOK, Redeeming
  <1>1. Idle.pc = "idle"
    BY DEF Idle
  <1>2. CASE calls'[c] = calls[c] \/ calls'[c] = [calls[c] EXCEPT !.off = FALSE]
    BY <1>0, <1>2 DEF Redeeming, CallRecord
  <1>3. CASE ConsumeCode(c)
    <2> DEFINE scopes == Granted(call.input.scopes, codes[call.input.token].scopes)
    <2>1. /\ Redeemable(call, codes[call.input.token])
          /\ calls'[c] = [call EXCEPT !.pc = "issueAccess", !.scopes = scopes]
      BY <1>0, <1>1, <1>3 DEF ConsumeCode, Goes
    <2>2. calls'[c].input = call.input
      BY <1>0, <2>1 DEF CallRecord
    <2> QED
      BY <1>3, <2>1, <2>2 DEF Redeeming, Redeemable
  <1>4. CASE CheckTenant(c)
    <2>1. CASE calls'[c] = AfterTenant(call)
      BY <1>0, <1>1, <2>1 DEF AfterTenant, CallRecord
    <2>2. calls'[c] # AfterTenant(call) => calls'[c].pc \in {"idle", "accepted"}
      BY <1>0, <1>1, <1>4 DEF CheckTenant, Goes, CallRecord
    <2> QED
      BY <1>0, <2>1, <2>2
  <1>5. CASE CheckRefreshTenant(c)
    <2>1. call.input.kind = "refresh_token"
      BY <1>0, <1>5 DEF CheckRefreshTenant, Received, KindsAt
    <2>2. calls'[c].pc = "issueAccess" => calls'[c].input = call.input
      BY <1>0, <1>1, <1>5 DEF CheckRefreshTenant, Goes, CallRecord
    <2> QED
      BY <1>0, <2>1, <2>2
  <1>6. ASSUME NEW new, CreateCode(c, new) \/ ReplaceRefresh(c) \/ Touch(c)
               \/ RevokeCodes(c) \/ Fail(c) \/ Upsert(c) \/ RevokeAccess(c)
               \/ RevokeRefresh(c)
        PROVE  FALSE
    BY <1>0, <1>6 DEF CreateCode, ReplaceRefresh, Touch, RevokeCodes, Fail, Goes, Idle,
      Upsert, RevokeAccess, RevokeRefresh, CallRecord
  <1>7. ASSUME NEW new, ReadRefresh(c) \/ IssueAccess(c, new) \/ IssueRefresh(c, new)
        PROVE  FALSE
    <2>1. \/ calls'[c] = Idle
          \/ \E pc \in {"refreshTenant", "issueRefresh", "replace"} :
               \/ calls'[c] = [call EXCEPT !.pc = pc]
               \/ calls'[c] = [call EXCEPT !.pc = pc, !.heir = new]
               \/ \E scopes : calls'[c] = [call EXCEPT !.pc = pc, !.scopes = scopes]
      BY <1>0, <1>7 DEF ReadRefresh, IssueAccess, IssueRefresh, Goes
    <2> QED
      BY <1>0, <1>1, <2>1 DEF CallRecord
  <1>8. ASSUME NEW input1 \in Inputs,
               \/ ReadClient(c, input1) \/ ReadBearer(c, input1) \/ ReadForWrite(c, input1)
        PROVE  FALSE
    <2>1. PICK pc \in {"tenant", "upsert"} : calls'[c] = Arrival(input1, pc)
      BY <1>0, <1>8 DEF ReadClient, ReadBearer, ReadForWrite, Goes
    <2> QED
      BY <1>0, <2>1, ArrivalReads
  <1> QED
    BY <1>2, <1>3, <1>4, <1>5, <1>6, <1>7, <1>8, CallsMoveOn DEF Step

\* A code is redeemed by the call that holds it, and by nothing else.
LEMMA OnlyHoldersRedeem ==
  ASSUME TypeInv, [Next]_vars, NEW id \in CodeIds
  PROVE  \/ codes'[id].redeemed = codes[id].redeemed
         \/ codes[id].status = "unused" /\ codes'[id].redeemed = 0
         \/ \E c \in CallIds : /\ Redeeming(calls[c], id) /\ ~Redeeming(calls'[c], id)
                               /\ codes'[id] = Redeem(codes[id])
  <1> DEFINE Same == codes'[id].redeemed = codes[id].redeemed
  <1>1. codes[id] \in Token
    BY DEF TypeInv, TypeOK
  <1>2. CASE UNCHANGED codes
    BY <1>2
  <1>3. ASSUME NEW c \in CallIds, NEW new \in CodeIds, CreateCode(c, new)
        PROVE  Same \/ (codes[id].status = "unused" /\ codes'[id].redeemed = 0)
    <2>1. CASE id # new
      BY <1>3, <2>1 DEF CreateCode, TypeInv, TypeOK
    <2>2. CASE id = new
      <3>1. codes'[id] = NewToken(calls[c].input.client, calls[c].scopes, CodeTtl)
        BY <1>3, <2>2 DEF CreateCode, TypeInv, TypeOK
      <3> QED
        BY <1>3, <2>2, <3>1 DEF CreateCode, NewToken
    <2> QED
      BY <2>1, <2>2
  <1>4. CASE \/ codes'[id] = codes[id]
             \/ \E status : codes'[id] = [codes[id] EXCEPT !.status = status]
    BY <1>1, <1>4 DEF Token
  <1>5. ASSUME NEW c \in CallIds, ConsumeCode(c)
        PROVE  Same
    <2>1. codes'[id] = codes[id] \/ codes'[id] = Consumed(codes[id])
      BY <1>5 DEF ConsumeCode, TypeInv, TypeOK
    <2> QED
      BY <1>1, <2>1 DEF Consumed, Live, Token
  <1>6. ASSUME NEW c \in CallIds, NEW new \in AccessIds, IssueAccess(c, new)
        PROVE  \/ Same
               \/ /\ Redeeming(calls[c], id) /\ ~Redeeming(calls'[c], id)
                  /\ codes'[id] = Redeem(codes[id])
    <2>1. calls[c] \in CallRecord /\ calls \in [CallIds -> CallRecord]
      BY DEF TypeInv, TypeOK
    <2>2. calls'[c].pc # "issueAccess"
      BY <1>6, <2>1 DEF IssueAccess, Goes, Idle, CallRecord
    <2>3. CASE calls[c].input.kind = "authorization_code" /\ calls[c].input.token = id
      BY <1>6, <2>2, <2>3 DEF IssueAccess, Redeeming, TypeInv, TypeOK
    <2>4. CASE ~(calls[c].input.kind = "authorization_code" /\ calls[c].input.token = id)
      BY <1>6, <2>4 DEF IssueAccess, TypeInv, TypeOK
    <2> QED
      BY <2>3, <2>4
  <1>7. ASSUME NEW c \in CallIds, RevokeCodes(c)
        PROVE  Same
    BY <1>4, <1>7 DEF RevokeCodes, Revoked, TypeInv, TypeOK
  <1>8. CASE SweepCodes
    BY <1>4, <1>8 DEF SweepCodes, TypeInv, TypeOK
  <1> QED
    BY <1>2, <1>3, <1>5, <1>6, <1>7, <1>8
       DEF Next, Step, vars, tables, ReadClient, ReadBearer, ReadForWrite, CheckTenant,
           ReadRefresh, CheckRefreshTenant, IssueRefresh, ReplaceRefresh, Touch, Upsert,
           RevokeAccess, RevokeRefresh, Fail, RevokeAccessToken, RevokeRefreshToken,
           DisableTenant, EnableTenant, SweepAccess, SweepRefresh, Tick

LEMMA SingleUseStep ==
  ASSUME TypeInv, [Next]_vars, NEW id \in CodeIds, SingleUse(id)
  PROVE  SingleUse(id)'
  <1>1. /\ codes[id] \in Token /\ codes'[id] \in Token
        /\ Later(codes[id], codes'[id])
    BY TypeStep, CodesMoveOn DEF TypeInv, TypeOK
  <1>2. codes'[id].status \in {"unused", "active"} =>
          codes[id].status \in {"unused", "active"}
    BY <1>1 DEF Later, Token, Statuses
  <1>3. ASSUME NEW c \in CallIds, Redeeming(calls'[c], id), ~Redeeming(calls[c], id)
        PROVE  /\ codes[id].status = "active" /\ codes'[id].status = "consumed"
               /\ codes'[id].redeemed = codes[id].redeemed
               /\ \A d \in CallIds : Redeeming(calls'[d], id) => c = d
    <2>1. ConsumeCode(c) /\ calls[c].input.token = id /\ Live(codes[id])
      BY <1>3, OnlyConsumersHoldCodes
    <2>2. codes'[id] = [codes[id] EXCEPT !.status = "consumed"]
      <3>1. codes'[id] = Consumed(codes[id])
        BY <2>1 DEF ConsumeCode, TypeInv, TypeOK
      <3> QED
        BY <2>1, <3>1 DEF Consumed, Live
    <2>3. ASSUME NEW d \in CallIds, d # c
          PROVE  ~Redeeming(calls'[d], id)
      <3>1. calls'[d] = calls[d]
        BY <2>1, <2>3 DEF ConsumeCode, Goes, TypeInv, TypeOK
      <3> QED
        BY <2>1, <3>1 DEF SingleUse, Live
    <2> QED
      BY <1>1, <2>1, <2>2, <2>3 DEF Live, Token
  <1>4. CASE \E c \in CallIds : Redeeming(calls'[c], id) /\ ~Redeeming(calls[c], id)
    BY <1>1, <1>3, <1>4 DEF SingleUse, Token
  <1>5. CASE \A c \in CallIds : Redeeming(calls'[c], id) => Redeeming(calls[c], id)
    <2>1. CASE codes'[id].redeemed = codes[id].redeemed
      BY <1>1, <1>2, <1>5, <2>1 DEF SingleUse, Token, Later
    <2>2. CASE codes[id].status = "unused" /\ codes'[id].redeemed = 0
      BY <1>1, <1>5, <2>2 DEF SingleUse, Token
    <2>3. ASSUME NEW c \in CallIds, Redeeming(calls[c], id), ~Redeeming(calls'[c], id),
                 codes'[id] = Redeem(codes[id])
          PROVE  SingleUse(id)'
      <3>1. /\ codes[id].redeemed = 0 /\ codes[id].status \notin {"unused", "active"}
            /\ \A d \in CallIds : ~Redeeming(calls'[d], id)
        BY <1>5, <2>3 DEF SingleUse
      <3>2. codes'[id].redeemed = 1 /\ codes'[id].status = codes[id].status
        BY <1>1, <2>3, <3>1 DEF Redeem, Token
      <3> QED
        BY <3>1, <3>2 DEF SingleUse
    <2> QED
      BY <2>1, <2>2, <2>3, OnlyHoldersRedeem
  <1> QED
    BY <1>4, <1>5

-----------------------------------------------------------------------------
(* The safety of the token service *)

LEMMA TokenServiceSafety == Spec => []IInv
  <1>1. Init => IInv
    <2> SUFFICES ASSUME Init PROVE IInv
      OBVIOUS
    <2>1. TypeInv
      BY InitTypes
    <2>2. \A c \in CallIds : calls[c].pc = "idle"
      BY DEF Init, Idle
    <2>3. HeirsNarrow
      BY DEF Init, Unused, HeirsNarrow, HeirNarrows
    <2>4. CodesInv
      BY <2>2 DEF Init, Unused, CodesInv, SingleUse, Redeeming
    <2> QED
      BY <2>1, <2>2, <2>3, <2>4 DEF IInv
  <1>2. IInv /\ [Next]_vars => IInv'
    <2> SUFFICES ASSUME IInv, [Next]_vars PROVE IInv'
      OBVIOUS
    <2> USE DEF IInv
    <2>1. TypeInv'
      BY TypeStep
    <2>2. ASSUME NEW c \in CallIds, calls'[c].pc # "idle"
          PROVE  Knows(c)'
      <3>1. DeadIsDead(c)'
        BY <2>2, DeadIsDeadStep DEF Knows
      <3>2. BearerIsKnown(c)'
        BY <2>2, BearerIsKnownStep DEF Knows
      <3>3. OffIsOff(c)'
        BY <2>2, OffIsOffStep DEF Knows
      <3>4. FoundIsGood(c)'
        BY <2>2, FoundIsGoodStep DEF Knows
      <3>5. HeirIsOwn(c)'
        BY <2>2, HeirIsOwnStep DEF Knows
      <3> QED
        BY <3>1, <3>2, <3>3, <3>4, <3>5 DEF Knows
    <2>3. HeirsNarrow'
      BY HeirNarrowsStep DEF HeirsNarrow
    <2>4. CodesInv'
      BY SingleUseStep DEF CodesInv
    <2> QED
      BY <2>1, <2>2, <2>3, <2>4
  <1> QED
    BY <1>1, <1>2, PTL DEF Spec

\* However many calls bring the same authorization code, at most one access
\* token is issued for it.
THEOREM CodesGiveOneToken == Spec => []CodesAreSingleUse
  <1>1. IInv => CodesAreSingleUse
    BY DEF IInv, CodesInv, SingleUse, CodesAreSingleUse
  <1> QED
    BY <1>1, TokenServiceSafety, PTL

\* No call gets or is accepted with a token that was dead when it arrived.
THEOREM DeadTokensStayUseless == Spec => []DeadTokensGiveNothing
  <1>1. IInv => DeadTokensGiveNothing
    <2> SUFFICES ASSUME IInv, NEW c \in CallIds, Committed(calls[c]),
                        calls[c].input.kind # "client_credentials"
                 PROVE  calls[c].input.token \notin calls[c].over
      BY DEF DeadTokensGiveNothing
    <2>1. /\ Received(calls[c]) /\ FoundIsGood(c) /\ calls[c].pc # "idle"
      BY DEF IInv, TypeInv, Knows, Committed
    <2>2. FoundGood(calls[c]) \/ calls[c].pc = "accepted"
      BY <2>1 DEF Received, KindsAt, Committed, FoundGood, Grants
    <2> QED
      BY <2>1, <2>2 DEF FoundIsGood
  <1> QED
    BY <1>1, TokenServiceSafety, PTL

\* What is issued for a code or a refresh token is for its client, with no
\* scope or role that it did not carry, and so is every successor.
THEOREM IssuedTokensOnlyNarrow == Spec => []TokensOnlyNarrow
  <1>1. IInv => TokensOnlyNarrow
    <2> SUFFICES ASSUME IInv PROVE TokensOnlyNarrow
      OBVIOUS
    <2>1. ASSUME NEW c \in CallIds, Committed(calls[c]),
                 calls[c].input.kind \in {"authorization_code", "refresh_token"}
          PROVE  /\ Source(calls[c].input.token).client = calls[c].input.client
                 /\ calls[c].scopes \subseteq Source(calls[c].input.token).scopes
      <3>1. /\ Received(calls[c]) /\ FoundIsGood(c) /\ calls[c].pc # "idle"
            /\ FoundGood(calls[c])
        BY <2>1 DEF IInv, TypeInv, Knows, Committed, FoundGood
      <3>2. CASE calls[c].input.kind = "authorization_code"
        BY <3>1, <3>2, InputTypes DEF Received, FoundIsGood, Covers, Source
      <3>3. CASE calls[c].input.kind = "refresh_token"
        BY <3>1, <3>3, InputTypes, TokenServiceAssumption
           DEF Received, FoundIsGood, Covers, Source
      <3> QED
        BY <2>1, <3>2, <3>3
    <2>2. ASSUME NEW id \in RefreshIds, refreshTokens[id].replacedBy # NoToken
          PROVE  LET heir == refreshTokens[id].replacedBy IN
                 /\ refreshTokens[heir].client = refreshTokens[id].client
                 /\ refreshTokens[heir].scopes \subseteq refreshTokens[id].scopes
      BY <2>2 DEF IInv, HeirsNarrow, HeirNarrows
    <2> QED
      BY <2>1, <2>2 DEF TokensOnlyNarrow
  <1> QED
    BY <1>1, TokenServiceSafety, PTL

\* A call that arrives while its tenant is disabled gets no token, and no token
\* it brings is accepted, as long as the tenant stays so.
THEOREM DisabledTenantsGetNothing == Spec => []DisabledTenantGetsNothing
  <1>1. IInv => DisabledTenantGetsNothing
    BY DEF IInv, Knows, OffIsOff, PastTenant, Committed, DisabledTenantGetsNothing
  <1> QED
    BY <1>1, TokenServiceSafety, PTL

=============================================================================
