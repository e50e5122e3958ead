\* The interactive grants: one code, two refresh tokens, two access tokens,
\* two calls at a time.
CONSTANTS
  web = web
  cli = cli
  Clients = {web, cli}
  acme = acme
  Tenants = {acme}
  ClientTenant <- MCClientTenant
  read = read
  write = write
  Scopes = {read, write}
  InitialScopes = {read, write}
  InitialMethod <- MCPublic
  Kinds = {"authorization_code", "refresh_token"}
  k1 = k1
  CodeIds = {k1}
  r1 = r1
  r2 = r2
  RefreshIds = {r1, r2}
  t1 = t1
  t2 = t2
  AccessIds = {t1, t2}
  NoToken = NoToken
  NoRow = NoRow
  NoInput = NoInput
  c1 = c1
  c2 = c2
  CallIds = {c1, c2}
  Inputs <- GrantInputs
  Patches <- NoPatches
  CodeTtl = 1
  RefreshTtl = 1
  AccessTtl = 1
  MayFail = TRUE
  MaxSecret = 1
  MaxClock = 1
SYMMETRY Interchangeable
SPECIFICATION Spec
INVARIANTS
  DeadTokensGiveNothing
  CodesAreSingleUse
  TokensOnlyNarrow
