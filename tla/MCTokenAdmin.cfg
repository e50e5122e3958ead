\* Machine tokens beside the administration of their client: updates,
\* rotation, revocation, disabled tenants.
CONSTANTS
  web = web
  cli = cli
  Clients = {web}
  acme = acme
  Tenants = {acme}
  ClientTenant <- MCClientTenant
  read = read
  write = write
  Scopes = {read, write}
  InitialScopes = {read, write}
  InitialMethod <- MCConfidential
  Kinds = {"client_credentials"}
  k1 = k1
  CodeIds = {}
  r1 = r1
  r2 = r2
  RefreshIds = {}
  t1 = t1
  t2 = t2
  AccessIds = {t1}
  NoToken = NoToken
  NoRow = NoRow
  NoInput = NoInput
  c1 = c1
  c2 = c2
  CallIds = {c1, c2}
  Inputs <- AdminInputs
  Patches <- MCPatches
  CodeTtl = 1
  RefreshTtl = 1
  AccessTtl = 1
  MayFail = TRUE
  MaxSecret = 2
  MaxClock = 1
SYMMETRY TwoCalls
SPECIFICATION Spec
INVARIANTS
  DisabledTenantGetsNothing
