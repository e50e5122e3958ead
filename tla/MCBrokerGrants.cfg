\* The break-glass path: two calls, one grant, one operator call.
CONSTANTS
  a1 = a1
  g1 = g1
  ApprovalIds = {}
  GrantIds = {g1}
  alice = alice
  bob = bob
  Principals = {alice, bob}
  acme = acme
  globex = globex
  Tenants = {acme, globex}
  NoTenant = NoTenant
  TenantOf <- MCTenantOfGrants
  deploy = deploy
  publish = publish
  Requests = {deploy, publish}
  NoFingerprint = NoFingerprint
  ApprovalQuorums = {1}
  GrantQuorums = {2}
  Ttl = 1
  Durations = {1}
  MaxDuration = 1
  c1 = c1
  c2 = c2
  CallIds = {c1, c2}
  token = token
  CredentialIds = {token}
  CredentialOf <- MCCredentialOf
  NoCredential = NoCredential
  CredentialStates <- DisabledOrForeign
  RuleSets <- MCAllowOnly
  NoId = NoId
  Inputs <- GrantInputs
  NoInput = NoInput
  MaxClock = 1
  MaxApprovalCalls = 0
  MaxGrantCalls = 1
SYMMETRY TwoCalls
SPECIFICATION Spec
INVARIANTS
  UseIsAuthorized
  NoUseOfEndedAuthority
  AuditAroundUse
PROPERTIES
  UsesBreakGlass
