\* The approval path: two calls, one approval request, one reviewer call.
CONSTANTS
  a1 = a1
  g1 = g1
  ApprovalIds = {a1}
  GrantIds = {}
  alice = alice
  bob = bob
  Principals = {alice, bob}
  acme = acme
  globex = globex
  Tenants = {acme, globex}
  NoTenant = NoTenant
  TenantOf <- MCTenantOf
  deploy = deploy
  publish = publish
  Requests = {deploy, publish}
  NoFingerprint = NoFingerprint
  ApprovalQuorums = {1}
  GrantQuorums = {1}
  Ttl = 1
  Durations = {1}
  MaxDuration = 1
  c1 = c1
  c2 = c2
  CallIds = {c1, c2}
  token = token
  CredentialIds = {token}
  CredentialOf <- MCCredentialOf
  NoCredential = NoCredential
  CredentialStates <- TwoOwners
  RuleSets <- MCRuleSets
  NoId = NoId
  Inputs <- ApprovalInputs
  NoInput = NoInput
  MaxClock = 1
  MaxApprovalCalls = 1
  MaxGrantCalls = 0
SYMMETRY TwoCalls
SPECIFICATION Spec
INVARIANTS
  UseIsAuthorized
  NoUseOfEndedAuthority
  TenantScopedCalls
PROPERTIES
  UsesApprovals
