\* Two calls at a time over the credentials of two tenants and two runs.
CONSTANTS
  alice = alice
  root = root
  Principals = {alice, root}
  acme = acme
  globex = globex
  Tenants = {acme, globex}
  NoTenant = NoTenant
  TenantOf <- MCTenantOf
  db = db
  mail = mail
  CredentialIds = {db, mail}
  CredentialTenant <- MCCredentialTenant
  old = old
  new = new
  Refs = {old, new}
  InitialRefs = {old}
  NoRef = NoRef
  NoRun = NoRun
  NoCredential = NoCredential
  NoRow = NoRow
  NoInput = NoInput
  r1 = r1
  r2 = r2
  RunIds = {r1, r2}
  c1 = c1
  c2 = c2
  CallIds = {c1, c2}
  Inputs <- MCInputs
SYMMETRY Calls
SPECIFICATION Spec
INVARIANTS
  OneOpenRun
  CompletedMeansApplied
  AuditMatchesOutcome
PROPERTIES
  ClosedRunsStay
