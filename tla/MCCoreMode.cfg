\* Two calls at a time by callers of two tenants and of none, whose creations
\* meet on one id, with crashes and failures anywhere.
CONSTANTS
  default = default
  acme = acme
  Tenants = {default, acme}
  DefaultTenant = default
  NoTenant = NoTenant
  Ids = {1, 2}
  Limit = 2
  root = root
  dora = dora
  ann = ann
  Callers = {root, dora, ann}
  TenantOf <- MCTenantOf
  s1 = s1
  s2 = s2
  Secrets = {s1, s2}
  RuleIds <- MCRuleIds
  RuleIdOf <- MCRuleIdOf
  c1 = c1
  c2 = c2
  CallIds = {c1, c2}
  Inputs <- MCInputs
  NoCall = NoCall
  NoRow = NoRow
  NoRule = NoRule
  NoEntry = NoEntry
  NoFile = NoFile
  Empty = Empty
  Torn = Torn
SYMMETRY Calls
CONSTRAINT Undisturbed
SPECIFICATION Spec
INVARIANTS
  AcknowledgedCallsAreComplete
PROPERTIES
  RestartRestoresRules
  TenantsStayApart
