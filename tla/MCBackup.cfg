\* Exports, and restores by operators of two tenants and of none, beside one
\* request, on either database.
CONSTANTS
  acme = acme
  globex = globex
  Tenants = {acme, globex}
  NoTenant = NoTenant
  Databases = {"local", "postgres"}
  k = k
  c = c
  a = a
  t = t
  NoId = NoId
  Rows <- MCRows
  InitialRows <- MCInitialRows
  Payloads <- MCPayloads
  root = root
  ann = ann
  gus = gus
  Operators = {root, ann, gus}
  TenantOf <- MCTenantOf
  w1 = w1
  Writers = {w1}
  NoRow = NoRow
  Slots = {1}
  NoExport = NoExport
  NoTransaction = NoTransaction
CONSTRAINT OneAtATime
SPECIFICATION BackupSpec
INVARIANTS
  LocalBackupsAreComplete
PROPERTIES
  FullRestoreReplacesAll
  ScopedRestoresAreContained
