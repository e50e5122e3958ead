\* One tenant-bound and two unbound reviewers, quorums of one and two, and a
\* clock long enough for a request to be created, reviewed and to expire.
CONSTANTS
  a1 = a1
  ApprovalIds = {a1}
  alice = alice
  bob = bob
  carol = carol
  dave = dave
  Principals = {alice, bob, carol, dave}
  acme = acme
  globex = globex
  Tenants = {acme, globex}
  NoTenant = NoTenant
  TenantOf <- MCTenantOf
  deploy = deploy
  Requests = {deploy}
  NoFingerprint = NoFingerprint
  Quorums = {1, 2}
  Ttl = 1
  MaxClock = 2
  MaxInFlight = 3
SPECIFICATION FairSpec
INVARIANTS
  DistinctQuorum
  ReviewsStayInTenant
  AuditIsTruthful
PROPERTIES
  PendingSettles
  DecisionsAreFinal
  ImplementsQuorumGrant
