\* Three principals, one grant, three handlers at a time; one unit longer than
\* the maximum may be asked for.
CONSTANTS
  g1 = g1
  GrantIds = {g1}
  alice = alice
  bob = bob
  carol = carol
  Principals = {alice, bob, carol}
  acme = acme
  globex = globex
  Tenants = {acme, globex}
  NoTenant = NoTenant
  TenantOf <- MCTenantOf
  deploy = deploy
  Requests = {deploy}
  NoFingerprint = NoFingerprint
  Quorums = {1, 2}
  Durations = {1, 2}
  MaxDuration = 1
  MaxClock = 2
  MaxInFlight = 3
SPECIFICATION FairSpec
INVARIANTS
  DistinctQuorum
  OperatorsStayInTenant
PROPERTIES
  GrantsEnd
  EndedStaysEnded
  ImplementsQuorumGrant
