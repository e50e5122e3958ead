\* Two requests at a time, on either database, and one client assertion.
CONSTANTS
  r1 = r1
  r2 = r2
  Requests = {r1, r2}
  Databases = {"local", "postgres"}
  MaxRequests = 1
  Window = 1
  a1 = a1
  Assertions = {a1}
  NoAssertion = NoAssertion
  Expiry <- MCExpiry
  NoBucket = NoBucket
  Times = {0, 1, 5}
SPECIFICATION FairSpec
INVARIANTS
  LocalLimitHolds
  AssertionsAreUsedOnce
PROPERTIES
  ExpiredRowsAreSwept
