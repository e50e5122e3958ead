\* Two requests at a time, four tokens of two tenants, one MCP session.
CONSTANTS
  r1 = r1
  r2 = r2
  Requests = {r1, r2}
  admin = admin
  consumer = consumer
  agent = agent
  fresh = fresh
  TokenIds = {admin, consumer, agent, fresh}
  NoToken = NoToken
  InitialTokens = {admin, consumer, agent}
  Issued <- MCIssued
  acme = acme
  globex = globex
  Tenants = {acme, globex}
  s1 = s1
  SessionIds = {s1}
  Asks <- MCAsks
  Quickstart = TRUE
SPECIFICATION Spec
INVARIANTS
  RunsAsItsCaller
  FrontEndsAgree
  DutiesAreSeparated
