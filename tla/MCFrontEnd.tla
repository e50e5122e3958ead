----------------------------- MODULE MCFrontEnd -----------------------------
(* FrontEnd with one token of every scope for an administrator, one of      *)
(* every scope for a mere consumer, one narrow token bound to the MCP       *)
(* endpoint, and one that is handed out later.                              *)
EXTENDS FrontEnd, TLC

CONSTANTS admin, consumer, agent, fresh, acme, globex, r1, r2, s1

Context(t, scopes, roles, tenant, resource) ==
  [principal |-> t, scopes |-> scopes, roles |-> roles, tenant |-> tenant,
   resource |-> resource]

MCIssued ==
  admin :> Context(admin, AllScopes, {"admin"}, acme, "any")
  @@ consumer :> Context(consumer, AllScopes, {"consumer"}, globex, "any")
  @@ agent :> Context(agent, {"catalog:read", "broker:use", "mcp:use"},
                      {"operator"}, globex, "mcp")
  @@ fresh :> Context(fresh, AllScopes \ {"mcp:use"}, {"approver", "auditor"}, acme, "api")

\* One slot asks for anything; the other for what changes later requests, and
\* for two tools.
MCAsks ==
  r1 :> {row.op : row \in Routes}
  @@ r2 :> {"auth.revokeToken", "tenants.update", "broker.requestAccess",
            "broker.reviewBreakGlassRequest"}
=============================================================================
