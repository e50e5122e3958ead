------------------------------ MODULE MCBackup ------------------------------
(* Backup with two tenants that may both use the credential id k, a client  *)
(* of one of them, and an operator of each and one of none.                 *)
EXTENDS Backup, TLC

CONSTANTS acme, globex, root, ann, gus, k, c, a, t

MCTenantOf ==
  [by \in Operators |->
    IF by = root THEN NoTenant ELSE IF by = ann THEN acme ELSE globex]

R(table, id, tenant, parent) ==
  [table |-> table, id |-> id, tenant |-> tenant, parent |-> parent]

Home(tenant) == R("tenants", tenant, tenant, NoId)

AcmeKey == R("credentials", k, acme, NoId)
GlobexKey == R("credentials", k, globex, NoId)
Run == R("runs", a, acme, k)
Client == R("clients", c, acme, NoId)
Token == R("tokens", t, acme, c)
Limit == R("limits", t, NoTenant, NoId)

MCInitialRows == {Home(acme), Home(globex), AcmeKey}
MCRows == MCInitialRows \cup {GlobexKey, Run, Client, Token, Limit}

\* Nothing at all; a whole tenant, with its own key or with another's taken
\* for its own; and a tenant that takes the key.
MCPayloads ==
  {{}, {Home(acme), AcmeKey, Run, Client, Token}, {Home(acme), Run},
   {Home(globex), GlobexKey}}

\* Bound: on Postgres no export and restore at once.
OneAtATime ==
  database = "local" \/ restore = NoTransaction
    \/ \A slot \in Slots : exports[slot] = NoExport
=============================================================================
