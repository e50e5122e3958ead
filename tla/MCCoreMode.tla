----------------------------- MODULE MCCoreMode -----------------------------
(* CoreMode with two tenants, an operator of each and one of none.          *)
EXTENDS CoreMode, TLC

CONSTANTS default, acme, root, dora, ann, s1, s2, c1, c2

MCTenantOf == (root :> NoTenant) @@ (dora :> default) @@ (ann :> acme)

\* The tenants' names keep the rule ids apart.
MCRuleIds == Refs
MCRuleIdOf == [ref \in Refs |-> ref]

A(kind, by, tenant, id, adapter, owner, secret) ==
  [kind |-> kind, by |-> by, tenant |-> tenant, id |-> id, adapter |-> adapter,
   owner |-> owner, secret |-> secret]

\* One credential is made, changed and unmade by those who may.  An operator
\* of the other tenant makes one of the same id, by reference to an
\* environment variable, and one with a secret beside it.
MCInputs ==
  {A("create", dora, default, 1, "local", "local", s1),
   A("replace", dora, default, 1, "local", "local", s2),
   A("update", root, default, 1, "local", "local", s1),
   A("delete", dora, default, 1, "local", "local", s1),
   A("create", ann, acme, 1, "env", "team", s1),
   A("create", ann, acme, 2, "local", "team", s1)}

\* Creations of one id, of which the second names a tenant not its caller's.
ForeignInputs ==
  {A("create", dora, default, 1, "local", "local", s1),
   A("create", ann, default, 1, "local", "local", s2)}

\* Bound: calls for one id do not overlap, and a run ends where a write is
\* lost.
Undisturbed == contended = {} /\ ~overtaken

Calls == Permutations(CallIds)

=============================================================================
