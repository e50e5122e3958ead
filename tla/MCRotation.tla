----------------------------- MODULE MCRotation -----------------------------
(* Rotation on the credentials of two tenants, with two principals.*)
EXTENDS Rotation, TLC

CONSTANTS alice, root, acme, globex, db, mail, old, new, r1, r2, c1, c2

MCTenantOf == (alice :> acme) @@ (root :> NoTenant)
MCCredentialTenant == (db :> acme) @@ (mail :> globex)

OnRun(kind, by, run, ref) ==
  [kind |-> kind, by |-> by, run |-> run, credential |-> NoCredential,
   patch |-> [ref |-> ref, status |-> "kept"]]

OnCredential(kind, by, credential, patch) ==
  [kind |-> kind, by |-> by, run |-> NoRun, credential |-> credential, patch |-> patch]

\* alice is confined to acme; root plans for both tenants.
MCInputs ==
  {OnCredential("create", alice, db, NoPatch),
   OnCredential("plan", root, NoCredential, NoPatch),
   OnCredential("edit", alice, db, [ref |-> NoRef, status |-> "disabled"]),
   OnRun("start", alice, r1, NoRef), OnRun("fail", root, r1, NoRef),
   OnRun("complete", alice, r1, new)}

Calls == Permutations(CallIds)

=============================================================================
