------------------------------ MODULE MCBroker ------------------------------
(* Broker on one credential that may belong to either of two tenants.       *)
EXTENDS Broker, TLC

CONSTANTS alice, bob, acme, globex, deploy, publish, token, a1, g1, c1, c2

MCTenantOfGrants == (alice :> acme) @@ (bob :> NoTenant)
MCTenantOf == (alice :> acme) @@ (bob :> globex)

\* Both requests use the one credential.
MCCredentialOf == [request \in Requests |-> token]

\* acme's credential, and globex's after the id was deleted and created again.
TwoOwners ==
  {[tenant |-> acme, permits |-> Requests], [tenant |-> globex, permits |-> Requests]}

\* acme's credential, disabled: policy denies its use.  And globex's.
DisabledOrForeign ==
  {[tenant |-> acme, permits |-> {}], [tenant |-> globex, permits |-> Requests]}

AllowAlways == [key \in Tenants \X Principals \X Requests |-> "allow"]
AskInAcme ==
  [key \in Tenants \X Principals \X Requests |->
     IF key[1] = acme THEN "approval" ELSE "deny"]

MCRuleSets == {AskInAcme, AllowAlways}
MCAllowOnly == {AllowAlways}

Ask(mode, by, request, approval) ==
  [mode |-> mode, by |-> by, request |-> request, approvalId |-> approval, grantId |-> NoId]
Emergency(mode, by, request, grant) ==
  [mode |-> mode, by |-> by, request |-> request, approvalId |-> NoId, grantId |-> grant]

ApprovalInputs ==
  {Ask("live", alice, deploy, NoId), Ask("live", alice, deploy, a1),
   Ask("dry_run", alice, deploy, NoId), Ask("live", alice, publish, a1)}

GrantInputs ==
  {Emergency("break_glass", alice, deploy, NoId), Emergency("live", alice, deploy, g1),
   Emergency("dry_run", alice, deploy, g1), Emergency("live", alice, publish, g1)}

TwoCalls == Permutations({c1, c2})

=============================================================================
