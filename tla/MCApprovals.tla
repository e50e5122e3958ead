---------------------------- MODULE MCApprovals ----------------------------
(* Approvals on four principals: two of one tenant, one of another, and one *)
(* that is bound to no tenant.                                              *)
EXTENDS Approvals, TLC

CONSTANTS alice, bob, carol, dave, acme, globex, deploy, a1

MCTenantOf == (alice :> acme) @@ (bob :> globex) @@ (carol :> NoTenant) @@ (dave :> acme)

=============================================================================
