---------------------------- MODULE MCBreakGlass ----------------------------
(* BreakGlass on three principals of two tenants and none.                  *)
EXTENDS BreakGlass, TLC

CONSTANTS alice, bob, carol, acme, globex, deploy, g1

MCTenantOf == (alice :> acme) @@ (bob :> globex) @@ (carol :> NoTenant)

=============================================================================
