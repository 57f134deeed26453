--------------------------- MODULE MCTenantConfig ---------------------------
(***************************************************************************)
(* Two tenants, two installations, three concurrent requests.              *)
(***************************************************************************)
EXTENDS TenantConfig, TLC

Symm == Permutations(Tenant) \cup Permutations(Installation) \cup Permutations(Req)
=============================================================================
