-------------------------- MODULE MCTenantRequests --------------------------
(***************************************************************************)
(* Small instances of TenantRequests: two users who make two requests, and *)
(* calls that overlap.                                                     *)
(***************************************************************************)
EXTENDS TenantRequests, TLC

Symmetry == Permutations(Users) \cup Permutations(Requests) \cup Permutations(Workers)
=============================================================================
