----------------------------- MODULE MCTenancy -----------------------------
(***************************************************************************)
(* Small instances of Tenancy: a founder, two more users, and two calls at *)
(* a time.                                                                 *)
(***************************************************************************)
EXTENDS Tenancy, TLC

CONSTANTS founder, ann, bob

MCFirstRows == {NoRow, Row("member", "pending"), Row("member", "active"),
                Row("admin", "active")}

Symmetry == Permutations(Workers)
=============================================================================
