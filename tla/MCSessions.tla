----------------------------- MODULE MCSessions -----------------------------
(***************************************************************************)
(* Small instances of Sessions: two devices of which each may have several *)
(* calls under way, few enough tokens that every rotation matters, and an  *)
(* address that may be registered with either of two passwords.            *)
(***************************************************************************)
EXTENDS Sessions, TLC

Symmetry ==
  Permutations(Families) \cup Permutations(Tokens) \cup Permutations(Workers)
    \cup Permutations(Passwords)
=============================================================================
