----------------------------- MODULE MCPayment -----------------------------
(***************************************************************************)
(* Small instances of Payment: two goroutines, in two processes or in one; *)
(* an invoice to charge and one that owes nothing; one or two attempt ids. *)
(***************************************************************************)
EXTENDS Payment, TLC

CONSTANTS p1, p2, w1, w2, owing, zero

MCHome == [w \in Workers |-> IF w = w1 THEN p1 ELSE p2]
MCSharedHome == [w \in Workers |-> p1]
MCTotalCents == [i \in Invoices |-> IF i = zero THEN 0 ELSE 100]

\* Attempt ids are fresh UUIDs: which one a call draws does not matter.
AttemptSymmetry == Permutations(Attempts)
=============================================================================
