---------------------------- MODULE MCInvoicing ----------------------------
(***************************************************************************)
(* Small instances of Invoicing: one tenant over two months; usage with a  *)
(* default price and, from the second month on, a price of the tenant's    *)
(* own in another currency; a debit, and a credit for half of it, posted   *)
(* in either month.                                                        *)
(***************************************************************************)
EXTENDS Invoicing, TLC

CONSTANTS t1, ship, debit, credit, usd, eur

MCRules ==
  {[tenant |-> None, kind |-> ship, price |-> 2, currency |-> usd, from |-> 1,
    to |-> Forever],
   [tenant |-> t1, kind |-> ship, price |-> 1, currency |-> eur, from |-> 2,
    to |-> Forever]}

MCAdjustment ==
  [e \in Adjustments |->
     [tenant |-> t1, tx |-> IF e = debit THEN "DEBIT" ELSE "CREDIT", kind |-> ship,
      amount |-> IF e = debit THEN 2 ELSE 1, currency |-> usd]]

\* Workers and invoice ids are interchangeable.
InvoicingSymmetry == Permutations(Workers) \cup Permutations(Ids)
=============================================================================
