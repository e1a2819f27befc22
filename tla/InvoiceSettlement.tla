------------------------- MODULE InvoiceSettlement -------------------------
(***************************************************************************)
(* What collecting a bill promises, with nothing of how it is done: no     *)
(* processes, no payment attempts, no network, no failures.  An invoice is *)
(* finalized once, it is settled once and only with money behind it (or    *)
(* nothing owed), and the ledger is credited at most once and only for an  *)
(* invoice that is settled.  Receipts may pile up: the promise does not    *)
(* say that a customer is charged once (see README, "Findings").           *)
(***************************************************************************)
EXTENDS Naturals

CONSTANTS Invoices,     \* invoice ids
          Receipts,     \* names of single captures of money
          TotalCents    \* what each invoice asks for

VARIABLES status,       \* status of each invoice
          collected,    \* receipts held for each invoice
          credited      \* number of payment rows each invoice has in the ledger

vars == <<status, collected, credited>>

Init == /\ status \in [Invoices -> {"DRAFT", "FINALIZED"}]
        /\ collected = [i \in Invoices |-> {}]
        /\ credited = [i \in Invoices |-> 0]

Finalize(i) == /\ status[i] = "DRAFT"
               /\ status' = [status EXCEPT ![i] = "FINALIZED"]
               /\ UNCHANGED <<collected, credited>>

\* Money is only ever taken for an invoice that left DRAFT.
Collect(i, r) == /\ status[i] # "DRAFT"
                 /\ r \notin collected[i]
                 /\ collected' = [collected EXCEPT ![i] = @ \cup {r}]
                 /\ UNCHANGED <<status, credited>>

Settle(i) == /\ status[i] = "FINALIZED"
             /\ TotalCents[i] = 0 \/ collected[i] # {}
             /\ status' = [status EXCEPT ![i] = "PAID"]
             /\ UNCHANGED <<collected, credited>>

Credit(i) == /\ status[i] = "PAID"
             /\ credited[i] = 0
             /\ credited' = [credited EXCEPT ![i] = 1]
             /\ UNCHANGED <<status, collected>>

Next == \E i \in Invoices : \/ Finalize(i)
                            \/ Settle(i)
                            \/ Credit(i)
                            \/ \E r \in Receipts : Collect(i, r)

Spec == Init /\ [][Next]_vars
=============================================================================
