-------------------------- MODULE MCCommunications --------------------------
(***************************************************************************)
(* Small instances of Communications: two events.                          *)
(***************************************************************************)
EXTENDS Communications, TLC

Empty == [q \in Queues |-> {}]

Left(q, payload, n) ==
  [Empty EXCEPT ![q] = {[key |-> 0, payload |-> payload, retry |-> n]}]

Case(first, second, others) == [log |-> <<first, second>>, left |-> others]

\* Shipments alone and beside other events; and jobs without a payload, to be tried
\* again or given up, or not readable at all, beside events of other kinds.
MCStarts == {Case("created", "created", Empty), Case("created", "other", Empty),
             Case("other", "created", Empty),
             Case("garbage", "created", Empty),
             Case("garbage", "other", Left("email", "empty", 0)),
             Case("other", "garbage", Left("sms", "empty", 1)),
             Case("other", "other", Left("sms", "garbage", 0))}
=============================================================================
