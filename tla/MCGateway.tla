----------------------------- MODULE MCGateway -----------------------------
(***************************************************************************)
(* A small instance of Gateway: a listing, with a limit of 2^32 + 1, next  *)
(* to the health check; one with an offset of 2^31, and one whose limit is *)
(* no int; introspection; and two creations in one mutation.               *)
(***************************************************************************)
EXTENDS Gateway, TLC

MCDocuments ==
  {Query(<<Shipments({"status", "eta"}, None, 2 * Half + 1, None), Plain("health")>>),
   Query(<<Shipments({"id"}, "IN_TRANSIT", None, Half)>>),
   Query(<<Shipments({"id"}, None, LargestInt + 1, None)>>),
   Query(<<Plain("health"), Plain("__type")>>),
   Mutation(<<CreateShipment({"id", "eta"}, 1), CreateShipment({"id", "eta"}, 2)>>)}

\* The slots of the HTTP server are alike.
RequestSymmetry == Permutations(Requests)
=============================================================================
