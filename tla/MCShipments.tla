---------------------------- MODULE MCShipments ----------------------------
(***************************************************************************)
(* A small instance of Shipments: two requests, two rows, an editor.       *)
(***************************************************************************)
EXTENDS Shipments
=============================================================================
