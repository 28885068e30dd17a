--------------------------- MODULE MCInventorySync ---------------------------
(* Two syncs, with --limit 1 or none and pages of one record, over three units of which the  *)
(* ERP lists two at first.                                                                   *)
EXTENDS InventorySync

CONSTANTS u1, u2, open, gone, unheard

MCFirst == <<[unit |-> u1, data |-> open], [unit |-> u2, data |-> open]>>
=============================================================================
