--------------------------- MODULE MCBulkInsertion ----------------------------
(* Small instances of BulkInsertion. *)
EXTENDS BulkInsertion, TLC
CONSTANTS a, b
===============================================================================
