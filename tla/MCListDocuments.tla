--------------------------- MODULE MCListDocuments ----------------------------
(* Small instances of ListDocuments. *)
EXTENDS ListDocuments, TLC
===============================================================================
