------------------------------ MODULE MCOsmStore ------------------------------
(* A small instance of OsmStore: a file with five ids, more than two buffers of  *)
(* them, one of which also comes with a second version of its object.            *)
EXTENDS OsmStore, TLC

Ids == 1..5
Edited == 1

MCPbf == {<<id, "original">> : id \in Ids} \cup {<<Edited, "edited">>}
===============================================================================
