-------------------------- MODULE MCIndexPublication --------------------------
(* Small instances of IndexPublication. *)
EXTENDS IndexPublication, TLC

CONSTANTS r1, r2, r3

MCDocTypes == {"addr", "street"}
MCPieces == {"fr", "be", "ne"}

\* Three runs of one container, the last one Private.
OneContainerRuns == {r1, r2, r3}
OneContainerDocType == [r \in OneContainerRuns |-> "addr"]
OneContainerDataset == [r \in OneContainerRuns |-> <<"fr">>]
OneContainerVisibility == [r \in OneContainerRuns |-> IF r = r3 THEN "Private" ELSE "Public"]

\* Two runs of one container beside runs of other containers that share the
\* doctype alias, the dataset or the root alias with it.
MixedRuns == {r1, r2, r3}
MixedDocType == [r \in MixedRuns |-> "addr"]
MixedDataset == [r \in MixedRuns |-> IF r = r3 THEN <<"be">> ELSE <<"fr">>]
MixedVisibility == [r \in MixedRuns |-> "Public"]

\* A dataset whose name continues another's with '_'.
NestedRuns == {r1, r2}
NestedDocType == [r \in NestedRuns |-> "addr"]
NestedDataset == [r \in NestedRuns |-> IF r = r2 THEN <<"fr", "ne">> ELSE <<"fr">>]
NestedVisibility == [r \in NestedRuns |-> "Public"]
===============================================================================
