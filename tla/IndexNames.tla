------------------------------ MODULE IndexNames ------------------------------
(***************************************************************************)
(* How index and alias names are built and taken apart                     *)
(* (libs/mimir/src/domain/model/configuration.rs).  A name is a string of  *)
(* pieces joined by '_'; here it is the sequence of its pieces, so that    *)
(* formatting is concatenation, parsing picks pieces by position, and the  *)
(* wildcard "base_*" of Elasticsearch selects the names of which base is a *)
(* strict prefix.  A dataset is itself a sequence of pieces: the dataset   *)
(* "fr" is <<"fr">>, the dataset "fr_ne" is <<"fr", "ne">>.  A creation    *)
(* time is one piece (its inner '_' play no role: it only ever comes last).*)
(***************************************************************************)
EXTENDS Naturals, Sequences

INDEX_ROOT == "munin"

root == <<INDEX_ROOT>>

root_doctype(doc_type) == <<INDEX_ROOT, doc_type>>

root_doctype_dataset(doc_type, dataset) == <<INDEX_ROOT, doc_type>> \o dataset

root_doctype_dataset_ts(doc_type, dataset, ts) ==
    root_doctype_dataset(doc_type, dataset) \o <<ts>>

\* The document type and the dataset are the second and the third piece of the
\* name, whatever the dataset the name was built from.
split_index_name(name) == [doc_type |-> name[2], dataset |-> <<name[3]>>]

\* What the wildcard "{base}_*" selects.
Matches(base, name) ==
    /\ Len(base) < Len(name)
    /\ \A i \in 1..Len(base) : name[i] = base[i]
===============================================================================
