----------------------------- MODULE BragiRequests -----------------------------
(***************************************************************************)
(* What bragi decides about a request before and after it asks             *)
(* Elasticsearch: which routes accept it (adapters/primary/bragi/routes.rs)*)
(* which indices it is searched in (handlers.rs), and the status of the    *)
(* answer when no route takes it.                                          *)
(*                                                                         *)
(* A request is a record; of its texts only what the code tests is kept:   *)
(*   path      the endpoint, or "unknown"                                  *)
(*   method    GET, POST or another                                        *)
(*   params    "none" without a query string, "unreadable" when it cannot  *)
(*             be deserialized, "read" otherwise                           *)
(*   q         FALSE when the query string q is empty                      *)
(*   position  "none", "valid", "half" (lat or lon missing) or "outside"   *)
(*   types, zone_types, pt_dataset, poi_dataset                            *)
(*             options: {} for None, {S} for Some(S)                       *)
(*   doc_type  of the document to explain                                  *)
(*   body      "shape" when it holds a GeoJson feature with a geometry     *)
(***************************************************************************)
EXTENDS IndexNames

Handlers == {"autocomplete", "autocomplete-explain", "reverse", "features", "status", "metrics"}

methods(path) ==
    IF path \in {"autocomplete", "autocomplete-explain"} THEN {"GET", "POST"} ELSE {"GET"}

\* Only /autocomplete goes through the ensure_* filters.
ensured(q) ==
    /\ q.q
    /\ \A T \in q.types : "zone" \in T => \E Z \in q.zone_types : Z # {}
    /\ q.position \in {"none", "valid"}

query_rejections(q) ==
    IF q.path \in {"status", "metrics"} THEN {}
    ELSE IF q.params = "none" THEN {"InvalidQuery"}
    ELSE IF q.params = "unreadable" \/ (q.path = "autocomplete" /\ ~ensured(q))
    THEN {"InvalidRequest"}
    ELSE {}

\* The body is only looked at once the query is accepted.
rejections(q) ==
    IF q.path \notin Handlers \/ q.method \notin methods(q.path) THEN {"NotThisRoute"}
    ELSE IF query_rejections(q) # {} THEN query_rejections(q)
    ELSE IF q.method = "POST" /\ q.body # "shape" THEN {"InvalidPostBody"}
    ELSE {}

\* Every route is tried when one rejects; the GET routes reject a POST, and the
\* POST routes a GET, before they look at the path.
with_other_routes(R) == R \cup {"MethodNotAllowed"}

\* Mutant: a missing route is looked for before internal errors.
report_route_first(R) ==
    IF "InvalidQuery" \in R THEN "invalid query"
    ELSE IF "InvalidRequest" \in R THEN "validation error"
    ELSE IF "MethodNotAllowed" \in R THEN "no route"
    ELSE "query error"

\* The status of the answer, from the first of these that was rejected with.
report_invalid(R) ==
    IF "InvalidQuery" \in R THEN "invalid query"
    ELSE IF "InvalidRequest" \in R THEN "validation error"
    ELSE IF "ObjectNotFoundError" \in R THEN "Unable to find object"
    ELSE IF "InternalError" \in R THEN "query error"
    ELSE IF "MethodNotAllowed" \in R THEN "no route"
    ELSE "INTERNAL_SERVER_ERROR"

\* Mutant: the document type is searched beside the datasets.
dataset_and_type_indices(doc_type, dataset) ==
    {root_doctype(doc_type)} \cup {root_doctype_dataset(doc_type, d) : d \in UNION dataset}

\* The aliases of the given datasets, or that of the whole document type.
dataset_indices(doc_type, dataset) ==
    IF dataset = {} THEN {root_doctype(doc_type)}
    ELSE {root_doctype_dataset(doc_type, d) : d \in UNION dataset}

type_indices(type, pt_dataset, poi_dataset) ==
    CASE type = "house" -> {root_doctype("addr")}
      [] type = "street" -> {root_doctype("street")}
      [] type \in {"zone", "city"} -> {root_doctype("admin")}
      [] type = "poi" -> dataset_indices("poi", poi_dataset)
      [] type = "stop_area" -> dataset_indices("stop", pt_dataset)

\* Without types, stops are searched in the given datasets only.
build_es_indices_to_search(types, pt_dataset, poi_dataset) ==
    IF types # {}
    THEN UNION {type_indices(t, pt_dataset, poi_dataset) : t \in UNION types}
    ELSE {root_doctype("addr"), root_doctype("street"), root_doctype("admin")}
         \cup (IF pt_dataset = {} THEN {} ELSE dataset_indices("stop", pt_dataset))
         \cup dataset_indices("poi", poi_dataset)

\* Mutant: /features looks in all datasets.
indices_without_datasets(q) ==
    CASE q.path = "autocomplete" -> build_es_indices_to_search(q.types, q.pt_dataset, q.poi_dataset)
      [] q.path = "features" -> build_es_indices_to_search({}, {}, {})
      [] OTHER -> {}

\* The indices that each endpoint asks for.
indices_of(q) ==
    CASE q.path = "autocomplete" -> build_es_indices_to_search(q.types, q.pt_dataset, q.poi_dataset)
      [] q.path = "features" -> build_es_indices_to_search({}, q.pt_dataset, q.poi_dataset)
      [] q.path = "reverse" -> {root_doctype("street"), root_doctype("addr")}
      [] q.path = "autocomplete-explain" -> {root_doctype(q.doc_type)}
      [] OTHER -> {}
===============================================================================
