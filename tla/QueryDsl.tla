------------------------------- MODULE QueryDsl -------------------------------
(***************************************************************************)
(* The queries bragi builds (adapters/primary/common/dsl.rs), and what     *)
(* Elasticsearch makes of them.  A query is a record with its kind in op:  *)
(*   "bool"     the sequences must, should, filter and must_not            *)
(*   "terms"    a field and the values one of which it must have           *)
(*   "exists"   a field                                                    *)
(*   "match"    a text field, which the words of the request match or not; *)
(*              those of a document that they do match are its `matching`  *)
(*   "shape"    the place is inside the shape of the request               *)
(*   "near"     the place is within the radius of a reverse search         *)
(*   "score"    a function_score, with the document types that have a      *)
(*              function of their own; it only gives a score               *)
(* A field of a document is a set of values, empty when the document does  *)
(* not have it.  Boosts and weights are left out.                          *)
(*                                                                         *)
(* Of the request q:                                                       *)
(*   words      how many there are in q, the query string                  *)
(*   coord      whether there is a position                                *)
(*   shape, shape_scope, poi_types, zone_types   options, {} for None      *)
(***************************************************************************)
EXTENDS Naturals, Sequences

bool(must, should, filter, must_not) ==
    [op |-> "bool", must |-> must, should |-> should, filter |-> filter, must_not |-> must_not]
terms(name, values) == [op |-> "terms", field |-> name, values |-> values]
exists(name) == [op |-> "exists", field |-> name]
match(name) == [op |-> "match", field |-> name]
function_score(types) == [op |-> "score", types |-> types]

field(d, name) == IF name = "type" THEN {d.type} ELSE d[name]

\* What is not made of other queries.
SelectsPlain(query, d) ==
    CASE query.op = "terms" -> field(d, query.field) \cap query.values # {}
      [] query.op = "exists" -> field(d, query.field) # {}
      [] query.op = "match" -> query.field \in d.matching
      [] query.op = "shape" -> d.inside
      [] query.op = "near" -> d.distance <= query.radius
      [] query.op \in {"score", "bool"} -> TRUE

\* A `should` is only optional beside a `must` or a `filter`.
SelectsBool(query, d, Inner(_, _)) ==
    IF query.op # "bool" THEN SelectsPlain(query, d)
    ELSE /\ \A i \in DOMAIN query.must : Inner(query.must[i], d)
         /\ \A i \in DOMAIN query.filter : Inner(query.filter[i], d)
         /\ \A i \in DOMAIN query.must_not : ~Inner(query.must_not[i], d)
         /\ query.must = <<>> /\ query.filter = <<>> /\ query.should # <<>> =>
               \E i \in DOMAIN query.should : Inner(query.should[i], d)

\* The queries of bragi are nested three deep.
SelectsInner(query, d) == SelectsBool(query, d, SelectsPlain)
SelectsFilter(query, d) == SelectsBool(query, d, SelectsInner)
Selects(query, d) == SelectsBool(query, d, SelectsFilter)

-------------------------------------------------------------------------------
build_multi_match_query(name) == match(name)
build_match_query(name) == match(name)

build_string_query(q, query_type) ==
    LET always == <<build_multi_match_query("name"), build_multi_match_query("label"),
                    build_multi_match_query("label.prefix"), build_match_query("zip_codes"),
                    build_match_query("house_number")>>
    IN  bool(<<>>, IF query_type = "FUZZY" THEN Append(always, build_multi_match_query("label.ngram")) ELSE always,
             <<>>, <<>>)

\* A boost for the type of a document, of which it must have one.
build_place_type_boost ==
    bool(<<>>, <<terms("type", {"admin"}), terms("type", {"addr"}), terms("type", {"stop"}),
                 terms("type", {"poi"}), terms("type", {"street"})>>, <<>>, <<>>)

build_with_weight == function_score({"stop", "addr", "admin", "poi", "street"})

build_admin_weight_query == function_score({"admin"})

build_proximity_boost == function_score({})

build_boosts(q, query_type) ==
    <<build_with_weight>>
    \o (IF query_type = "PREFIX" THEN <<build_admin_weight_query>> ELSE <<>>)
    \o (IF q.coord THEN <<build_proximity_boost>> ELSE <<>>)

\* Mutant: the places of the other types are left out.
build_shape_query_scope(scope) == bool(<<terms("type", scope)>>, <<>>, <<[op |-> "shape"]>>, <<>>)

build_shape_query(scope) ==
    bool(<<>>, <<bool(<<terms("type", scope)>>, <<>>, <<[op |-> "shape"]>>, <<>>),
                 bool(<<>>, <<>>, <<>>, <<terms("type", scope)>>)>>, <<>>, <<>>)

build_poi_types_filter(poi_types) ==
    bool(<<>>, <<bool(<<terms("type", {"poi"}), terms("poi_type", poi_types)>>, <<>>, <<>>, <<>>),
                 bool(<<>>, <<>>, <<>>, <<terms("type", {"poi"})>>)>>, <<>>, <<>>)

build_zone_types_filter(zone_types) ==
    bool(<<>>, <<bool(<<terms("type", {"admin"}), terms("zone_type", zone_types)>>, <<>>, <<>>, <<>>),
                 bool(<<>>, <<>>, <<>>, <<terms("type", {"admin"})>>)>>, <<>>, <<>>)

\* Without shape_scope a shape restricts places of all types.
shape_scope(q) == IF q.shape_scope = {} THEN {"poi", "street", "admin", "addr", "stop"} ELSE UNION q.shape_scope

build_filters(q) ==
    (IF q.shape THEN <<build_shape_query(shape_scope(q))>> ELSE <<>>)
    \o (IF q.poi_types # {} THEN <<build_poi_types_filter(UNION q.poi_types)>> ELSE <<>>)
    \o (IF q.zone_types # {} THEN <<build_zone_types_filter(UNION q.zone_types)>> ELSE <<>>)

\* Mutant: a query of one word has the condition of several words.
house_number_matches(q) ==
    bool(<<>>, <<bool(<<>>, <<>>, <<>>, <<exists("house_number")>>), match("house_number")>>, <<>>, <<>>)

\* A document with a house number is only found by it, and by more than one word.
build_house_number_condition(q) ==
    IF q.words > 1
    THEN bool(<<>>, <<bool(<<>>, <<>>, <<>>, <<exists("house_number")>>), match("house_number")>>, <<>>, <<>>)
    ELSE bool(<<>>, <<>>, <<>>, <<exists("house_number")>>)

build_matching_condition(query_type) ==
    IF query_type = "PREFIX" THEN match("full_label.prefix") ELSE match("full_label.ngram")

build_query(q, query_type) ==
    bool(<<build_place_type_boost, build_string_query(q, query_type)>>,
         build_boosts(q, query_type),
         Append(Append(build_filters(q), build_matching_condition(query_type)), build_house_number_condition(q)),
         <<>>)

build_reverse_query(radius) == bool(<<>>, <<>>, <<[op |-> "near", radius |-> radius]>>, <<>>)
===============================================================================
