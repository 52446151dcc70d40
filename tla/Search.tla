-------------------------------- MODULE Search --------------------------------
(***************************************************************************)
(* What a search finds: forward_geocoder and reverse_geocoder              *)
(* (adapters/primary/bragi/handlers.rs) ask Elasticsearch with the queries *)
(* of QueryDsl, in the indices of BragiRequests, and answer with the places*)
(* of Places.  The documents do not change meanwhile (Bragi has them do    *)
(* so); a shard that reaches shard_timeout leaves hits out.                *)
(*                                                                         *)
(* A document has the fields of an address, a street, etc., and            *)
(*   matching   the text fields that match the words of the request        *)
(*   inside     whether it is inside the shape of the request              *)
(*   distance   from the point of a reverse search                         *)
(***************************************************************************)
EXTENDS BragiRequests, QueryDsl, Places

CONSTANTS
    Corpora,     \* sets of documents
    Searches,    \* the requests that BragiRequests accepts, without datasets
    ResultLimit, \* of a request
    Radius       \* of a reverse search

\* What datasets restrict is Bragi's matter.
ASSUME SearchAssumption ==
    /\ ResultLimit \in Nat /\ Radius \in Nat
    /\ \A docs \in Corpora :
          /\ IsFiniteSet(docs)
          /\ \A d \in docs : d.type \in {"admin", "street", "addr", "poi", "stop"} /\ d.distance \in Nat
    /\ \A q \in Searches :
          /\ q.path \in {"autocomplete", "reverse"} /\ q.words \in Nat
          /\ q.pt_dataset = {} /\ q.poi_dataset = {}
          /\ \A T \in q.types : T \subseteq {"house", "street", "zone", "city", "poi", "stop_area"}
          /\ \A S, T \in q.types : S = T
          /\ \A S, T \in q.shape_scope : S = T
          /\ \A S, T \in q.poi_types : S = T
          /\ \A S, T \in q.zone_types : S = T

VARIABLES
    corpus,
    params,  \* the request
    phase,   \* "PREFIX", "FUZZY", "reverse", "answered"
    hits,
    cut      \* history: whether a shard reached its timeout

searchVars == <<corpus, params, phase, hits, cut>>

SearchInit ==
    /\ corpus \in Corpora /\ params \in Searches
    /\ phase = IF params.path = "reverse" THEN "reverse" ELSE "PREFIX"
    /\ hits = {} /\ cut = FALSE

Found(dsl) == {d \in corpus : root_doctype(d.type) \in indices_of(params) /\ Selects(dsl, d)}

\* The answers of Elasticsearch: some of the best documents or, when no shard is
\* late, all of them.
search_documents(best) ==
    /\ \E S \in SUBSET best : hits' = S /\ cut' = (cut \/ S # best)
    /\ UNCHANGED <<corpus, params>>

Best(dsl) == {S \in SUBSET Found(dsl) : Cardinality(S) = Min({ResultLimit, Cardinality(Found(dsl))})}

\* The fuzzy search only takes place when the other one finds nothing.
forward_geocoder(query_type) ==
    /\ phase = query_type
    /\ \E best \in Best(build_query(params, query_type)) : search_documents(best)
    /\ phase' = IF query_type = "PREFIX" /\ hits' = {} THEN "FUZZY" ELSE "answered"

\* Sorted by distance.
reverse_geocoder ==
    /\ phase = "reverse"
    /\ \E best \in Best(build_reverse_query(Radius)) :
          /\ \A d \in best, e \in Found(build_reverse_query(Radius)) \ best : d.distance <= e.distance
          /\ search_documents(best)
    /\ phase' = "answered"

SearchNext == forward_geocoder("PREFIX") \/ forward_geocoder("FUZZY") \/ reverse_geocoder

SearchSpec == SearchInit /\ [][SearchNext]_searchVars
-------------------------------------------------------------------------------
Forward == params.path = "autocomplete"

\* The restrictions of a request, as the comments of dsl.rs have them: "If there
\* is a shape, all the places listed in shape_scope are restricted to the shape
\* and the places that are not listed are not restricted." (393), "If the place is
\* a POI, then its poi_type must be part of the given list" (442), "If the place is
\* an administrative region, then its zone_type must be part of the given list" (490).
Restricted(d) ==
    /\ params.shape /\ (\A T \in params.shape_scope : d.type \in T) => d.inside
    /\ d.type = "poi" => \A T \in params.poi_types : d.poi_type \cap T # {}
    /\ d.type = "admin" => \A T \in params.zone_types : d.zone_type \cap T # {}

\* "to exactly match the document house_number or that the document has no
\* house_number" (209); "If the query contains a single word, we don't exact any
\* house number in the result." (231).
HouseNumber(d) == d.house_number # {} => params.words > 1 /\ "house_number" \in d.matching

\* The fields that a word may be found in.
Text(d, prefix) ==
    /\ (IF prefix THEN "full_label.prefix" ELSE "full_label.ngram") \in d.matching
    /\ d.matching \cap ({"name", "label", "label.prefix", "zip_codes", "house_number"}
                        \cup (IF prefix THEN {} ELSE {"label.ngram"})) # {}

Searched(d) ==
    CASE params.path = "reverse" -> d.type \in {"addr", "street"} /\ d.distance <= Radius
      [] OTHER -> /\ root_doctype(d.type) \in indices_of(params)
                  /\ Restricted(d) /\ HouseNumber(d)

\* "restrics the search to the given place types" (docs/bragi.md:229), in the
\* words of the API: a city comes back as a zone, and a reverse search gives
\* houses and streets.
AskedType(type) ==
    /\ params.path = "reverse" => type \in {"house", "street"}
    /\ Forward => \A T \in params.types : type \in T \/ (type = "zone" /\ "city" \in T)

\* No filter lets anything else through, and neither a late shard nor the fuzzy
\* search loosens one (dsl.rs:16, internal.rs:1084): what is found matches, and
\* comes back as a type that was asked for, inside the restrictions.
OnlyAsked ==
    \A d \in hits :
        /\ Searched(d) /\ AskedType(from_place(d).place_type)
        /\ Forward => Text(d, TRUE) \/ Text(d, FALSE)

\* Nothing else is left out, whatever the filters, the boosts and the position,
\* as long as no shard is late: as many documents as there are, up to the limit,
\* that match as a prefix, or else with fuzziness, or are the nearest ones
\* (handlers.rs:109).
AllAsked ==
    phase = "answered" /\ ~cut =>
        LET asked == {d \in corpus : Searched(d)}
            exact == {d \in asked : Text(d, TRUE)}
            wanted == IF ~Forward THEN asked ELSE IF exact # {} THEN exact ELSE {d \in asked : Text(d, FALSE)}
        IN  /\ hits \subseteq wanted
            /\ Cardinality(hits) = Min({ResultLimit, Cardinality(wanted)})
            /\ ~Forward => \A d \in hits, e \in wanted \ hits : d.distance <= e.distance

===============================================================================
