------------------------------- MODULE MCSearch -------------------------------
(* Small instances of Search: one or two documents that differ in what the      *)
(* queries test, and requests with each filter alone and some together.         *)
EXTENDS Search, TLC

MCCity == 3

Doc(type, matching) ==
    [type |-> type, matching |-> matching, inside |-> TRUE, distance |-> 1, house_number |-> {},
     poi_type |-> {}, zone_type |-> {}, admins |-> <<>>, label |-> {}, zip_codes |-> {}, insee |-> {}]

\* How a document may match: by its label, by a label and a zip code, only as the
\* beginning of a zip code (full_label holds it, zip_codes matches whole ones),
\* with fuzziness, or in a part of what was asked.
ByLabel == {"full_label.prefix", "full_label.ngram", "name", "label", "label.prefix", "label.ngram"}
ByZipCode == {"full_label.prefix", "full_label.ngram", "label.prefix", "zip_codes"}
ByHalfZipCode == {"full_label.prefix", "full_label.ngram"}
Fuzzy == {"full_label.ngram", "label.ngram"}
InPart == {"label", "label.prefix", "label.ngram"}

Street == Doc("street", ByLabel)
Addr == [Doc("addr", ByLabel \cup {"house_number"}) EXCEPT !.house_number = {12}]
Admin == [Doc("admin", ByLabel) EXCEPT !.zone_type = {"city"}]
Poi == [Doc("poi", ByLabel) EXCEPT !.poi_type = {"bar"}]
Stop == Doc("stop", ByLabel)

Documents ==
    {Street, [Street EXCEPT !.matching = Fuzzy], [Street EXCEPT !.inside = FALSE],
     [Street EXCEPT !.distance = 2], [Street EXCEPT !.distance = 3],
     [Street EXCEPT !.matching = InPart], [Street EXCEPT !.matching = ByHalfZipCode],
     Addr, [Addr EXCEPT !.matching = ByZipCode], [Addr EXCEPT !.matching = Fuzzy \cup {"house_number"}],
     [Addr EXCEPT !.inside = FALSE], [Addr EXCEPT !.matching = {}, !.distance = 2],
     Admin, [Admin EXCEPT !.zone_type = {"suburb"}], [Admin EXCEPT !.zone_type = {}, !.matching = Fuzzy],
     [Admin EXCEPT !.inside = FALSE],
     Poi, [Poi EXCEPT !.poi_type = {"cafe"}], [Poi EXCEPT !.inside = FALSE, !.matching = Fuzzy],
     Stop, [Stop EXCEPT !.inside = FALSE]}

MCCorpora == {{d, e} : d, e \in Documents}

Request(words) ==
    [path |-> "autocomplete", words |-> words, types |-> {}, pt_dataset |-> {}, poi_dataset |-> {},
     doc_type |-> "poi", coord |-> FALSE, shape |-> FALSE, shape_scope |-> {}, poi_types |-> {},
     zone_types |-> {}]
One == Request(1)
Two == Request(2)

MCSearches ==
    {One, Two, [One EXCEPT !.path = "reverse"],
     [Two EXCEPT !.coord = TRUE],
     [Two EXCEPT !.shape = TRUE],
     [Two EXCEPT !.shape = TRUE, !.shape_scope = {{"street", "poi"}}],
     [Two EXCEPT !.poi_types = {{"bar"}}],
     [One EXCEPT !.zone_types = {{"city"}}],
     [Two EXCEPT !.types = {{"street", "house"}}, !.coord = TRUE],
     [One EXCEPT !.types = {{"zone", "poi"}}, !.zone_types = {{"suburb"}}, !.poi_types = {{"cafe"}}],
     [Two EXCEPT !.types = {{"city", "stop_area"}}, !.shape = TRUE, !.shape_scope = {{"admin"}}],
     [Two EXCEPT !.types = {{"zone", "stop_area", "poi"}}, !.shape = TRUE, !.shape_scope = {{"stop"}},
                 !.zone_types = {{"city", "suburb"}}, !.poi_types = {{"bar", "cafe"}}]}
===============================================================================
