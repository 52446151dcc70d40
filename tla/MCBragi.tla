-------------------------------- MODULE MCBragi --------------------------------
(* Small instances of Bragi: a catalogue that is already served, and new        *)
(* publications of points of interest.                                          *)
EXTENDS Bragi, TLC

CONSTANTS base, stop, poi1, poi2, poi_be

MCAtStart == {base, stop, poi1}
MCRuns == MCAtStart \cup {poi2, poi_be}

DocType(r) == IF r = stop THEN "stop" ELSE "poi"
Dataset(r) == IF r = poi_be THEN <<"be">> ELSE <<"fr">>

\* The indices of addresses, streets and admins, which stay as they are here, are
\* behind aliases of their own and taken as one.
MCContainerOf == [r \in MCRuns |-> IF r = base THEN <<"base", <<"fr">>>> ELSE <<DocType(r), Dataset(r)>>]
MCAliasesOf == [r \in MCRuns |->
    IF r = base THEN <<root_doctype("addr"), root_doctype("street"), root_doctype("admin"), root>>
    ELSE <<root_doctype_dataset(DocType(r), Dataset(r)), root_doctype(DocType(r)), root>>]

None == {}
Some(x) == {x}
Fr == <<"fr">>
Be == <<"be">>

Autocomplete == [path |-> "autocomplete", method |-> "GET", params |-> "read", q |-> TRUE,
                 position |-> "none", types |-> None, zone_types |-> None, pt_dataset |-> None,
                 poi_dataset |-> None, doc_type |-> "poi", body |-> "none"]
Poi == [Autocomplete EXCEPT !.types = Some({"poi"})]
PoiFr == [Poi EXCEPT !.poi_dataset = Some({Fr})]
PoiFrBe == [Poi EXCEPT !.poi_dataset = Some({Fr, Be})]
Features == [Autocomplete EXCEPT !.path = "features"]
FeaturesFr == [Features EXCEPT !.poi_dataset = Some({Fr})]
ExplainPoi == [Autocomplete EXCEPT !.path = "autocomplete-explain"]
Reverse == [Autocomplete EXCEPT !.path = "reverse"]
DefaultFr == [Autocomplete EXCEPT !.poi_dataset = Some({Fr})]

\* One of each sort, right and wrong.
AllRequests ==
    {DefaultFr, FeaturesFr, Autocomplete, Poi, PoiFr, PoiFrBe, Features, ExplainPoi, Reverse,
     [Autocomplete EXCEPT !.path = "status"], [Autocomplete EXCEPT !.path = "metrics"],
     [Autocomplete EXCEPT !.types = Some({"zone", "stop_area", "house"}), !.pt_dataset = Some({Fr}),
                          !.zone_types = Some({"city"}), !.position = "valid"],
     [Autocomplete EXCEPT !.method = "POST", !.body = "shape"],
     [Autocomplete EXCEPT !.method = "POST"],
     [Autocomplete EXCEPT !.params = "none"],
     [Features EXCEPT !.params = "none"],
     [Autocomplete EXCEPT !.params = "unreadable"],
     [Autocomplete EXCEPT !.q = FALSE],
     [ExplainPoi EXCEPT !.q = FALSE],
     [Autocomplete EXCEPT !.types = Some({"zone"})],
     [Autocomplete EXCEPT !.position = "half"],
     [Reverse EXCEPT !.method = "POST"],
     [Autocomplete EXCEPT !.path = "unknown"],
     [Autocomplete EXCEPT !.method = "DELETE"]}

\* One client that asks for anything, or two with the same dataset, one of which
\* may ask for places by their id.
MCSessions == [{1} -> AllRequests] \cup {<<PoiFr, PoiFr>>, <<PoiFr, FeaturesFr>>}
===============================================================================
