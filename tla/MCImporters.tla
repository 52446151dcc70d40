------------------------------ MODULE MCImporters ------------------------------
(* Small instances of Importers: two points in two cities, and one at sea; two   *)
(* files of Cosmogony, the later one with the cities merged.                     *)
EXTENDS Importers, TLC

MCCity == 3

Zone(index, type, above, inside, release) ==
    [index |-> index, osm_id |-> index, zone_type |-> type, parent |-> above, readable |-> TRUE,
     insee |-> IF type = MCCity THEN {index} ELSE {}, level |-> 11 - type, zip_codes |-> {},
     country_code |-> {}, boundary |-> TRUE, release |-> release,
     at |-> [p \in {"a", "b", "sea"} |-> IF p \in inside THEN "inside" ELSE "outside"]]

\* Two cities and a state; what is above it cannot be read.  Then a city with a
\* district.
MCFiles ==
    {{Zone(2, 3, {4}, {"a"}, 1), Zone(3, 3, {4}, {"b"}, 1),
      Zone(4, 4, {5}, {"a", "b"}, 1), [Zone(5, 5, {}, {"a", "b"}, 1) EXCEPT !.readable = FALSE]},
     {Zone(1, 2, {2}, {"a"}, 2), Zone(2, 3, {4}, {"a", "b"}, 2), Zone(4, 4, {}, {"a", "b"}, 2)}}

\* The city around b is on a shard that may fail.
MCFailingIds == {format_id(z, TRUE) : z \in {y \in UNION MCFiles : y.index = 3}}

MCStreetsOfOsm == {[id |-> 1, at |-> "a"], [id |-> 2, at |-> "sea"]}

Object(id, tags, at) == [id |-> id, tags |-> tags, at |-> at, postcode |-> {}]
MCObjectsOfOsm == {Object(1, {"bar", "food"}, {"b"}), Object(2, {"bar"}, {"a"}), Object(3, {"food"}, {})}
MCPoiConfig == [poi_types |-> {"pub", "restaurant"},
                rules |-> <<[tags |-> {"bar", "food"}, type |-> "pub"], [tags |-> {"food"}, type |-> "restaurant"]>>]

MCRecords == {[line |-> 1, id |-> "long", insee |-> 0, street |-> TRUE, at |-> "b", city |-> 0]}

MCNavitiaPois == {[id |-> 4, at |-> "a", poi_type |-> "museum"], [id |-> 5, at |-> "sea", poi_type |-> "museum"],
                  [id |-> 6, at |-> "a", poi_type |-> "unknown"]}

Line(name, code) == [name |-> name, code |-> code, sort_order |-> {}]
MCStopAreas == {[id |-> 1, at |-> "a", lines |-> {Line(1, {3}), Line(2, {11})}], [id |-> 2, at |-> "sea", lines |-> {}],
                [id |-> 3, at |-> "b", lines |-> {}]}
MCStopPoints == {[id |-> 1, stop_area |-> 1, modes |-> {"bus", "tram"}], [id |-> 2, stop_area |-> 1, modes |-> {"bus"}],
                 [id |-> 3, stop_area |-> 1, modes |-> {"bus"}]}
MCModeWeights == [bus |-> 1]

MCTemplates == [mimir_street |-> {"mimir_base"}, mimir_admin |-> {"mimir_base", "mimir_dynamic_mappings"}]

\* Points 30 m apart, but for the one at sea, 100 m away.
MCDistance == [x \in {"a", "b", "sea"} \X {"a", "b", "sea"} |->
                 IF x[1] = x[2] THEN 0 ELSE IF "sea" \in {x[1], x[2]} THEN 100 ELSE 30]

\* The order of the documentation, and orders in which an import meets another.
MCSchedules ==
    {<<"cosmogony2mimir", "openaddresses2mimir", "osm2mimir", "poi2mimir">>,
     <<"openaddresses2mimir", "osm2mimir", "openaddresses2mimir">>,
     <<"cosmogony2mimir", "ntfs2mimir", "cosmogony2mimir">>,
     <<"ctlmimir", "ctlmimir">>}
===============================================================================
