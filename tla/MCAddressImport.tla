--------------------------- MODULE MCAddressImport ---------------------------
(* Small instances of AddressImport: a village around five points, files with   *)
(* the records that may go wrong, and trees with the paths that may.            *)
EXTENDS AddressImport, TLC

\* Ranks of zone types: a suburb, a district, a city, a state.
MCCity == 3

Admin(id, type, above, inside, level) ==
    [id |-> id, zone_type |-> type, parent_id |-> above, boundary |-> TRUE, level |-> level,
     insee |-> IF type = MCCity THEN {id} ELSE {}, zip_codes |-> {}, country_code |-> {},
     at |-> [p \in {"both", "one", "state"} |-> IF p \in inside THEN "inside" ELSE "outside"]]

\* A suburb of city 3 and a district of city 4 overlap in "both", where the
\* geofinder finds both cities.  City 6 has no boundary.
MCAdmins ==
    {Admin(1, 1, {3}, {"both"}, 10), Admin(2, 2, {4}, {"both"}, 9),
     Admin(3, 3, {5}, {"both", "one"}, 8), Admin(4, 3, {5}, {"both"}, 8),
     Admin(5, 5, {}, {"both", "one", "state"}, 4),
     [Admin(6, 3, {}, {}, 8) EXCEPT !.boundary = FALSE]}

MCFailing == {a \in MCAdmins : a.id = 4}

Record(line, id, insee, street, at) ==
    [line |-> line, id |-> id, insee |-> insee, street |-> street, at |-> at, city |-> 7]

InBoth(line, insee) == Record(line, "long", insee, TRUE, "both")
NoStreet(line) == Record(line, "long", 3, FALSE, "one")
Short(line) == Record(line, "short", 3, TRUE, "one")
Unparsable(line) == Record(line, "invalid", 3, TRUE, "one")
Torn(line) == Record(line, "torn", 3, TRUE, "one")
Unknown(line) == Record(line, "long", 9, TRUE, "state")
Plain(line) == Record(line, "long", 3, TRUE, "one")

MCRecords ==
    UNION {{InBoth(l, i), NoStreet(l), Short(l), Unparsable(l), Torn(l), Unknown(l), Plain(l)} :
              l \in 1..7, i \in {3, 4, 6}}

Dir(entries) == [kind |-> "dir", entries |-> entries]
File(lines) == [kind |-> "file", records |-> lines]
Of(kind) == [kind |-> kind]

MCTrees ==
    {<<File(<<InBoth(1, 4), Short(2), Unknown(3), Unparsable(4), NoStreet(5), Plain(6), Plain(7)>>)>>,
     <<File(<<Plain(1), Plain(2), Plain(3), Plain(4), Plain(5), Plain(6), Plain(7)>>)>>,
     <<Dir({2, 3}), File(<<Unknown(1), InBoth(2, 6), Unparsable(3)>>), Dir({4}), File(<<Plain(4), NoStreet(5)>>)>>,
     <<Dir({2, 3, 4}), File(<<Plain(1), Short(2), Plain(3)>>), Of("unreadable file"), File(<<InBoth(4, 3)>>)>>,
     <<Dir({2, 3}), File(<<Plain(1), Plain(2), Plain(3)>>), Of("unreadable dir")>>,
     <<Dir({2, 3}), File(<<Plain(1), Plain(2)>>), File(<<Plain(3), Torn(4), Plain(5)>>)>>,
     <<Dir({})>>, <<Of("unreadable dir")>>, <<Of("missing")>>}
==============================================================================
