------------------------------- MODULE MCStreets -------------------------------
(* Small instances of Streets: every hierarchy of four admins around a point,   *)
(* and files of three ways and a relation in a hierarchy that is fixed.         *)
EXTENDS Streets, TLC

\* Ranks of zone types: a suburb, a district, a city, a state.
MCCity == 3
Types == {0, 1, 2, 3, 5}

Admin(id, type, above, at) ==
    [id |-> id, zone_type |-> type, parent_id |-> above, boundary |-> TRUE, at |-> at]

\* Four admins around a point p, without loss of generality in the order of
\* their types; parents are of a greater type, and their envelopes hold those of
\* what lies in them.
FourTypes == {f \in [1..4 -> Types] : \A i \in 1..3 : f[i] <= f[i + 1]}
Parents(f, i) == {{}} \cup {{j} : j \in {k \in 1..4 : f[i] # 0 /\ f[k] > f[i]}}
Hierarchies(f) ==
    {[i \in 1..4 |-> s[i]] : s \in Parents(f, 1) \X Parents(f, 2) \X Parents(f, 3) \X Parents(f, 4)}
\* The edge of a boundary counts as inside it for streets and as outside for
\* points: worlds do without, and the town has one.
Places == {"envelope", "inside"}
Worlds ==
    UNION {{{Admin(i, f[i], h[i], [p \in {"p"} |-> at[i]]) : i \in 1..4} :
               h \in Hierarchies(f), at \in [1..4 -> Places]} : f \in FourTypes}

\* Cities c1 and c2 overlap in "both", suburbs s1 and s2 of c1 in "edge".
At(inside, edge) ==
    [p \in {"suburb", "edge", "both", "state"} |->
        IF p \in inside THEN "inside" ELSE IF p \in edge THEN "edge" ELSE "outside"]
Town ==
    {Admin(1, 1, {3}, At({"suburb"}, {"edge"})),
     Admin(2, 1, {3}, At({}, {"edge"})),
     Admin(3, 3, {5}, At({"suburb", "edge", "both"}, {})),
     Admin(4, 3, {5}, At({"both"}, {})),
     Admin(5, 5, {}, At({"suburb", "edge", "both", "state"}, {}))}

Way(id, name, highway, nodes) ==
    [kind |-> "way", id |-> id, name |-> name, highway |-> highway, public_transport |-> FALSE, nodes |-> nodes]
NodeLists == {<<"both", "suburb">>, <<"suburb", "edge", "missing">>, <<"state", "both">>,
              <<"suburb", "missing">>, <<"state">>}
Ways(id) ==
    {Way(id, {n}, "valid", nodes) : n \in {"a", "b"}, nodes \in NodeLists}
    \cup {Way(id, {}, "valid", <<"suburb">>), Way(id, {"a"}, "excluded", <<"suburb">>)}

Relation(name, refs) == [kind |-> "relation", id |-> 1, name |-> name, associated |-> TRUE, refs |-> refs]
Relations ==
    {{}, {Relation({"a"}, <<<<1, "house">>, <<2, "street">>>>)},
     {Relation({}, <<<<2, "street">>, <<3, "street">>>>)}, {Relation({"a"}, <<<<3, "house">>>>)}}

Files == {{w1, w2, w3} \cup r : w1 \in Ways(1), w2 \in Ways(2), w3 \in Ways(3), r \in Relations}

MCInputs == ({Town} \X Files) \cup (Worlds \X {{}})
===============================================================================
