-------------------------------- MODULE Streets --------------------------------
(***************************************************************************)
(* The import of streets from OpenStreetMap (bin/osm2mimir.rs,             *)
(* osm_reader/street.rs): the admins are collected into a geofinder, the   *)
(* ways and relations of the file that are streets, and the objects they   *)
(* refer to, into a store; one pass over the relations and one over the    *)
(* ways of the store, in any order (that of a BTreeMap or of SQLite), then *)
(* give the list of streets.                                               *)
(*                                                                         *)
(* A way is a record [kind, id, name, highway, public_transport, nodes], a *)
(* relation [kind, id, name, associated, refs]: name is an option without  *)
(* empty names; highway is "none", "excluded" or "valid";                  *)
(* public_transport tells whether it is excluded; nodes are points, or     *)
(* "missing" when the file does not hold them; refs are the <<way id,      *)
(* role>> of the members that are ways.  Relations whose members are       *)
(* relations are left out.                                                 *)
(***************************************************************************)
EXTENDS Geofinder

CONSTANT Inputs \* the pairs <<admins listed, objects of the file>>

\* Admins and objects have ids of their own.  In a hierarchy of cosmogony a parent
\* has a greater zone type, and an envelope that holds those of what lies in it.
ASSUME InputsAssumption ==
    \A i \in Inputs :
        /\ IsFiniteSet(i[1])
        /\ \A a \in i[1] : a.id \in Nat /\ a.zone_type \in Nat
        /\ \A a, b \in i[1] : a.id = b.id => a = b
        /\ \A a, b \in i[1] : b.id \in a.parent_id =>
              /\ a.zone_type < b.zone_type
              /\ \A p \in DOMAIN a.at : a.at[p] # "outside" => b.at[p] # "outside"
        /\ \A a, b \in i[1] : DOMAIN a.at = DOMAIN b.at
        /\ \A o \in i[2] : o.kind \in {"way", "relation"} /\ o.id \in Nat
        /\ \A o, q \in i[2] : o.kind = q.kind /\ o.id = q.id => o = q
        /\ \A o \in i[2] : \A m, n \in o.name : m = n
        /\ \A o \in i[2] : o.kind = "way" => o.nodes \in Seq(ToSet(o.nodes))

VARIABLES
    input,              \* one of Inputs
    phase,              \* "admins", "relations", "ways", "done"
    finder,             \* admins_geofinder
    left,               \* objects the current pass has not visited
    street_in_relation, \* ids of ways
    name_admin_map,     \* <<name, city>> -> [id, admins]
    street_list

vars == <<input, phase, finder, left, street_in_relation, name_admin_map, street_list>>

is_valid_obj(o) ==
    IF o.kind = "way" THEN o.name # {} /\ o.highway = "valid" /\ ~o.public_transport
    ELSE o.associated

members(r) == {r.refs[i][1] : i \in DOMAIN r.refs}

\* The store: the valid objects and the members of the valid relations.
objs_map ==
    LET valid == {o \in input[2] : is_valid_obj(o)}
    IN  valid \cup {w \in input[2] : w.kind = "way"
                        /\ \E r \in valid : r.kind = "relation" /\ w.id \in members(r)}

OfKind(kind) == {o \in objs_map : o.kind = kind}
way(id) == {w \in OfKind("way") : w.id = id}

\* The node in the middle of a way, or the next one that is known.
nodes_right(w) == SubSeq(w.nodes, Len(w.nodes) \div 2 + 1, Len(w.nodes))
nodes_left(w) == SubSeq(w.nodes, 1, Len(w.nodes) \div 2)
find_node(nodes) ==
    IF \A i \in DOMAIN nodes : nodes[i] = "missing" THEN {}
    ELSE {nodes[CHOOSE i \in DOMAIN nodes : nodes[i] # "missing"
                                           /\ \A j \in 1..(i - 1) : nodes[j] = "missing"]}

\* Mutant: the first node of the way.
get_first_coord(w) == find_node(w.nodes)

\* Not where the admins are looked up when the second half of the way is
\* missing: its coordinates are those by default, {} here.
get_way_coord(w) == find_node(nodes_right(w))

\* The branches of admins around a way: what the geofinder may answer.
get_street_admin(w) ==
    LET coord == find_node(nodes_right(w) \o nodes_left(w))
    IN  IF coord = {} THEN {<<>>} ELSE UNION {AdminsIf(finder, p) : p \in coord}

\* Mutant: the same id whatever the branch.
build_streets_one_id(kind, id, name, branches, coord) ==
    {[kind |-> kind, id |-> id, name |-> name, admins |-> b, coord |-> coord, suffix |-> {}] : b \in branches}

\* One document for each branch of admins.  A street of several documents has
\* their rank in its ids, the branches being sorted by id.
build_streets_for_admins(kind, id, name, branches, coord) ==
    {[kind |-> kind, id |-> id, name |-> name, admins |-> b, coord |-> coord,
      suffix |-> IF Cardinality(branches) = 1 THEN {}
                 ELSE {Cardinality({c \in branches : c[1].id < b[1].id})}] : b \in branches}

-------------------------------------------------------------------------------
Init ==
    /\ input \in Inputs
    /\ phase = "admins"
    /\ finder = {} /\ left = {}
    /\ street_in_relation = {}
    /\ name_admin_map = <<>>
    /\ street_list = {}

\* The admins are listed and the file is read.
collect ==
    /\ phase = "admins"
    /\ phase' = "relations"
    /\ finder' = AdminGeoFinder(input[1])
    /\ left' = OfKind("relation")
    /\ UNCHANGED <<input, street_in_relation, name_admin_map, street_list>>

\* The first member with the role of a street that is in the store, and gives a
\* name if the relation has none.
rel_street(r) ==
    LET usable == {i \in DOMAIN r.refs : r.refs[i][2] = "street"
                        /\ \E w \in way(r.refs[i][1]) : r.name # {} \/ w.name # {}}
    IN  IF usable = {} THEN {}
        ELSE way(r.refs[CHOOSE i \in usable : \A j \in usable : i <= j][1])

\* Mutant: only the members that are streets are kept from being indexed again.
visit_street_members(r) ==
    /\ phase = "relations"
    /\ r \in left
    /\ left' = left \ {r}
    /\ street_in_relation' = street_in_relation \cup {w.id : w \in rel_street(r)}
    /\ IF rel_street(r) = {} THEN UNCHANGED street_list
       ELSE \E w \in rel_street(r) : \E branches \in get_street_admin(w) :
               street_list' = street_list \cup
                   build_streets_for_admins("relation", r.id, IF r.name # {} THEN r.name ELSE w.name,
                                            ToSet(branches), get_way_coord(w))
    /\ UNCHANGED <<input, phase, finder, name_admin_map>>

visit_relation(r) ==
    /\ phase = "relations"
    /\ r \in left
    /\ left' = left \ {r}
    /\ street_in_relation' = street_in_relation \cup members(r)
    /\ IF rel_street(r) = {} THEN UNCHANGED street_list
       ELSE \E w \in rel_street(r) : \E branches \in get_street_admin(w) :
               street_list' = street_list \cup
                   build_streets_for_admins("relation", r.id, IF r.name # {} THEN r.name ELSE w.name,
                                            ToSet(branches), get_way_coord(w))
    /\ UNCHANGED <<input, phase, finder, name_admin_map>>

end_of_relations ==
    /\ phase = "relations"
    /\ left = {}
    /\ phase' = "ways"
    /\ left' = OfKind("way")
    /\ UNCHANGED <<input, finder, street_in_relation, name_admin_map, street_list>>

\* The city of a branch, as an option.
city(branch) == {a.id : a \in {b \in ToSet(branch) : b.zone_type = City}}

\* Of several branches in one city, the first.
in_city(branches, c) ==
    branches[CHOOSE i \in DOMAIN branches : c \in city(branches[i]) /\ \A j \in 1..(i - 1) : c \notin city(branches[j])]

keys(w, branches) == w.name \X UNION {city(b) : b \in ToSet(branches)}

\* Mutant: the first way that is visited stays.
keep_first(w, branches) ==
    [k \in DOMAIN name_admin_map \cup keys(w, branches) |->
        IF k \in DOMAIN name_admin_map THEN name_admin_map[k] ELSE [id |-> w.id, admins |-> in_city(branches, k[2])]]

\* The way of the least id is kept for each name and city.
entry(w, branches) ==
    [k \in DOMAIN name_admin_map \cup keys(w, branches) |->
        IF k \in keys(w, branches) /\ (k \in DOMAIN name_admin_map => name_admin_map[k].id > w.id)
        THEN [id |-> w.id, admins |-> in_city(branches, k[2])] ELSE name_admin_map[k]]

visit_way(w) ==
    /\ phase = "ways"
    /\ w \in left
    /\ left' = left \ {w}
    /\ IF w.id \in street_in_relation THEN UNCHANGED name_admin_map
       ELSE \E branches \in get_street_admin(w) : name_admin_map' = entry(w, branches)
    /\ UNCHANGED <<input, phase, finder, street_in_relation, street_list>>

all_admins_for_street(id) ==
    {name_admin_map[k].admins : k \in {l \in DOMAIN name_admin_map : name_admin_map[l].id = id}}

end_of_ways ==
    /\ phase = "ways"
    /\ left = {}
    /\ phase' = "done"
    /\ street_list' = street_list \cup
           UNION {build_streets_for_admins("way", w.id, w.name, all_admins_for_street(w.id), get_way_coord(w)) :
                     w \in OfKind("way")}
    /\ UNCHANGED <<input, finder, left, street_in_relation, name_admin_map>>

Next ==
    \/ collect
    \/ \E o \in left : visit_relation(o) \/ visit_way(o)
    \/ end_of_relations
    \/ end_of_ways

Spec == Init /\ [][Next]_vars
-------------------------------------------------------------------------------
WaysDocuments == {d \in street_list : d.kind = "way"}
InRelation(w) == \E r \in OfKind("relation") : w.id \in members(r)

\* "we should tag the osm ways in the relation not to index them twice"
\* (street.rs:195): no way of a relation has a document of its own, in whatever
\* order objects are visited.
NotIndexedTwice ==
    phase = "done" => \A w \in OfKind("way") : InRelation(w) => w.id \notin {d.id : d \in WaysDocuments}

\* The other ways are merged by name and city: each has exactly one document
\* there, which does not depend on the order of the visits (it is that of the
\* way with the least id).
OncePerCity ==
    phase = "done" => \A w \in OfKind("way") : ~InRelation(w) =>
        \A branches \in get_street_admin(w) : \A b \in ToSet(branches) : \A c \in city(b) :
            LET same == {d \in WaysDocuments : d.name = w.name /\ c \in city(d.admins)}
            IN  w.name # {} => Cardinality(same) = 1 /\ \A d \in same : d.id <= w.id

\* "This step ensure that documents have distinguishable IDs if they are added
\* for the same street but different admins." (street.rs:272)
DistinctIds ==
    \A d, e \in street_list :
        d.kind = e.kind /\ d.id = e.id /\ d.suffix = e.suffix => d = e

\* A street is put where the admins it belongs to are.
CoordInAdmins ==
    \A d \in street_list : \A p \in d.coord : \A a \in {d.admins[1]} : a.at[p] \in {"edge", "inside"}

\* "Each element of the returned array contains a leaf of the admin hierarchy
\* that overlap input coordinates together with its parents"
\* (admin_geofinder.rs:141): all leaves, and no admin that is above another one.
Points == UNION {DOMAIN a.at : a \in finder}
LeavesWithParents ==
    phase = "done" => \A p \in Points : \A branches \in AdminsIf(finder, p) :
        LET overlap == {a \in finder : at_most_city(a) /\ a.at[p] \in {"edge", "inside"}}
        IN  /\ {b[1] : b \in ToSet(branches)} = overlap \ UNION {parents(finder, a) : a \in overlap}
            /\ \A b \in ToSet(branches) : ToSet(Tail(b)) = parents(finder, b[1])

\* What `get` attaches to a point contains it, or what contains it lies in it;
\* parents come with what lies in them; and what contains the point is only
\* left out for another admin of its type.
HierarchyOfPoint ==
    phase = "done" => \A p \in Points : \A res \in AdminsAt(finder, p) :
        /\ \A a \in res : \E b \in res : b.at[p] = "inside" /\ a \in {b} \cup parents(finder, b)
        /\ \A a \in res : parents(finder, a) \subseteq res
        /\ \A a \in finder \ res : a.at[p] = "inside" =>
              \E b \in res : a.zone_type # 0 /\ b.zone_type = a.zone_type

\* Both lookups of the geofinder keep the hierarchy together.
HierarchyKept == LeavesWithParents /\ HierarchyOfPoint
===============================================================================
