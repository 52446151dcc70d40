----------------------------- MODULE StreetsProofs -----------------------------
(* Proofs about Streets, for any admins and files. *)
EXTENDS Streets, GeofinderProofs
-------------------------------------------------------------------------------
\* The geofinder is filled once.
Filled ==
    /\ input \in Inputs
    /\ phase \in {"admins", "relations", "ways", "done"}
    /\ finder = IF phase = "admins" THEN {} ELSE AdminGeoFinder(input[1])

\* The ways of the relations that were visited are marked.
VisitedRelations ==
    IF phase = "admins" THEN {} ELSE OfKind("relation") \ (IF phase = "relations" THEN left ELSE {})
Marked ==
    /\ phase = "relations" => left \subseteq OfKind("relation")
    /\ street_in_relation = UNION {members(r) : r \in VisitedRelations}

\* The ways that were visited and are in no relation.
VisitedWays ==
    {w \in OfKind("way") : /\ phase = "done" \/ (phase = "ways" /\ w \notin left)
                           /\ w.id \notin street_in_relation}

\* What is kept for a name and a city comes from one of them, and for each name and
\* city of one of them something is kept, with an id that is not greater.
Merged ==
    /\ phase = "ways" => left \subseteq OfKind("way")
    /\ \A k \in DOMAIN name_admin_map :
          \E w \in VisitedWays : \E branches \in get_street_admin(w) : \E b \in ToSet(branches) :
              /\ k \in w.name \X city(b)
              /\ name_admin_map[k] = [id |-> w.id, admins |-> b]
    /\ \A w \in VisitedWays : \A branches \in get_street_admin(w) : \A b \in ToSet(branches) :
          \A k \in w.name \X city(b) : k \in DOMAIN name_admin_map /\ name_admin_map[k].id <= w.id

\* The documents of a relation come from one visit, those of a way from the end.
OfRelation(r, d) == d.kind = "relation" /\ d.id = r.id
Listed ==
    \A d \in street_list :
        \/ d.kind = "relation" /\ \E r \in VisitedRelations : OfRelation(r, d)
        \/ /\ d.kind = "way" /\ phase = "done"
           /\ \E w \in OfKind("way") :
                 d \in build_streets_for_admins("way", w.id, w.name, all_admins_for_street(w.id), get_way_coord(w))
AllListed ==
    phase = "done" => \A w \in OfKind("way") :
        build_streets_for_admins("way", w.id, w.name, all_admins_for_street(w.id), get_way_coord(w)) \subseteq street_list
ListedOnce ==
    \A r \in VisitedRelations : (\E d \in street_list : OfRelation(r, d)) =>
        \E w \in rel_street(r) : \E branches \in get_street_admin(w) :
            \A d \in street_list : OfRelation(r, d) =>
                d \in build_streets_for_admins("relation", r.id, IF r.name # {} THEN r.name ELSE w.name,
                                               ToSet(branches), get_way_coord(w))

IInv == Filled /\ Marked /\ Merged /\ Listed /\ AllListed /\ ListedOnce
-------------------------------------------------------------------------------
\* What the inputs are.
LEMMA Collected ==
    ASSUME Filled
    PROVE  /\ Hierarchical(finder) /\ \A a \in finder : a.id \in Nat
           /\ \A p \in Points : Enclosed(finder, p)
<1>1. input \in Inputs /\ finder \subseteq input[1]
  BY DEF Filled, AdminGeoFinder
<1>2. Hierarchical(finder)
  <2>1. IsFiniteSet(finder)
    BY <1>1, InputsAssumption, FS_Subset
  <2> QED
    BY <1>1, <2>1, InputsAssumption DEF Hierarchical
<1>3. ASSUME NEW p \in Points, NEW a \in finder, NEW b \in finder, b.id \in a.parent_id, a.at[p] # "outside"
      PROVE  b.at[p] # "outside"
  <2>1. PICK c \in finder : p \in DOMAIN c.at
    BY DEF Points
  <2>2. p \in DOMAIN a.at
    BY <1>1, <2>1, InputsAssumption
  <2> QED
    BY <1>1, <1>3, <2>2, InputsAssumption
<1>4. \A a \in finder : a.id \in Nat
  BY <1>1, InputsAssumption
<1> QED
  BY <1>2, <1>3, <1>4 DEF Enclosed

LEMMA Objects ==
    ASSUME Filled
    PROVE  /\ \A w \in OfKind("way") : w.kind = "way" /\ w.id \in Nat /\ w.nodes \in Seq(ToSet(w.nodes))
           /\ \A v, w \in OfKind("way") : v.id = w.id => v = w
           /\ \A w \in OfKind("way") : \A m, n \in w.name : m = n
           /\ \A r, s \in OfKind("relation") : r.id = s.id => r = s
           /\ \A r \in OfKind("relation") : rel_street(r) \subseteq OfKind("way")
<1>1. input \in Inputs /\ OfKind("way") \subseteq input[2] /\ OfKind("relation") \subseteq input[2]
  BY DEF Filled, OfKind, objs_map
<1>2. \A w \in OfKind("way") : w.kind = "way"
  BY DEF OfKind
<1>3. \A r \in OfKind("relation") : r.kind = "relation"
  BY DEF OfKind
<1>4. \A r : rel_street(r) \subseteq OfKind("way")
  BY DEF rel_street, way
<1> QED
  BY <1>1, <1>2, <1>3, <1>4, InputsAssumption

\* A street is looked up from a point, or has no branch.
LEMMA LookedUp ==
    ASSUME NEW w, NEW branches \in get_street_admin(w)
    PROVE  \/ branches = <<>>
           \/ \E p \in find_node(nodes_right(w) \o nodes_left(w)) : branches \in AdminsIf(finder, p)
BY DEF get_street_admin

\* Its branches are hierarchies of the geofinder, whatever the order of the lookup.
LEMMA Looked ==
    ASSUME Filled, NEW w, NEW branches \in get_street_admin(w)
    PROVE  /\ IsFiniteSet(ToSet(branches))
           /\ branches \in Seq(Seq(finder))
           /\ \A b \in ToSet(branches) : \E a \in finder : b = hierarchy(finder, a)
           /\ \A other \in get_street_admin(w) : ToSet(other) = ToSet(branches)
<1>1. Hierarchical(finder)
  BY Collected
<1>2. IsFiniteSet(ToSet(branches)) /\ branches \in Seq(Seq(finder))
  <2>1. branches \in Seq(Seq(finder))
    <3>1. CASE branches = <<>>
      BY <3>1
    <3>2. CASE \E p \in find_node(nodes_right(w) \o nodes_left(w)) : branches \in AdminsIf(finder, p)
      BY <1>1, <3>2, Leaves
    <3> QED
      BY <3>1, <3>2, LookedUp
  <2>2. DOMAIN branches = 1..Len(branches) /\ Len(branches) \in Nat
    BY <2>1
  <2>3. branches \in Surjection(DOMAIN branches, ToSet(branches))
    BY <2>1 DEF Surjection, ToSet
  <2> QED
    BY <2>1, <2>2, <2>3, FS_Interval, FS_Surjection
<1>3. CASE find_node(nodes_right(w) \o nodes_left(w)) = {}
  <2>1. get_street_admin(w) = {<<>>}
    BY <1>3 DEF get_street_admin
  <2> QED
    BY <1>2, <2>1 DEF ToSet
<1>4. CASE find_node(nodes_right(w) \o nodes_left(w)) # {}
  <2>1. PICK p : find_node(nodes_right(w) \o nodes_left(w)) = {p}
    BY <1>4 DEF find_node
  <2>2. get_street_admin(w) = AdminsIf(finder, p)
    BY <2>1 DEF get_street_admin
  <2>3. \A other \in get_street_admin(w) : ToSet(other) = Branches(finder, Overlap(finder, p))
    BY <1>1, <2>2, Leaves
  <2>4. \A b \in Branches(finder, Overlap(finder, p)) : \E a \in finder : b = hierarchy(finder, a)
    BY DEF Branches, Overlap
  <2> QED
    BY <1>2, <2>3, <2>4
<1> QED
  BY <1>3, <1>4

\* Admins of one branch are above one another: it has one city at most.
LEMMA OneCity ==
    ASSUME NEW admins, Hierarchical(admins), NEW a \in admins, NEW c \in city(hierarchy(admins, a)),
           NEW d \in city(hierarchy(admins, a))
    PROVE  c = d
<1> DEFINE In(b) == {b} \cup parents(admins, b)
           Good(b) == \A x, y \in In(b) : x.zone_type = y.zone_type => x = y
           X == {b \in admins : ~ Good(b)}
<1>1. X = {}
  <2> SUFFICES ASSUME X # {} PROVE FALSE
    OBVIOUS
  <2>1. PICK b \in X : \A e \in X : e.zone_type <= b.zone_type
    <3>1. X \in SUBSET admins
      OBVIOUS
    <3> HIDE DEF X
    <3> QED
      BY <3>1, Highest
  <2>2. \A x \in parents(admins, b) : x.zone_type # b.zone_type
    <3>1. ASSUME NEW x \in parents(admins, b) PROVE x.zone_type # b.zone_type
      <4>1. x \in admins /\ b.zone_type < x.zone_type
        BY Ancestors
      <4>2. x.zone_type \in Nat /\ b.zone_type \in Nat
        BY <4>1 DEF Hierarchical
      <4> QED
        BY <4>1, <4>2
    <3> QED
      BY <3>1
  <2>3. PICK p \in parent(admins, b) : parents(admins, b) = In(p)
    <3>1. parents(admins, b) # {}
      OBVIOUS
    <3> QED
      BY <3>1, Hierarchy
  <2>4. p \in admins /\ b.zone_type < p.zone_type /\ b.zone_type \in Nat /\ p.zone_type \in Nat
    BY DEF parent, Hierarchical
  <2>5. Good(p)
    BY <2>1, <2>4
  <2> QED
    BY <2>2, <2>3, <2>5
<1>2. Good(a)
  BY <1>1
<1>3. ToSet(hierarchy(admins, a)) = In(a)
  BY Hierarchy
<1> HIDE DEF In
<1> QED
  BY <1>2, <1>3 DEF city

\* The branch that is kept for a city is one of those that have it.
LEMMA InCity ==
    ASSUME NEW S, NEW branches \in Seq(S), NEW c \in UNION {city(b) : b \in ToSet(branches)}
    PROVE  in_city(branches, c) \in ToSet(branches) /\ c \in city(in_city(branches, c))
<1> DEFINE T == {i \in DOMAIN branches : c \in city(branches[i])}
<1>1. DOMAIN branches = 1..Len(branches) /\ Len(branches) \in Nat
  OBVIOUS
<1>2. PICK i \in T : \A j \in T : i <= j
  <2>1. T \in SUBSET Nat
    BY <1>1
  <2>2. T # {}
    BY DEF ToSet
  <2> HIDE DEF T
  <2> QED
    BY <2>1, <2>2, LeastNat
<1>3. \A j \in 1..(i - 1) : c \notin city(branches[j])
  <2>1. ASSUME NEW j \in 1..(i - 1), c \in city(branches[j]) PROVE FALSE
    <3>1. j \in T /\ ~ (i <= j)
      BY <1>1, <2>1
    <3> QED
      BY <1>2, <3>1
  <2> QED
    BY <2>1
<1>4. \E k \in DOMAIN branches : c \in city(branches[k]) /\ \A j \in 1..(k - 1) : c \notin city(branches[j])
  BY <1>2, <1>3
<1> DEFINE k == CHOOSE k \in DOMAIN branches : c \in city(branches[k]) /\ \A j \in 1..(k - 1) : c \notin city(branches[j])
<1>5. k \in DOMAIN branches /\ c \in city(branches[k])
  BY <1>4
<1>6. in_city(branches, c) = branches[k]
  BY DEF in_city
<1> HIDE DEF k
<1> QED
  BY <1>5, <1>6 DEF ToSet

\* The documents of a street: those of different branches have different suffixes.
Lower(B, b) == {c \in B : c[1].id < b[1].id}
Suffix(B, b) == IF Cardinality(B) = 1 THEN {} ELSE {Cardinality(Lower(B, b))}

LEMMA Built ==
    ASSUME NEW kind, NEW id, NEW name, NEW B, NEW coord,
           NEW d \in build_streets_for_admins(kind, id, name, B, coord)
    PROVE  /\ d.kind = kind /\ d.id = id /\ d.name = name /\ d.coord = coord /\ d.admins \in B
           /\ d.suffix = Suffix(B, d.admins)
           /\ d = [kind |-> kind, id |-> id, name |-> name, admins |-> d.admins, coord |-> coord, suffix |-> d.suffix]
<1>1. build_streets_for_admins(kind, id, name, B, coord) =
          {[kind |-> kind, id |-> id, name |-> name, admins |-> b, coord |-> coord, suffix |-> Suffix(B, b)] : b \in B}
  BY DEF build_streets_for_admins, Suffix, Lower
<1>2. PICK b \in B : d = [kind |-> kind, id |-> id, name |-> name, admins |-> b, coord |-> coord, suffix |-> Suffix(B, b)]
  BY <1>1
<1> QED
  BY <1>2

LEMMA Ranked ==
    ASSUME NEW admins, Hierarchical(admins), \A a \in admins : a.id \in Nat,
           NEW B, IsFiniteSet(B), \A b \in B : \E a \in admins : b = hierarchy(admins, a),
           NEW kind, NEW id, NEW name, NEW coord,
           NEW d \in build_streets_for_admins(kind, id, name, B, coord),
           NEW e \in build_streets_for_admins(kind, id, name, B, coord),
           d.suffix = e.suffix
    PROVE  d = e
<1> DEFINE b == d.admins
           c == e.admins
<1>1. /\ b \in B /\ d.suffix = Suffix(B, b)
      /\ d = [kind |-> kind, id |-> id, name |-> name, admins |-> b, coord |-> coord, suffix |-> d.suffix]
  BY Built
<1>2. /\ c \in B /\ e.suffix = Suffix(B, c)
      /\ e = [kind |-> kind, id |-> id, name |-> name, admins |-> c, coord |-> coord, suffix |-> e.suffix]
  BY Built
<1> HIDE DEF b, c
<1>3. SUFFICES b = c
  BY <1>1, <1>2
<1>4. CASE Cardinality(B) = 1
  BY <1>1, <1>2, <1>4, FS_Singleton
<1>5. CASE Cardinality(B) # 1
  <2>1. Cardinality(Lower(B, b)) = Cardinality(Lower(B, c))
    BY <1>1, <1>2, <1>5 DEF Suffix
  <2>2. \A x \in B : x[1] \in admins /\ x[1].id \in Nat /\ x = hierarchy(admins, x[1])
    BY Hierarchy
  <2>3. ASSUME NEW x \in B, NEW y \in B, x[1].id < y[1].id PROVE Cardinality(Lower(B, x)) # Cardinality(Lower(B, y))
    <3>1. Lower(B, x) \subseteq Lower(B, y) /\ x \in Lower(B, y) /\ x \notin Lower(B, x)
      BY <2>2, <2>3 DEF Lower
    <3>2. IsFiniteSet(Lower(B, y))
      BY FS_Subset DEF Lower
    <3> QED
      BY <3>1, <3>2, FS_Subset
  <2>4. ~ (b[1].id < c[1].id) /\ ~ (c[1].id < b[1].id)
    BY <1>1, <1>2, <2>1, <2>3
  <2>5. b[1].id = c[1].id
    BY <1>1, <1>2, <2>2, <2>4
  <2>6. b[1] = c[1]
    BY <1>1, <1>2, <2>2, <2>5 DEF Hierarchical
  <2> QED
    BY <1>1, <1>2, <2>2, <2>6
<1> QED
  BY <1>4, <1>5

\* When the second half of a way has a node, its admins are those of this node.
LEMMA SameNode ==
    ASSUME Filled, NEW w \in OfKind("way"), NEW p \in get_way_coord(w)
    PROVE  find_node(nodes_right(w) \o nodes_left(w)) = {p}
<1> DEFINE r == nodes_right(w)
           l == nodes_left(w)
           First(s, i) == i \in DOMAIN s /\ s[i] # "missing" /\ \A j \in 1..(i - 1) : s[j] = "missing"
<1>1. r \in Seq(ToSet(w.nodes)) /\ l \in Seq(ToSet(w.nodes))
  <2>1. w.nodes \in Seq(ToSet(w.nodes))
    BY Objects
  <2> DEFINE n == w.nodes
             N == ToSet(w.nodes)
  <2>2. n \in Seq(N)
    BY <2>1
  <2> HIDE DEF n, N
  <2>3. Len(n) \in Nat /\ Len(n) \div 2 \in Nat /\ Len(n) \div 2 <= Len(n)
    BY <2>2
  <2>4. \A i \in 1..Len(n) : n[i] \in N
    BY <2>2
  <2>5. SubSeq(n, Len(n) \div 2 + 1, Len(n)) \in Seq(N) /\ SubSeq(n, 1, Len(n) \div 2) \in Seq(N)
    BY <2>3, <2>4
  <2> QED
    BY <2>5 DEF nodes_right, nodes_left, n, N
<1>2. \E i \in DOMAIN r : r[i] # "missing"
  BY DEF get_way_coord, find_node
<1>3. p = r[CHOOSE i \in DOMAIN r : r[i] # "missing" /\ \A j \in 1..(i - 1) : r[j] = "missing"]
  BY <1>2 DEF get_way_coord, find_node
<1> HIDE DEF r, l
<1>4. \E i : First(r, i)
  <2> DEFINE T == {i \in DOMAIN r : r[i] # "missing"}
  <2>1. T \in SUBSET Nat /\ DOMAIN r = 1..Len(r) /\ Len(r) \in Nat
    BY <1>1
  <2>2. T # {}
    BY <1>2
  <2>3. PICK i \in T : \A j \in T : i <= j
    <3> HIDE DEF T
    <3> QED
      BY <2>1, <2>2, LeastNat
  <2>4. ASSUME NEW j \in 1..(i - 1), r[j] # "missing" PROVE FALSE
    <3>1. j \in T /\ ~ (i <= j)
      BY <2>1, <2>4
    <3> QED
      BY <2>3, <3>1
  <2> QED
    BY <2>3, <2>4
<1>5. PICK i : First(r, i) /\ p = r[i]
  BY <1>3, <1>4
<1>6. /\ r \o l \in Seq(ToSet(w.nodes)) /\ i \in 1..Len(r) /\ Len(r) \in Nat
      /\ \A j \in 1..Len(r) : j \in DOMAIN (r \o l) /\ (r \o l)[j] = r[j]
  BY <1>1, <1>5
<1>7. First(r \o l, i)
  BY <1>5, <1>6
<1>8. \A k : First(r \o l, k) => k = i
  <2>1. ASSUME NEW k, First(r \o l, k) PROVE k = i
    <3>1. k \in Nat /\ k >= 1 /\ i \in Nat /\ i >= 1
      BY <1>6, <2>1
    <3>2. CASE k < i
      BY <1>7, <2>1, <3>1, <3>2
    <3>3. CASE i < k
      BY <1>7, <2>1, <3>1, <3>3
    <3> QED
      BY <3>1, <3>2, <3>3
  <2> QED
    BY <2>1
<1>9. find_node(r \o l) = {(r \o l)[i]}
  <2> DEFINE k == CHOOSE k \in DOMAIN (r \o l) : (r \o l)[k] # "missing" /\ \A j \in 1..(k - 1) : (r \o l)[j] = "missing"
  <2>1. First(r \o l, k)
    BY <1>7
  <2>2. find_node(r \o l) = {(r \o l)[k]}
    BY <1>7 DEF find_node
  <2> HIDE DEF k
  <2> QED
    BY <1>8, <2>1, <2>2
<1> QED
  BY <1>5, <1>6, <1>9 DEF r, l
-------------------------------------------------------------------------------
LEMMA Initially == Init => IInv
<1> SUFFICES ASSUME Init PROVE IInv
  OBVIOUS
<1>1. Filled
  BY DEF Init, Filled
<1>2. VisitedRelations = {} /\ VisitedWays = {}
  BY DEF Init, VisitedRelations, VisitedWays
<1>3. Marked /\ Listed /\ ListedOnce
  BY <1>2 DEF Init, Marked, Listed, ListedOnce
<1>6. AllListed
  BY DEF Init, AllListed
<1>4. DOMAIN name_admin_map = {}
  BY DEF Init
<1>5. Merged
  BY <1>2, <1>4 DEF Init, Merged
<1> QED
  BY <1>1, <1>3, <1>5, <1>6 DEF IInv

\* Streets and where they are do not change once they are collected.
LEMMA Frame ==
    ASSUME input' = input
    PROVE  /\ \A kind : OfKind(kind)' = OfKind(kind)
           /\ \A r : rel_street(r)' = rel_street(r)
           /\ finder' = finder => \A w : get_street_admin(w)' = get_street_admin(w)
<1>1. objs_map' = objs_map
  BY DEF objs_map
<1>2. \A kind : OfKind(kind)' = OfKind(kind)
  BY <1>1 DEF OfKind
<1>3. \A r : rel_street(r)' = rel_street(r)
  BY <1>1 DEF rel_street, way, OfKind
<1>4. finder' = finder => \A w : get_street_admin(w)' = get_street_admin(w)
  BY DEF get_street_admin
<1> QED
  BY <1>2, <1>3, <1>4

LEMMA Filling == Filled /\ [Next]_vars => Filled' /\ input' = input /\ (phase # "admins" => finder' = finder)
BY DEF Filled, Next, collect, visit_relation, visit_way, end_of_relations, end_of_ways, vars

LEMMA Marking ==
    ASSUME Filled, Marked, [Next]_vars
    PROVE  Marked'
<1>1. input' = input /\ \A kind : OfKind(kind)' = OfKind(kind)
  BY Filling, Frame
<1>2. ASSUME collect PROVE Marked'
  BY <1>1, <1>2 DEF Marked, VisitedRelations, collect
<1>3. ASSUME NEW r \in left, visit_relation(r) PROVE Marked'
  <2>1. VisitedRelations' = VisitedRelations \cup {r}
    BY <1>1, <1>3 DEF VisitedRelations, visit_relation, Marked
  <2>2. street_in_relation' = street_in_relation \cup members(r) /\ left' \subseteq left /\ phase = "relations"
    BY <1>3 DEF visit_relation
  <2> QED
    BY <1>1, <2>1, <2>2 DEF Marked
<1>4. ASSUME NEW w \in left, visit_way(w) PROVE Marked'
  BY <1>1, <1>4 DEF Marked, VisitedRelations, visit_way
<1>5. ASSUME end_of_relations PROVE Marked'
  BY <1>1, <1>5 DEF Marked, VisitedRelations, end_of_relations
<1>6. ASSUME end_of_ways PROVE Marked'
  BY <1>1, <1>6 DEF Marked, VisitedRelations, end_of_ways
<1>7. ASSUME UNCHANGED vars PROVE Marked'
  BY <1>1, <1>7 DEF Marked, VisitedRelations, vars
<1> QED
  BY <1>2, <1>3, <1>4, <1>5, <1>6, <1>7 DEF Next

\* A way that is visited is merged with the others.
LEMMA Merging ==
    ASSUME Filled, Merged, NEW w \in left, visit_way(w)
    PROVE  Merged'
<1>1. /\ phase = "ways" /\ phase' = "ways" /\ input' = input /\ finder' = finder
      /\ left' = left \ {w} /\ street_in_relation' = street_in_relation
  BY DEF visit_way
<1>2. /\ \A kind : OfKind(kind)' = OfKind(kind)
      /\ \A v : get_street_admin(v)' = get_street_admin(v)
  BY <1>1, Frame
<1>3. w \in OfKind("way") /\ left' \subseteq OfKind("way")
  BY <1>1 DEF Merged
<1>4. CASE w.id \in street_in_relation
  <2>1. VisitedWays' = VisitedWays /\ name_admin_map' = name_admin_map
    BY <1>1, <1>2, <1>3, <1>4 DEF VisitedWays, visit_way
  <2> QED
    BY <1>1, <1>2, <1>3, <2>1 DEF Merged
<1>5. CASE w.id \notin street_in_relation
  <2>1. VisitedWays' = VisitedWays \cup {w}
    BY <1>1, <1>2, <1>3, <1>5 DEF VisitedWays
  <2>2. PICK branches \in get_street_admin(w) : name_admin_map' = entry(w, branches)
    BY <1>5 DEF visit_way
  <2> DEFINE old == name_admin_map
             new == name_admin_map'
             Replaced(k) == k \in keys(w, branches) /\ (k \in DOMAIN old => old[k].id > w.id)
  <2>3. /\ DOMAIN new = DOMAIN old \cup keys(w, branches)
        /\ \A k \in DOMAIN new : new[k] = IF Replaced(k) THEN [id |-> w.id, admins |-> in_city(branches, k[2])] ELSE old[k]
    BY <2>2 DEF entry
  <2>4. \A v \in VisitedWays \cup {w} : v.id \in Nat
    BY <1>3, Objects DEF VisitedWays
  <2>5. /\ \A k \in DOMAIN old :
             \E v \in VisitedWays : \E br \in get_street_admin(v) : \E b \in ToSet(br) :
                 k \in v.name \X city(b) /\ old[k] = [id |-> v.id, admins |-> b]
        /\ \A v \in VisitedWays : \A br \in get_street_admin(v) : \A b \in ToSet(br) :
             \A k \in v.name \X city(b) : k \in DOMAIN old /\ old[k].id <= v.id
    BY DEF Merged
  <2>6. \A k \in DOMAIN old : old[k].id \in Nat
    BY <2>4, <2>5
  <2> HIDE DEF old, new
  <2>7. ASSUME NEW k \in DOMAIN new
        PROVE  \E v \in VisitedWays \cup {w} : \E br \in get_street_admin(v) : \E b \in ToSet(br) :
                   k \in v.name \X city(b) /\ new[k] = [id |-> v.id, admins |-> b]
    <3>1. CASE Replaced(k)
      <4> DEFINE b == in_city(branches, k[2])
      <4>1. branches \in Seq(Seq(finder))
        BY Looked
      <4>2. k \in w.name \X UNION {city(c) : c \in ToSet(branches)}
        BY <3>1 DEF keys
      <4>3. k = <<k[1], k[2]>> /\ k[1] \in w.name /\ k[2] \in UNION {city(c) : c \in ToSet(branches)}
        BY <4>2
      <4>4. b \in ToSet(branches) /\ k[2] \in city(b)
        BY <4>1, <4>3, InCity
      <4>5. new[k] = [id |-> w.id, admins |-> b]
        BY <2>3, <3>1
      <4> HIDE DEF b
      <4>6. k \in w.name \X city(b)
        BY <4>3, <4>4
      <4> QED
        BY <4>4, <4>5, <4>6
    <3>2. CASE ~ Replaced(k)
      <4>1. k \in DOMAIN old /\ new[k] = old[k]
        BY <2>3, <3>2
      <4> QED
        BY <2>5, <4>1
    <3> QED
      BY <3>1, <3>2
  <2>8. ASSUME NEW v \in VisitedWays \cup {w}, NEW br \in get_street_admin(v), NEW b \in ToSet(br),
               NEW k \in v.name \X city(b)
        PROVE  k \in DOMAIN new /\ new[k].id <= v.id
    <3>1. CASE v \in VisitedWays
      <4>1. k \in DOMAIN old /\ old[k].id <= v.id /\ old[k].id \in Nat
        BY <2>5, <2>6, <3>1
      <4>2. k \in DOMAIN new
        BY <2>3, <4>1
      <4>3. CASE Replaced(k)
        <5>1. new[k] = [id |-> w.id, admins |-> in_city(branches, k[2])]
          BY <2>3, <4>2, <4>3
        <5>2. new[k].id = w.id /\ old[k].id > w.id
          BY <4>1, <4>3, <5>1
        <5> QED
          BY <2>4, <4>1, <4>2, <5>2
      <4>4. CASE ~ Replaced(k)
        BY <2>3, <4>1, <4>2, <4>4
      <4> QED
        BY <4>3, <4>4
    <3>2. CASE v = w
      <4>1. ToSet(br) = ToSet(branches)
        BY <3>2, Looked
      <4>2. k \in keys(w, branches)
        BY <3>2, <4>1 DEF keys
      <4>3. k \in DOMAIN new
        BY <2>3, <4>2
      <4>4. CASE Replaced(k)
        <5>1. new[k] = [id |-> w.id, admins |-> in_city(branches, k[2])]
          BY <2>3, <4>3, <4>4
        <5> QED
          BY <2>4, <3>2, <4>3, <5>1
      <4>5. CASE ~ Replaced(k)
        <5>1. k \in DOMAIN old /\ ~ (old[k].id > w.id) /\ new[k] = old[k]
          BY <2>3, <4>2, <4>3, <4>5
        <5>2. old[k].id \in Nat /\ w.id \in Nat
          BY <2>4, <2>6, <5>1
        <5> QED
          BY <3>2, <4>3, <5>1, <5>2
      <4> QED
        BY <4>4, <4>5
    <3> QED
      BY <3>1, <3>2
  <2> QED
    BY <1>1, <1>2, <1>3, <2>1, <2>7, <2>8 DEF Merged, new
<1> QED
  BY <1>4, <1>5

LEMMA MergedKept ==
    ASSUME Filled, Merged, [Next]_vars
    PROVE  Merged'
<1>1. input' = input /\ \A kind : OfKind(kind)' = OfKind(kind)
  BY Filling, Frame
<1>2. ASSUME phase' # "ways", phase' # "done", name_admin_map' = name_admin_map,
             phase # "ways", phase # "done"
      PROVE  Merged'
  <2>1. VisitedWays = {} /\ VisitedWays' = {}
    BY <1>2 DEF VisitedWays
  <2>2. DOMAIN name_admin_map = {}
    BY <2>1 DEF Merged
  <2> QED
    BY <1>2, <2>1, <2>2 DEF Merged
<1>3. ASSUME NEW w \in left, visit_way(w) PROVE Merged'
  BY <1>3, Merging
<1>4. ASSUME end_of_relations PROVE Merged'
  <2>1. VisitedWays = {}
    BY <1>4 DEF VisitedWays, end_of_relations
  <2>2. VisitedWays' = {} /\ left' = OfKind("way")
    BY <1>1, <1>4 DEF VisitedWays, end_of_relations
  <2>3. DOMAIN name_admin_map = {} /\ name_admin_map' = name_admin_map
    BY <1>4, <2>1 DEF Merged, end_of_relations
  <2> QED
    BY <1>1, <2>2, <2>3 DEF Merged
<1>5. ASSUME end_of_ways \/ UNCHANGED vars PROVE Merged'
  <2>1. /\ finder' = finder /\ name_admin_map' = name_admin_map /\ left' = left
        /\ phase' = "ways" => phase = "ways"
    BY <1>5 DEF end_of_ways, vars
  <2>2. VisitedWays' = VisitedWays
    BY <1>1, <1>5 DEF VisitedWays, end_of_ways, vars
  <2>3. \A w : get_street_admin(w)' = get_street_admin(w)
    BY <1>1, <2>1, Frame
  <2> QED
    BY <1>1, <2>1, <2>2, <2>3 DEF Merged
<1>6. ASSUME collect PROVE Merged'
  BY <1>2, <1>6 DEF collect
<1>7. ASSUME NEW r \in left, visit_relation(r) PROVE Merged'
  BY <1>2, <1>7 DEF visit_relation
<1> QED
  BY <1>3, <1>4, <1>5, <1>6, <1>7 DEF Next

\* The documents of one visit are those of one relation.
LEMMA ListingRelation ==
    ASSUME Filled, Marked, Listed, ListedOnce, NEW r \in left, visit_relation(r)
    PROVE  Listed' /\ ListedOnce'
<1>1. /\ phase = "relations" /\ phase' = "relations" /\ input' = input /\ finder' = finder
      /\ left' = left \ {r} /\ r \in OfKind("relation") /\ left \subseteq OfKind("relation")
  BY DEF visit_relation, Marked
<1>2. /\ \A kind : OfKind(kind)' = OfKind(kind)
      /\ \A w : get_street_admin(w)' = get_street_admin(w)
      /\ \A q : rel_street(q)' = rel_street(q)
  BY <1>1, Frame
<1>3. /\ VisitedRelations' = VisitedRelations \cup {r} /\ r \notin VisitedRelations
      /\ VisitedRelations \subseteq OfKind("relation")
  BY <1>1, <1>2 DEF VisitedRelations
<1>4. \A q \in VisitedRelations : q.id # r.id
  BY <1>1, <1>3, Objects
<1>5. \A d \in street_list : d.kind = "relation" /\ \E q \in VisitedRelations : OfRelation(q, d)
  BY <1>1 DEF Listed
<1>6. \A d \in street_list : ~ OfRelation(r, d)
  BY <1>4, <1>5 DEF OfRelation
<1> DEFINE Once(q, list) ==
        (\E d \in list : OfRelation(q, d)) =>
            \E w \in rel_street(q) : \E branches \in get_street_admin(w) :
                \A d \in list : OfRelation(q, d) =>
                    d \in build_streets_for_admins("relation", q.id, IF q.name # {} THEN q.name ELSE w.name,
                                                   ToSet(branches), get_way_coord(w))
<1>7. \A q \in VisitedRelations : Once(q, street_list)
  BY DEF ListedOnce
<1>8. CASE rel_street(r) = {}
  <2>1. street_list' = street_list
    BY <1>8 DEF visit_relation
  <2>2. Once(r, street_list)
    BY <1>6
  <2>3. Listed'
    BY <1>3, <1>5, <2>1 DEF Listed, OfRelation
  <2>4. \A q \in VisitedRelations' : Once(q, street_list')
    <3> HIDE DEF Once
    <3> QED
      BY <1>3, <1>7, <2>1, <2>2
  <2>5. ListedOnce'
    BY <1>2, <2>4 DEF ListedOnce, OfRelation
  <2> QED
    BY <2>3, <2>5
<1>9. CASE rel_street(r) # {}
  <2>0. PICK w \in rel_street(r) : \E branches \in get_street_admin(w) :
            street_list' = street_list \cup
                build_streets_for_admins("relation", r.id, IF r.name # {} THEN r.name ELSE w.name,
                                         ToSet(branches), get_way_coord(w))
    BY <1>9 DEF visit_relation
  <2>1. PICK branches \in get_street_admin(w) :
            street_list' = street_list \cup
                build_streets_for_admins("relation", r.id, IF r.name # {} THEN r.name ELSE w.name,
                                         ToSet(branches), get_way_coord(w))
    BY <2>0
  <2> DEFINE D == build_streets_for_admins("relation", r.id, IF r.name # {} THEN r.name ELSE w.name,
                                           ToSet(branches), get_way_coord(w))
  <2>2. \A d \in D : OfRelation(r, d)
    BY Built DEF OfRelation
  <2>3. \A d \in D : d.kind = "relation"
    BY <2>2 DEF OfRelation
  <2>4. Once(r, street_list')
    BY <1>6, <2>1
  <2> HIDE DEF D
  <2>5. street_list' = street_list \cup D
    BY <2>1 DEF D
  <2>6. ASSUME NEW q \in VisitedRelations PROVE Once(q, street_list')
    <3>1. \A d \in street_list' : OfRelation(q, d) => d \in street_list
      BY <1>4, <2>2, <2>5 DEF OfRelation
    <3> QED
      BY <1>7, <2>5, <3>1
  <2>7. \A q \in VisitedRelations' : Once(q, street_list')
    <3> HIDE DEF Once
    <3> QED
      BY <1>3, <2>4, <2>6
  <2>8. ListedOnce'
    BY <1>2, <2>7 DEF ListedOnce, OfRelation
  <2>9. Listed'
    BY <1>3, <1>5, <2>2, <2>3, <2>5 DEF Listed, OfRelation
  <2> QED
    BY <2>8, <2>9
<1> QED
  BY <1>8, <1>9

LEMMA Listing ==
    ASSUME Filled, Marked, Listed, ListedOnce, [Next]_vars
    PROVE  Listed' /\ ListedOnce'
<1>1. /\ input' = input /\ (phase # "admins" => finder' = finder)
      /\ \A kind : OfKind(kind)' = OfKind(kind)
      /\ \A q : rel_street(q)' = rel_street(q)
  BY Filling, Frame
<1>2. ASSUME phase # "admins", phase # "done", VisitedRelations' = VisitedRelations, street_list' = street_list
      PROVE  Listed' /\ ListedOnce'
  <2>1. \A w : get_street_admin(w)' = get_street_admin(w)
    BY <1>1, <1>2, Frame
  <2> QED
    BY <1>1, <1>2, <2>1 DEF Listed, ListedOnce, OfRelation
<1>3. ASSUME NEW r \in left, visit_relation(r) PROVE Listed' /\ ListedOnce'
  BY <1>3, ListingRelation
<1>4. ASSUME NEW w \in left, visit_way(w) PROVE Listed' /\ ListedOnce'
  BY <1>1, <1>2, <1>4 DEF visit_way, VisitedRelations
<1>5. ASSUME end_of_relations PROVE Listed' /\ ListedOnce'
  BY <1>1, <1>2, <1>5 DEF end_of_relations, VisitedRelations
<1>6. ASSUME collect PROVE Listed' /\ ListedOnce'
  <2>1. street_list = {} /\ street_list' = {}
    BY <1>6 DEF collect, Listed, VisitedRelations
  <2> QED
    BY <2>1 DEF Listed, ListedOnce
<1>7. ASSUME end_of_ways PROVE Listed' /\ ListedOnce'
  <2>1. /\ phase = "ways" /\ phase' = "done" /\ name_admin_map' = name_admin_map /\ finder' = finder
        /\ VisitedRelations' = VisitedRelations
    BY <1>1, <1>7 DEF end_of_ways, VisitedRelations
  <2>2. \A w : get_street_admin(w)' = get_street_admin(w)
    BY <1>1, <2>1, Frame
  <2>3. \A id : all_admins_for_street(id)' = all_admins_for_street(id)
    BY <2>1 DEF all_admins_for_street
  <2> DEFINE D == UNION {build_streets_for_admins("way", w.id, w.name, all_admins_for_street(w.id), get_way_coord(w)) :
                             w \in OfKind("way")}
  <2>4. street_list' = street_list \cup D
    BY <1>7 DEF end_of_ways
  <2>5. \A d \in D : d.kind = "way" /\ \E w \in OfKind("way") :
            d \in build_streets_for_admins("way", w.id, w.name, all_admins_for_street(w.id), get_way_coord(w))
    BY Built
  <2>6. \A r, d : OfRelation(r, d) /\ d \in street_list' => d \in street_list
    <3>1. \A d \in D : d.kind # "relation"
      BY <2>5
    <3> HIDE DEF D
    <3> QED
      BY <2>4, <3>1 DEF OfRelation
  <2> HIDE DEF D
  <2>7. \A d \in street_list : d.kind = "relation" /\ \E r \in VisitedRelations : OfRelation(r, d)
    BY <2>1 DEF Listed
  <2>8. Listed'
    BY <1>1, <2>1, <2>3, <2>4, <2>5, <2>7 DEF Listed, OfRelation
  <2>9. ListedOnce'
    BY <1>1, <2>1, <2>2, <2>4, <2>6 DEF ListedOnce, OfRelation
  <2> QED
    BY <2>8, <2>9
<1>8. ASSUME UNCHANGED vars PROVE Listed' /\ ListedOnce'
  <2>1. phase' = phase /\ street_list' = street_list /\ finder' = finder /\ VisitedRelations' = VisitedRelations
    BY <1>1, <1>8 DEF vars, VisitedRelations
  <2>2. \A w : get_street_admin(w)' = get_street_admin(w)
    BY <1>1, <2>1, Frame
  <2>3. \A id : all_admins_for_street(id)' = all_admins_for_street(id)
    BY <1>8 DEF all_admins_for_street, vars
  <2> QED
    BY <1>1, <2>1, <2>2, <2>3 DEF Listed, ListedOnce, OfRelation
<1> QED
  BY <1>3, <1>4, <1>5, <1>6, <1>7, <1>8 DEF Next

LEMMA ListingAll ==
    ASSUME Filled, AllListed, [Next]_vars
    PROVE  AllListed'
<1>1. input' = input /\ \A kind : OfKind(kind)' = OfKind(kind)
  BY Filling, Frame
<1>2. phase' = "done" => end_of_ways \/ UNCHANGED vars
  BY DEF Next, collect, visit_relation, visit_way, end_of_relations
<1>3. ASSUME end_of_ways \/ UNCHANGED vars PROVE \A id : all_admins_for_street(id)' = all_admins_for_street(id)
  BY <1>3 DEF all_admins_for_street, end_of_ways, vars
<1>4. ASSUME end_of_ways PROVE AllListed'
  BY <1>1, <1>3, <1>4 DEF AllListed, end_of_ways
<1>5. ASSUME UNCHANGED vars PROVE AllListed'
  BY <1>1, <1>3, <1>5 DEF AllListed, vars
<1>6. ASSUME phase' # "done" PROVE AllListed'
  BY <1>6 DEF AllListed
<1> QED
  BY <1>2, <1>4, <1>5, <1>6

THEOREM Inductive == Spec => []IInv
<1>1. IInv /\ [Next]_vars => IInv'
  <2> SUFFICES ASSUME IInv, [Next]_vars PROVE IInv'
    OBVIOUS
  <2>1. Filled /\ Marked /\ Merged /\ Listed /\ AllListed /\ ListedOnce
    BY DEF IInv
  <2>2. Filled' /\ Marked' /\ Merged' /\ Listed' /\ AllListed' /\ ListedOnce'
    BY <2>1, Filling, Marking, MergedKept, Listing, ListingAll
  <2> QED
    BY <2>2 DEF IInv
<1> QED
  BY Initially, <1>1, PTL DEF Spec
-------------------------------------------------------------------------------
\* The document of a way comes from what was kept for it, for some name and city.
LEMMA WayDocument ==
    ASSUME IInv, NEW d \in WaysDocuments
    PROVE  /\ phase = "done"
           /\ \E w \in VisitedWays :
                 /\ d \in build_streets_for_admins("way", w.id, w.name, all_admins_for_street(w.id), get_way_coord(w))
                 /\ \E k \in DOMAIN name_admin_map : \E branches \in get_street_admin(w) :
                       /\ d.admins \in ToSet(branches) /\ k \in w.name \X city(d.admins)
                       /\ name_admin_map[k] = [id |-> w.id, admins |-> d.admins]
<1>1. Filled /\ Merged /\ Listed
  BY DEF IInv
<1>2. d \in street_list /\ d.kind = "way"
  BY DEF WaysDocuments
<1>3. PICK w \in OfKind("way") :
          d \in build_streets_for_admins("way", w.id, w.name, all_admins_for_street(w.id), get_way_coord(w))
  BY <1>1, <1>2 DEF Listed
<1>4. d.admins \in all_admins_for_street(w.id)
  BY <1>3, Built
<1>5. PICK k \in DOMAIN name_admin_map : name_admin_map[k].id = w.id /\ d.admins = name_admin_map[k].admins
  BY <1>4 DEF all_admins_for_street
<1>6. PICK v \in VisitedWays : \E branches \in get_street_admin(v) : \E b \in ToSet(branches) :
          k \in v.name \X city(b) /\ name_admin_map[k] = [id |-> v.id, admins |-> b]
  BY <1>1 DEF Merged
<1>7. v = w
  <2>1. v \in OfKind("way") /\ v.id = w.id
    BY <1>5, <1>6 DEF VisitedWays
  <2> QED
    BY <1>1, <2>1, Objects
<1>8. \E branches \in get_street_admin(w) :
          /\ d.admins \in ToSet(branches) /\ k \in w.name \X city(d.admins)
          /\ name_admin_map[k] = [id |-> w.id, admins |-> d.admins]
  BY <1>5, <1>6, <1>7
<1>9. phase = "done"
  BY <1>1, <1>2 DEF Listed
<1> QED
  BY <1>3, <1>6, <1>7, <1>8, <1>9

\* No way of a relation has a document of its own (street.rs:195), whatever the file
\* and the order in which its objects are visited.
THEOREM NotIndexedTwiceAlways == Spec => []NotIndexedTwice
<1>1. IInv => NotIndexedTwice
  <2> SUFFICES ASSUME IInv, phase = "done", NEW w \in OfKind("way"), InRelation(w), NEW d \in WaysDocuments, d.id = w.id
               PROVE  FALSE
    BY DEF NotIndexedTwice
  <2>1. PICK v \in VisitedWays :
            d \in build_streets_for_admins("way", v.id, v.name, all_admins_for_street(v.id), get_way_coord(v))
    BY WayDocument
  <2>2. v.id = w.id /\ v.id \notin street_in_relation
    BY <2>1, Built DEF VisitedWays
  <2>3. w.id \in street_in_relation
    <3>1. VisitedRelations = OfKind("relation")
      BY DEF VisitedRelations
    <3> QED
      BY <3>1 DEF InRelation, IInv, Marked
  <2> QED
    BY <2>2, <2>3
<1> QED
  BY Inductive, <1>1, PTL

\* Documents of the same street have different suffixes (street.rs:272).
THEOREM DistinctIdsAlways == Spec => []DistinctIds
<1>1. IInv => DistinctIds
  <2> SUFFICES ASSUME IInv, NEW d \in street_list, NEW e \in street_list,
                      d.kind = e.kind, d.id = e.id, d.suffix = e.suffix
               PROVE  d = e
    BY DEF DistinctIds
  <2>1. Filled /\ Merged /\ Listed /\ ListedOnce /\ Hierarchical(finder) /\ \A a \in finder : a.id \in Nat
    BY Collected DEF IInv
  <2>2. CASE d.kind = "relation"
    <3>1. PICK r \in VisitedRelations : OfRelation(r, d)
      BY <2>1, <2>2 DEF Listed
    <3>2. OfRelation(r, e)
      BY <2>2, <3>1 DEF OfRelation
    <3>3. PICK w \in rel_street(r) : \E branches \in get_street_admin(w) :
              \A f \in street_list : OfRelation(r, f) =>
                  f \in build_streets_for_admins("relation", r.id, IF r.name # {} THEN r.name ELSE w.name,
                                                 ToSet(branches), get_way_coord(w))
      BY <2>1, <3>1 DEF ListedOnce
    <3>4. PICK branches \in get_street_admin(w) :
              /\ d \in build_streets_for_admins("relation", r.id, IF r.name # {} THEN r.name ELSE w.name,
                                                ToSet(branches), get_way_coord(w))
              /\ e \in build_streets_for_admins("relation", r.id, IF r.name # {} THEN r.name ELSE w.name,
                                                ToSet(branches), get_way_coord(w))
      BY <3>1, <3>2, <3>3
    <3>5. IsFiniteSet(ToSet(branches)) /\ \A b \in ToSet(branches) : \E a \in finder : b = hierarchy(finder, a)
      BY <2>1, Looked
    <3> QED
      BY <2>1, <3>4, <3>5, Ranked
  <2>3. CASE d.kind = "way"
    <3>1. d \in WaysDocuments /\ e \in WaysDocuments
      BY <2>3 DEF WaysDocuments
    <3>2. PICK w \in VisitedWays :
              d \in build_streets_for_admins("way", w.id, w.name, all_admins_for_street(w.id), get_way_coord(w))
      BY <3>1, WayDocument
    <3>3. PICK v \in VisitedWays :
              e \in build_streets_for_admins("way", v.id, v.name, all_admins_for_street(v.id), get_way_coord(v))
      BY <3>1, WayDocument
    <3>4. v = w
      <4>1. v.id = w.id /\ v \in OfKind("way") /\ w \in OfKind("way")
        BY <3>2, <3>3, Built DEF VisitedWays
      <4> QED
        BY <2>1, <4>1, Objects
    <3> DEFINE B == all_admins_for_street(w.id)
    <3>5. \A b \in B : \E a \in finder : b = hierarchy(finder, a)
      <4> SUFFICES ASSUME NEW b \in B PROVE \E a \in finder : b = hierarchy(finder, a)
        OBVIOUS
      <4>1. PICK k \in DOMAIN name_admin_map : b = name_admin_map[k].admins
        BY DEF all_admins_for_street
      <4>2. PICK u \in VisitedWays : \E br \in get_street_admin(u) : b \in ToSet(br)
        BY <2>1, <4>1 DEF Merged
      <4> QED
        BY <2>1, <4>2, Looked
    <3>6. IsFiniteSet(B)
      <4> DEFINE first == [b \in B |-> b[1]]
      <4>1. \A b \in B : b[1] \in finder /\ b = hierarchy(finder, b[1])
        BY <2>1, <3>5, Hierarchy
      <4>2. first \in Injection(B, finder)
        <5> HIDE DEF B
        <5> QED
          BY <4>1 DEF Injection, IsInjective
      <4> HIDE DEF first, B
      <4> QED
        BY <2>1, <4>2, FS_Injection DEF Hierarchical
    <3> HIDE DEF B
    <3>7. /\ d \in build_streets_for_admins("way", w.id, w.name, B, get_way_coord(w))
          /\ e \in build_streets_for_admins("way", w.id, w.name, B, get_way_coord(w))
      BY <3>2, <3>3, <3>4 DEF B
    <3> QED
      BY <2>1, <3>5, <3>6, <3>7, Ranked
  <2> QED
    BY <2>1, <2>2, <2>3 DEF Listed
<1> QED
  BY Inductive, <1>1, PTL

\* A document has the node its admins were looked up from.
LEMMA Placed ==
    ASSUME Filled, NEW w \in OfKind("way"), NEW branches \in get_street_admin(w), NEW b \in ToSet(branches),
           NEW p \in get_way_coord(w)
    PROVE  b[1].at[p] \in {"edge", "inside"}
<1>1. find_node(nodes_right(w) \o nodes_left(w)) = {p}
  BY SameNode
<1>2. branches \in AdminsIf(finder, p)
  BY <1>1 DEF get_street_admin
<1>3. Hierarchical(finder)
  BY Collected
<1>4. PICK a \in Overlap(finder, p) : b = hierarchy(finder, a)
  BY <1>2, <1>3, Leaves DEF Branches
<1>5. b[1] = a
  BY <1>3, <1>4, Hierarchy DEF Overlap
<1> QED
  BY <1>4, <1>5 DEF Overlap

\* A street is put in the admin its document starts with.
THEOREM CoordInAdminsAlways == Spec => []CoordInAdmins
<1>1. IInv => CoordInAdmins
  <2> SUFFICES ASSUME IInv, NEW d \in street_list, NEW p \in d.coord
               PROVE  d.admins[1].at[p] \in {"edge", "inside"}
    BY DEF CoordInAdmins
  <2>1. Filled /\ Listed /\ ListedOnce
    BY DEF IInv
  <2>2. CASE d.kind = "relation"
    <3>1. PICK r \in VisitedRelations : OfRelation(r, d)
      BY <2>1, <2>2 DEF Listed
    <3>2. PICK w \in rel_street(r) : \E branches \in get_street_admin(w) :
              d \in build_streets_for_admins("relation", r.id, IF r.name # {} THEN r.name ELSE w.name,
                                             ToSet(branches), get_way_coord(w))
      BY <2>1, <3>1 DEF ListedOnce
    <3>3. PICK branches \in get_street_admin(w) : d.admins \in ToSet(branches) /\ d.coord = get_way_coord(w)
      BY <3>2, Built
    <3>4. w \in OfKind("way")
      BY <2>1, <3>1, Objects DEF VisitedRelations
    <3> QED
      BY <2>1, <3>3, <3>4, Placed
  <2>3. CASE d.kind = "way"
    <3>1. d \in WaysDocuments
      BY <2>3 DEF WaysDocuments
    <3>2. PICK w \in VisitedWays :
              /\ d \in build_streets_for_admins("way", w.id, w.name, all_admins_for_street(w.id), get_way_coord(w))
              /\ \E branches \in get_street_admin(w) : d.admins \in ToSet(branches)
      BY <3>1, WayDocument
    <3>3. d.coord = get_way_coord(w) /\ w \in OfKind("way")
      BY <3>2, Built DEF VisitedWays
    <3> QED
      BY <2>1, <3>2, <3>3, Placed
  <2> QED
    BY <2>1, <2>2, <2>3 DEF Listed
<1> QED
  BY Inductive, <1>1, PTL

\* Each way in no relation has one document for its name in each of its cities, and
\* it is that of the way with the least id, in whatever order ways are visited.
THEOREM OncePerCityAlways == Spec => []OncePerCity
<1>1. IInv => OncePerCity
  <2> SUFFICES ASSUME IInv, phase = "done", NEW w \in OfKind("way"), ~ InRelation(w),
                      NEW branches \in get_street_admin(w), NEW b \in ToSet(branches), NEW c \in city(b),
                      NEW n \in w.name
               PROVE  LET same == {d \in WaysDocuments : d.name = w.name /\ c \in city(d.admins)}
                      IN  Cardinality(same) = 1 /\ \A d \in same : d.id <= w.id
    BY DEF OncePerCity
  <2> DEFINE same == {d \in WaysDocuments : d.name = w.name /\ c \in city(d.admins)}
             k == <<n, c>>
  <2>1. Filled /\ Merged /\ Marked /\ Listed /\ Hierarchical(finder)
    BY Collected DEF IInv
  <2>2. w \in VisitedWays
    <3>1. VisitedRelations = OfKind("relation")
      BY DEF VisitedRelations
    <3>2. w.id \notin street_in_relation
      BY <2>1, <3>1 DEF Marked, InRelation
    <3> QED
      BY <3>2 DEF VisitedWays
  <2>3. k \in DOMAIN name_admin_map /\ name_admin_map[k].id <= w.id
    BY <2>1, <2>2 DEF Merged
  <2>4. PICK v \in VisitedWays : \E br \in get_street_admin(v) : \E e \in ToSet(br) :
            k \in v.name \X city(e) /\ name_admin_map[k] = [id |-> v.id, admins |-> e]
    BY <2>1, <2>3 DEF Merged
  <2>5. PICK br \in get_street_admin(v), e \in finder :
            k \in v.name \X city(hierarchy(finder, e)) /\ name_admin_map[k] = [id |-> v.id, admins |-> hierarchy(finder, e)]
    BY <2>1, <2>4, Looked
  <2> DEFINE x == hierarchy(finder, e)
  <2>6. v \in OfKind("way") /\ n \in v.name /\ v.name = w.name /\ c \in city(x)
    <3>1. v \in OfKind("way") /\ n \in v.name /\ c \in city(x)
      BY <2>5 DEF VisitedWays
    <3>2. \A m \in v.name : m = n
      BY <2>1, <3>1, Objects
    <3>3. \A m \in w.name : m = n
      BY <2>1, Objects
    <3> QED
      BY <3>1, <3>2, <3>3
  <2>7. name_admin_map[k].id = v.id /\ name_admin_map[k].admins = x
    BY <2>5
  <2> HIDE DEF x
  <2> DEFINE B == all_admins_for_street(v.id)
             doc == [kind |-> "way", id |-> v.id, name |-> v.name, admins |-> x, coord |-> get_way_coord(v),
                     suffix |-> Suffix(B, x)]
  <2>8. doc \in same
    <3>1. x \in B
      BY <2>3, <2>7 DEF all_admins_for_street
    <3>2. doc \in build_streets_for_admins("way", v.id, v.name, B, get_way_coord(v))
      BY <3>1 DEF build_streets_for_admins, Suffix, Lower
    <3>3. doc \in street_list
      BY <2>6, <3>2 DEF IInv, AllListed
    <3> QED
      BY <2>6, <3>3 DEF WaysDocuments
  <2>9. ASSUME NEW d \in same PROVE d = doc
    <3>1. d \in WaysDocuments /\ d.name = w.name /\ c \in city(d.admins)
      OBVIOUS
    <3>2. PICK u \in VisitedWays :
              /\ d \in build_streets_for_admins("way", u.id, u.name, all_admins_for_street(u.id), get_way_coord(u))
              /\ \E l \in DOMAIN name_admin_map : \E br2 \in get_street_admin(u) :
                    /\ d.admins \in ToSet(br2) /\ l \in u.name \X city(d.admins)
                    /\ name_admin_map[l] = [id |-> u.id, admins |-> d.admins]
      BY <3>1, WayDocument
    <3>3. PICK l \in DOMAIN name_admin_map :
              /\ l \in u.name \X city(d.admins) /\ name_admin_map[l] = [id |-> u.id, admins |-> d.admins]
              /\ \E a \in finder : d.admins = hierarchy(finder, a)
      BY <2>1, <3>2, Looked
    <3>4. u.name = w.name /\ u \in OfKind("way")
      BY <3>1, <3>2, Built DEF VisitedWays
    <3>5. l[1] = n
      BY <2>1, <3>3, <3>4, Objects
    <3>6. l[2] = c
      BY <2>1, <3>1, <3>3, OneCity
    <3>7. l = k
      BY <3>3, <3>5, <3>6
    <3>8. d.admins = x /\ u.id = v.id
      <4>1. [id |-> u.id, admins |-> d.admins] = name_admin_map[k]
        BY <3>3, <3>7
      <4> QED
        BY <2>7, <4>1
    <3>9. u = v
      BY <2>1, <2>6, <3>4, <3>8, Objects
    <3> HIDE DEF x
    <3>10. d \in build_streets_for_admins("way", v.id, v.name, B, get_way_coord(v))
      BY <3>2, <3>9
    <3> HIDE DEF B
    <3>11. /\ d = [kind |-> "way", id |-> v.id, name |-> v.name, admins |-> d.admins, coord |-> get_way_coord(v),
                   suffix |-> d.suffix]
           /\ d.suffix = Suffix(B, d.admins)
      BY <3>10, Built
    <3> QED
      BY <3>8, <3>11
  <2> HIDE DEF same, doc
  <2>10. same = {doc}
    BY <2>8, <2>9
  <2>11. Cardinality(same) = 1
    BY <2>10, FS_Singleton
  <2>12. doc.id <= w.id
    BY <2>3, <2>7 DEF doc
  <2> QED
    BY <2>10, <2>11, <2>12 DEF same
<1> QED
  BY Inductive, <1>1, PTL

\* The geofinder gives a street all leaves of the admins that overlap it, with their
\* parents (admin_geofinder.rs:141), and a point whole hierarchies, whatever the
\* order in which its index lists admins.
THEOREM HierarchyKeptAlways == Spec => []HierarchyKept
<1>1. IInv => HierarchyKept
  <2> SUFFICES ASSUME Filled PROVE LeavesWithParents /\ HierarchyOfPoint
    BY DEF IInv, HierarchyKept
  <2>1. Hierarchical(finder)
    BY Collected
  <2>2. LeavesWithParents
    <3> SUFFICES ASSUME NEW p \in Points, NEW branches \in AdminsIf(finder, p)
                 PROVE  /\ {b[1] : b \in ToSet(branches)} = Overlap(finder, p) \ Above(finder, Overlap(finder, p))
                        /\ \A b \in ToSet(branches) : ToSet(Tail(b)) = parents(finder, b[1])
      BY DEF LeavesWithParents, Overlap, Above
    <3> DEFINE L == Overlap(finder, p) \ Above(finder, Overlap(finder, p))
    <3>1. ToSet(branches) = {hierarchy(finder, a) : a \in L} /\ L \subseteq finder
      BY <2>1, Leaves DEF Branches, Overlap
    <3> HIDE DEF L
    <3>2. \A a \in L : hierarchy(finder, a)[1] = a
      BY <2>1, <3>1, Hierarchy
    <3>3. {b[1] : b \in ToSet(branches)} = L
      BY <3>1, <3>2
    <3>4. \A b \in ToSet(branches) : ToSet(Tail(b)) = parents(finder, b[1])
      BY <3>1, <3>2 DEF parents
    <3> QED
      BY <3>3, <3>4 DEF L
  <2>3. HierarchyOfPoint
    <3> SUFFICES ASSUME NEW p \in Points, NEW res \in AdminsAt(finder, p)
                 PROVE  /\ \A a \in res : \E b \in res : b.at[p] = "inside" /\ a \in {b} \cup parents(finder, b)
                        /\ \A a \in res : parents(finder, a) \subseteq res
                        /\ \A a \in finder \ res : a.at[p] = "inside" =>
                              \E b \in res : a.zone_type # 0 /\ b.zone_type = a.zone_type
      BY DEF HierarchyOfPoint
    <3>1. Enclosed(finder, p)
      BY Collected
    <3> QED
      BY <2>1, <3>1, AtPoint
  <2> QED
    BY <2>2, <2>3
<1> QED
  BY Inductive, <1>1, PTL
===============================================================================
