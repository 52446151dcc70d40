------------------------------- MODULE Importers -------------------------------
(***************************************************************************)
(* The programs that fill the indices (src/bin), and what they take from   *)
(* what others have published: admins, listed once at the start, and       *)
(* addresses, searched around each point of interest.  They are started in *)
(* the order of a schedule, and may overlap.                               *)
(*                                                                         *)
(* What an index serves is replaced at once, as IndexPublication shows of  *)
(* runs that import different types; a listing gives what was served when  *)
(* it was opened, less what shards that fail leave out, without a word of  *)
(* it (ListDocuments).  The streets of a file are Streets'      *)
(* matter, records and files of addresses AddressImport's.  osm2mimir is   *)
(* set to import both streets and points of interest.                      *)
(***************************************************************************)
EXTENDS Addresses, Cosmogony, Pois, Stops

CONSTANTS
    Schedules,      \* sequences of programs, in the order they are started
    Parallel,       \* how many may run at once
    Files,          \* of Cosmogony, the input of cosmogony2mimir being any of them
    French,         \* french_id_retrocompatibility
    FailingIds,     \* ids of admins on shards that may fail to answer a listing
    StreetsOfOsm,   \* records with an id and a point
    ObjectsOfOsm,
    PoiConfig,
    Records,        \* of OpenAddresses
    NavitiaPois, NavitiaTypes,
    StopAreas, StopPoints, ModeWeights,
    Templates,      \* functions from index templates to the components they are made of
    Distance        \* between two points

Importing == {"openaddresses2mimir", "osm2mimir", "poi2mimir", "ntfs2mimir"}
Programs == Importing \cup {"cosmogony2mimir", "ctlmimir"}

ASSUME SchedulesAssumption == Schedules \subseteq Seq(Programs)

\* Of the points of what is imported, what Cosmogony says of its zones:
\* a zone has at most one parent, of a greater zone type, which contains it, and
\* cities do not overlap.
Points == {x.at : x \in StreetsOfOsm \cup Records \cup StopAreas \cup NavitiaPois} \cup UNION {x.at : x \in ObjectsOfOsm}
ASSUME FilesAssumption ==
    /\ City \in Nat \ {0}
    /\ \A file \in Files :
          /\ IsFiniteSet(file)
          /\ \A z \in file : z.zone_type \in Nat /\ \A i, j \in z.parent : i = j
          /\ \A y, z \in file : y.index = z.index \/ format_id(y, French) = format_id(z, French) => y = z
          /\ \A y, z \in file : z.index \in y.parent =>
                /\ y.zone_type < z.zone_type
                /\ \A p \in Points : (y.at[p] # "outside" => z.at[p] # "outside")
                                    /\ (y.at[p] = "inside" => z.at[p] = "inside")
          /\ \A y, z \in file : \A p \in Points :
                y.zone_type = City /\ z.zone_type = City /\ y.at[p] = "inside" /\ z.at[p] = "inside" => y = z

\* A line has a sort order and a code as options.
ASSUME LinesAssumption ==
    \A area \in StopAreas :
        /\ IsFiniteSet(area.lines)
        /\ \A l \in area.lines :
              /\ l.name \in Nat /\ l.code \subseteq Nat /\ l.sort_order \subseteq Nat
              /\ \A m, n \in l.code : m = n
              /\ \A m, n \in l.sort_order : m = n

\* Rules are in an order, and the point of an object is an option.
ASSUME PoisAssumption ==
    /\ PoiConfig.rules \in Seq(Range(PoiConfig.rules))
    /\ \A o \in ObjectsOfOsm \cup NavitiaPois : o.id \in Nat
    /\ \A o \in ObjectsOfOsm : \A p, q \in o.at : p = q

Types == {"admin", "street", "addr", "poi", "stop"}
NoneServed == [program |-> "none", docs |-> {}, fresh |-> {}]

VARIABLES
    todo,       \* what is left of the schedule
    runs,       \* the programs that were started: program, phase, and the admins it
                \* has listed, the documents it has made and what is left to do
    served,     \* for each type, the program that published it and the documents
    templates   \* component templates and index templates in Elasticsearch

\* History: programs and indices also have a set `fresh` of types, the indices that
\* were served when the program started, or turned to points of interest, and
\* still are.  It is empty once the program has met a fault.

vars == <<todo, runs, served, templates>>

Init ==
    /\ todo \in Schedules
    /\ runs = <<>>
    /\ served = [t \in Types |-> NoneServed]
    /\ templates = {}

exists_alias(t) == served[t].program # "none"
Ended(r) == r.phase \in {"done", "failed", "refused"}
Active == {i \in DOMAIN runs : ~Ended(runs[i])}

Started(program) ==
    [program |-> program, phase |-> "connect", fresh |-> {t \in Types : exists_alias(t)},
     admins |-> {}, docs |-> {}, left |-> {}]

\* Nothing is left of a program that has ended, by itself, with an error or a panic.
Over(r, phase) ==
    [program |-> r.program, phase |-> phase, fresh |-> {}, admins |-> {}, docs |-> {}, left |-> {}]

To(i, r) == runs' = [runs EXCEPT ![i] = r] /\ UNCHANGED <<todo, served, templates>>

start ==
    /\ todo # <<>> /\ Cardinality(Active) < Parallel
    /\ todo' = Tail(todo)
    /\ runs' = Append(runs, Started(Head(todo)))
    /\ UNCHANGED <<served, templates>>

\* History: the addresses a program finds from here on are those served now, while
\* its admins are those it had; and it has served the streets itself.
Renewed(r) == (r.fresh \cap {"admin"}) \cup ({t \in Types : exists_alias(t)} \ {"admin"}) \cup {"street"}

Fails(i) == To(i, Over(runs[i], "failed"))

Imported == {index_cosmogony(file, French) : file \in Files}
components == UNION {Templates[t] : t \in DOMAIN Templates}

\* A connection to a version of Elasticsearch that fits.  cosmogony2mimir converts
\* its zones without asking it anything.
conn(i) ==
    /\ runs[i].phase = "connect"
    /\ \/ Fails(i)
       \/ /\ runs[i].program = "ctlmimir"
          /\ To(i, [runs[i] EXCEPT !.phase = "components", !.left = components])
       \/ /\ runs[i].program = "cosmogony2mimir"
          /\ \E admins \in Imported : To(i, [runs[i] EXCEPT !.phase = "admin", !.docs = admins])
       \/ /\ runs[i].program \in Importing
          /\ To(i, [runs[i] EXCEPT !.phase = "list"])

-------------------------------------------------------------------------------
\* Elasticsearch has the template.
created(i, t) ==
    /\ templates' = templates \cup {t}
    /\ runs' = [runs EXCEPT ![i].left = @ \ {t}]
    /\ UNCHANGED <<todo, served>>

create_component_template(i, t) == runs[i].phase = "components" /\ created(i, t)

\* Elasticsearch refuses an index template without its components.
create_index_template(i, t) ==
    /\ runs[i].phase = "indices"
    /\ IF Templates[t] \subseteq templates THEN created(i, t) ELSE To(i, Over(runs[i], "refused"))

configure(i, t) == create_component_template(i, t) \/ create_index_template(i, t)

\* Mutant: all templates are imported as they come.
import_at_once(i) ==
    /\ runs[i].phase = "components"
    /\ \E t \in components \cup DOMAIN Templates :
          IF t \in components \/ Templates[t] \subseteq templates THEN created(i, t)
          ELSE To(i, Over(runs[i], "refused"))

\* The templates of a directory are imported in any order.  The first failure is
\* the end.
import(i) ==
    /\ runs[i].phase \in {"components", "indices"}
    /\ \E t \in runs[i].left : Fails(i) \/ configure(i, t)

\* Components come first.
next_directory(i) ==
    /\ runs[i].left = {}
    /\ \/ /\ runs[i].phase = "components"
          /\ To(i, [runs[i] EXCEPT !.phase = "indices", !.left = DOMAIN Templates])
       \/ /\ runs[i].phase = "indices"
          /\ To(i, Over(runs[i], "done"))

-------------------------------------------------------------------------------
\* The sets that have one of the documents that may be made of each item, for
\* the items of which any may.
OneEach(docs) ==
    LET items == {x \in DOMAIN docs : docs[x] # {}}
        choices == {f \in [items -> UNION {docs[x] : x \in items}] : \A x \in items : f[x] \in docs[x]}
    IN  {{f[x] : x \in items} : f \in choices}

\* A street is in each branch of the hierarchy it meets, and nowhere without admins.
streets(s, admins) ==
    {{[type |-> "street", id |-> <<s.id, k>>, at |-> s.at, admins |-> branches[k], zip_codes |-> {},
       label |-> format_label(branches[k], {}), weight |-> set_weight_from_admins(branches[k])] :
         k \in DOMAIN branches} : branches \in AdminsIf(AdminGeoFinder(admins), s.at)}

import_addresses(r, admins) ==
    {[r EXCEPT !.phase = "addr", !.docs = D] :
        D \in OneEach([x \in Records |-> openaddresses_into_addr(x, admins)])}

import_streets(r, admins) ==
    {[r EXCEPT !.phase = "street", !.docs = UNION D, !.admins = admins] :
        D \in OneEach([x \in StreetsOfOsm |-> streets(x, admins)])}

index_pois(r, admins) == {[r EXCEPT !.phase = "pois", !.left = NavitiaPois, !.admins = admins]}

\* Weights come last, when the admins are known.
index_ntfs(area, admins) ==
    {make_weight(attach_stop(d, s), build_stop_area_weight(StopPoints, ModeWeights)) :
        d \in to_mimir(area), s \in lookups(admins, area.at)}

attach_stops_to_admins(r, admins) ==
    {[r EXCEPT !.phase = "stop", !.docs = D] : D \in OneEach([x \in StopAreas |-> index_ntfs(x, admins)])}

\* With the admins at hand, a program makes all its documents, or goes on to the
\* points of interest.
Made(r, admins) ==
    CASE r.program = "openaddresses2mimir" -> import_addresses(r, admins)
      [] r.program = "osm2mimir" -> import_streets(r, admins)
      [] r.program = "poi2mimir" -> index_pois(r, admins)
      [] r.program = "ntfs2mimir" -> attach_stops_to_admins(r, admins)

\* Elasticsearch: the listings of some admins.
Listings(docs) == {{a \in docs : a.id \notin lost} : lost \in SUBSET FailingIds}

\* Mutant: a listing that breaks off is taken for the end of the admins.
list_admins_cut(i) ==
    /\ runs[i].phase = "list"
    /\ \E admins \in SUBSET served["admin"].docs : \E r \in Made(runs[i], admins) : To(i, r)

\* The admins are listed.  Without an index of admins the listing cannot be
\* opened, and Elasticsearch may refuse to open it: addresses, streets and points
\* of interest then go without admins.  A listing that breaks off is a panic; one
\* that some shards leave incomplete is as good as another.  Stops need at least
\* one admin.
list_admins(i) ==
    /\ runs[i].phase = "list"
    /\ LET needed == runs[i].program = "ntfs2mimir"
           docs == served["admin"].docs
           refused == [runs[i] EXCEPT !.fresh = {}]
       IN  \/ /\ exists_alias("admin")
              /\ \E admins \in Listings(docs) :
                    /\ needed => admins # {}
                    /\ \E r \in Made(IF admins = docs THEN runs[i] ELSE refused, admins) : To(i, r)
           \/ needed /\ Fails(i)
           \/ ~needed /\ \E r \in Made(refused, {}) : To(i, r)
           \/ /\ ~needed /\ exists_alias("admin")
              /\ To(i, Over(refused, "failed"))

-------------------------------------------------------------------------------
Within(p, radius) == {d \in served["street"].docs \cup served["addr"].docs : Distance[<<p, d.at>>] <= radius}

\* Mutant: any address within reach.
any_hit(p, radius) == IF Within(p, radius) = {} THEN {{}} ELSE {{d} : d \in Within(p, radius)}

\* The first answer of a reverse search, an option.
first_hit(p, radius) ==
    IF Within(p, radius) = {} THEN {{}}
    ELSE {{d} : d \in {x \in Within(p, radius) :
                          \A y \in Within(p, radius) : Distance[<<p, x.at>>] <= Distance[<<p, y.at>>]}}

\* What a point of interest becomes once its address was searched; without an
\* answer those of poi2mimir are left out.
Found(r, p, place) ==
    IF r.program = "osm2mimir" THEN {add_address(p, place)} ELSE into_poi(p, NavitiaTypes, place, r.admins)
Unanswered(r, p) == IF r.program = "osm2mimir" THEN {p} ELSE {}

\* An object whose type is not known is left out before any search.
Unrecognized(r, p) == r.program = "poi2mimir" /\ p.poi_type \notin NavitiaTypes

\* One point of interest after the other.  Elasticsearch refuses a search when one
\* of the aliases is missing, and for reasons of its own; late shards leave
\* out what they like.  An answer that cannot be read is a panic.
search_address(i) ==
    /\ runs[i].phase = "pois" /\ runs[i].left # {}
    /\ LET r == runs[i]
           p == CHOOSE x \in r.left : \A y \in r.left : x.id <= y.id
           radius == IF r.program = "osm2mimir" THEN 1000 ELSE 50
           Goes(made, faulty) ==
               \E D \in (IF made = {} THEN {{}} ELSE {{d} : d \in made}) :
                  To(i, [r EXCEPT !.left = @ \ {p}, !.docs = @ \cup D, !.fresh = IF faulty THEN {} ELSE @])
       IN  \/ Unrecognized(r, p) /\ Goes({}, FALSE)
           \/ /\ ~Unrecognized(r, p) /\ exists_alias("street") /\ exists_alias("addr")
              /\ \/ \E place \in first_hit(p.at, radius) : Goes(Found(r, p, place), FALSE)
                 \/ \E place \in {{}} \cup {{d} : d \in Within(p.at, radius)} : Goes(Found(r, p, place), TRUE)
           \/ ~Unrecognized(r, p) /\ (Goes(Unanswered(r, p), TRUE) \/ Fails(i))

\* Mutant: only some points of interest are published.
pois_over_some(i) ==
    /\ runs[i].phase = "pois" /\ runs[i].left = {} /\ runs[i].docs # {}
    /\ To(i, [runs[i] EXCEPT !.phase = "poi"])

pois_over(i) ==
    /\ runs[i].phase = "pois" /\ runs[i].left = {}
    /\ To(i, [runs[i] EXCEPT !.phase = "poi"])

-------------------------------------------------------------------------------
\* The documents of an index replace those that were served.
Publish(i, t, r) ==
    /\ served' = [u \in Types |->
          IF u = t THEN [program |-> r.program, docs |-> runs[i].docs, fresh |-> runs[i].fresh]
          ELSE [served[u] EXCEPT !.fresh = @ \ {t}]]
    /\ runs' = [j \in DOMAIN runs |-> IF j = i THEN r ELSE [runs[j] EXCEPT !.fresh = @ \ {t}]]

pois(admins) == OneEach([x \in ObjectsOfOsm |-> parse_poi(x, PoiConfig, admins)])

import_pois(r) ==
    {[r EXCEPT !.phase = "pois", !.docs = {}, !.left = {compute_weight(p) : p \in D}, !.fresh = Renewed(r)] :
        D \in pois(r.admins)}

\* After its streets osm2mimir turns to its points of interest.
After(r) == IF r.phase = "street" THEN import_pois(r) ELSE {Over(r, "done")}

generate_index(i) ==
    /\ runs[i].phase \in Types
    /\ \E r \in After(runs[i]) : Publish(i, runs[i].phase, r)
    /\ UNCHANGED <<todo, templates>>

\* An index may fail to be created, filled or published, or something that
\* comes after its publication may fail.
generate_index_fails(i) ==
    /\ runs[i].phase \in Types
    /\ \/ Fails(i)
       \/ Publish(i, runs[i].phase, Over(runs[i], "failed")) /\ UNCHANGED <<todo, templates>>

Step(i) ==
    conn(i) \/ import(i) \/ next_directory(i) \/ list_admins(i)
    \/ search_address(i) \/ pois_over(i) \/ generate_index(i)

Next == start \/ \E i \in DOMAIN runs : Step(i) \/ generate_index_fails(i)

Spec == Init /\ [][Next]_vars

\* Programs are started and take their steps, whatever fails.
FairSpec == Spec /\ WF_vars(start) /\ WF_vars(\E i \in DOMAIN runs : Step(i))
-------------------------------------------------------------------------------
\* Whether what is served of a type was made, without a fault, from an index of
\* another type that is still served.
Fresh(t, u) == u \in served[t].fresh

Items(t) == CASE t = "street" -> StreetsOfOsm [] t = "addr" -> Records [] t = "stop" -> StopAreas
Cities(admins, p) == {a \in admins : is_city(a) /\ a.boundary /\ a.at[p] = "inside"}

\* Every item is among some documents, in its city, which is one of some admins.
In(docs, items, admins) ==
    /\ \A d \in docs : ToSet(d.admins) \subseteq admins
    /\ \A x \in items : \A a \in Cities(admins, x.at) : \E d \in docs : d.at = x.at /\ d.label = {a.id}

\* "First you have to import admins objects" (docs/components.md:12): whatever
\* runs at the same time, addresses, streets and stops are all there and attached
\* to the admins that are served, when their import started after that of the
\* admins and met no fault.
Attached ==
    \A t \in {"street", "addr", "stop"} :
        Fresh(t, "admin") => In(served[t].docs, Items(t), served["admin"].docs)

\* "no admin retrieved to enrich stops" (stops.rs:186): whatever fails, stops that
\* are served are attached to admins of one file, even while another one is
\* imported, of which only what failing shards left out may be missing.
StopsAttached ==
    exists_alias("stop") =>
        \E admins \in Imported : \E listing \in Listings(admins) :
            listing # {} /\ In(served["stop"].docs, StopAreas, listing)

\* The addresses around a point, and the nearest ones.
Near(hits, program, p) ==
    {d \in hits : Distance[<<p, d.at>>] <= IF program = "osm2mimir" THEN 1000 ELSE 50}
Nearest(hits, program, p) ==
    LET near == Near(hits, program, p)
    IN  {d \in near : \A e \in near : Distance[<<p, d.at>>] <= Distance[<<p, e.at>>]}

\* What a rule is for and has a point.
OfOsm ==
    LET HasRule(o) == \E r \in Range(PoiConfig.rules) : r.tags \subseteq o.tags
    IN  {o \in ObjectsOfOsm : o.at # {} /\ HasRule(o)}

\* Whether an address or, without one, the point is in an admin.  Of addresses at one
\* distance, any may be found.
InAdmins(hits, admins, o) ==
    IF Near(hits, "poi2mimir", o.at) = {} THEN {\E a \in AdminGeoFinder(admins) : a.at[o.at] = "inside"}
    ELSE {d.admins # <<>> : d \in Nearest(hits, "poi2mimir", o.at)}
OfNavitia == {o \in NavitiaPois : o.poi_type \in NavitiaTypes}

\* What is served as points of interest, when their import met no fault: all the
\* objects of OSM that a rule is for and that have a point, those of Navitia that
\* have a type and whose address, or else point, is in an admin, each with the
\* nearest address that is served, if any is near (osm_reader/poi.rs:285,
\* pois.rs:167), and the latter in the city of the address: even an import of
\* streets or addresses that ends meanwhile leaves no time without either of them.
Addressed ==
    LET docs == served["poi"].docs
        program == served["poi"].program
        osm == program = "osm2mimir"
        hits == served["street"].docs \cup served["addr"].docs
        Where(o) == InAdmins(hits, served["admin"].docs, o)
    IN  Fresh("poi", "street") /\ Fresh("poi", "addr") /\ (osm \/ Fresh("poi", "admin")) =>
            /\ \A p \in docs :
                  /\ p.address = {} => Near(hits, program, p.at) = {}
                  /\ \A d \in p.address : d \in Nearest(hits, program, p.at)
            /\ osm /\ check(PoiConfig) => {p.id : p \in docs} = {o.id : o \in OfOsm}
            /\ ~osm => /\ {o.id : o \in {x \in OfNavitia : Where(x) \subseteq {TRUE}}} \subseteq {p.id : p \in docs}
                       /\ {p.id : p \in docs} \subseteq {o.id : o \in {x \in OfNavitia : TRUE \in Where(x)}}
                       /\ \A p \in docs : \A d \in p.address : from_place(p).city = from_place(d).city

\* The administrative regions of an admin are its parents up to the root, each of
\* which is served as well (admin.rs:174).
HierarchyServed ==
    LET admins == served["admin"].docs
    IN  \A a \in admins :
            LET above == <<a>> \o a.admins
            IN  /\ \A k \in 1..Len(a.admins) : above[k].parent_id = {above[k + 1].id}
                /\ Last(above).parent_id = {}
                /\ \A k \in DOMAIN above : \E b \in admins : b.id = above[k].id

\* "before creating any index, you need to import all the templates"
\* (README.md:137): they are all there when ctlmimir is done, whatever order the
\* directory is in, and Elasticsearch refuses none for want of another.
TemplatesInForce ==
    \A i \in DOMAIN runs : runs[i].program = "ctlmimir" =>
        /\ runs[i].phase # "refused"
        /\ runs[i].phase = "done" => components \cup DOMAIN Templates \subseteq templates

\* All programs of a schedule are run, and end.
ImportersEnd == <>[](todo = <<>> /\ Active = {})
===============================================================================
