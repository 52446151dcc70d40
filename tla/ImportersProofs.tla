---------------------------- MODULE ImportersProofs ----------------------------
(* Proofs about Importers, for any schedule of programs, any number of them at *)
(* once, and any templates.                                                    *)
EXTENDS Importers, GeofinderProofs, TLAPS

Fields == {"program", "phase", "fresh", "admins", "docs", "left"}

\* How far an import of templates is, when some are there: components first, and
\* then what needs them.
Import(r, T) ==
    /\ r.phase \in {"connect", "components", "indices", "done", "failed"}
    /\ r.phase = "components" => components \ r.left \subseteq T
    /\ r.phase = "indices" => components \cup (DOMAIN Templates \ r.left) \subseteq T /\ r.left \subseteq DOMAIN Templates
    /\ r.phase = "done" => components \cup DOMAIN Templates \subseteq T

Run(r, T) ==
    /\ DOMAIN r = Fields
    /\ r.program \in Programs
    /\ r.phase = "list" => r.program \in Importing
    /\ r.program = "ctlmimir" => Import(r, T)

IInv ==
    /\ todo \in Seq(Programs)
    /\ \E S : runs \in Seq(S)
    /\ \A i \in DOMAIN runs : Run(runs[i], templates)
-------------------------------------------------------------------------------
\* A step of one program that leaves no template out.
LEMMA StepOf ==
    ASSUME IInv, NEW i \in DOMAIN runs, NEW r, Run(r, templates'), runs' = [runs EXCEPT ![i] = r],
           todo' = todo, templates \subseteq templates'
    PROVE  IInv'
<1>1. \E S : runs' \in Seq(S)
  <2>1. PICK S : runs \in Seq(S)
    BY DEF IInv
  <2>2. runs' \in Seq(S \cup {r})
    BY <2>1
  <2> QED
    BY <2>2
<1>2. ASSUME NEW j \in DOMAIN runs PROVE Run(runs[j], templates')
  BY <1>2 DEF IInv, Run, Import
<1> QED
  BY <1>1, <1>2 DEF IInv

\* A program that imports no templates goes on.
LEMMA OtherGoesOn ==
    ASSUME IInv, NEW i \in DOMAIN runs, NEW r, runs[i].program # "ctlmimir",
           DOMAIN r = Fields, r.program = runs[i].program, r.phase = "list" => r.program \in Importing
    PROVE  To(i, r) => IInv'
<1> SUFFICES ASSUME To(i, r) PROVE IInv'
  OBVIOUS
<1>1. Run(r, templates')
  BY DEF IInv, Run
<1> QED
  BY <1>1, StepOf DEF To

LEMMA OverIs ==
    ASSUME NEW r, NEW phase
    PROVE  DOMAIN Over(r, phase) = Fields /\ Over(r, phase).program = r.program /\ Over(r, phase).phase = phase
BY DEF Over, Fields

LEMMA FailsKeeps == ASSUME IInv, NEW i \in DOMAIN runs, Fails(i) PROVE IInv'
<1>1. Run(Over(runs[i], "failed"), templates')
  BY OverIs DEF IInv, Run, Import
<1> QED
  BY <1>1, StepOf DEF Fails, To

LEMMA StartKeeps == ASSUME IInv, start PROVE IInv'
<1>1. todo # <<>> /\ todo \in Seq(Programs) /\ todo' = Tail(todo) /\ runs' = Append(runs, Started(Head(todo)))
      /\ templates' = templates
  BY DEF start, IInv
<1>2. Head(todo) \in Programs /\ todo' \in Seq(Programs)
  BY <1>1
<1>3. Run(Started(Head(todo)), templates')
  BY <1>2 DEF Run, Started, Fields, Import
<1>4. PICK S : runs \in Seq(S)
  BY DEF IInv
<1>5. runs' \in Seq(S \cup {Started(Head(todo))})
  <2> DEFINE r == Started(Head(todo))
  <2> HIDE DEF r
  <2>1. runs \in Seq(S \cup {r})
    BY <1>4
  <2> QED
    BY <1>1, <2>1 DEF r
<1>6. \A j \in DOMAIN runs' : runs'[j] = Started(Head(todo)) \/ (j \in DOMAIN runs /\ runs'[j] = runs[j])
  <2> DEFINE r == Started(Head(todo))
  <2> HIDE DEF r
  <2>1. runs \in Seq(S \cup {r}) /\ runs' = Append(runs, r)
    BY <1>1, <1>4 DEF r
  <2>2. \A j \in DOMAIN runs' : runs'[j] = r \/ (j \in DOMAIN runs /\ runs'[j] = runs[j])
    BY <2>1
  <2> QED
    BY <2>2 DEF r
<1>7. \A r : Run(r, templates) => Run(r, templates')
  BY <1>1 DEF Run, Import
<1> QED
  BY <1>2, <1>3, <1>5, <1>6, <1>7 DEF IInv

LEMMA ConnKeeps == ASSUME IInv, NEW i \in DOMAIN runs, conn(i) PROVE IInv'
<1>1. DOMAIN runs[i] = Fields /\ runs[i].program \in Programs /\ Run(runs[i], templates)
  BY DEF IInv, Run
<1>2. CASE Fails(i)
  BY <1>2, FailsKeeps
<1>3. CASE runs[i].program = "ctlmimir" /\ To(i, [runs[i] EXCEPT !.phase = "components", !.left = components])
  <2> DEFINE r == [runs[i] EXCEPT !.phase = "components", !.left = components]
  <2>1. DOMAIN r = Fields /\ r.program = "ctlmimir" /\ r.phase = "components" /\ r.left = components
    BY <1>1, <1>3 DEF Fields
  <2> HIDE DEF r
  <2>2. Run(r, templates')
    BY <2>1 DEF Run, Import, Programs
  <2>3. To(i, r)
    BY <1>3 DEF r
  <2> QED
    BY <2>2, <2>3, StepOf DEF To
<1>4. ASSUME NEW admins, runs[i].program = "cosmogony2mimir", To(i, [runs[i] EXCEPT !.phase = "admin", !.docs = admins])
      PROVE  IInv'
  <2> DEFINE r == [runs[i] EXCEPT !.phase = "admin", !.docs = admins]
  <2>1. DOMAIN r = Fields /\ r.program = runs[i].program /\ r.phase = "admin"
    BY <1>1 DEF Fields
  <2> HIDE DEF r
  <2> QED
    BY <1>4, <2>1, OtherGoesOn DEF r
<1>5. CASE runs[i].program \in Importing /\ To(i, [runs[i] EXCEPT !.phase = "list"])
  <2> DEFINE r == [runs[i] EXCEPT !.phase = "list"]
  <2>1. DOMAIN r = Fields /\ r.program = runs[i].program
    BY <1>1 DEF Fields
  <2>2. runs[i].program # "ctlmimir"
    BY <1>5 DEF Importing
  <2> HIDE DEF r
  <2> QED
    BY <1>5, <2>1, <2>2, OtherGoesOn DEF r
<1> QED
  BY <1>2, <1>3, <1>4, <1>5 DEF conn

\* A template more, and one less to import.
LEMMA CreatedKeeps ==
    ASSUME IInv, NEW i \in DOMAIN runs, runs[i].phase \in {"components", "indices"}, NEW t, created(i, t)
    PROVE  IInv'
<1> DEFINE r == [runs[i] EXCEPT !.left = @ \ {t}]
<1>1. DOMAIN runs[i] = Fields /\ Run(runs[i], templates)
  BY DEF IInv, Run
<1>2. DOMAIN r = Fields /\ r.program = runs[i].program /\ r.phase = runs[i].phase /\ r.left = runs[i].left \ {t}
  BY <1>1 DEF Fields
<1>3. templates' = templates \cup {t} /\ todo' = todo /\ runs' = [runs EXCEPT ![i] = r]
  BY DEF created
<1> HIDE DEF r
<1>4. Run(r, templates')
  BY <1>1, <1>2, <1>3 DEF Run, Import
<1> QED
  BY <1>3, <1>4, StepOf

LEMMA ImportKeeps == ASSUME IInv, NEW i \in DOMAIN runs, import(i) PROVE IInv'
<1>1. PICK t \in runs[i].left : Fails(i) \/ configure(i, t)
  BY DEF import
<1>2. runs[i].phase \in {"components", "indices"}
  BY DEF import
<1>3. CASE Fails(i)
  BY <1>3, FailsKeeps
<1>4. CASE created(i, t)
  BY <1>2, <1>4, CreatedKeeps
<1>5. CASE runs[i].phase = "indices" /\ ~(Templates[t] \subseteq templates) /\ To(i, Over(runs[i], "refused"))
  <2>1. runs[i].program # "ctlmimir"
    <3>1. SUFFICES ASSUME runs[i].program = "ctlmimir" PROVE FALSE
      OBVIOUS
    <3>2. components \subseteq templates /\ t \in DOMAIN Templates
      BY <1>5, <3>1 DEF IInv, Run, Import
    <3> QED
      BY <1>5, <3>2 DEF components
  <2> QED
    BY <1>5, <2>1, OtherGoesOn, OverIs
<1> QED
  BY <1>1, <1>3, <1>4, <1>5 DEF configure, create_component_template, create_index_template

LEMMA NextDirectoryKeeps == ASSUME IInv, NEW i \in DOMAIN runs, next_directory(i) PROVE IInv'
<1>1. DOMAIN runs[i] = Fields /\ Run(runs[i], templates) /\ runs[i].left = {}
  BY DEF IInv, Run, next_directory
<1>2. CASE runs[i].phase = "components" /\ To(i, [runs[i] EXCEPT !.phase = "indices", !.left = DOMAIN Templates])
  <2> DEFINE r == [runs[i] EXCEPT !.phase = "indices", !.left = DOMAIN Templates]
  <2>1. DOMAIN r = Fields /\ r.program = runs[i].program /\ r.phase = "indices" /\ r.left = DOMAIN Templates
    BY <1>1 DEF Fields
  <2>2. To(i, r)
    BY <1>2
  <2> HIDE DEF r
  <2>3. Run(r, templates')
    BY <1>1, <1>2, <2>1, <2>2 DEF Run, Import, To
  <2> QED
    BY <2>2, <2>3, StepOf DEF To
<1>3. CASE runs[i].phase = "indices" /\ To(i, Over(runs[i], "done"))
  <2>1. Run(Over(runs[i], "done"), templates')
    BY <1>1, <1>3, OverIs DEF Run, Import, To
  <2> QED
    BY <1>3, <2>1, StepOf DEF To
<1> QED
  BY <1>2, <1>3 DEF next_directory

\* A document of a program is made from its other fields.
LEMMA MadeIs ==
    ASSUME NEW q, DOMAIN q = Fields, q.program \in Importing, NEW admins, NEW r \in Made(q, admins)
    PROVE  DOMAIN r = Fields /\ r.program = q.program /\ r.phase # "list"
<1>1. CASE q.program = "openaddresses2mimir"
  BY <1>1 DEF Made, import_addresses, Fields
<1>2. CASE q.program = "osm2mimir"
  BY <1>2 DEF Made, import_streets, Fields
<1>3. CASE q.program = "poi2mimir"
  BY <1>3 DEF Made, index_pois, Fields
<1>4. CASE q.program = "ntfs2mimir"
  BY <1>4 DEF Made, attach_stops_to_admins, Fields
<1> QED
  BY <1>1, <1>2, <1>3, <1>4 DEF Importing

LEMMA ListKeeps == ASSUME IInv, NEW i \in DOMAIN runs, list_admins(i) PROVE IInv'
<1>1. DOMAIN runs[i] = Fields /\ runs[i].program \in Importing
  BY DEF IInv, Run, list_admins
<1>2. runs[i].program # "ctlmimir"
  BY <1>1 DEF Importing
<1> DEFINE refused == [runs[i] EXCEPT !.fresh = {}]
<1>3. DOMAIN refused = Fields /\ refused.program = runs[i].program
  BY <1>1 DEF Fields
<1> HIDE DEF refused
<1>4. ASSUME NEW q \in {runs[i], refused}, NEW admins, NEW r \in Made(q, admins), To(i, r) PROVE IInv'
  <2>1. DOMAIN q = Fields /\ q.program = runs[i].program
    BY <1>1, <1>3
  <2>2. DOMAIN r = Fields /\ r.program = runs[i].program /\ r.phase # "list"
    BY <1>1, <2>1, MadeIs
  <2> QED
    BY <1>2, <1>4, <2>2, OtherGoesOn
<1>6. CASE To(i, Over(refused, "failed"))
  BY <1>2, <1>3, <1>6, OverIs, OtherGoesOn
<1>7. CASE Fails(i)
  BY <1>7, FailsKeeps
<1> QED
  BY <1>4, <1>6, <1>7 DEF list_admins, refused

LEMMA SearchKeeps == ASSUME IInv, NEW i \in DOMAIN runs, search_address(i) PROVE IInv'
<1>1. DOMAIN runs[i] = Fields /\ runs[i].phase = "pois" /\ runs[i].program # "ctlmimir"
  BY DEF IInv, Run, Import, search_address
<1>2. CASE Fails(i)
  BY <1>2, FailsKeeps
<1>3. ASSUME NEW left, NEW D, NEW fresh,
             To(i, [runs[i] EXCEPT !.left = left, !.docs = D, !.fresh = fresh])
      PROVE  IInv'
  <2> DEFINE r == [runs[i] EXCEPT !.left = left, !.docs = D, !.fresh = fresh]
  <2>1. DOMAIN r = Fields /\ r.program = runs[i].program /\ r.phase = "pois"
    BY <1>1 DEF Fields
  <2> HIDE DEF r
  <2> QED
    BY <1>1, <1>3, <2>1, OtherGoesOn DEF r
<1> QED
  BY <1>2, <1>3 DEF search_address

LEMMA PoisOverKeeps == ASSUME IInv, NEW i \in DOMAIN runs, pois_over(i) PROVE IInv'
<1>1. DOMAIN runs[i] = Fields /\ runs[i].program # "ctlmimir"
  BY DEF IInv, Run, Import, pois_over
<1> DEFINE r == [runs[i] EXCEPT !.phase = "poi"]
<1>2. DOMAIN r = Fields /\ r.program = runs[i].program /\ r.phase = "poi" /\ To(i, r)
  BY <1>1 DEF Fields, pois_over
<1> HIDE DEF r
<1> QED
  BY <1>1, <1>2, OtherGoesOn

\* Who publishes imports no templates, and leaves those of others alone.
LEMMA PublishKeeps ==
    ASSUME IInv, NEW i \in DOMAIN runs, runs[i].program # "ctlmimir",
           NEW r, DOMAIN r = Fields, r.program = runs[i].program, r.phase # "list",
           NEW t, Publish(i, t, r), todo' = todo, templates' = templates
    PROVE  IInv'
<1>1. runs' = [j \in DOMAIN runs |-> IF j = i THEN r ELSE [runs[j] EXCEPT !.fresh = @ \ {t}]]
  BY DEF Publish
<1>2. PICK S : runs \in Seq(S)
  BY DEF IInv
<1>3. DOMAIN runs = 1..Len(runs) /\ Len(runs) \in Nat
  BY <1>2
<1>4. \E T : runs' \in Seq(T)
  <2> DEFINE T == {runs'[j] : j \in DOMAIN runs}
  <2>1. runs' \in [1..Len(runs) -> T]
    BY <1>1, <1>3
  <2> HIDE DEF T
  <2>2. runs' \in Seq(T)
    BY <1>3, <2>1
  <2> QED
    BY <2>2
<1>5. ASSUME NEW j \in DOMAIN runs PROVE Run(runs'[j], templates)
  <2>1. CASE j = i
    BY <1>1, <2>1 DEF IInv, Run
  <2>2. CASE j # i
    <3> DEFINE q == [runs[j] EXCEPT !.fresh = @ \ {t}]
    <3>1. Run(runs[j], templates) /\ runs'[j] = q
      BY <1>1, <2>2 DEF IInv
    <3>2. DOMAIN q = Fields /\ q.program = runs[j].program /\ q.phase = runs[j].phase /\ q.left = runs[j].left
      BY <3>1 DEF Run, Fields
    <3> HIDE DEF q
    <3> QED
      BY <3>1, <3>2 DEF Run, Import
  <2> QED
    BY <2>1, <2>2
<1> QED
  BY <1>1, <1>4, <1>5 DEF IInv

LEMMA IndexKeeps ==
    ASSUME IInv, NEW i \in DOMAIN runs, generate_index(i) \/ generate_index_fails(i)
    PROVE  IInv'
<1>1. DOMAIN runs[i] = Fields /\ runs[i].program # "ctlmimir"
  BY DEF IInv, Run, Import, generate_index, generate_index_fails, Types
<1>2. ASSUME NEW r \in After(runs[i]) PROVE DOMAIN r = Fields /\ r.program = runs[i].program /\ r.phase # "list"
  <2>1. CASE r = Over(runs[i], "done")
    BY <2>1, OverIs
  <2>2. CASE r \in import_pois(runs[i])
    BY <1>1, <2>2 DEF import_pois, Fields
  <2> QED
    BY <2>1, <2>2 DEF After
<1>3. CASE generate_index(i)
  BY <1>1, <1>2, <1>3, PublishKeeps DEF generate_index
<1>4. CASE Fails(i)
  BY <1>4, FailsKeeps
<1>5. CASE Publish(i, runs[i].phase, Over(runs[i], "failed")) /\ UNCHANGED <<todo, templates>>
  BY <1>1, <1>5, OverIs, PublishKeeps
<1> QED
  BY <1>3, <1>4, <1>5 DEF generate_index_fails

LEMMA Initially == Init => IInv
<1> SUFFICES ASSUME Init PROVE IInv
  OBVIOUS
<1>1. todo \in Seq(Programs) /\ runs = <<>>
  BY SchedulesAssumption DEF Init
<1>2. runs \in Seq({}) /\ DOMAIN runs = {}
  BY <1>1
<1> QED
  BY <1>1, <1>2 DEF IInv

LEMMA Invariance == IInv /\ [Next]_vars => IInv'
<1> SUFFICES ASSUME IInv, [Next]_vars PROVE IInv'
  OBVIOUS
<1>1. CASE UNCHANGED vars
  BY <1>1 DEF vars, IInv, Run, Import
<1>2. CASE start
  BY <1>2, StartKeeps
<1>3. ASSUME NEW i \in DOMAIN runs, Step(i) PROVE IInv'
  BY <1>3, ConnKeeps, ImportKeeps, NextDirectoryKeeps, ListKeeps, SearchKeeps, PoisOverKeeps, IndexKeeps DEF Step
<1>4. ASSUME NEW i \in DOMAIN runs, generate_index_fails(i) PROVE IInv'
  BY <1>4, IndexKeeps
<1> QED
  BY <1>1, <1>2, <1>3, <1>4 DEF Next
-------------------------------------------------------------------------------
\* Whatever programs run, fail and overlap, templates are all there when ctlmimir
\* is done, and none is refused for want of a component (templates.rs:41,
\* bin/ctlmimir.rs), in whatever order the directories are read.
THEOREM TemplatesInForceAlways == Spec => []TemplatesInForce
<1>1. IInv => TemplatesInForce
  BY DEF IInv, Run, Import, TemplatesInForce
<1> QED
  BY <1>1, Initially, Invariance, PTL DEF Spec
-------------------------------------------------------------------------------
\* A function takes a finite set to a finite set.
LEMMA FiniteImage ==
    ASSUME NEW S, IsFiniteSet(S), NEW f, f = [x \in S |-> f[x]]
    PROVE  IsFiniteSet({f[x] : x \in S})
<1> DEFINE T == {f[x] : x \in S}
<1>1. f \in Surjection(S, T)
  BY DEF Surjection
<1> QED
  BY <1>1, FS_Surjection, Zenon

\* What admins of a file have, at the points of what is imported.
Usable(admins) ==
    /\ Hierarchical(admins)
    /\ \A p \in Points :
          /\ Enclosed(admins, p)
          /\ \A a, b \in admins : b.id \in a.parent_id /\ a.at[p] = "inside" => b.at[p] = "inside"
          /\ \A a, b \in admins : is_city(a) /\ is_city(b) /\ a.at[p] = "inside" /\ b.at[p] = "inside" => a = b

\* What a listing lacks does not matter to the others.
LEMMA ListingUsable ==
    ASSUME NEW admins, Usable(admins), NEW listing \in Listings(admins)
    PROVE  Usable(listing) /\ listing \subseteq admins
<1>1. listing \subseteq admins
  BY DEF Listings
<1>2. IsFiniteSet(listing)
  BY <1>1, FS_Subset DEF Usable, Hierarchical
<1> QED
  BY <1>1, <1>2 DEF Usable, Hierarchical, Enclosed

\* The admins of a file as they are read.
Raw(zones) == {into_admin(zones, z, French) : z \in zones}

LEMMA ReadAdmins ==
    ASSUME NEW file \in Files, NEW zones, zones = read_zones(file)
    PROVE  /\ Usable(Raw(zones))
           /\ \A a \in Raw(zones) : /\ \A i, j \in a.parent_id : i = j
                                    /\ \A i \in a.parent_id : \E b \in Raw(zones) : b.id = i
<1> DEFINE admin == [z \in zones |-> into_admin(zones, z, French)]
           R == Raw(zones)
<1>1. zones \in SUBSET file
  BY DEF read_zones
<1>2. /\ IsFiniteSet(zones)
      /\ \A z \in zones : z.zone_type \in Nat /\ \A i, j \in z.parent : i = j
      /\ \A y, z \in zones : y.index = z.index \/ format_id(y, French) = format_id(z, French) => y = z
      /\ \A y, z \in zones : z.index \in y.parent =>
            /\ y.zone_type < z.zone_type
            /\ \A p \in Points : (y.at[p] # "outside" => z.at[p] # "outside")
                                /\ (y.at[p] = "inside" => z.at[p] = "inside")
      /\ \A y, z \in zones : \A p \in Points :
            y.zone_type = City /\ z.zone_type = City /\ y.at[p] = "inside" /\ z.at[p] = "inside" => y = z
  <2>1. IsFiniteSet(zones)
    BY <1>1, FilesAssumption, FS_Subset
  <2> QED
    BY <1>1, <2>1, FilesAssumption
<1>3. R = {admin[z] : z \in zones}
  BY DEF Raw
<1>4. ASSUME NEW z \in zones
      PROVE  /\ admin[z].id = format_id(z, French) /\ admin[z].zone_type = z.zone_type /\ admin[z].at = z.at
             /\ admin[z].parent_id = parent_osm_id(zones, z, French)
  BY DEF into_admin
<1> HIDE DEF admin
<1>5. ASSUME NEW y \in zones, NEW z \in zones, admin[z].id \in admin[y].parent_id PROVE z.index \in y.parent
  <2>1. PICK q \in zones : q.index \in y.parent /\ format_id(q, French) = format_id(z, French)
    BY <1>4, <1>5 DEF parent_osm_id
  <2>2. q = z
    BY <1>2, <2>1
  <2> QED
    BY <2>1, <2>2
<1>6. Hierarchical(R)
  <2>1. IsFiniteSet(R)
    <3>1. admin = [z \in zones |-> admin[z]]
      BY DEF admin
    <3> QED
      BY <1>2, <1>3, <3>1, FiniteImage
  <2>2. \A a \in R : a.zone_type \in Nat
    BY <1>2, <1>3, <1>4
  <2>3. \A a, b \in R : a.id = b.id => a = b
    BY <1>2, <1>3, <1>4
  <2>4. \A a, b \in R : b.id \in a.parent_id => a.zone_type < b.zone_type
    <3>1. ASSUME NEW y \in zones, NEW z \in zones, admin[z].id \in admin[y].parent_id
          PROVE  admin[y].zone_type < admin[z].zone_type
      BY <1>2, <1>4, <1>5, <3>1
    <3> QED
      BY <1>3, <3>1
  <2> QED
    BY <2>1, <2>2, <2>3, <2>4 DEF Hierarchical
<1>7. ASSUME NEW p \in Points
      PROVE  /\ Enclosed(R, p)
             /\ \A a, b \in R : b.id \in a.parent_id /\ a.at[p] = "inside" => b.at[p] = "inside"
             /\ \A a, b \in R : is_city(a) /\ is_city(b) /\ a.at[p] = "inside" /\ b.at[p] = "inside" => a = b
  <2>1. ASSUME NEW y \in zones, NEW z \in zones, admin[z].id \in admin[y].parent_id
        PROVE  /\ admin[y].at[p] # "outside" => admin[z].at[p] # "outside"
               /\ admin[y].at[p] = "inside" => admin[z].at[p] = "inside"
    BY <1>2, <1>4, <1>5, <2>1
  <2>2. Enclosed(R, p)
    BY <1>3, <2>1 DEF Enclosed
  <2>3. \A a, b \in R : b.id \in a.parent_id /\ a.at[p] = "inside" => b.at[p] = "inside"
    BY <1>3, <2>1
  <2>4. ASSUME NEW y \in zones, NEW z \in zones, is_city(admin[y]), is_city(admin[z]),
               admin[y].at[p] = "inside", admin[z].at[p] = "inside"
        PROVE  admin[y] = admin[z]
    <3>1. y.zone_type = City /\ z.zone_type = City /\ y.at[p] = "inside" /\ z.at[p] = "inside"
      BY <1>4, <2>4 DEF is_city
    <3> QED
      BY <1>2, <3>1
  <2> QED
    BY <1>3, <2>2, <2>3, <2>4
<1>8. Usable(R)
  BY <1>6, <1>7 DEF Usable
<1>9. ASSUME NEW z \in zones
      PROVE  /\ \A i, j \in admin[z].parent_id : i = j
             /\ \A i \in admin[z].parent_id : \E b \in R : b.id = i
  <2>1. ASSUME NEW i \in admin[z].parent_id PROVE \E q \in zones : q.index \in z.parent /\ i = format_id(q, French)
    BY <1>4, <2>1 DEF parent_osm_id
  <2>2. ASSUME NEW i \in admin[z].parent_id, NEW j \in admin[z].parent_id PROVE i = j
    <3>1. PICK q \in zones : q.index \in z.parent /\ i = format_id(q, French)
      BY <2>1
    <3>2. PICK r \in zones : r.index \in z.parent /\ j = format_id(r, French)
      BY <2>1
    <3>3. q = r
      BY <1>2, <3>1, <3>2
    <3> QED
      BY <3>1, <3>2, <3>3
  <2>3. ASSUME NEW i \in admin[z].parent_id PROVE \E b \in R : b.id = i
    BY <1>3, <1>4, <2>1
  <2> QED
    BY <2>2, <2>3
<1> QED
  BY <1>3, <1>8, <1>9

\* An admin as it is published, but for its regions, is as it was read.
Published(r) == [a \in r |-> [a EXCEPT !.admins = Tail(hierarchy(r, a))]]
LEMMA Indexed ==
    ASSUME NEW file \in Files, NEW r, r = Raw(read_zones(file))
    PROVE  /\ index_cosmogony(file, French) = {Published(r)[a] : a \in r}
           /\ \A a \in r : /\ Published(r)[a].id = a.id /\ Published(r)[a].parent_id = a.parent_id
                           /\ Published(r)[a].zone_type = a.zone_type /\ Published(r)[a].at = a.at
                           /\ Published(r)[a].admins = Tail(hierarchy(r, a))
<1>1. index_cosmogony(file, French) = {Published(r)[a] : a \in r}
  BY DEF index_cosmogony, Raw, Published
<1>2. ASSUME NEW a \in r
      PROVE  /\ Published(r)[a].id = a.id /\ Published(r)[a].parent_id = a.parent_id
             /\ Published(r)[a].zone_type = a.zone_type /\ Published(r)[a].at = a.at
             /\ Published(r)[a].admins = Tail(hierarchy(r, a))
  <2> DEFINE h == Tail(hierarchy(r, a))
             b == [a EXCEPT !.admins = h]
  <2>1. Published(r)[a] = b
    BY DEF Published
  <2> HIDE DEF h
  <2>2. b.id = a.id /\ b.parent_id = a.parent_id /\ b.zone_type = a.zone_type /\ b.at = a.at /\ b.admins = h
    BY DEF Raw, into_admin
  <2> QED
    BY <2>1, <2>2 DEF h
<1> QED
  BY <1>1, <1>2

\* Admins that are served can be used, and tell their parents.
Regions(admins) ==
    \A a \in admins :
        LET above == <<a>> \o a.admins
        IN  /\ \A k \in 1..Len(a.admins) : above[k].parent_id = {above[k + 1].id}
            /\ Last(above).parent_id = {}
            /\ \A k \in DOMAIN above : \E b \in admins : b.id = above[k].id

LEMMA ImportedUsable ==
    ASSUME NEW admins \in Imported
    PROVE  Usable(admins)
<1>1. PICK file \in Files : admins = index_cosmogony(file, French)
  BY DEF Imported
<1> DEFINE r == Raw(read_zones(file))
           f == Published(r)
<1>2. Usable(r)
  BY ReadAdmins
<1>3. /\ admins = {f[a] : a \in r} /\ f = [a \in r |-> f[a]]
      /\ \A a \in r : f[a].id = a.id /\ f[a].parent_id = a.parent_id /\ f[a].zone_type = a.zone_type /\ f[a].at = a.at
  <2>1. f = [a \in r |-> f[a]]
    BY DEF Published
  <2> QED
    BY <1>1, <2>1, Indexed
<1> HIDE DEF r, f
<1>4. /\ IsFiniteSet(r)
      /\ \A a \in r : a.zone_type \in Nat
      /\ \A a, b \in r : a.id = b.id => a = b
      /\ \A a, b \in r : b.id \in a.parent_id => a.zone_type < b.zone_type
  BY <1>2 DEF Usable, Hierarchical
<1>5. Hierarchical(admins)
  <2>1. IsFiniteSet(admins)
    BY <1>3, <1>4, FiniteImage
  <2>2. \A a \in admins : a.zone_type \in Nat
    BY <1>3, <1>4
  <2>3. \A a, b \in admins : a.id = b.id => a = b
    BY <1>3, <1>4
  <2>4. \A a, b \in admins : b.id \in a.parent_id => a.zone_type < b.zone_type
    BY <1>3, <1>4
  <2> QED
    BY <2>1, <2>2, <2>3, <2>4 DEF Hierarchical
<1>6. ASSUME NEW p \in Points
      PROVE  /\ Enclosed(admins, p)
             /\ \A a, b \in admins : b.id \in a.parent_id /\ a.at[p] = "inside" => b.at[p] = "inside"
             /\ \A a, b \in admins : is_city(a) /\ is_city(b) /\ a.at[p] = "inside" /\ b.at[p] = "inside" => a = b
  <2>1. /\ Enclosed(r, p)
        /\ \A a, b \in r : b.id \in a.parent_id /\ a.at[p] = "inside" => b.at[p] = "inside"
        /\ \A a, b \in r : is_city(a) /\ is_city(b) /\ a.at[p] = "inside" /\ b.at[p] = "inside" => a = b
    BY <1>2 DEF Usable
  <2>2. Enclosed(admins, p)
    BY <1>3, <2>1 DEF Enclosed
  <2>3. \A a, b \in admins : b.id \in a.parent_id /\ a.at[p] = "inside" => b.at[p] = "inside"
    BY <1>3, <2>1
  <2>4. \A a, b \in admins : is_city(a) /\ is_city(b) /\ a.at[p] = "inside" /\ b.at[p] = "inside" => a = b
    BY <1>3, <2>1 DEF is_city
  <2> QED
    BY <2>2, <2>3, <2>4
<1> QED
  BY <1>5, <1>6 DEF Usable

LEMMA ImportedRegions ==
    ASSUME NEW admins \in Imported
    PROVE  Regions(admins)
<1>1. PICK file \in Files : admins = index_cosmogony(file, French)
  BY DEF Imported
<1> DEFINE r == Raw(read_zones(file))
           f == Published(r)
<1>2. Hierarchical(r) /\ \A a \in r : /\ \A i, j \in a.parent_id : i = j
                                     /\ \A i \in a.parent_id : \E b \in r : b.id = i
  BY ReadAdmins DEF Usable
<1>3. /\ admins = {f[a] : a \in r}
      /\ \A a \in r : f[a].id = a.id /\ f[a].parent_id = a.parent_id /\ f[a].admins = Tail(hierarchy(r, a))
  BY <1>1, Indexed
<1> HIDE DEF r, f
<1>4. ASSUME NEW a \in r
      PROVE  LET above == <<f[a]>> \o f[a].admins
             IN  /\ \A k \in 1..Len(f[a].admins) : above[k].parent_id = {above[k + 1].id}
                 /\ Last(above).parent_id = {}
                 /\ \A k \in DOMAIN above : \E b \in admins : b.id = above[k].id
  <2> DEFINE h == hierarchy(r, a)
             above == <<f[a]>> \o Tail(h)
  <2>1. h \in Seq(r) /\ Len(h) > 0 /\ h[1] = a
    BY <1>2, Hierarchy
  <2>2. /\ \A k \in 1..(Len(h) - 1) : h[k + 1] \in parent(r, h[k])
        /\ parent(r, h[Len(h)]) = {}
    BY <1>2, Chain
  <2>3. f[a].admins = Tail(h)
    BY <1>3
  <2> HIDE DEF h
  <2>4. Len(above) = Len(h) /\ DOMAIN above = 1..Len(h) /\ Len(Tail(h)) = Len(h) - 1 /\ Len(h) \in Nat
    BY <2>1
  <2>5. \A k \in 1..Len(h) : h[k] \in r /\ (above[k] = h[k] \/ (k = 1 /\ above[k] = f[a] /\ h[k] = a))
    BY <2>1
  <2> HIDE DEF above
  <2>6. \A k \in 1..Len(h) : above[k].id = h[k].id /\ above[k].parent_id = h[k].parent_id
    BY <1>3, <2>5
  <2>7. ASSUME NEW k \in 1..Len(Tail(h)) PROVE above[k].parent_id = {above[k + 1].id}
    <3>1. k \in 1..(Len(h) - 1) /\ k \in 1..Len(h) /\ k + 1 \in 1..Len(h)
      BY <2>4
    <3>2. h[k + 1].id \in h[k].parent_id
      BY <2>2, <3>1 DEF parent
    <3>3. h[k].parent_id = {h[k + 1].id}
      BY <1>2, <2>5, <3>1, <3>2
    <3> QED
      BY <2>6, <3>1, <3>3
  <2>8. Last(above).parent_id = {}
    <3>1. Len(h) \in 1..Len(h)
      BY <2>1, <2>4
    <3>2. h[Len(h)].parent_id = {}
      BY <1>2, <2>2, <2>5, <3>1 DEF parent
    <3> QED
      BY <2>4, <2>6, <3>1, <3>2 DEF Last
  <2>9. ASSUME NEW k \in DOMAIN above PROVE \E b \in admins : b.id = above[k].id
    BY <1>3, <2>4, <2>5, <2>6
  <2> QED
    BY <2>3, <2>7, <2>8, <2>9 DEF above
<1>5. ASSUME NEW x \in admins
      PROVE  LET above == <<x>> \o x.admins
             IN  /\ \A k \in 1..Len(x.admins) : above[k].parent_id = {above[k + 1].id}
                 /\ Last(above).parent_id = {}
                 /\ \A k \in DOMAIN above : \E b \in admins : b.id = above[k].id
  <2>1. PICK a \in r : x = f[a]
    BY <1>3
  <2> QED
    BY <1>4, <2>1, Zenon
<1> QED
  BY <1>5, Zenon DEF Regions

\* Those with a boundary can be used as well.
LEMMA GeofinderUsable ==
    ASSUME NEW admins, Usable(admins)
    PROVE  Usable(AdminGeoFinder(admins)) /\ AdminGeoFinder(admins) \in SUBSET admins
<1> DEFINE F == AdminGeoFinder(admins)
<1>1. F \in SUBSET admins
  BY DEF AdminGeoFinder
<1>2. IsFiniteSet(F)
  BY <1>1, FS_Subset DEF Usable, Hierarchical
<1> HIDE DEF F
<1>3. Hierarchical(F)
  BY <1>1, <1>2 DEF Usable, Hierarchical
<1>4. \A p \in Points : Enclosed(F, p)
  BY <1>1 DEF Usable, Enclosed
<1>5. Usable(F)
  BY <1>1, <1>3, <1>4 DEF Usable
<1> QED
  BY <1>1, <1>5 DEF F

\* The city of a list with one city is this one.
LEMMA OnlyCity ==
    ASSUME NEW S, NEW s \in Seq(S), NEW c \in ToSet(s), is_city(c), \A x \in ToSet(s) : is_city(x) => x = c
    PROVE  city_of(s) = {c}
<1> DEFINE at == {i \in DOMAIN s : is_city(s[i])}
<1>1. city_of(s) = IF at = {} THEN {} ELSE {s[CHOOSE i \in at : \A j \in at : i <= j]}
  BY DEF city_of, find
<1>2. PICK k \in DOMAIN s : s[k] = c
  BY DEF ToSet
<1>3. at \in SUBSET Nat /\ k \in at
  BY <1>2
<1>4. PICK m \in at : \A j \in at : m <= j
  BY <1>3, LeastNat
<1>5. \A i \in at : s[i] = c
  BY DEF ToSet
<1> HIDE DEF at
<1> DEFINE first == CHOOSE i \in at : \A j \in at : i <= j
<1>6. first \in at
  BY <1>4
<1> HIDE DEF first
<1>7. s[first] = c
  BY <1>5, <1>6
<1> QED
  BY <1>1, <1>3, <1>7 DEF first

\* A lookup may answer, has the city of a point and no other, and is empty where no
\* admin is.
LEMMA Answers ==
    ASSUME NEW admins, Usable(admins), NEW p \in Points
    PROVE  /\ lookups(admins, p) # {}
           /\ \A s \in lookups(admins, p) :
                 /\ s \in Seq(admins) /\ ToSet(s) \subseteq admins
                 /\ \A a \in Cities(admins, p) : city_of(s) = {a}
                 /\ s # <<>> <=> \E a \in AdminGeoFinder(admins) : a.at[p] = "inside"
<1> DEFINE F == AdminGeoFinder(admins)
<1>1. Usable(F) /\ F \in SUBSET admins
  BY GeofinderUsable
<1>2. lookups(admins, p) = UNION {sort_by_zone_type(S) : S \in AdminsAt(F, p)}
  BY DEF lookups
<1>3. Cities(admins, p) = {a \in F : is_city(a) /\ a.at[p] = "inside"}
  BY DEF Cities, AdminGeoFinder
<1> HIDE DEF F
<1>4. /\ Hierarchical(F) /\ Enclosed(F, p)
      /\ \A a, b \in F : b.id \in a.parent_id /\ a.at[p] = "inside" => b.at[p] = "inside"
      /\ \A a, b \in F : is_city(a) /\ is_city(b) /\ a.at[p] = "inside" /\ b.at[p] = "inside" => a = b
  BY <1>1 DEF Usable
<1>5. \A a \in F : a.at[p] = "inside" => \A b \in parents(F, a) : b \in F /\ b.at[p] = "inside"
  <2> DEFINE S == {a \in F : a.at[p] = "inside"}
  <2>1. S \in SUBSET F /\ \A a \in S, b \in F : b.id \in a.parent_id => b \in S
    BY <1>4
  <2>2. \A a \in S : parents(F, a) \subseteq S
    <3> HIDE DEF S
    <3> QED
      BY <1>4, <2>1, Inherited
  <2> QED
    BY <2>2
<1>6. ASSUME NEW res \in AdminsAt(F, p)
      PROVE  /\ res \in SUBSET F
             /\ \A a \in Cities(admins, p) : a \in res /\ \A x \in res : is_city(x) => x = a
             /\ res # {} <=> \E a \in F : a.at[p] = "inside"
  <2>1. /\ res \in SUBSET F
        /\ \A a \in res : \E b \in res : b.at[p] = "inside" /\ a \in {b} \cup parents(F, b)
        /\ \A a \in F \ res : a.at[p] = "inside" => \E b \in res : a.zone_type # 0 /\ b.zone_type = a.zone_type
    BY <1>4, AtPoint
  <2>3. \A x \in res : x \in F /\ x.at[p] = "inside"
    BY <1>5, <2>1
  <2>4. ASSUME NEW a \in Cities(admins, p) PROVE a \in res /\ \A x \in res : is_city(x) => x = a
    <3>1. a \in F /\ is_city(a) /\ a.at[p] = "inside"
      BY <1>3
    <3>2. \A x \in res : is_city(x) => x = a
      BY <1>4, <2>3, <3>1
    <3>3. a \in res
      <4>1. ASSUME NEW b \in res, b.zone_type = a.zone_type PROVE b = a
        BY <3>1, <3>2, <4>1 DEF is_city
      <4> QED
        BY <2>1, <3>1, <4>1
    <3> QED
      BY <3>2, <3>3
  <2>5. res # {} <=> \E a \in F : a.at[p] = "inside"
    BY <2>1, <2>3
  <2> QED
    BY <2>1, <2>4, <2>5
<1>7. AdminsAt(F, p) # {}
  <2> DEFINE C == candidates(F, p)
  <2>1. C \in SUBSET F
    BY DEF candidates
  <2>2. sort_by_zone_type(C) # {}
    <3> HIDE DEF C
    <3> QED
      BY <1>4, <2>1, SomeOrder
  <2> QED
    BY <2>2 DEF AdminsAt
<1>8. \A res \in AdminsAt(F, p) : sort_by_zone_type(res) # {}
  BY <1>4, <1>6, SomeOrder
<1>9. ASSUME NEW res \in AdminsAt(F, p), NEW s \in sort_by_zone_type(res)
      PROVE  /\ s \in Seq(admins) /\ ToSet(s) \subseteq admins
             /\ \A a \in Cities(admins, p) : city_of(s) = {a}
             /\ s # <<>> <=> \E a \in F : a.at[p] = "inside"
  <2>1. s \in Seq(F) /\ ToSet(s) = res
    BY <1>4, <1>6, Orders
  <2>2. \A a \in Cities(admins, p) : city_of(s) = {a}
    <3>1. ASSUME NEW a \in Cities(admins, p) PROVE city_of(s) = {a}
      <4>1. a \in ToSet(s) /\ is_city(a) /\ \A x \in ToSet(s) : is_city(x) => x = a
        BY <1>3, <1>6, <2>1
      <4> QED
        BY <2>1, <4>1, OnlyCity
    <3> QED
      BY <3>1
  <2>3. s \in Seq(admins)
    BY <1>1, <2>1
  <2>4. s # <<>> <=> ToSet(s) # {}
    BY <2>1 DEF ToSet
  <2> QED
    BY <1>1, <1>6, <2>1, <2>2, <2>3, <2>4
<1> QED
  BY <1>2, <1>7, <1>8, <1>9 DEF F

\* A list with lines and stops in some order can always be made.
LEMMA Asymmetric ==
    ASSUME NEW area \in StopAreas, NEW l \in area.lines, NEW r \in area.lines, before(l, r)
    PROVE  ~ before(r, l)
<1>1. /\ l.name \in Nat /\ l.code \subseteq Nat /\ l.sort_order \subseteq Nat
      /\ r.name \in Nat /\ r.code \subseteq Nat /\ r.sort_order \subseteq Nat
      /\ \A m, n \in l.code : m = n
      /\ \A m, n \in l.sort_order : m = n
      /\ \A m, n \in r.code : m = n
      /\ \A m, n \in r.sort_order : m = n
  BY LinesAssumption
<1> DEFINE less(S, T) == \E a \in S, b \in T : a < b
<1>2. ASSUME NEW S \in SUBSET Nat, NEW T \in SUBSET Nat, \A m, n \in S : m = n, \A m, n \in T : m = n
      PROVE  /\ less(S, T) => ~ less(T, S) /\ S # T /\ S # {} /\ T # {}
             /\ less(T, S) => ~ less(S, T)
  <2>1. ASSUME NEW a \in S, NEW b \in T, a < b, NEW c \in T, NEW d \in S, c < d PROVE FALSE
    <3>1. a = d /\ b = c /\ a \in Nat /\ b \in Nat
      BY <1>2
    <3> QED
      BY <2>1, <3>1
  <2>2. ASSUME NEW a \in S, NEW b \in T, a < b PROVE S # T
    <3>1. SUFFICES ASSUME S = T PROVE FALSE
      OBVIOUS
    <3>2. a = b /\ a \in Nat
      BY <1>2, <3>1
    <3> QED
      BY <2>2, <3>2
  <2> QED
    BY <2>1, <2>2
<1> DEFINE both == l.code # {} /\ r.code # {}
           first(x, y) == /\ x.sort_order = y.sort_order
                          /\ \/ both /\ less(x.code, y.code)
                             \/ (both => x.code = y.code) /\ x.name < y.name
<1>3. before(l, r) => \/ l.sort_order # {} /\ r.sort_order = {}
                      \/ less(l.sort_order, r.sort_order)
                      \/ first(l, r)
  BY DEF before
<1>4. before(r, l) => \/ r.sort_order # {} /\ l.sort_order = {}
                      \/ less(r.sort_order, l.sort_order)
                      \/ first(r, l)
  BY DEF before
<1>5. less(l.sort_order, r.sort_order) => /\ ~ less(r.sort_order, l.sort_order) /\ l.sort_order # r.sort_order
                                          /\ l.sort_order # {} /\ r.sort_order # {}
  BY <1>1, <1>2
<1>6. less(r.sort_order, l.sort_order) => /\ ~ less(l.sort_order, r.sort_order) /\ l.sort_order # r.sort_order
                                          /\ l.sort_order # {} /\ r.sort_order # {}
  BY <1>1, <1>2
<1>7. first(l, r) => ~ first(r, l)
  <2>1. less(l.code, r.code) => ~ less(r.code, l.code) /\ l.code # r.code
    BY <1>1, <1>2
  <2>2. less(r.code, l.code) => ~ less(l.code, r.code) /\ l.code # r.code
    BY <1>1, <1>2
  <2>3. l.name < r.name => ~ (r.name < l.name)
    BY <1>1
  <2> HIDE DEF less
  <2> QED
    BY <2>1, <2>2, <2>3
<1> HIDE DEF less, first
<1>8. first(l, r) \/ first(r, l) => l.sort_order = r.sort_order
  BY DEF first
<1> QED
  BY <1>3, <1>4, <1>5, <1>6, <1>7, <1>8

LEMMA Listable ==
    ASSUME NEW area \in StopAreas
    PROVE  get_lines(area.lines) # {}
<1> DEFINE L == area.lines
           Order == \A k, l, m \in L : before(k, l) /\ ~before(m, l) => before(k, m)
           R == {x \in L \X L : before(x[1], x[2])}
<1>1. IsFiniteSet(L)
  BY LinesAssumption
<1>2. CASE ~ Order
  <2>1. \E s \in SetToSeqs(L) : \A i, j \in 1..Cardinality(L) : <<s[i], s[j]>> \in {} => i < j
    <3>1. \A X \in SUBSET L : X # {} => \E m \in X : \A x \in X : <<m, x>> \notin {}
      OBVIOUS
    <3> HIDE DEF L
    <3> QED
      BY <1>1, <3>1, Sortable
  <2> QED
    BY <1>2, <2>1 DEF get_lines
<1>3. CASE Order
  <2>1. \A l, r \in L : before(l, r) => ~ before(r, l)
    BY Asymmetric
  <2>2. \A k, l, m \in L : before(k, l) /\ before(l, m) => before(k, m)
    BY <1>3, <2>1
  <2>3. \A k, l \in L : <<k, l>> \in R <=> before(k, l)
    OBVIOUS
  <2>4. ASSUME NEW X \in SUBSET L, X # {} PROVE \E m \in X : \A x \in X : <<m, x>> \notin R
    <3> DEFINE Later(m) == {x \in X : before(m, x)}
               T == {Later(m) : m \in X}
    <3>1. T \in SUBSET (SUBSET X) /\ T # {}
      BY <2>4
    <3>2. IsFiniteSet(X)
      BY <1>1, FS_Subset
    <3>3. PICK W \in T : \A Y \in T : Y \subseteq W => Y = W
      <4> HIDE DEF T
      <4> QED
        BY <3>1, <3>2, Least
    <3>4. PICK m \in X : W = Later(m)
      OBVIOUS
    <3>5. ASSUME NEW x \in X, before(m, x) PROVE FALSE
      <4>1. Later(x) \subseteq Later(m)
        BY <2>2, <3>5
      <4>2. x \in Later(m) /\ x \notin Later(x)
        BY <2>1, <3>5
      <4> QED
        BY <3>3, <3>4, <4>1, <4>2
    <3> QED
      BY <2>3, <3>5
  <2>5. PICK s \in SetToSeqs(L) : \A i, j \in 1..Cardinality(L) : <<s[i], s[j]>> \in R => i < j
    <3> HIDE DEF R, L
    <3> QED
      BY <1>1, <2>4, Sortable
  <2>6. DOMAIN s = 1..Cardinality(L) /\ \A i \in DOMAIN s : s[i] \in L
    BY DEF SetToSeqs
  <2>7. \A i, j \in DOMAIN s : before(s[i], s[j]) => i < j
    BY <2>3, <2>5, <2>6
  <2> QED
    BY <2>7 DEF get_lines
<1> QED
  BY <1>2, <1>3

\* A choice of a document for each item of which one may be made.
LEMMA MadeOfEach ==
    ASSUME NEW items, NEW docs, docs = [x \in items |-> docs[x]], NEW D \in OneEach(docs)
    PROVE  /\ \A d \in D : \E x \in items : d \in docs[x]
           /\ \A x \in items : docs[x] # {} => \E d \in D : d \in docs[x]
<1>1. {x \in DOMAIN docs : docs[x] # {}} = {x \in items : docs[x] # {}}
  OBVIOUS
<1>2. \E f : /\ D = {f[x] : x \in {y \in items : docs[y] # {}}}
             /\ \A x \in items : docs[x] # {} => f[x] \in docs[x]
  BY <1>1 DEF OneEach
<1>3. \A d \in D : \E x \in items : d \in docs[x]
  BY <1>2
<1>4. \A x \in items : docs[x] # {} => \E d \in D : d \in docs[x]
  BY <1>2
<1> QED
  BY <1>3, <1>4

\* A branch has one admin of a type.
LEMMA OneOfType ==
    ASSUME NEW admins, Hierarchical(admins)
    PROVE  \A a \in admins : \A x, y \in {a} \cup parents(admins, a) : x.zone_type = y.zone_type => x = y
<1> DEFINE Good(a) == \A x, y \in {a} \cup parents(admins, a) : x.zone_type = y.zone_type => x = y
           X == {a \in admins : ~ Good(a)}
<1> SUFFICES ASSUME X # {} PROVE FALSE
  OBVIOUS
<1>1. PICK a \in X : \A b \in X : b.zone_type <= a.zone_type
  <2>1. X \in SUBSET admins
    OBVIOUS
  <2> HIDE DEF X
  <2> QED
    BY <2>1, Highest
<1>2. \A b \in parents(admins, a) : b \in admins /\ a.zone_type < b.zone_type /\ b.zone_type # a.zone_type
  <2>1. \A b \in parents(admins, a) : b \in admins /\ a.zone_type < b.zone_type
    BY Ancestors
  <2>2. \A b \in admins : b.zone_type \in Nat
    BY DEF Hierarchical
  <2> QED
    BY <2>1, <2>2
<1>3. PICK q \in parent(admins, a) : parents(admins, a) = {q} \cup parents(admins, q)
  <2>1. parents(admins, a) # {} /\ a \in admins
    OBVIOUS
  <2> QED
    BY <2>1, Hierarchy
<1>4. q \in admins /\ q \notin X
  <2>1. q \in admins /\ a.zone_type < q.zone_type
    BY <1>2, <1>3
  <2>2. a.zone_type \in Nat /\ q.zone_type \in Nat
    BY <2>1 DEF Hierarchical
  <2> QED
    BY <1>1, <2>1, <2>2
<1>5. Good(q)
  BY <1>4
<1> QED
  BY <1>2, <1>3, <1>5

\* What overlaps a point is in a branch of a lookup.
LEMMA Lowest ==
    ASSUME NEW admins, Hierarchical(admins), NEW S \in SUBSET admins, NEW a \in S
    PROVE  \E l \in S \ Above(admins, S) : a \in {l} \cup parents(admins, l)
<1> DEFINE X == {b \in S : a \in {b} \cup parents(admins, b)}
           T == {b.zone_type : b \in X}
<1>1. T \in SUBSET Nat /\ T # {}
  BY DEF Hierarchical
<1>2. PICK l \in X : \A b \in X : l.zone_type <= b.zone_type
  <2>1. PICK m \in T : \A k \in T : m <= k
    <3> HIDE DEF T
    <3> QED
      BY <1>1, LeastNat
  <2> QED
    BY <2>1
<1>3. ASSUME NEW c \in S, l \in parents(admins, c) PROVE FALSE
  <2>1. c.zone_type < l.zone_type /\ parents(admins, l) \subseteq parents(admins, c)
    BY <1>3, Ancestors
  <2>2. c \in X
    BY <1>2, <1>3, <2>1
  <2>3. c.zone_type \in Nat /\ l.zone_type \in Nat
    BY DEF Hierarchical
  <2> QED
    BY <1>2, <2>1, <2>2, <2>3
<1>4. l \notin Above(admins, S)
  BY <1>3 DEF Above
<1> QED
  BY <1>2, <1>4

\* The branches of a lookup may be had, and each city of a point is the one of a branch.
LEMMA BranchAnswers ==
    ASSUME NEW admins, Usable(admins), NEW p \in Points
    PROVE  /\ AdminsIf(AdminGeoFinder(admins), p) # {}
           /\ \A branches \in AdminsIf(AdminGeoFinder(admins), p) :
                 /\ \A k \in DOMAIN branches : ToSet(branches[k]) \subseteq admins
                 /\ \A a \in Cities(admins, p) : \E k \in DOMAIN branches : city_of(branches[k]) = {a}
<1> DEFINE F == AdminGeoFinder(admins)
<1>1. Hierarchical(F) /\ F \in SUBSET admins
  BY GeofinderUsable DEF Usable
<1>2. Cities(admins, p) \subseteq Overlap(F, p)
  BY FilesAssumption DEF Cities, AdminGeoFinder, Overlap, is_city, at_most_city
<1>3. \A a \in Cities(admins, p) : is_city(a)
  BY DEF Cities
<1> HIDE DEF F
<1>4. AdminsIf(F, p) # {}
  <2> DEFINE C == {a \in candidates(F, p) : at_most_city(a)}
  <2>1. C \in SUBSET F
    BY DEF candidates
  <2>2. sort_by_zone_type(C) # {}
    <3> HIDE DEF C
    <3> QED
      BY <1>1, <2>1, SomeOrder
  <2> QED
    BY <2>2 DEF AdminsIf
<1>5. ASSUME NEW branches \in AdminsIf(F, p)
      PROVE  /\ \A k \in DOMAIN branches : ToSet(branches[k]) \subseteq admins
             /\ \A a \in Cities(admins, p) : \E k \in DOMAIN branches : city_of(branches[k]) = {a}
  <2>1. branches \in Seq(Seq(F)) /\ ToSet(branches) = Branches(F, Overlap(F, p))
    BY <1>1, Leaves
  <2>2. \A k \in DOMAIN branches : ToSet(branches[k]) \subseteq admins
    <3>1. \A k \in DOMAIN branches : branches[k] \in Seq(F)
      BY <2>1
    <3> QED
      BY <1>1, <3>1 DEF ToSet
  <2>3. ASSUME NEW a \in Cities(admins, p) PROVE \E k \in DOMAIN branches : city_of(branches[k]) = {a}
    <3>1. a \in Overlap(F, p) /\ Overlap(F, p) \in SUBSET F
      BY <1>2 DEF Overlap
    <3>2. PICK l \in Overlap(F, p) \ Above(F, Overlap(F, p)) : a \in {l} \cup parents(F, l)
      BY <1>1, <3>1, Lowest
    <3>3. hierarchy(F, l) \in ToSet(branches) /\ l \in F
      BY <2>1, <3>1, <3>2 DEF Branches
    <3>4. PICK k \in DOMAIN branches : branches[k] = hierarchy(F, l)
      BY <3>3 DEF ToSet
    <3>5. hierarchy(F, l) \in Seq(F) /\ ToSet(hierarchy(F, l)) = {l} \cup parents(F, l)
      BY <1>1, <3>3, Hierarchy
    <3>6. \A x \in {l} \cup parents(F, l) : is_city(x) => x = a
      BY <1>1, <1>3, <3>2, <3>3, OneOfType DEF is_city
    <3>7. city_of(hierarchy(F, l)) = {a}
      BY <1>3, <3>2, <3>5, <3>6, OnlyCity
    <3> QED
      BY <3>4, <3>7
  <2> QED
    BY <2>2, <2>3
<1> QED
  BY <1>4, <1>5 DEF F

\* What is made with admins that can be used is all there, in its city.
LEMMA AddressesIn ==
    ASSUME NEW admins, Usable(admins),
           NEW D \in OneEach([x \in Records |-> openaddresses_into_addr(x, admins)])
    PROVE  In(D, Records, admins)
<1> DEFINE docs == [x \in Records |-> openaddresses_into_addr(x, admins)]
<1>1. ASSUME NEW x \in Records
      PROVE  /\ docs[x] # {}
             /\ \A d \in docs[x] : /\ ToSet(d.admins) \subseteq admins /\ d.at = x.at
                                   /\ \A a \in Cities(admins, x.at) : d.label = {a.id}
  <2>1. x.at \in Points
    BY DEF Points
  <2>2. /\ lookups(admins, x.at) # {}
        /\ \A s \in lookups(admins, x.at) :
              ToSet(s) \subseteq admins /\ \A a \in Cities(admins, x.at) : city_of(s) = {a}
    BY <2>1, Answers
  <2>3. docs[x] = {address(x, s, format_label(s, {}), set_weight_from_admins(s)) : s \in lookups(admins, x.at)}
    BY DEF openaddresses_into_addr
  <2>4. ASSUME NEW s \in lookups(admins, x.at), NEW d, d = address(x, s, format_label(s, {}), set_weight_from_admins(s))
        PROVE  /\ ToSet(d.admins) \subseteq admins /\ d.at = x.at
               /\ \A a \in Cities(admins, x.at) : d.label = {a.id}
    <3>1. d.admins = s /\ d.at = x.at /\ d.label = format_label(s, {})
      BY <2>4 DEF address
    <3>2. \A a \in Cities(admins, x.at) : format_label(s, {}) = {a.id}
      BY <2>2 DEF format_label
    <3> QED
      BY <2>2, <3>1, <3>2
  <2> QED
    BY <2>2, <2>3, <2>4
<1>2. /\ \A d \in D : \E x \in Records : d \in docs[x]
      /\ \A x \in Records : docs[x] # {} => \E d \in D : d \in docs[x]
  <2>1. docs = [x \in Records |-> docs[x]]
    OBVIOUS
  <2>2. D \in OneEach(docs)
    OBVIOUS
  <2> HIDE DEF docs
  <2> QED
    BY <2>1, <2>2, MadeOfEach
<1> HIDE DEF docs
<1> QED
  BY <1>1, <1>2 DEF In

LEMMA StopsIn ==
    ASSUME NEW admins, Usable(admins),
           NEW D \in OneEach([x \in StopAreas |-> index_ntfs(x, admins)])
    PROVE  In(D, StopAreas, admins)
<1> DEFINE docs == [x \in StopAreas |-> index_ntfs(x, admins)]
           weights == build_stop_area_weight(StopPoints, ModeWeights)
<1>1. ASSUME NEW x \in StopAreas
      PROVE  /\ docs[x] # {}
             /\ \A d \in docs[x] : /\ ToSet(d.admins) \subseteq admins /\ d.at = x.at
                                   /\ \A a \in Cities(admins, x.at) : d.label = {a.id}
  <2>1. x.at \in Points
    BY DEF Points
  <2>2. /\ lookups(admins, x.at) # {}
        /\ \A s \in lookups(admins, x.at) :
              ToSet(s) \subseteq admins /\ \A a \in Cities(admins, x.at) : city_of(s) = {a}
    BY <2>1, Answers
  <2>3. docs[x] = {make_weight(attach_stop(d, s), weights) : d \in to_mimir(x), s \in lookups(admins, x.at)}
    BY DEF index_ntfs
  <2>4. to_mimir(x) # {}
    BY Listable DEF to_mimir
  <2> HIDE DEF weights
  <2>5. ASSUME NEW m \in to_mimir(x), NEW s \in lookups(admins, x.at), NEW d, d = make_weight(attach_stop(m, s), weights)
        PROVE  /\ ToSet(d.admins) \subseteq admins /\ d.at = x.at
               /\ \A a \in Cities(admins, x.at) : d.label = {a.id}
    <3> DEFINE stop == attach_stop(m, s)
    <3>1. stop.admins = s /\ stop.at = x.at /\ stop.label = format_label(s, {})
      BY DEF attach_stop, to_mimir
    <3>2. DOMAIN stop = DOMAIN m /\ {"admins", "at", "label"} \subseteq DOMAIN m
      BY DEF attach_stop, to_mimir
    <3>3. d = [stop EXCEPT !.weight = d.weight]
      BY <2>5 DEF make_weight, attach_stop, to_mimir
    <3> HIDE DEF stop
    <3>4. d.admins = stop.admins /\ d.at = stop.at /\ d.label = stop.label
      BY <3>2, <3>3
    <3>5. \A a \in Cities(admins, x.at) : format_label(s, {}) = {a.id}
      BY <2>2 DEF format_label
    <3> QED
      BY <2>2, <3>1, <3>4, <3>5
  <2> QED
    BY <2>2, <2>3, <2>4, <2>5
<1>2. /\ \A d \in D : \E x \in StopAreas : d \in docs[x]
      /\ \A x \in StopAreas : docs[x] # {} => \E d \in D : d \in docs[x]
  <2>1. docs = [x \in StopAreas |-> docs[x]]
    OBVIOUS
  <2>2. D \in OneEach(docs)
    OBVIOUS
  <2> HIDE DEF docs
  <2> QED
    BY <2>1, <2>2, MadeOfEach
<1> HIDE DEF docs
<1> QED
  BY <1>1, <1>2 DEF In

LEMMA StreetsIn ==
    ASSUME NEW admins, Usable(admins),
           NEW D \in OneEach([x \in StreetsOfOsm |-> streets(x, admins)])
    PROVE  In(UNION D, StreetsOfOsm, admins)
<1> DEFINE docs == [x \in StreetsOfOsm |-> streets(x, admins)]
<1>1. ASSUME NEW x \in StreetsOfOsm
      PROVE  /\ docs[x] # {}
             /\ \A E \in docs[x] :
                   /\ \A d \in E : ToSet(d.admins) \subseteq admins
                   /\ \A a \in Cities(admins, x.at) : \E d \in E : d.at = x.at /\ d.label = {a.id}
  <2> DEFINE F == AdminGeoFinder(admins)
             street(branches, k) ==
                 [type |-> "street", id |-> <<x.id, k>>, at |-> x.at, admins |-> branches[k], zip_codes |-> {},
                  label |-> format_label(branches[k], {}), weight |-> set_weight_from_admins(branches[k])]
  <2>1. x.at \in Points
    BY DEF Points
  <2>2. /\ AdminsIf(F, x.at) # {}
        /\ \A branches \in AdminsIf(F, x.at) :
              /\ \A k \in DOMAIN branches : ToSet(branches[k]) \subseteq admins
              /\ \A a \in Cities(admins, x.at) : \E k \in DOMAIN branches : city_of(branches[k]) = {a}
    BY <2>1, BranchAnswers
  <2>3. docs[x] = {{street(branches, k) : k \in DOMAIN branches} : branches \in AdminsIf(F, x.at)}
    BY DEF streets
  <2>4. \A branches, k : /\ street(branches, k).admins = branches[k] /\ street(branches, k).at = x.at
                         /\ street(branches, k).label = format_label(branches[k], {})
    OBVIOUS
  <2>5. \A branches, k, a : city_of(branches[k]) = {a} => format_label(branches[k], {}) = {a.id}
    BY DEF format_label
  <2> HIDE DEF F, street
  <2>6. ASSUME NEW branches \in AdminsIf(F, x.at), NEW E, E = {street(branches, k) : k \in DOMAIN branches}
        PROVE  /\ \A d \in E : ToSet(d.admins) \subseteq admins
               /\ \A a \in Cities(admins, x.at) : \E d \in E : d.at = x.at /\ d.label = {a.id}
    <3>1. \A d \in E : ToSet(d.admins) \subseteq admins
      BY <2>2, <2>4, <2>6
    <3>2. ASSUME NEW a \in Cities(admins, x.at) PROVE \E d \in E : d.at = x.at /\ d.label = {a.id}
      <4>1. PICK k \in DOMAIN branches : city_of(branches[k]) = {a}
        BY <2>2
      <4>2. street(branches, k) \in E
        BY <2>6, <4>1
      <4>3. street(branches, k).at = x.at /\ street(branches, k).label = {a.id}
        BY <2>4, <2>5, <4>1
      <4> QED
        BY <4>2, <4>3
    <3> QED
      BY <3>1, <3>2
  <2>7. ASSUME NEW E \in docs[x]
        PROVE  /\ \A d \in E : ToSet(d.admins) \subseteq admins
               /\ \A a \in Cities(admins, x.at) : \E d \in E : d.at = x.at /\ d.label = {a.id}
    <3>1. PICK branches \in AdminsIf(F, x.at) : E = {street(branches, k) : k \in DOMAIN branches}
      BY <2>3
    <3> QED
      BY <2>6, <3>1
  <2>8. docs[x] # {}
    <3>1. PICK branches : branches \in AdminsIf(F, x.at)
      BY <2>2
    <3>2. {street(branches, k) : k \in DOMAIN branches} \in docs[x]
      BY <2>3, <3>1
    <3> QED
      BY <3>2
  <2> QED
    BY <2>7, <2>8
<1>2. /\ \A E \in D : \E x \in StreetsOfOsm : E \in docs[x]
      /\ \A x \in StreetsOfOsm : docs[x] # {} => \E E \in D : E \in docs[x]
  <2>1. docs = [x \in StreetsOfOsm |-> docs[x]]
    OBVIOUS
  <2>2. D \in OneEach(docs)
    OBVIOUS
  <2> HIDE DEF docs
  <2> QED
    BY <2>1, <2>2, MadeOfEach
<1> HIDE DEF docs
<1>3. \A d \in UNION D : ToSet(d.admins) \subseteq admins
  BY <1>1, <1>2
<1>4. ASSUME NEW x \in StreetsOfOsm, NEW a \in Cities(admins, x.at)
      PROVE  \E d \in UNION D : d.at = x.at /\ d.label = {a.id}
  <2>1. PICK E \in D : E \in docs[x]
    BY <1>1, <1>2
  <2>2. \E d \in E : d.at = x.at /\ d.label = {a.id}
    BY <1>1, <2>1
  <2> QED
    BY <2>2
<1> QED
  BY <1>3, <1>4 DEF In
-------------------------------------------------------------------------------
\* What a program has at hand is from a file, or attached to admins of a file: those
\* that are served, as long as it has met no fault.
Attaching == {"street", "addr", "stop"}
FromAdmins(r, admins) ==
    /\ r.phase = "admin" => r.docs \in Imported
    /\ r.phase = "stop" =>
          \E A \in Imported : \E listing \in Listings(A) : listing # {} /\ In(r.docs, StopAreas, listing)
    /\ \A t \in Attaching : r.phase = t /\ "admin" \in r.fresh => In(r.docs, Items(t), admins)

ServedFromAdmins ==
    /\ DOMAIN served = Types
    /\ \A t \in Types : DOMAIN served[t] = {"program", "docs", "fresh"}
    /\ served["admin"].docs \in Imported \cup {{}}
    /\ Attached
    /\ StopsAttached

AInv ==
    /\ IInv
    /\ ServedFromAdmins
    /\ \A i \in DOMAIN runs : FromAdmins(runs[i], served["admin"].docs)

LEMMA Idle ==
    ASSUME NEW r, r.phase \notin {"admin", "street", "addr", "stop"}, NEW admins
    PROVE  FromAdmins(r, admins)
BY DEF FromAdmins, Attaching

LEMMA OverIdle == ASSUME NEW r, NEW phase \in {"done", "failed", "refused"}, NEW admins PROVE FromAdmins(Over(r, phase), admins)
BY OverIs, Idle

\* A step of a program that publishes nothing.
LEMMA OneMoves ==
    ASSUME AInv, IInv', NEW i \in DOMAIN runs, NEW r, FromAdmins(r, served["admin"].docs),
           runs' = [runs EXCEPT ![i] = r], served' = served
    PROVE  AInv'
<1>1. ServedFromAdmins'
  BY DEF AInv, ServedFromAdmins, Attached, StopsAttached, Fresh, exists_alias
<1>2. \A j \in DOMAIN runs' : FromAdmins(runs'[j], served["admin"].docs)
  BY DEF AInv
<1> QED
  BY <1>1, <1>2 DEF AInv

LEMMA EmptyUsable == Usable({})
BY FS_EmptySet DEF Usable, Hierarchical, Enclosed

LEMMA ServedUsable == ASSUME AInv PROVE Usable(served["admin"].docs)
BY ImportedUsable, EmptyUsable DEF AInv, ServedFromAdmins

\* What a program makes of the admins it has listed; without a fault, these are all
\* that are served.
LEMMA MadeFromAdmins ==
    ASSUME NEW q, DOMAIN q = Fields, q.program \in Importing, NEW admins, Usable(admins),
           q.program = "ntfs2mimir" => admins # {} /\ \E A \in Imported : admins \in Listings(A),
           NEW all, q.fresh # {} => admins = all, NEW r \in Made(q, admins)
    PROVE  FromAdmins(r, all)
<1>1. CASE q.program = "openaddresses2mimir"
  <2>1. PICK D \in OneEach([x \in Records |-> openaddresses_into_addr(x, admins)]) :
            r = [q EXCEPT !.phase = "addr", !.docs = D]
    BY <1>1 DEF Made, import_addresses
  <2>2. In(D, Records, admins)
    BY AddressesIn
  <2>3. r.phase = "addr" /\ r.docs = D /\ r.fresh = q.fresh
    BY <2>1 DEF Fields
  <2> QED
    BY <2>2, <2>3 DEF FromAdmins, Items
<1>2. CASE q.program = "osm2mimir"
  <2>1. PICK D \in OneEach([x \in StreetsOfOsm |-> streets(x, admins)]) :
            r = [q EXCEPT !.phase = "street", !.docs = UNION D, !.admins = admins]
    BY <1>2 DEF Made, import_streets
  <2>2. In(UNION D, StreetsOfOsm, admins)
    BY StreetsIn
  <2>3. r.phase = "street" /\ r.docs = UNION D /\ r.fresh = q.fresh
    BY <2>1 DEF Fields
  <2> QED
    BY <2>2, <2>3 DEF FromAdmins, Items
<1>3. CASE q.program = "poi2mimir"
  <2>1. r.phase = "pois"
    BY <1>3 DEF Made, index_pois, Fields
  <2> QED
    BY <2>1, Idle
<1>4. CASE q.program = "ntfs2mimir"
  <2>1. PICK D \in OneEach([x \in StopAreas |-> index_ntfs(x, admins)]) :
            r = [q EXCEPT !.phase = "stop", !.docs = D]
    BY <1>4 DEF Made, attach_stops_to_admins
  <2>2. In(D, StopAreas, admins)
    BY StopsIn
  <2>3. r.phase = "stop" /\ r.docs = D /\ r.fresh = q.fresh
    BY <2>1 DEF Fields
  <2> QED
    BY <1>4, <2>2, <2>3 DEF FromAdmins, Items
<1> QED
  BY <1>1, <1>2, <1>3, <1>4 DEF Importing

LEMMA StartFrom == ASSUME AInv, IInv', start PROVE AInv'
<1> DEFINE r == Started(Head(todo))
<1>1. r.phase = "connect" /\ runs' = Append(runs, r) /\ served' = served
  BY DEF start, Started
<1> HIDE DEF r
<1>2. ServedFromAdmins'
  BY <1>1 DEF AInv, ServedFromAdmins, Attached, StopsAttached, Fresh, exists_alias
<1>3. PICK S : runs \in Seq(S)
  BY DEF AInv, IInv
<1>4. \A j \in DOMAIN runs' : runs'[j] = r \/ (j \in DOMAIN runs /\ runs'[j] = runs[j])
  <2>1. runs \in Seq(S \cup {r})
    BY <1>3
  <2> QED
    BY <1>1, <2>1
<1>5. FromAdmins(r, served["admin"].docs)
  BY <1>1, Idle
<1> QED
  BY <1>1, <1>2, <1>4, <1>5 DEF AInv

LEMMA FailsFrom == ASSUME AInv, IInv', NEW i \in DOMAIN runs, Fails(i) PROVE AInv'
BY OverIdle, OneMoves DEF Fails, To

LEMMA ConnFrom == ASSUME AInv, IInv', NEW i \in DOMAIN runs, conn(i) PROVE AInv'
<1>1. DOMAIN runs[i] = Fields
  BY DEF AInv, IInv, Run
<1>2. CASE Fails(i)
  BY <1>2, FailsFrom
<1>3. ASSUME NEW phase \in {"components", "list"}, NEW left, To(i, [runs[i] EXCEPT !.phase = phase, !.left = left])
      PROVE  AInv'
  <2> DEFINE r == [runs[i] EXCEPT !.phase = phase, !.left = left]
  <2>1. r.phase = phase
    BY <1>1 DEF Fields
  <2> HIDE DEF r
  <2>2. FromAdmins(r, served["admin"].docs)
    BY <2>1, Idle
  <2> QED
    BY <1>3, <2>2, OneMoves DEF To, r
<1>4. CASE To(i, [runs[i] EXCEPT !.phase = "list"])
  <2> DEFINE r == [runs[i] EXCEPT !.phase = "list"]
  <2>1. r.phase = "list"
    BY <1>1 DEF Fields
  <2> HIDE DEF r
  <2>2. FromAdmins(r, served["admin"].docs)
    BY <2>1, Idle
  <2> QED
    BY <1>4, <2>2, OneMoves DEF To, r
<1>5. ASSUME NEW admins \in Imported, To(i, [runs[i] EXCEPT !.phase = "admin", !.docs = admins]) PROVE AInv'
  <2> DEFINE r == [runs[i] EXCEPT !.phase = "admin", !.docs = admins]
  <2>1. r.phase = "admin" /\ r.docs = admins
    BY <1>1 DEF Fields
  <2> HIDE DEF r
  <2>2. FromAdmins(r, served["admin"].docs)
    BY <2>1 DEF FromAdmins, Attaching
  <2> QED
    BY <1>5, <2>2, OneMoves DEF To, r
<1> QED
  BY <1>2, <1>3, <1>4, <1>5 DEF conn

LEMMA CreatedFrom ==
    ASSUME AInv, IInv', NEW i \in DOMAIN runs, runs[i].phase \in {"components", "indices"}, NEW t, created(i, t)
    PROVE  AInv'
<1> DEFINE r == [runs[i] EXCEPT !.left = @ \ {t}]
<1>1. DOMAIN runs[i] = Fields
  BY DEF AInv, IInv, Run
<1>2. r.phase = runs[i].phase
  BY <1>1 DEF Fields
<1>3. served' = served /\ runs' = [runs EXCEPT ![i] = r]
  BY DEF created
<1> HIDE DEF r
<1>4. FromAdmins(r, served["admin"].docs)
  BY <1>2, Idle
<1> QED
  BY <1>3, <1>4, OneMoves

LEMMA ImportFrom == ASSUME AInv, IInv', NEW i \in DOMAIN runs, import(i) PROVE AInv'
<1>1. PICK t \in runs[i].left : Fails(i) \/ configure(i, t)
  BY DEF import
<1>2. runs[i].phase \in {"components", "indices"}
  BY DEF import
<1>3. CASE created(i, t)
  BY <1>2, <1>3, CreatedFrom
<1>4. CASE To(i, Over(runs[i], "refused"))
  BY <1>4, OverIdle, OneMoves DEF To
<1> QED
  BY <1>1, <1>3, <1>4, FailsFrom DEF configure, create_component_template, create_index_template

LEMMA NextDirectoryFrom == ASSUME AInv, IInv', NEW i \in DOMAIN runs, next_directory(i) PROVE AInv'
<1>1. DOMAIN runs[i] = Fields
  BY DEF AInv, IInv, Run
<1>2. CASE To(i, [runs[i] EXCEPT !.phase = "indices", !.left = DOMAIN Templates])
  <2> DEFINE r == [runs[i] EXCEPT !.phase = "indices", !.left = DOMAIN Templates]
  <2>1. r.phase = "indices"
    BY <1>1 DEF Fields
  <2> HIDE DEF r
  <2>2. FromAdmins(r, served["admin"].docs)
    BY <2>1, Idle
  <2> QED
    BY <1>2, <2>2, OneMoves DEF To, r
<1>3. CASE To(i, Over(runs[i], "done"))
  BY <1>3, OverIdle, OneMoves DEF To
<1> QED
  BY <1>2, <1>3 DEF next_directory

LEMMA ListFrom == ASSUME AInv, IInv', NEW i \in DOMAIN runs, list_admins(i) PROVE AInv'
<1>1. DOMAIN runs[i] = Fields /\ runs[i].program \in Importing
  BY DEF AInv, IInv, Run, list_admins
<1> DEFINE refused == [runs[i] EXCEPT !.fresh = {}]
           A == served["admin"].docs
<1>2. DOMAIN refused = Fields /\ refused.program = runs[i].program /\ refused.fresh = {}
  BY <1>1 DEF Fields
<1>3. Usable(A) /\ (A # {} => A \in Imported)
  BY ServedUsable DEF AInv, ServedFromAdmins
<1> HIDE DEF refused, A
<1>4. ASSUME NEW L \in Listings(A), runs[i].program = "ntfs2mimir" => L # {},
             NEW q, q = IF L = A THEN runs[i] ELSE refused,
             NEW r \in Made(q, L), To(i, r)
      PROVE  AInv'
  <2>1. Usable(L) /\ L \subseteq A
    BY <1>3, ListingUsable
  <2>2. DOMAIN q = Fields /\ q.program = runs[i].program /\ (q.fresh # {} => L = A)
    BY <1>1, <1>2, <1>4
  <2>3. q.program = "ntfs2mimir" => L # {} /\ \E file \in Imported : L \in Listings(file)
    BY <1>3, <1>4, <2>1, <2>2
  <2>4. FromAdmins(r, A)
    BY <1>1, <2>1, <2>2, <2>3, MadeFromAdmins
  <2> QED
    BY <1>4, <2>4, OneMoves DEF To, A
<1>5. ASSUME NEW r \in Made(refused, {}), runs[i].program # "ntfs2mimir", To(i, r) PROVE AInv'
  <2>1. FromAdmins(r, A)
    BY <1>1, <1>2, <1>5, EmptyUsable, MadeFromAdmins
  <2> QED
    BY <1>5, <2>1, OneMoves DEF To, A
<1>6. CASE To(i, Over(refused, "failed"))
  BY <1>6, OverIdle, OneMoves DEF To
<1>7. ASSUME NEW L \in Listings(A), runs[i].program = "ntfs2mimir" => L # {},
             NEW r \in Made(IF L = A THEN runs[i] ELSE refused, L), To(i, r)
      PROVE  AInv'
  <2> DEFINE q == IF L = A THEN runs[i] ELSE refused
  <2>1. q = IF L = A THEN runs[i] ELSE refused
    OBVIOUS
  <2>2. r \in Made(q, L)
    BY <1>7
  <2> HIDE DEF q
  <2> QED
    BY <1>4, <1>7, <2>1, <2>2
<1> QED
  BY <1>5, <1>6, <1>7, FailsFrom DEF list_admins, refused, A

LEMMA SearchFrom == ASSUME AInv, IInv', NEW i \in DOMAIN runs, search_address(i) \/ pois_over(i) PROVE AInv'
<1>1. DOMAIN runs[i] = Fields /\ runs[i].phase = "pois"
  BY DEF AInv, IInv, Run, search_address, pois_over
<1>2. CASE search_address(i)
  <2>1. ASSUME NEW left, NEW D, NEW fresh, To(i, [runs[i] EXCEPT !.left = left, !.docs = D, !.fresh = fresh])
        PROVE  AInv'
    <3> DEFINE r == [runs[i] EXCEPT !.left = left, !.docs = D, !.fresh = fresh]
    <3>1. r.phase = "pois"
      BY <1>1 DEF Fields
    <3> HIDE DEF r
    <3>2. FromAdmins(r, served["admin"].docs)
      BY <3>1, Idle
    <3> QED
      BY <2>1, <3>2, OneMoves DEF To, r
  <2> QED
    BY <1>2, <2>1, FailsFrom DEF search_address
<1>3. CASE pois_over(i)
  <2> DEFINE r == [runs[i] EXCEPT !.phase = "poi"]
  <2>1. r.phase = "poi" /\ To(i, r)
    BY <1>1, <1>3 DEF Fields, pois_over
  <2> HIDE DEF r
  <2>2. FromAdmins(r, served["admin"].docs)
    BY <2>1, Idle
  <2> QED
    BY <2>1, <2>2, OneMoves DEF To
<1> QED
  BY <1>2, <1>3

\* What is published comes from a file, or is attached to admins that are still served
\* unless it is said not to be.
LEMMA PublishFrom ==
    ASSUME AInv, IInv', NEW i \in DOMAIN runs, runs[i].phase \in Types,
           NEW r, \A admins : FromAdmins(r, admins), Publish(i, runs[i].phase, r)
    PROVE  AInv'
<1> DEFINE t == runs[i].phase
<1>1. /\ DOMAIN served' = Types
      /\ served'[t] = [program |-> r.program, docs |-> runs[i].docs, fresh |-> runs[i].fresh]
      /\ \A u \in Types \ {t} : served'[u] = [served[u] EXCEPT !.fresh = @ \ {t}]
      /\ DOMAIN runs' = DOMAIN runs /\ runs'[i] = r
      /\ \A j \in DOMAIN runs \ {i} : runs'[j] = [runs[j] EXCEPT !.fresh = @ \ {t}]
  BY DEF Publish
<1>2. FromAdmins(runs[i], served["admin"].docs) /\ \A u \in Types : DOMAIN served[u] = {"program", "docs", "fresh"}
  BY DEF AInv, ServedFromAdmins
<1>3. t \in Types
  OBVIOUS
<1>4. /\ DOMAIN served'[t] = {"program", "docs", "fresh"}
      /\ served'[t].docs = runs[i].docs /\ served'[t].fresh = runs[i].fresh
  BY <1>1
<1>5. ASSUME NEW u \in Types \ {t}
      PROVE  /\ DOMAIN served'[u] = {"program", "docs", "fresh"}
             /\ served'[u].docs = served[u].docs /\ served'[u].program = served[u].program
             /\ served'[u].fresh = served[u].fresh \ {t}
  BY <1>1, <1>2
<1>6. served'["admin"].docs \in Imported \cup {{}}
  <2>1. "admin" \in Types /\ served["admin"].docs \in Imported \cup {{}}
    BY DEF AInv, ServedFromAdmins, Types
  <2>2. t = "admin" => runs[i].docs \in Imported
    BY <1>2 DEF FromAdmins
  <2> QED
    BY <1>4, <1>5, <2>1, <2>2
<1>7. t # "admin" => served'["admin"].docs = served["admin"].docs
  BY <1>5 DEF Types
<1>8. Attached'
  <2>1. SUFFICES ASSUME NEW u \in Attaching, "admin" \in served'[u].fresh
                 PROVE  In(served'[u].docs, Items(u), served'["admin"].docs)
    BY DEF Attached, Attaching, Fresh
  <2>2. u \in Types /\ u # "admin"
    BY DEF Attaching, Types
  <2>3. CASE u = t
    BY <1>2, <1>4, <1>7, <2>1, <2>2, <2>3 DEF FromAdmins
  <2>4. CASE u # t
    <3>1. "admin" \in served[u].fresh /\ t # "admin" /\ served'[u].docs = served[u].docs
      BY <1>5, <2>1, <2>2, <2>4
    <3>2. In(served[u].docs, Items(u), served["admin"].docs)
      BY <3>1 DEF AInv, ServedFromAdmins, Attached, Attaching, Fresh
    <3> QED
      BY <1>7, <3>1, <3>2
  <2> QED
    BY <2>3, <2>4
<1>9. StopsAttached'
  <2>1. CASE t = "stop"
    BY <1>2, <1>4, <2>1 DEF StopsAttached, FromAdmins
  <2>2. CASE t # "stop"
    BY <1>5, <2>2 DEF StopsAttached, exists_alias, AInv, ServedFromAdmins, Types
  <2> QED
    BY <2>1, <2>2
<1>10. ServedFromAdmins'
  BY <1>1, <1>3, <1>4, <1>5, <1>6, <1>8, <1>9 DEF ServedFromAdmins
<1>11. ASSUME NEW j \in DOMAIN runs \ {i} PROVE FromAdmins(runs'[j], served'["admin"].docs)
  <2>1. DOMAIN runs[j] = Fields /\ FromAdmins(runs[j], served["admin"].docs)
    BY DEF AInv, IInv, Run
  <2>2. /\ runs'[j].phase = runs[j].phase /\ runs'[j].docs = runs[j].docs
        /\ runs'[j].fresh = runs[j].fresh \ {t}
    BY <1>1, <2>1 DEF Fields
  <2> QED
    BY <1>7, <2>1, <2>2 DEF FromAdmins
<1> QED
  BY <1>1, <1>10, <1>11 DEF AInv

LEMMA IndexFrom ==
    ASSUME AInv, IInv', NEW i \in DOMAIN runs, generate_index(i) \/ generate_index_fails(i)
    PROVE  AInv'
<1>1. DOMAIN runs[i] = Fields /\ runs[i].phase \in Types
  BY DEF AInv, IInv, Run, generate_index, generate_index_fails
<1>2. ASSUME NEW r \in After(runs[i]) PROVE \A admins : FromAdmins(r, admins)
  <2>1. CASE r = Over(runs[i], "done")
    BY <2>1, OverIdle
  <2>2. CASE r \in import_pois(runs[i])
    <3>1. r.phase = "pois"
      BY <1>1, <2>2 DEF import_pois, Fields
    <3> QED
      BY <3>1, Idle
  <2> QED
    BY <2>1, <2>2 DEF After
<1>3. CASE generate_index(i)
  BY <1>1, <1>2, <1>3, PublishFrom DEF generate_index
<1>4. CASE Publish(i, runs[i].phase, Over(runs[i], "failed"))
  BY <1>1, <1>4, OverIdle, PublishFrom
<1> QED
  BY <1>3, <1>4, FailsFrom DEF generate_index_fails

LEMMA InitiallyFrom == Init => AInv
<1> SUFFICES ASSUME Init PROVE AInv
  OBVIOUS
<1>1. served = [t \in Types |-> NoneServed] /\ runs = <<>>
  BY DEF Init
<1>2. \A t \in Types : served[t].docs = {} /\ served[t].fresh = {} /\ served[t].program = "none"
                      /\ DOMAIN served[t] = {"program", "docs", "fresh"}
  BY <1>1 DEF NoneServed
<1>3. ServedFromAdmins
  BY <1>1, <1>2 DEF ServedFromAdmins, Attached, StopsAttached, Fresh, exists_alias, Types
<1> QED
  BY <1>1, <1>3, Initially DEF AInv

LEMMA InvarianceFrom == AInv /\ [Next]_vars => AInv'
<1> SUFFICES ASSUME AInv, [Next]_vars PROVE AInv'
  OBVIOUS
<1>1. IInv'
  BY Invariance DEF AInv
<1>2. CASE UNCHANGED vars
  <2>1. ServedFromAdmins'
    BY <1>2 DEF vars, AInv, ServedFromAdmins, Attached, StopsAttached, Fresh, exists_alias
  <2> QED
    BY <1>1, <1>2, <2>1 DEF vars, AInv
<1>3. CASE start
  BY <1>1, <1>3, StartFrom
<1>4. ASSUME NEW i \in DOMAIN runs, Step(i) PROVE AInv'
  BY <1>1, <1>4, ConnFrom, ImportFrom, NextDirectoryFrom, ListFrom, SearchFrom, IndexFrom DEF Step
<1>5. ASSUME NEW i \in DOMAIN runs, generate_index_fails(i) PROVE AInv'
  BY <1>1, <1>5, IndexFrom
<1> QED
  BY <1>2, <1>3, <1>4, <1>5 DEF Next
-------------------------------------------------------------------------------
\* Whatever programs run, fail and overlap, what is served as addresses, streets and
\* stops is all there, in its city and attached to the admins that are served, when
\* its import started after theirs and met no fault (docs/components.md:12).
THEOREM AttachedAlways == Spec => []Attached
<1>1. AInv => Attached
  BY DEF AInv, ServedFromAdmins
<1> QED
  BY <1>1, InitiallyFrom, InvarianceFrom, PTL DEF Spec

\* Stops that are served are attached to the admins of one file, whatever fails or is
\* imported meanwhile (stops.rs:186).
THEOREM StopsAttachedAlways == Spec => []StopsAttached
<1>1. AInv => StopsAttached
  BY DEF AInv, ServedFromAdmins
<1> QED
  BY <1>1, InitiallyFrom, InvarianceFrom, PTL DEF Spec

\* The administrative regions of an admin that is served are its parents up to the
\* root, and are served (admin.rs:174).
THEOREM HierarchyServedAlways == Spec => []HierarchyServed
<1>1. AInv => HierarchyServed
  <2>1. ASSUME AInv PROVE Regions(served["admin"].docs)
    <3>1. Regions({})
      BY DEF Regions
    <3> QED
      BY <2>1, <3>1, ImportedRegions DEF AInv, ServedFromAdmins
  <2>2. Regions(served["admin"].docs) => HierarchyServed
    BY DEF Regions, HierarchyServed
  <2> QED
    BY <2>1, <2>2
<1> QED
  BY <1>1, InitiallyFrom, InvarianceFrom, PTL DEF Spec
-------------------------------------------------------------------------------
\* What is known of the points of interest of a program that has met no fault since it
\* had admins, streets and addresses: `left` has those it has still to search for.
Fit(program, fresh) ==
    /\ {"street", "addr"} \subseteq fresh
    /\ program = "osm2mimir" \/ "admin" \in fresh

Complete(hits, admins, program, docs, left) ==
    /\ \A p \in docs :
          /\ p.address = {} => Near(hits, program, p.at) = {}
          /\ \A d \in p.address : d \in Nearest(hits, program, p.at)
    /\ program = "osm2mimir" /\ check(PoiConfig) => {p.id : p \in docs \cup left} = {o.id : o \in OfOsm}
    /\ program # "osm2mimir" =>
          /\ \A o \in OfNavitia \ left : InAdmins(hits, admins, o) \subseteq {TRUE} => \E p \in docs : p.id = o.id
          /\ \A p \in docs : \E o \in OfNavitia \ left : p.id = o.id /\ TRUE \in InAdmins(hits, admins, o)
          /\ \A p \in docs : \A d \in p.address : from_place(p).city = from_place(d).city

PoiFields == {"type", "id", "poi_type", "at", "admins", "label", "weight", "zip_codes", "country_code", "address"}

\* What a program has of addresses and points of interest.
Placing(r, hits, admins) ==
    /\ r.phase \in {"connect", "list"} => r.docs = {}
    /\ r.phase = "street" => r.program = "osm2mimir" /\ Usable(r.admins)
    /\ r.phase \in {"street", "addr"} => \A d \in r.docs : d.type = r.phase
    /\ r.phase = "pois" => \A p \in r.left : p.id \in Nat
    /\ r.phase = "pois" /\ r.program = "osm2mimir" => \A p \in r.left : DOMAIN p = PoiFields
    /\ r.phase = "pois" /\ r.program # "osm2mimir" => r.program = "poi2mimir" /\ r.left \subseteq NavitiaPois
    /\ r.phase = "poi" => r.left = {}
    /\ r.phase \in {"pois", "poi"} /\ Fit(r.program, r.fresh) =>
          /\ Complete(hits, admins, r.program, r.docs, r.left)
          /\ r.program # "osm2mimir" => r.admins = admins

Hits == served["street"].docs \cup served["addr"].docs
PInv ==
    /\ AInv
    /\ \A t \in {"street", "addr"} : \A d \in served[t].docs : d.type = t
    /\ Fit(served["poi"].program, served["poi"].fresh) =>
          Complete(Hits, served["admin"].docs, served["poi"].program, served["poi"].docs, {})
    /\ \A i \in DOMAIN runs : Placing(runs[i], Hits, served["admin"].docs)

\* A document that was made stays right as long as what it was made from is served.
LEMMA Lasting ==
    ASSUME NEW hits, NEW admins, NEW program, NEW docs, NEW left, NEW fresh, NEW t,
           Fit(program, fresh) => Complete(hits, admins, program, docs, left),
           NEW hits2, NEW admins2, t \notin {"street", "addr"} => hits2 = hits, t # "admin" => admins2 = admins,
           Fit(program, fresh \ {t})
    PROVE  Complete(hits2, admins2, program, docs, left)
<1>1. hits2 = hits /\ (program # "osm2mimir" => admins2 = admins) /\ Complete(hits, admins, program, docs, left)
  BY DEF Fit
<1>2. CASE program # "osm2mimir"
  BY <1>1, <1>2
<1>3. CASE program = "osm2mimir"
  BY <1>1, <1>3 DEF Complete
<1> QED
  BY <1>2, <1>3

\* An object of OSM becomes a point of interest when a rule is for it and it has a point.
LEMMA Parsed ==
    ASSUME NEW admins, Usable(admins), NEW o \in ObjectsOfOsm
    PROVE  /\ \A p \in parse_poi(o, PoiConfig, admins) : DOMAIN p = PoiFields /\ p.id = o.id
           /\ check(PoiConfig) => (parse_poi(o, PoiConfig, admins) # {} <=> o \in OfOsm)
<1> DEFINE zip(s) == IF o.postcode # {} THEN o.postcode ELSE get_zip_codes_from_admins(s)
           made(p, s) == poi(o.id, get_poi_type(PoiConfig, o.tags), p, s, {}, zip(s), {})
           at == IF is_poi(PoiConfig, o.tags) THEN o.at ELSE {}
           lists == UNION {lookups(admins, p) : p \in o.at}
<1>1. parse_poi(o, PoiConfig, admins) = {made(p, s) : p \in at, s \in lists}
  BY DEF parse_poi
<1>2. \A p, s : DOMAIN made(p, s) = PoiFields /\ made(p, s).id = o.id
  BY DEF poi, PoiFields
<1> HIDE DEF made
<1>3. o.at # {} => lists # {}
  <2>1. ASSUME NEW p \in o.at PROVE lookups(admins, p) # {}
    <3>1. p \in Points
      BY DEF Points
    <3> QED
      BY <3>1, Answers
  <2> QED
    BY <2>1
<1> HIDE DEF lists
<1>4. parse_poi(o, PoiConfig, admins) # {} <=> at # {}
  <2>1. at # {} => at = o.at
    OBVIOUS
  <2> DEFINE all == {made(p, s) : p \in at, s \in lists}
  <2> HIDE DEF at
  <2>2. parse_poi(o, PoiConfig, admins) = all
    BY <1>1
  <2>3. ASSUME NEW p \in at, NEW s \in lists PROVE all # {}
    <3>1. made(p, s) \in all
      OBVIOUS
    <3> HIDE DEF all
    <3> QED
      BY <3>1
  <2>4. ASSUME NEW x \in all PROVE at # {}
    OBVIOUS
  <2> HIDE DEF all
  <2> QED
    BY <1>3, <2>1, <2>2, <2>3, <2>4
<1>5. ASSUME check(PoiConfig)
      PROVE  is_poi(PoiConfig, o.tags) <=> \E r \in Range(PoiConfig.rules) : r.tags \subseteq o.tags
  <2> DEFINE rules == PoiConfig.rules
             K == {k \in DOMAIN rules : rules[k].tags \subseteq o.tags}
  <2>1. rules \in Seq(Range(rules)) /\ \A k \in DOMAIN rules : rules[k].type \in PoiConfig.poi_types
    BY <1>5, PoisAssumption DEF check
  <2>2. (\E r \in Range(rules) : r.tags \subseteq o.tags) <=> K # {}
    BY DEF Range
  <2>3. first_rule(PoiConfig, o.tags) = {rules[i] : i \in {k \in K : \A j \in 1..(k - 1) : ~ (rules[j].tags \subseteq o.tags)}}
    BY DEF first_rule
  <2>4. is_poi(PoiConfig, o.tags) <=> first_rule(PoiConfig, o.tags) # {}
    BY <2>1, <2>3 DEF is_poi, get_poi_type
  <2>5. ASSUME K # {} PROVE \E k \in K : \A j \in 1..(k - 1) : ~ (rules[j].tags \subseteq o.tags)
    <3>1. K \in SUBSET Nat /\ \A k \in K : k \in 1..Len(rules) /\ 1..Len(rules) = DOMAIN rules
      BY <2>1
    <3>2. PICK k \in K : \A j \in K : k <= j
      <4> HIDE DEF K
      <4> QED
        BY <2>5, <3>1, LeastNat
    <3>3. ASSUME NEW j \in 1..(k - 1) PROVE ~ (rules[j].tags \subseteq o.tags)
      <4>1. j \in DOMAIN rules /\ ~ (k <= j)
        BY <2>1, <3>1
      <4> QED
        BY <3>2, <4>1
    <3> QED
      BY <3>3
  <2> HIDE DEF K, rules
  <2>6. is_poi(PoiConfig, o.tags) <=> K # {}
    BY <2>3, <2>4, <2>5
  <2> QED
    BY <2>2, <2>6 DEF rules
<1>6. check(PoiConfig) => (at # {} <=> o \in OfOsm)
  BY <1>5 DEF OfOsm
<1> QED
  BY <1>1, <1>2, <1>4, <1>6

\* What osm2mimir has to search for after its streets.
LEMMA ToSearch ==
    ASSUME NEW admins, Usable(admins), NEW D \in pois(admins), NEW left, left = {compute_weight(p) : p \in D}
    PROVE  /\ \A p \in left : DOMAIN p = PoiFields /\ p.id \in Nat
           /\ check(PoiConfig) => {p.id : p \in left} = {o.id : o \in OfOsm}
<1> DEFINE docs == [x \in ObjectsOfOsm |-> parse_poi(x, PoiConfig, admins)]
<1>1. /\ \A p \in D : \E x \in ObjectsOfOsm : p \in docs[x]
      /\ \A x \in ObjectsOfOsm : docs[x] # {} => \E p \in D : p \in docs[x]
  <2>1. docs = [x \in ObjectsOfOsm |-> docs[x]] /\ D \in OneEach(docs)
    BY DEF pois
  <2> HIDE DEF docs
  <2> QED
    BY <2>1, MadeOfEach
<1>2. ASSUME NEW x \in ObjectsOfOsm
      PROVE  /\ \A p \in docs[x] : DOMAIN p = PoiFields /\ p.id = x.id
             /\ check(PoiConfig) => (docs[x] # {} <=> x \in OfOsm)
  BY Parsed
<1> HIDE DEF docs
<1>3. ASSUME NEW p, DOMAIN p = PoiFields PROVE DOMAIN compute_weight(p) = PoiFields /\ compute_weight(p).id = p.id
  BY <1>3 DEF compute_weight, PoiFields
<1>4. \A p \in D : DOMAIN p = PoiFields /\ p.id \in Nat /\ DOMAIN compute_weight(p) = PoiFields /\ compute_weight(p).id = p.id
  <2>1. ASSUME NEW p \in D PROVE DOMAIN p = PoiFields /\ p.id \in Nat
    <3>1. PICK x \in ObjectsOfOsm : p \in docs[x]
      BY <1>1
    <3>2. x.id \in Nat
      BY PoisAssumption
    <3> QED
      BY <1>2, <3>1, <3>2
  <2> QED
    BY <1>3, <2>1
<1>5. OfOsm \subseteq ObjectsOfOsm
  BY DEF OfOsm
<1>6. check(PoiConfig) => {p.id : p \in D} = {o.id : o \in OfOsm}
  <2> SUFFICES ASSUME check(PoiConfig) PROVE {p.id : p \in D} = {o.id : o \in OfOsm}
    OBVIOUS
  <2>1. ASSUME NEW p \in D PROVE \E o \in OfOsm : p.id = o.id
    <3>1. PICK x \in ObjectsOfOsm : p \in docs[x]
      BY <1>1
    <3> QED
      BY <1>2, <3>1
  <2>2. ASSUME NEW o \in OfOsm PROVE \E p \in D : p.id = o.id
    <3>1. PICK p \in D : p \in docs[o]
      BY <1>1, <1>2, <1>5
    <3> QED
      BY <1>2, <1>5, <3>1
  <2> QED
    BY <2>1, <2>2
<1>7. {p.id : p \in left} = {p.id : p \in D}
  BY <1>4
<1> QED
  BY <1>4, <1>6, <1>7

\* A point of interest more, and one less to search for.
LEMMA OneMoreOfOsm ==
    ASSUME NEW hits, NEW admins, NEW docs, NEW left, Complete(hits, admins, "osm2mimir", docs, left),
           NEW p \in left, DOMAIN p = PoiFields, NEW place,
           \/ place = {} /\ Near(hits, "osm2mimir", p.at) = {}
           \/ \E d \in Nearest(hits, "osm2mimir", p.at) : place = {d},
           NEW D, D = {add_address(p, place)}
    PROVE  Complete(hits, admins, "osm2mimir", docs \cup D, left \ {p})
<1> DEFINE q == add_address(p, place)
<1>1. q.address = place /\ q.at = p.at /\ q.id = p.id
  BY DEF add_address, PoiFields
<1>2. D = {q}
  OBVIOUS
<1> HIDE DEF q
<1>3. \A x \in docs \cup D : /\ x.address = {} => Near(hits, "osm2mimir", x.at) = {}
                            /\ \A d \in x.address : d \in Nearest(hits, "osm2mimir", x.at)
  BY <1>1, <1>2 DEF Complete
<1>4. {x.id : x \in (docs \cup D) \cup (left \ {p})} = {x.id : x \in docs \cup left}
  BY <1>1, <1>2
<1> QED
  BY <1>3, <1>4 DEF Complete

LEMMA OneMoreOfNavitia ==
    ASSUME NEW hits, NEW admins, NEW docs, NEW left, Complete(hits, admins, "poi2mimir", docs, left),
           Usable(admins), \A d \in hits : d.type \in {"street", "addr"},
           NEW p \in left, left \subseteq NavitiaPois, NEW place,
           \/ place = {} /\ Near(hits, "poi2mimir", p.at) = {}
           \/ \E d \in Nearest(hits, "poi2mimir", p.at) : place = {d},
           NEW made, made = into_poi(p, NavitiaTypes, place, admins),
           NEW D, (D = {} /\ made = {}) \/ \E d \in made : D = {d}
    PROVE  Complete(hits, admins, "poi2mimir", docs \cup D, left \ {p})
<1> DEFINE lists == admins_of_place(p, place, admins)
           kept(s) == poi(p.id, {p.poi_type}, p.at, s, set_weight_from_admins(s), {}, place)
<1>1. made = {kept(s) : s \in {t \in lists : p.poi_type \in NavitiaTypes /\ t # <<>>}}
  BY DEF into_poi
<1>2. \A s : kept(s).id = p.id /\ kept(s).at = p.at /\ kept(s).address = place /\ kept(s).admins = s /\ kept(s).type = "poi"
  BY DEF poi
<1>3. /\ (\A s \in lists : s = <<>>) => FALSE \in InAdmins(hits, admins, p)
      /\ \A s \in lists : s # <<>> => TRUE \in InAdmins(hits, admins, p)
      /\ \A s \in lists : \A d \in place : s = d.admins
      /\ \A d \in place : d \in Nearest(hits, "poi2mimir", p.at)
      /\ place = {} => Near(hits, "poi2mimir", p.at) = {}
  <2>1. CASE place = {} /\ Near(hits, "poi2mimir", p.at) = {}
    <3>1. p.at \in Points
      BY DEF Points
    <3>2. lists = lookups(admins, p.at)
      BY <2>1 DEF admins_of_place
    <3>3. lists # {} /\ \A s \in lists : s # <<>> <=> \E a \in AdminGeoFinder(admins) : a.at[p.at] = "inside"
      BY <3>1, <3>2, Answers
    <3> DEFINE in == \E a \in AdminGeoFinder(admins) : a.at[p.at] = "inside"
    <3>4. InAdmins(hits, admins, p) = {in}
      BY <2>1 DEF InAdmins
    <3>5. /\ (\A s \in lists : s = <<>>) => ~in
          /\ \A s \in lists : s # <<>> => in
      BY <3>3
    <3>6. in \in BOOLEAN
      OBVIOUS
    <3> HIDE DEF in, lists
    <3> QED
      BY <2>1, <3>4, <3>5, <3>6
  <2>2. ASSUME NEW d \in Nearest(hits, "poi2mimir", p.at), place = {d} PROVE <1>3!:
    <3>1. Near(hits, "poi2mimir", p.at) # {}
      BY DEF Nearest
    <3>2. InAdmins(hits, admins, p) = {e.admins # <<>> : e \in Nearest(hits, "poi2mimir", p.at)}
      BY <3>1 DEF InAdmins
    <3>3. lists = {d.admins}
      BY <2>2 DEF admins_of_place
    <3> DEFINE some == d.admins # <<>>
    <3>4. some \in InAdmins(hits, admins, p)
      BY <3>2
    <3>5. some => TRUE \in InAdmins(hits, admins, p)
      <4>1. some => some = TRUE
        OBVIOUS
      <4> HIDE DEF some
      <4> QED
        BY <3>4, <4>1
    <3>6. ~some => FALSE \in InAdmins(hits, admins, p)
      <4>1. ~some => some = FALSE
        OBVIOUS
      <4> HIDE DEF some
      <4> QED
        BY <3>4, <4>1
    <3> QED
      BY <2>2, <3>3, <3>5, <3>6
  <2> QED
    BY <2>1, <2>2
<1> HIDE DEF lists, kept
<1>4. D = {} => p \notin OfNavitia \/ FALSE \in InAdmins(hits, admins, p)
  <2> SUFFICES ASSUME D = {}, p \in OfNavitia PROVE FALSE \in InAdmins(hits, admins, p)
    OBVIOUS
  <2>1. p.poi_type \in NavitiaTypes
    BY DEF OfNavitia
  <2>2. ASSUME NEW s \in lists, s # <<>> PROVE FALSE
    <3>1. kept(s) \in made
      BY <1>1, <2>1, <2>2
    <3> QED
      BY <3>1
  <2> QED
    BY <1>3, <2>2
<1>5. ASSUME NEW m \in D
      PROVE  /\ m.id = p.id /\ m.at = p.at /\ m.address = place
             /\ p \in OfNavitia /\ TRUE \in InAdmins(hits, admins, p)
             /\ \A d \in m.address : from_place(m).city = from_place(d).city
  <2>1. PICK s \in lists : m = kept(s) /\ p.poi_type \in NavitiaTypes /\ s # <<>>
    BY <1>1
  <2>2. m.type = "poi" /\ m.admins = s /\ m.id = p.id /\ m.at = p.at /\ m.address = place
    BY <1>2, <2>1
  <2>3. p \in OfNavitia
    BY <2>1 DEF OfNavitia
  <2>4. ASSUME NEW d \in place PROVE from_place(m).city = from_place(d).city
    <3>1. d.type \in {"street", "addr"} /\ d.admins = s
      BY <1>3, <2>1 DEF Nearest, Near
    <3>2. from_place(m).city = get_city_name(s)
      BY <2>2 DEF from_place, from_poi, properties
    <3>3. from_place(d).city = get_city_name(s)
      BY <3>1 DEF from_place, from_street, from_addr, properties
    <3> QED
      BY <3>2, <3>3
  <2> QED
    BY <1>3, <2>1, <2>2, <2>3, <2>4
<1> DEFINE after == docs \cup D
           rest == left \ {p}
<1>6. \A x \in after : /\ x.address = {} => Near(hits, "poi2mimir", x.at) = {}
                      /\ \A d \in x.address : d \in Nearest(hits, "poi2mimir", x.at)
  BY <1>3, <1>5 DEF Complete
<1>7. ASSUME NEW o \in OfNavitia \ rest, InAdmins(hits, admins, o) \subseteq {TRUE}
      PROVE  \E x \in after : x.id = o.id
  <2>1. CASE o = p
    BY <1>4, <1>5, <1>7, <2>1
  <2>2. CASE o # p
    BY <1>7, <2>2 DEF Complete
  <2> QED
    BY <2>1, <2>2
<1>8. ASSUME NEW x \in after
      PROVE  \E o \in OfNavitia \ rest : x.id = o.id /\ TRUE \in InAdmins(hits, admins, o)
  BY <1>5 DEF Complete
<1>9. ASSUME NEW x \in after, NEW d \in x.address PROVE from_place(x).city = from_place(d).city
  BY <1>5, <1>9 DEF Complete
<1> HIDE DEF after, rest
<1>10. Complete(hits, admins, "poi2mimir", after, rest)
  BY <1>6, <1>7, <1>8, <1>9 DEF Complete
<1> QED
  BY <1>10 DEF after, rest

Elsewhere == {"admin", "stop", "components", "indices", "done", "failed", "refused"}
LEMMA Placeless == ASSUME NEW r, r.phase \in Elsewhere, NEW hits, NEW admins PROVE Placing(r, hits, admins)
BY DEF Placing, Elsewhere

LEMMA OverPlaceless ==
    ASSUME NEW r, NEW phase \in {"done", "failed", "refused"}, NEW hits, NEW admins
    PROVE  Placing(Over(r, phase), hits, admins)
BY OverIs, Placeless DEF Elsewhere

\* A step of a program that publishes nothing.
LEMMA OnePlaces ==
    ASSUME PInv, AInv', NEW i \in DOMAIN runs, NEW r, Placing(r, Hits, served["admin"].docs),
           runs' = [runs EXCEPT ![i] = r], served' = served
    PROVE  PInv'
<1>1. \A j \in DOMAIN runs' : Placing(runs'[j], Hits, served["admin"].docs)
  BY DEF PInv
<1>2. Hits' = Hits
  BY DEF Hits
<1> QED
  BY <1>1, <1>2 DEF PInv

LEMMA FailsPlaces == ASSUME PInv, AInv', NEW i \in DOMAIN runs, Fails(i) PROVE PInv'
BY OverPlaceless, OnePlaces DEF Fails, To

LEMMA StartPlaces == ASSUME PInv, AInv', start PROVE PInv'
<1> DEFINE r == Started(Head(todo))
<1>1. r.phase = "connect" /\ r.docs = {} /\ runs' = Append(runs, r) /\ served' = served
  BY DEF start, Started
<1> HIDE DEF r
<1>2. PICK S : runs \in Seq(S)
  BY DEF PInv, AInv, IInv
<1>3. \A j \in DOMAIN runs' : runs'[j] = r \/ (j \in DOMAIN runs /\ runs'[j] = runs[j])
  <2>1. runs \in Seq(S \cup {r})
    BY <1>2
  <2> QED
    BY <1>1, <2>1
<1>4. Placing(r, Hits, served["admin"].docs)
  BY <1>1 DEF Placing
<1>5. Hits' = Hits
  BY <1>1 DEF Hits
<1> QED
  BY <1>1, <1>3, <1>4, <1>5 DEF PInv

LEMMA ConnPlaces == ASSUME PInv, AInv', NEW i \in DOMAIN runs, conn(i) PROVE PInv'
<1>1. DOMAIN runs[i] = Fields /\ runs[i].docs = {}
  BY DEF PInv, AInv, IInv, Run, Placing, conn
<1>2. CASE Fails(i)
  BY <1>2, FailsPlaces
<1>3. CASE To(i, [runs[i] EXCEPT !.phase = "components", !.left = components])
  <2> DEFINE r == [runs[i] EXCEPT !.phase = "components", !.left = components]
  <2>1. r.phase \in Elsewhere
    BY <1>1 DEF Fields, Elsewhere
  <2> HIDE DEF r
  <2> QED
    BY <1>3, <2>1, Placeless, OnePlaces DEF To, r
<1>4. ASSUME NEW admins \in Imported, To(i, [runs[i] EXCEPT !.phase = "admin", !.docs = admins]) PROVE PInv'
  <2> DEFINE r == [runs[i] EXCEPT !.phase = "admin", !.docs = admins]
  <2>1. r.phase \in Elsewhere
    BY <1>1 DEF Fields, Elsewhere
  <2> HIDE DEF r
  <2> QED
    BY <1>4, <2>1, Placeless, OnePlaces DEF To, r
<1>5. CASE To(i, [runs[i] EXCEPT !.phase = "list"])
  <2> DEFINE r == [runs[i] EXCEPT !.phase = "list"]
  <2>1. r.phase = "list" /\ r.docs = {}
    BY <1>1 DEF Fields
  <2> HIDE DEF r
  <2>2. Placing(r, Hits, served["admin"].docs)
    BY <2>1 DEF Placing
  <2> QED
    BY <1>5, <2>2, OnePlaces DEF To, r
<1> QED
  BY <1>2, <1>3, <1>4, <1>5 DEF conn

LEMMA TemplatesPlace == ASSUME PInv, AInv', NEW i \in DOMAIN runs, import(i) \/ next_directory(i) PROVE PInv'
<1>1. DOMAIN runs[i] = Fields /\ runs[i].phase \in {"components", "indices"}
  BY DEF PInv, AInv, IInv, Run, import, next_directory
<1>2. ASSUME NEW t, created(i, t) PROVE PInv'
  <2> DEFINE r == [runs[i] EXCEPT !.left = @ \ {t}]
  <2>1. r.phase \in Elsewhere
    BY <1>1 DEF Fields, Elsewhere
  <2>2. served' = served /\ runs' = [runs EXCEPT ![i] = r]
    BY <1>2 DEF created
  <2> HIDE DEF r
  <2> QED
    BY <2>1, <2>2, Placeless, OnePlaces
<1>3. ASSUME NEW phase \in {"refused", "done"}, To(i, Over(runs[i], phase)) PROVE PInv'
  BY <1>3, OverPlaceless, OnePlaces DEF To
<1>4. CASE To(i, [runs[i] EXCEPT !.phase = "indices", !.left = DOMAIN Templates])
  <2> DEFINE r == [runs[i] EXCEPT !.phase = "indices", !.left = DOMAIN Templates]
  <2>1. r.phase \in Elsewhere
    BY <1>1 DEF Fields, Elsewhere
  <2> HIDE DEF r
  <2> QED
    BY <1>4, <2>1, Placeless, OnePlaces DEF To, r
<1>5. CASE import(i)
  BY <1>2, <1>3, <1>5, FailsPlaces DEF import, configure, create_component_template, create_index_template
<1>6. CASE next_directory(i)
  BY <1>3, <1>4, <1>6 DEF next_directory
<1> QED
  BY <1>5, <1>6

LEMMA MadePlaces ==
    ASSUME NEW q, DOMAIN q = Fields, q.program \in Importing, q.docs = {}, NEW admins, Usable(admins),
           NEW r \in Made(q, admins), NEW hits, NEW A, q.fresh # {} => admins = A
    PROVE  Placing(r, hits, A)
<1>1. CASE q.program = "openaddresses2mimir"
  <2> DEFINE docs == [x \in Records |-> openaddresses_into_addr(x, admins)]
  <2>1. PICK D \in OneEach(docs) : r = [q EXCEPT !.phase = "addr", !.docs = D]
    BY <1>1 DEF Made, import_addresses
  <2>2. r.phase = "addr" /\ r.docs = D
    BY <2>1 DEF Fields
  <2>3. \A x \in Records : \A d \in docs[x] : d.type = "addr"
    BY DEF openaddresses_into_addr, address
  <2>4. docs = [x \in Records |-> docs[x]]
    OBVIOUS
  <2> HIDE DEF docs
  <2>5. \A d \in D : \E x \in Records : d \in docs[x]
    BY <2>1, <2>4, MadeOfEach
  <2>6. \A d \in r.docs : d.type = "addr"
    BY <2>2, <2>3, <2>5
  <2> QED
    BY <2>2, <2>6 DEF Placing
<1>2. CASE q.program = "osm2mimir"
  <2> DEFINE docs == [x \in StreetsOfOsm |-> streets(x, admins)]
  <2>1. PICK D \in OneEach(docs) : r = [q EXCEPT !.phase = "street", !.docs = UNION D, !.admins = admins]
    BY <1>2 DEF Made, import_streets
  <2>2. r.phase = "street" /\ r.docs = UNION D /\ r.admins = admins /\ r.program = "osm2mimir"
    BY <1>2, <2>1 DEF Fields
  <2>3. \A x \in StreetsOfOsm : \A E \in docs[x] : \A d \in E : d.type = "street"
    BY DEF streets
  <2>4. docs = [x \in StreetsOfOsm |-> docs[x]]
    OBVIOUS
  <2> HIDE DEF docs
  <2>5. \A E \in D : \E x \in StreetsOfOsm : E \in docs[x]
    BY <2>1, <2>4, MadeOfEach
  <2>6. \A d \in UNION D : d.type = "street"
    BY <2>3, <2>5
  <2> QED
    BY <2>2, <2>6 DEF Placing
<1>3. CASE q.program = "poi2mimir"
  <2>1. r = [q EXCEPT !.phase = "pois", !.left = NavitiaPois, !.admins = admins]
    BY <1>3 DEF Made, index_pois
  <2>2. /\ r.phase = "pois" /\ r.left = NavitiaPois /\ r.admins = admins /\ r.docs = {}
        /\ r.program = "poi2mimir" /\ r.fresh = q.fresh
    BY <1>3, <2>1 DEF Fields
  <2>3. \A p \in NavitiaPois : p.id \in Nat
    BY PoisAssumption
  <2>4. Complete(hits, A, "poi2mimir", {}, NavitiaPois)
    BY DEF Complete, OfNavitia
  <2>5. Fit(r.program, r.fresh) => r.admins = A
    BY <2>2 DEF Fit
  <2> QED
    BY <2>2, <2>3, <2>4, <2>5 DEF Placing
<1>4. CASE q.program = "ntfs2mimir"
  <2>1. r.phase \in Elsewhere
    BY <1>4 DEF Made, attach_stops_to_admins, Fields, Elsewhere
  <2> QED
    BY <2>1, Placeless
<1> QED
  BY <1>1, <1>2, <1>3, <1>4 DEF Importing

LEMMA ListPlaces == ASSUME PInv, AInv', NEW i \in DOMAIN runs, list_admins(i) PROVE PInv'
<1>1. DOMAIN runs[i] = Fields /\ runs[i].program \in Importing /\ runs[i].docs = {}
  BY DEF PInv, AInv, IInv, Run, Placing, list_admins
<1> DEFINE refused == [runs[i] EXCEPT !.fresh = {}]
           A == served["admin"].docs
<1>2. DOMAIN refused = Fields /\ refused.program = runs[i].program /\ refused.fresh = {} /\ refused.docs = {}
  BY <1>1 DEF Fields
<1>3. Usable(A)
  BY ServedUsable DEF PInv
<1> HIDE DEF refused, A
<1>4. ASSUME NEW L \in Listings(A), NEW r \in Made(IF L = A THEN runs[i] ELSE refused, L), To(i, r) PROVE PInv'
  <2>1. Usable(L)
    BY <1>3, ListingUsable
  <2>2. ASSUME L = A, r \in Made(runs[i], L) PROVE Placing(r, Hits, A)
    BY <1>1, <2>1, <2>2, MadePlaces
  <2>3. ASSUME r \in Made(refused, L) PROVE Placing(r, Hits, A)
    BY <1>1, <1>2, <2>1, <2>3, MadePlaces
  <2>4. Placing(r, Hits, A)
    BY <1>4, <2>2, <2>3
  <2> QED
    BY <1>4, <2>4, OnePlaces DEF To, A
<1>5. ASSUME NEW r \in Made(refused, {}), To(i, r) PROVE PInv'
  <2>1. Placing(r, Hits, A)
    BY <1>1, <1>2, EmptyUsable, MadePlaces
  <2> QED
    BY <1>5, <2>1, OnePlaces DEF To, A
<1>6. CASE To(i, Over(refused, "failed"))
  BY <1>6, OverPlaceless, OnePlaces DEF To
<1> QED
  BY <1>4, <1>5, <1>6, FailsPlaces DEF list_admins, refused, A

LEMMA SearchPlaces == ASSUME PInv, AInv', NEW i \in DOMAIN runs, search_address(i) PROVE PInv'
<1> DEFINE r == runs[i]
           A == served["admin"].docs
           p == CHOOSE x \in r.left : \A y \in r.left : x.id <= y.id
           radius == IF r.program = "osm2mimir" THEN 1000 ELSE 50
           q(D, faulty) == [r EXCEPT !.left = @ \ {p}, !.docs = @ \cup D, !.fresh = IF faulty THEN {} ELSE @]
<1>1. DOMAIN r = Fields /\ r.phase = "pois" /\ r.left # {} /\ Placing(r, Hits, A)
  BY DEF PInv, AInv, IInv, Run, search_address
<1>2. \A x \in r.left : x.id \in Nat
  BY <1>1 DEF Placing
<1>3. p \in r.left
  <2>1. {x.id : x \in r.left} \in SUBSET Nat /\ {x.id : x \in r.left} # {}
    BY <1>1, <1>2
  <2>2. PICK m \in {x.id : x \in r.left} : \A k \in {x.id : x \in r.left} : m <= k
    BY <2>1, LeastNat
  <2>3. \E x \in r.left : \A y \in r.left : x.id <= y.id
    BY <2>2
  <2> QED
    BY <2>3
<1>4. ASSUME NEW D, NEW faulty
      PROVE  /\ q(D, faulty).phase = "pois" /\ q(D, faulty).left = r.left \ {p} /\ q(D, faulty).docs = r.docs \cup D
             /\ q(D, faulty).program = r.program /\ q(D, faulty).admins = r.admins
             /\ q(D, faulty).fresh = IF faulty THEN {} ELSE r.fresh
  BY <1>1 DEF Fields
<1> HIDE DEF p, q, r
<1>5. ASSUME NEW D, NEW faulty \in BOOLEAN,
             ~faulty /\ Fit(r.program, r.fresh) => Complete(Hits, A, r.program, r.docs \cup D, r.left \ {p}),
             To(i, q(D, faulty))
      PROVE  PInv'
  <2> DEFINE to == q(D, faulty)
  <2>1. /\ to.phase = "pois" /\ to.left = r.left \ {p} /\ to.docs = r.docs \cup D
        /\ to.program = r.program /\ to.admins = r.admins
        /\ to.fresh = IF faulty THEN {} ELSE r.fresh
    BY <1>4
  <2> HIDE DEF to
  <2>2. Fit(to.program, to.fresh) => ~faulty /\ Fit(r.program, r.fresh)
    BY <2>1 DEF Fit
  <2>3. Placing(to, Hits, A)
    BY <1>1, <1>5, <2>1, <2>2 DEF Placing
  <2> QED
    BY <1>5, <2>3, OnePlaces DEF To, to
<1>6. ASSUME NEW made, NEW D \in (IF made = {} THEN {{}} ELSE {{d} : d \in made}), To(i, q(D, TRUE)) PROVE PInv'
  BY <1>5, <1>6
<1>7. ASSUME NEW place \in first_hit(p.at, radius),
             NEW D \in (IF Found(r, p, place) = {} THEN {{}} ELSE {{d} : d \in Found(r, p, place)}),
             To(i, q(D, FALSE))
      PROVE  PInv'
  <2> DEFINE made == Found(r, p, place)
  <2>1. SUFFICES ASSUME Fit(r.program, r.fresh) PROVE Complete(Hits, A, r.program, r.docs \cup D, r.left \ {p})
    BY <1>5, <1>7
  <2>2. Complete(Hits, A, r.program, r.docs, r.left) /\ (r.program # "osm2mimir" => r.admins = A)
    BY <1>1, <2>1 DEF Placing
  <2>3. Within(p.at, radius) = Near(Hits, r.program, p.at)
    BY DEF Within, Near, Hits
  <2>4. \/ place = {} /\ Near(Hits, r.program, p.at) = {}
        \/ \E d \in Nearest(Hits, r.program, p.at) : place = {d}
    <3> DEFINE W == Within(p.at, radius)
               best == {x \in W : \A y \in W : Distance[<<p.at, x.at>>] <= Distance[<<p.at, y.at>>]}
    <3>1. place \in IF W = {} THEN {{}} ELSE {{d} : d \in best}
      BY DEF first_hit
    <3>2. Nearest(Hits, r.program, p.at) = best
      BY <2>3 DEF Nearest
    <3> HIDE DEF best
    <3>3. (place = {} /\ W = {}) \/ \E d \in best : place = {d}
      BY <3>1
    <3> QED
      BY <2>3, <3>2, <3>3
  <2>5. (D = {} /\ made = {}) \/ \E d \in made : D = {d}
    OBVIOUS
  <2>6. CASE r.program = "osm2mimir"
    <3>1. made = {add_address(p, place)}
      BY <2>6 DEF Found
    <3>2. DOMAIN p = PoiFields
      BY <1>1, <1>3, <2>6 DEF Placing
    <3> HIDE DEF made
    <3>3. D = {add_address(p, place)}
      BY <2>5, <3>1
    <3>4. /\ Complete(Hits, A, "osm2mimir", r.docs, r.left)
          /\ \/ place = {} /\ Near(Hits, "osm2mimir", p.at) = {}
             \/ \E d \in Nearest(Hits, "osm2mimir", p.at) : place = {d}
      BY <2>2, <2>4, <2>6
    <3>5. Complete(Hits, A, "osm2mimir", r.docs \cup D, r.left \ {p})
      BY <1>3, <3>2, <3>3, <3>4, OneMoreOfOsm
    <3> QED
      BY <2>6, <3>5
  <2>7. CASE r.program # "osm2mimir"
    <3>1. r.program = "poi2mimir" /\ r.left \subseteq NavitiaPois
      BY <1>1, <2>7 DEF Placing
    <3>2. made = into_poi(p, NavitiaTypes, place, A)
      BY <2>2, <2>7 DEF Found
    <3>3. Usable(A) /\ \A d \in Hits : d.type \in {"street", "addr"}
      BY ServedUsable DEF PInv, Hits
    <3> HIDE DEF made, A
    <3>4. /\ Complete(Hits, A, "poi2mimir", r.docs, r.left)
          /\ \/ place = {} /\ Near(Hits, "poi2mimir", p.at) = {}
             \/ \E d \in Nearest(Hits, "poi2mimir", p.at) : place = {d}
      BY <2>2, <2>4, <3>1
    <3>5. Complete(Hits, A, "poi2mimir", r.docs \cup D, r.left \ {p})
      BY <1>3, <2>5, <3>1, <3>2, <3>3, <3>4, OneMoreOfNavitia
    <3> QED
      BY <3>1, <3>5
  <2> QED
    BY <2>6, <2>7
<1>8. ASSUME Unrecognized(r, p), To(i, q({}, FALSE)) PROVE PInv'
  <2>1. r.program = "poi2mimir" /\ p \notin OfNavitia
    BY <1>8 DEF Unrecognized, OfNavitia
  <2>2. OfNavitia \ (r.left \ {p}) = OfNavitia \ r.left /\ r.docs \cup {} = r.docs
    BY <2>1
  <2>3. ASSUME Fit(r.program, r.fresh) PROVE Complete(Hits, A, r.program, r.docs \cup {}, r.left \ {p})
    <3>1. Complete(Hits, A, r.program, r.docs, r.left)
      BY <1>1, <2>3 DEF Placing
    <3> HIDE DEF A
    <3> QED
      BY <2>1, <2>2, <3>1 DEF Complete
  <2> QED
    BY <1>5, <1>8, <2>3
<1>9. CASE Fails(i)
  BY <1>9, FailsPlaces
<1> QED
  BY <1>6, <1>7, <1>8, <1>9 DEF search_address, r, p, q

LEMMA PoisOverPlaces == ASSUME PInv, AInv', NEW i \in DOMAIN runs, pois_over(i) PROVE PInv'
<1> DEFINE r == runs[i]
           to == [r EXCEPT !.phase = "poi"]
<1>1. DOMAIN r = Fields /\ r.phase = "pois" /\ r.left = {} /\ Placing(r, Hits, served["admin"].docs)
  BY DEF PInv, AInv, IInv, Run, pois_over
<1>2. /\ to.phase = "poi" /\ to.left = {} /\ to.docs = r.docs /\ to.program = r.program /\ to.admins = r.admins
      /\ to.fresh = r.fresh
  BY <1>1 DEF Fields
<1>3. To(i, to)
  BY DEF pois_over
<1> HIDE DEF to, r
<1>4. Placing(to, Hits, served["admin"].docs)
  BY <1>1, <1>2 DEF Placing
<1> QED
  BY <1>3, <1>4, OnePlaces DEF To

LEMMA PublishPlaces ==
    ASSUME PInv, AInv', NEW i \in DOMAIN runs, runs[i].phase \in Types, NEW r, r.program = runs[i].program,
           \A hits, admins : Placing(r, hits, admins), Publish(i, runs[i].phase, r)
    PROVE  PInv'
<1> DEFINE t == runs[i].phase
           q == runs[i]
           A == served["admin"].docs
<1>1. /\ served'[t].program = q.program /\ served'[t].docs = q.docs /\ served'[t].fresh = q.fresh
      /\ DOMAIN runs' = DOMAIN runs /\ runs'[i] = r
      /\ \A j \in DOMAIN runs \ {i} : runs'[j] = [runs[j] EXCEPT !.fresh = @ \ {t}]
  BY DEF Publish
<1>2. Placing(q, Hits, A) /\ \A u \in Types : DOMAIN served[u] = {"program", "docs", "fresh"}
  BY DEF PInv, AInv, ServedFromAdmins
<1>3. ASSUME NEW u \in Types \ {t}
      PROVE  /\ served'[u].docs = served[u].docs /\ served'[u].program = served[u].program
             /\ served'[u].fresh = served[u].fresh \ {t}
  <2>1. served'[u] = [served[u] EXCEPT !.fresh = @ \ {t}]
    BY DEF Publish
  <2> QED
    BY <1>2, <2>1
<1>4. {"street", "addr", "poi", "admin"} \subseteq Types
  BY DEF Types
<1>5. /\ t \notin {"street", "addr"} => Hits' = Hits
      /\ t # "admin" => served'["admin"].docs = A
  BY <1>3, <1>4 DEF Hits
<1>6. ASSUME NEW u \in {"street", "addr"}, NEW d \in served'[u].docs PROVE d.type = u
  <2>1. CASE u = t
    BY <1>1, <1>2, <1>6, <2>1 DEF Placing
  <2>2. CASE u # t
    BY <1>3, <1>4, <1>6, <2>2 DEF PInv
  <2> QED
    BY <2>1, <2>2
<1>7. Fit(served'["poi"].program, served'["poi"].fresh) =>
          Complete(Hits', served'["admin"].docs, served'["poi"].program, served'["poi"].docs, {})
  <2>1. CASE t = "poi"
    <3>1. served'["poi"].program = q.program /\ served'["poi"].docs = q.docs /\ served'["poi"].fresh = q.fresh
      BY <1>1, <2>1
    <3>2. Fit(q.program, q.fresh) => Complete(Hits, A, q.program, q.docs, {})
      BY <1>2, <2>1 DEF Placing
    <3> QED
      BY <1>5, <2>1, <3>1, <3>2
  <2>2. CASE t # "poi"
    <3> DEFINE s == served["poi"]
    <3>1. /\ served'["poi"].docs = s.docs /\ served'["poi"].program = s.program
          /\ served'["poi"].fresh = s.fresh \ {t}
      BY <1>3, <1>4, <2>2
    <3>2. Fit(s.program, s.fresh) => Complete(Hits, A, s.program, s.docs, {})
      BY DEF PInv
    <3> HIDE DEF s, A
    <3>3. ASSUME Fit(s.program, s.fresh \ {t}) PROVE Complete(Hits', served'["admin"].docs, s.program, s.docs, {})
      BY <1>5, <3>2, <3>3, Lasting
    <3> QED
      BY <3>1, <3>3
  <2> QED
    BY <2>1, <2>2
<1>8. ASSUME NEW j \in DOMAIN runs \ {i} PROVE Placing(runs'[j], Hits', served'["admin"].docs)
  <2> DEFINE s == runs[j]
             to == [s EXCEPT !.fresh = @ \ {t}]
  <2>1. DOMAIN s = Fields /\ Placing(s, Hits, A)
    BY DEF PInv, AInv, IInv, Run
  <2>2. /\ to.phase = s.phase /\ to.docs = s.docs /\ to.program = s.program /\ to.admins = s.admins
        /\ to.left = s.left /\ to.fresh = s.fresh \ {t}
    BY <2>1 DEF Fields
  <2>3. runs'[j] = to
    BY <1>1
  <2> HIDE DEF s, to, A, t
  <2>4. ASSUME s.phase \in {"pois", "poi"}, Fit(s.program, s.fresh \ {t})
        PROVE  /\ Complete(Hits', served'["admin"].docs, s.program, s.docs, s.left)
               /\ s.program # "osm2mimir" => s.admins = served'["admin"].docs
    <3>1. Fit(s.program, s.fresh) /\ (s.program # "osm2mimir" => t # "admin")
      BY <2>4 DEF Fit
    <3>2. Fit(s.program, s.fresh) => Complete(Hits, A, s.program, s.docs, s.left)
      BY <2>1, <2>4 DEF Placing
    <3>3. s.program # "osm2mimir" => s.admins = A
      BY <2>1, <2>4, <3>1 DEF Placing
    <3>4. Complete(Hits', served'["admin"].docs, s.program, s.docs, s.left)
      BY <1>5, <2>4, <3>2, Lasting
    <3> QED
      BY <1>5, <3>1, <3>3, <3>4
  <2>5. Placing(to, Hits', served'["admin"].docs)
    BY <2>1, <2>2, <2>4 DEF Placing
  <2> QED
    BY <2>3, <2>5
<1>9. \A j \in DOMAIN runs' : Placing(runs'[j], Hits', served'["admin"].docs)
  BY <1>1, <1>8
<1> QED
  BY <1>6, <1>7, <1>9 DEF PInv

LEMMA IndexPlaces ==
    ASSUME PInv, AInv', NEW i \in DOMAIN runs, generate_index(i) \/ generate_index_fails(i)
    PROVE  PInv'
<1> DEFINE q == runs[i]
<1>1. DOMAIN q = Fields /\ q.phase \in Types /\ Placing(q, Hits, served["admin"].docs)
  BY DEF PInv, AInv, IInv, Run, generate_index, generate_index_fails
<1>2. ASSUME NEW r \in After(q) PROVE r.program = q.program /\ \A hits, admins : Placing(r, hits, admins)
  <2>1. CASE r = Over(q, "done")
    BY <2>1, OverIs, OverPlaceless
  <2>2. CASE q.phase = "street" /\ r \in import_pois(q)
    <3>1. PICK D \in pois(q.admins) : r = [q EXCEPT !.phase = "pois", !.docs = {},
                                              !.left = {compute_weight(p) : p \in D}, !.fresh = Renewed(q)]
      BY <2>2 DEF import_pois
    <3> DEFINE left == {compute_weight(p) : p \in D}
    <3>2. r.phase = "pois" /\ r.docs = {} /\ r.left = left /\ r.program = q.program
      BY <1>1, <3>1 DEF Fields
    <3>3. q.program = "osm2mimir" /\ Usable(q.admins)
      BY <1>1, <2>2 DEF Placing
    <3>4. /\ \A p \in left : DOMAIN p = PoiFields /\ p.id \in Nat
          /\ check(PoiConfig) => {p.id : p \in left} = {o.id : o \in OfOsm}
      BY <3>3, ToSearch
    <3> HIDE DEF left, q
    <3>5. ASSUME NEW hits, NEW admins PROVE Complete(hits, admins, "osm2mimir", {}, left)
      BY <3>4 DEF Complete
    <3>6. ASSUME NEW hits, NEW admins PROVE Placing(r, hits, admins)
      BY <3>2, <3>3, <3>4, <3>5 DEF Placing
    <3> QED
      BY <3>2, <3>6
  <2> QED
    BY <2>1, <2>2 DEF After
<1>3. CASE generate_index(i)
  BY <1>1, <1>2, <1>3, PublishPlaces DEF generate_index
<1>4. CASE Publish(i, runs[i].phase, Over(runs[i], "failed"))
  <2>1. Over(runs[i], "failed").program = runs[i].program /\ \A hits, admins : Placing(Over(runs[i], "failed"), hits, admins)
    BY OverIs, OverPlaceless
  <2> QED
    BY <1>1, <1>4, <2>1, PublishPlaces
<1> QED
  BY <1>3, <1>4, FailsPlaces DEF generate_index_fails

LEMMA InitiallyPlaced == Init => PInv
<1> SUFFICES ASSUME Init PROVE PInv
  OBVIOUS
<1>1. served = [t \in Types |-> NoneServed] /\ runs = <<>> /\ AInv
  BY InitiallyFrom DEF Init
<1>2. \A t \in Types : served[t].docs = {} /\ served[t].fresh = {}
  BY <1>1 DEF NoneServed
<1>3. {"street", "addr", "poi"} \subseteq Types
  BY DEF Types
<1>4. ~Fit(served["poi"].program, served["poi"].fresh)
  BY <1>2, <1>3 DEF Fit
<1>5. \A t \in {"street", "addr"} : served[t].docs = {}
  BY <1>2, <1>3
<1> QED
  BY <1>1, <1>4, <1>5 DEF PInv

LEMMA InvariancePlaced == PInv /\ [Next]_vars => PInv'
<1> SUFFICES ASSUME PInv, [Next]_vars PROVE PInv'
  OBVIOUS
<1>1. AInv'
  BY InvarianceFrom DEF PInv
<1>2. CASE UNCHANGED vars
  <2>1. Hits' = Hits
    BY <1>2 DEF vars, Hits
  <2> QED
    BY <1>1, <1>2, <2>1 DEF vars, PInv
<1>3. CASE start
  BY <1>1, <1>3, StartPlaces
<1>4. ASSUME NEW i \in DOMAIN runs, Step(i) PROVE PInv'
  BY <1>1, <1>4, ConnPlaces, TemplatesPlace, ListPlaces, SearchPlaces, PoisOverPlaces, IndexPlaces DEF Step
<1>5. ASSUME NEW i \in DOMAIN runs, generate_index_fails(i) PROVE PInv'
  BY <1>1, <1>5, IndexPlaces
<1> QED
  BY <1>2, <1>3, <1>4, <1>5 DEF Next

\* What is served as points of interest is, when its import met no fault, all that
\* the rules are for, each with the nearest address that is served and in the city of
\* that address, whatever other imports have ended meanwhile (osm_reader/poi.rs:285,
\* pois.rs:167).
THEOREM AddressedAlways == Spec => []Addressed
<1>1. PInv => Addressed
  <2> DEFINE program == served["poi"].program
             docs == served["poi"].docs
             A == served["admin"].docs
             Where(o) == InAdmins(Hits, A, o)
  <2> SUFFICES ASSUME PInv, Fresh("poi", "street"), Fresh("poi", "addr"), program = "osm2mimir" \/ Fresh("poi", "admin")
               PROVE  /\ \A p \in docs :
                            /\ p.address = {} => Near(Hits, program, p.at) = {}
                            /\ \A d \in p.address : d \in Nearest(Hits, program, p.at)
                      /\ program = "osm2mimir" /\ check(PoiConfig) => {p.id : p \in docs} = {o.id : o \in OfOsm}
                      /\ program # "osm2mimir" =>
                            /\ {o.id : o \in {x \in OfNavitia : Where(x) \subseteq {TRUE}}} \subseteq {p.id : p \in docs}
                            /\ {p.id : p \in docs} \subseteq {o.id : o \in {x \in OfNavitia : TRUE \in Where(x)}}
                            /\ \A p \in docs : \A d \in p.address : from_place(p).city = from_place(d).city
    BY DEF Addressed, Hits
  <2>1. Complete(Hits, A, program, docs, {})
    BY DEF PInv, Fit, Fresh
  <2> HIDE DEF docs, A, program
  <2>2. docs \cup {} = docs /\ OfNavitia \ {} = OfNavitia
    OBVIOUS
  <2>3. \A p \in docs : /\ p.address = {} => Near(Hits, program, p.at) = {}
                        /\ \A d \in p.address : d \in Nearest(Hits, program, p.at)
    BY <2>1 DEF Complete
  <2>4. program = "osm2mimir" /\ check(PoiConfig) => {p.id : p \in docs} = {o.id : o \in OfOsm}
    BY <2>1, <2>2 DEF Complete
  <2>5. ASSUME program # "osm2mimir"
        PROVE  /\ {o.id : o \in {x \in OfNavitia : Where(x) \subseteq {TRUE}}} \subseteq {p.id : p \in docs}
               /\ {p.id : p \in docs} \subseteq {o.id : o \in {x \in OfNavitia : TRUE \in Where(x)}}
               /\ \A p \in docs : \A d \in p.address : from_place(p).city = from_place(d).city
    <3>1. /\ \A o \in OfNavitia : Where(o) \subseteq {TRUE} => \E p \in docs : p.id = o.id
          /\ \A p \in docs : \E o \in OfNavitia : p.id = o.id /\ TRUE \in Where(o)
          /\ \A p \in docs : \A d \in p.address : from_place(p).city = from_place(d).city
      BY <2>1, <2>2, <2>5 DEF Complete
    <3> HIDE DEF Where
    <3> QED
      BY <3>1
  <2> QED
    BY <2>3, <2>4, <2>5
<1> QED
  BY <1>1, InitiallyPlaced, InvariancePlaced, PTL DEF Spec
===============================================================================
