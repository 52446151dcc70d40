------------------------------- MODULE Cosmogony -------------------------------
(***************************************************************************)
(* The admins that cosmogony2mimir makes of the zones of a Cosmogony file  *)
(* (src/admin.rs).  A zone has, beside what an admin has, an index in the  *)
(* file, an id in OSM, the index of its parent, an option, and a mark that *)
(* tells whether its line can be parsed.  Ids are distinct; the parents of *)
(* a zone are of greater zone types.                                       *)
(***************************************************************************)
EXTENDS Places

\* Lines that cannot be parsed are only logged.
read_zones(file) == {z \in file : z.readable}

\* Cities with an INSEE code may be known by it.
format_id(z, french_id_retrocompatibility) ==
    IF french_id_retrocompatibility /\ z.zone_type = City /\ z.insee # {}
    THEN <<"admin:fr", z.insee>> ELSE <<"admin:osm", z.osm_id>>

\* Mutant: parents are known by their ids in OSM.
parent_of_osm(zones, z, french_id_retrocompatibility) ==
    {<<"admin:osm", p.osm_id>> : p \in {q \in zones : q.index \in z.parent}}

parent_osm_id(zones, z, french_id_retrocompatibility) ==
    {format_id(p, french_id_retrocompatibility) : p \in {q \in zones : q.index \in z.parent}}

into_admin(zones, z, french_id_retrocompatibility) ==
    [type |-> "admin", id |-> format_id(z, french_id_retrocompatibility), insee |-> z.insee,
     level |-> z.level, label |-> {}, zip_codes |-> z.zip_codes, country_code |-> z.country_code,
     boundary |-> z.boundary, at |-> z.at, zone_type |-> z.zone_type, admins |-> <<>>,
     parent_id |-> parent_osm_id(zones, z, french_id_retrocompatibility), release |-> z.release]

\* The administrative regions of an admin are its parents, without theirs.
index_cosmogony(file, french_id_retrocompatibility) ==
    LET zones == read_zones(file)
        admins == {into_admin(zones, z, french_id_retrocompatibility) : z \in zones}
    IN  {[a EXCEPT !.admins = Tail(hierarchy(admins, a))] : a \in admins}
===============================================================================
