--------------------------------- MODULE Pois ---------------------------------
(***************************************************************************)
(* Points of interest, those osm2mimir finds among the objects of OSM      *)
(* (osm_reader/poi.rs) and those poi2mimir reads (pois.rs).                *)
(*                                                                         *)
(* An object has an id, tags, the point `at` it is, an option, since the   *)
(* centre of a way or of a relation may not be known, and a postcode, an   *)
(* option.  A configuration has the set of the types it declares and a     *)
(* sequence of rules, each with tags and a type.                           *)
(***************************************************************************)
EXTENDS Places

check(config) == \A i \in DOMAIN config.rules : config.rules[i].type \in config.poi_types

first_rule(config, tags) ==
    {config.rules[i] : i \in {k \in DOMAIN config.rules :
        /\ config.rules[k].tags \subseteq tags
        /\ \A j \in 1..(k - 1) : ~(config.rules[j].tags \subseteq tags)}}

\* Only the first rule counts, even when its type is not declared.
get_poi_type(config, tags) == {r.type : r \in first_rule(config, tags)} \cap config.poi_types

is_poi(config, tags) == get_poi_type(config, tags) # {}

poi(id, poi_type, at, admins, weight, zip_codes, address) ==
    [type |-> "poi", id |-> id, poi_type |-> poi_type, at |-> at, admins |-> admins,
     label |-> format_label(admins, {}), weight |-> weight, zip_codes |-> zip_codes,
     country_code |-> find_country_codes(admins), address |-> address]

\* What an object may become, {} when it is rejected.
parse_poi(o, matcher, admins) ==
    {poi(o.id, get_poi_type(matcher, o.tags), p, s, {},
         IF o.postcode # {} THEN o.postcode ELSE get_zip_codes_from_admins(s), {}) :
        p \in (IF is_poi(matcher, o.tags) THEN o.at ELSE {}), s \in UNION {lookups(admins, p) : p \in o.at}}

compute_weight(p) == [p EXCEPT !.weight = set_weight_from_admins(p.admins)]

\* The first answer of the reverse search, an option, is the address.
add_address(p, places) == [p EXCEPT !.address = places]

\* The admins are those of the address, or else of the point.
admins_of_place(p, place, admins) ==
    IF place = {} THEN lookups(admins, p.at) ELSE {d.admins : d \in place}

\* A point of interest without an admin is rejected, as is one of an unknown type.
into_poi(p, poi_types, place, admins) ==
    {poi(p.id, {p.poi_type}, p.at, s, set_weight_from_admins(s), {}, place) :
        s \in {t \in admins_of_place(p, place, admins) : p.poi_type \in poi_types /\ t # <<>>}}
===============================================================================
