-------------------------------- MODULE Places --------------------------------
(***************************************************************************)
(* What importers derive from the admins attached to a place (labels.rs,   *)
(* libs/places) and what bragi answers about it (common/geocoding.rs): each*)
(* of them looks for the city on its own, in the list of admins.           *)
(*                                                                         *)
(* An admin has, beside what Geofinder needs, a level, an insee code, zip  *)
(* codes and country codes; its id stands for its name and its weight.  A  *)
(* label is the city put in parentheses behind the name, as an option.     *)
(***************************************************************************)
EXTENDS Geofinder

is_city(a) == a.zone_type = City

\* The first admin of a list that passes a test, as an option.
find(admins, Test(_)) ==
    LET at == {i \in DOMAIN admins : Test(admins[i])}
    IN  IF at = {} THEN {} ELSE {admins[CHOOSE i \in at : \A j \in at : i <= j]}

city_of(admins) == find(admins, is_city)

\* The city of a label is looked up among the admins first, then comes the one
\* of the source, if any.
format_label(admins, source) ==
    IF city_of(admins) # {} THEN {c.id : c \in city_of(admins)} ELSE source

\* The weight of a street or a point of interest is that of its city.
set_weight_from_admins(admins) == {c.id : c \in city_of(admins)}

\* The zip codes of all admins of the greatest level that has any.
get_zip_codes_from_admins(admins) ==
    LET levels == {a.level : a \in {b \in ToSet(admins) : b.zip_codes # {}}} \ {0}
    IN  IF levels = {} THEN {}
        ELSE UNION {a.zip_codes : a \in {b \in ToSet(admins) : \A l \in levels : b.level >= l /\ b.level \in levels}}

find_country_codes(admins) == UNION {a.country_code : a \in ToSet(admins)}

-------------------------------------------------------------------------------
\* The admins of an answer, and the city and its code among them.
get_city_name(admins) == {c.id : c \in city_of(admins)}
get_citycode(admins) == UNION {c.insee : c \in city_of(admins)}

\* What every place of an answer has.
properties(doc, place_type) ==
    [place_type |-> place_type, city |-> get_city_name(doc.admins), citycode |-> get_citycode(doc.admins),
     label |-> doc.label, housenumber |-> {}, postcode |-> doc.zip_codes,
     administrative_regions |-> {a.id : a \in ToSet(doc.admins)}]

\* The types that bragi gives places are those that clients ask for.  An admin is
\* not in a city, but may be one.
from_admin(doc) == [properties(doc, "zone") EXCEPT !.city = {}, !.citycode = doc.insee]
from_street(doc) == properties(doc, "street")
from_addr(doc) == [properties(doc, "house") EXCEPT !.housenumber = doc.house_number]
from_poi(doc) == properties(doc, "poi")
from_stop(doc) == properties(doc, "stop_area")

\* A place in GeocodeJSON.
from_place(doc) ==
    CASE doc.type = "admin" -> from_admin(doc)
      [] doc.type = "street" -> from_street(doc)
      [] doc.type = "addr" -> from_addr(doc)
      [] doc.type = "poi" -> from_poi(doc)
      [] doc.type = "stop" -> from_stop(doc)
===============================================================================
