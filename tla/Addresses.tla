------------------------------- MODULE Addresses -------------------------------
(***************************************************************************)
(* A record of BANO (bano.rs) or OpenAddresses (openaddresses.rs) becomes  *)
(* an address.  Of a record:                                               *)
(*   line    tells records apart                                           *)
(*   id      "long" enough to hold a FANTOIR id, "short", or "torn" when   *)
(*           its first bytes end inside a character, and cutting it panics *)
(*   insee   the INSEE code in the id                                      *)
(*   street  whether the name of the street is not empty                   *)
(*   at      the point                                                     *)
(*   city    the name of the city                                          *)
(***************************************************************************)
EXTENDS Places

\* The admin for an INSEE code, with a boundary or not: the last one that was
\* listed, which may be any of them.
from_insee(admins, code) == {a \in admins : a.insee = {code}}

\* Mutant: the admins of the geofinder stay.
keep_admins_of_level(admins, a) == Append(admins, a)

\* The admin of the INSEE code takes the place of those of its level.
replace_level(admins, a) ==
    LET keep(kept, b) == IF b.level # a.level THEN Append(kept, b) ELSE kept
    IN  Append(FoldLeft(keep, <<>>, admins), a)

\* The weight is that of the city, looked for by its level.
is_level_8(a) == a.level = 8
weight_of_level_8(admins) == {a.id : a \in find(admins, is_level_8)}

address(rec, attached, label, weight) ==
    [type |-> "addr", line |-> rec.line, admins |-> attached, label |-> label, weight |-> weight,
     house_number |-> {rec.line}, zip_codes |-> {}, at |-> rec.at]

\* The addresses a record may become, one for each answer of the geofinder.
bano_into_addr(rec, admins) ==
    LET known == from_insee(admins, rec.insee)
        found == lookups(admins, rec.at)
        attached == IF known = {} THEN found ELSE {replace_level(g, a) : g \in found, a \in known}
    IN  {address(rec, s, format_label(s, {rec.city}),
                 weight_of_level_8(s)) : s \in attached}

openaddresses_into_addr(rec, admins) ==
    {address(rec, s, format_label(s, {}), set_weight_from_admins(s)) : s \in lookups(admins, rec.at)}

into_addr(program, rec, admins) ==
    IF program = "bano2mimir" THEN bano_into_addr(rec, admins) ELSE openaddresses_into_addr(rec, admins)

\* The id of a record must hold a FANTOIR id.
rejected(program, rec) == program = "bano2mimir" /\ rec.id = "short"

panics(program, rec) == program = "bano2mimir" /\ rec.id = "torn"
===============================================================================
