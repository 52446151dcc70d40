------------------------------- MODULE Geofinder -------------------------------
(***************************************************************************)
(* The AdminGeoFinder (admin_geofinder.rs) attaches streets, addresses,    *)
(* stops and points of interest to administrative regions.  It is filled   *)
(* once and only read afterwards.                                          *)
(*                                                                         *)
(* An admin is a record:                                                   *)
(*   id                                                                    *)
(*   zone_type  its rank among zone types, 0 for None                      *)
(*   parent_id  an option, {} for None                                     *)
(*   boundary   whether it has one                                         *)
(*   at         where each point is: "outside" its envelope, only in its   *)
(*              "envelope", on the "edge" of its boundary, or "inside"     *)
(* The r-tree gives admins in no particular order, and sort_by_key keeps   *)
(* the order of those of one zone type: lookups take the order as argument.*)
(***************************************************************************)
EXTENDS Naturals, FiniteSets, SequencesExt

CONSTANT City \* the rank of this zone type

\* Both the r-tree and admin_by_id: admins without a boundary are left out.
AdminGeoFinder(admins) == {a \in admins : a.boundary}

candidates(finder, p) == {a \in finder : a.at[p] # "outside"}

sort_by_zone_type(S) ==
    {s \in SetToSeqs(S) : \A i \in 1..(Len(s) - 1) : s[i].zone_type <= s[i + 1].zone_type}

parent(finder, a) == {b \in finder : b.id \in a.parent_id}

\* An admin and its parents, as long as the geofinder knows them.  Parents are
\* of a greater zone type, so that no admin is met twice; get_admins_if would
\* never return otherwise.
hierarchy(finder, a) ==
    LET up[b \in finder] ==
            IF parent(finder, b) = {} THEN <<b>>
            ELSE <<b>> \o up[CHOOSE p \in parent(finder, b) : TRUE]
    IN  up[a]

parents(finder, a) == ToSet(Tail(hierarchy(finder, a)))

at_most_city(a) == a.zone_type \in 1..City

\* Mutant: parents are not marked as visited.
get_admins_unvisited(finder, p, order) ==
    LET visit(res, a) == IF a.at[p] \in {"edge", "inside"} THEN Append(res, hierarchy(finder, a)) ELSE res
    IN  FoldLeft(visit, <<>>, order)

\* A branch of the hierarchy for each candidate that is not the parent of an
\* earlier one.
get_admins_if(finder, p, order) ==
    LET visit(acc, a) ==
            IF a.id \notin acc.visited_ids /\ a.at[p] \in {"edge", "inside"}
            THEN [visited_ids |-> acc.visited_ids \cup {b.id : b \in parents(finder, a)},
                  res         |-> Append(acc.res, hierarchy(finder, a))]
            ELSE acc
    IN  FoldLeft(visit, [visited_ids |-> {}, res |-> <<>>], order).res

\* The first candidate of a zone type that contains the point, and its parents:
\* their boundaries are not tested.
get(finder, p, order) ==
    LET test(acc, a) ==
            IF a.id \in acc.tested_hierarchy THEN [acc EXCEPT !.res = @ \cup {a}]
            ELSE IF a.zone_type # 0 /\ a.zone_type \in acc.added_zone_types THEN acc
            ELSE IF a.at[p] = "inside"
            THEN LET above == parents(finder, a)
                 IN  [tested_hierarchy |-> acc.tested_hierarchy \cup {b.id : b \in above},
                      added_zone_types |-> acc.added_zone_types \cup {b.zone_type : b \in above \cup {a}},
                      res              |-> acc.res \cup {a}]
            ELSE acc
    IN  FoldLeft(test, [tested_hierarchy |-> {}, added_zone_types |-> {}, res |-> {}], order).res

AdminsIf(finder, p) ==
    {get_admins_if(finder, p, s) :
        s \in sort_by_zone_type({a \in candidates(finder, p) : at_most_city(a)})}

AdminsAt(finder, p) == {get(finder, p, s) : s \in sort_by_zone_type(candidates(finder, p))}

\* The lists of admins that a geofinder filled with some admins may answer: in the
\* order of their zone types.
lookups(admins, p) == UNION {sort_by_zone_type(S) : S \in AdminsAt(AdminGeoFinder(admins), p)}
===============================================================================
