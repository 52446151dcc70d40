--------------------------------- MODULE Stops ---------------------------------
(***************************************************************************)
(* The stops that ntfs2mimir makes of the stop areas of a transit model    *)
(* (stops.rs, libs/places/src/stop.rs).  A stop area has an id, a point and*)
(* lines; a stop point has an id, a stop area and physical modes.  The ids *)
(* of areas differ without the spaces and the "StopArea:" that normalize_id*)
(* takes out.                                                              *)
(*                                                                         *)
(* A line has a name and, as options, a sort order and a code: numbers,    *)
(* which stand for what human_sort compares.                               *)
(***************************************************************************)
EXTENDS Places

\* The modes of all the stop points of an area count, unknown ones for nothing.
build_stop_area_weight(points, mode_weight) ==
    [area \in {p.stop_area : p \in points} |->
        MapThenSumSet(
            LAMBDA p : MapThenSumSet(LAMBDA m : IF m \in DOMAIN mode_weight THEN mode_weight[m] ELSE 0, p.modes),
            {p \in points : p.stop_area = area})]

\* The weight is half the sum of both.
make_weight(stop, stop_areas_weights) ==
    [stop EXCEPT !.weight = [modes |-> IF stop.id \in DOMAIN stop_areas_weights
                                       THEN {stop_areas_weights[stop.id]} ELSE {},
                             city  |-> set_weight_from_admins(stop.admins)]]

attach_stop(stop, admins) ==
    [stop EXCEPT !.label = format_label(admins, {}), !.zip_codes = get_zip_codes_from_admins(admins),
                 !.country_code = find_country_codes(admins), !.admins = admins]

\* Whether a line comes before another: by sort order, those that have none being
\* last, then by code when both have one, then by name.
before(l, r) ==
    LET less(S, T) == \E a \in S, b \in T : a < b
        both == l.code # {} /\ r.code # {}
    IN  \/ l.sort_order # {} /\ r.sort_order = {}
        \/ less(l.sort_order, r.sort_order)
        \/ /\ l.sort_order = r.sort_order
           /\ \/ both /\ less(l.code, r.code)
              \/ (both => l.code = r.code) /\ l.name < r.name

\* This is not an order: a line without a code, compared by name, may be between
\* two lines whose codes are in the other order.  Nothing is known of the result
\* then.
get_lines(lines) ==
    {s \in SetToSeqs(lines) :
        (\A k, l, m \in lines : before(k, l) /\ ~before(m, l) => before(k, m))
            => \A i, j \in DOMAIN s : before(s[i], s[j]) => i < j}

to_mimir(area) ==
    {[type |-> "stop", id |-> area.id, at |-> area.at, lines |-> s, label |-> {}, admins |-> <<>>,
      zip_codes |-> {}, country_code |-> {}, weight |-> [modes |-> {}, city |-> {}]] : s \in get_lines(area.lines)}
===============================================================================
