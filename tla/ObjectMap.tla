------------------------------- MODULE ObjectMap ------------------------------
(***************************************************************************)
(* What the streets importer expects of its store of OSM objects: the      *)
(* in-memory variant ObjWrapper::Map (osm_reader/osm_store.rs), a map from *)
(* ids to objects filled by get_objs_and_deps_store of the PBF reader.     *)
(* The map is the set of its <<id, object>> entries.                       *)
(***************************************************************************)
CONSTANT Pbf     \* the <<id, object>> pairs of the PBF file

VARIABLES objs,    \* the entries of the map
          lossy,   \* whether the store may lose objects, as a map does not
          reading  \* whether the PBF reader is still filling it

vars == <<objs, lossy, reading>>

contains_key(id) == \E o \in objs : o[1] = id

Init == objs = {} /\ lossy \in BOOLEAN /\ reading = TRUE

\* The PBF reader (external) stores an object it needs unless the store has one
\* of that id already.
insert(o) ==
    /\ reading
    /\ ~contains_key(o[1])
    /\ \E kept \in IF lossy THEN SUBSET objs ELSE {objs} : objs' = kept \cup {o}
    /\ UNCHANGED <<lossy, reading>>

finish ==
    /\ reading
    /\ reading' = FALSE
    /\ UNCHANGED <<objs, lossy>>

Next == (\E o \in Pbf : insert(o)) \/ finish

Spec == Init /\ [][Next]_vars
===============================================================================
