------------------------------- MODULE OsmStore -------------------------------
(***************************************************************************)
(* The SQLite variant of the store of OSM objects, ObjWrapper::Db          *)
(* (osm_reader/osm_store.rs): new objects go to a buffer in memory, which  *)
(* is flushed to a table when it is full.  Every SQLite error is logged    *)
(* and otherwise ignored.                                                  *)
(*                                                                         *)
(* A flush leaves the transaction open when it stops half-way              *)
(* (DropBehavior::Ignore); SQLite then refuses to begin another one, but   *)
(* the connection still reads the rows of the open one.  Fault kinds:      *)
(*   "begin"    BEGIN fails, nothing is drained                            *)
(*   "prepare"  the INSERT cannot be prepared, the transaction stays open  *)
(*   "row"      an object cannot be serialized or its row inserted         *)
(*   "commit"   COMMIT fails and the transaction stays open                *)
(*   "rollback" COMMIT fails and SQLite rolls the transaction back         *)
(*   "read"     a lookup in the table fails                                *)
(***************************************************************************)
EXTENDS Naturals, FiniteSets

CONSTANTS Pbf,             \* the <<id, object>> pairs of the PBF file
          db_buffer_size,  \* config: database.buffer_size
          Faults           \* the kinds of faults there may be

ASSUME StoreAssumption ==
    /\ IsFiniteSet(Pbf)
    /\ db_buffer_size \in Nat
    /\ Faults \subseteq {"begin", "prepare", "row", "commit", "rollback", "read"}

VARIABLES buffer,   \* Db.buffer
          table,    \* SQLite: committed rows
          txRows,   \* SQLite: rows of a transaction left open
          txOpen,   \* SQLite: whether a transaction was left open
          reading,  \* whether the PBF reader is still filling the store
          faults    \* the kinds of faults met by this import

vars == <<buffer, table, txRows, txOpen, reading, faults>>

IdsOf(S) == {o[1] : o \in S}
rows == table \cup txRows

\* Mutant: the table is not looked up.
buffer_contains_key(id) == {id \in IdsOf(buffer)}

\* What contains_key may answer: a lookup in the table that fails says FALSE.
contains_key(id) ==
    {id \in IdsOf(buffer) \cup IdsOf(rows)}
    \cup IF "read" \in faults /\ id \notin IdsOf(buffer) THEN {FALSE} ELSE {}

\* The object get_from_id returns comes from the buffer first.
get_from_id(id) ==
    IF id \in IdsOf(buffer) THEN {o \in buffer : o[1] = id} ELSE {o \in rows : o[1] = id}

\* The objects for_each_filter calls f with, once for the buffer and once for
\* the rows.
visits(o) == (IF o \in buffer THEN 1 ELSE 0) + (IF o \in rows THEN 1 ELSE 0)

Init ==
    /\ buffer = {} /\ table = {} /\ txRows = {} /\ txOpen = FALSE
    /\ reading = TRUE
    /\ faults \in SUBSET Faults

\* INSERT OR IGNORE keeps the row that has the id already.
NewRows(S) == {o \in S : o[1] \notin IdsOf(rows)}

\* The outcomes of flush_buffer, as <<buffer, table, txRows, txOpen>> after it.
Unflushed(open) == <<buffer, table, txRows, open>>

\* Mutant: a transaction that fails to commit is rolled back when it is dropped.
Rolled(S) ==
    {<<{}, table \cup NewRows(S), {}, FALSE>>}
    \cup (IF faults \cap {"commit", "rollback"} # {}
          THEN {<<{}, table, {}, FALSE>>} ELSE {})

\* The buffer is drained, the objects S became rows, then comes the commit.
Drained(S) ==
    {<<{}, table \cup NewRows(S), {}, FALSE>>}
    \cup (IF "commit" \in faults THEN {<<{}, table, NewRows(S), TRUE>>} ELSE {})
    \cup (IF "rollback" \in faults THEN {<<{}, table, {}, FALSE>>} ELSE {})

FlushOutcomes ==
    IF buffer = {} THEN {Unflushed(txOpen)}
    ELSE IF txOpen THEN {Unflushed(TRUE)}
    ELSE (IF "begin" \in faults THEN {Unflushed(FALSE)} ELSE {})
         \cup (IF "prepare" \in faults THEN {Unflushed(TRUE)} ELSE {})
         \cup UNION {Drained(S) : S \in IF "row" \in faults THEN SUBSET buffer ELSE {buffer}}

\* Mutant: one object too many.
OverFull == Cardinality(buffer) > db_buffer_size

Full == Cardinality(buffer) >= db_buffer_size

flush_buffer == IF Full THEN FlushOutcomes ELSE {Unflushed(txOpen)}

\* HashMap::insert replaces an entry of the same id.
insert(o) ==
    /\ reading
    /\ FALSE \in contains_key(o[1])
    /\ \E f \in flush_buffer :
         /\ buffer' = {p \in f[1] : p[1] # o[1]} \cup {o}
         /\ table' = f[2]
         /\ txRows' = f[3]
         /\ txOpen' = f[4]
    /\ UNCHANGED <<reading, faults>>

\* The reader has every object; the importer then only reads the store.
finish ==
    /\ reading
    /\ reading' = FALSE
    /\ UNCHANGED <<buffer, table, txRows, txOpen, faults>>

Next == (\E o \in Pbf : insert(o)) \/ finish

Spec == Init /\ [][Next]_vars
-------------------------------------------------------------------------------
TypeOK ==
    /\ buffer \subseteq Pbf /\ table \subseteq Pbf /\ txRows \subseteq Pbf
    /\ txOpen \in BOOLEAN /\ reading \in BOOLEAN
    /\ faults \subseteq Faults

\* for_each_filter visits an object once, and get_from_id gives that object for
\* its id: none is both in the buffer and in the table, and no two entries have
\* one id, whichever writes failed.  Otherwise a relation would give its street
\* twice, or the street of another relation.
VisitedOnce ==
    \A o \in Pbf :
        /\ visits(o) <= 1
        /\ visits(o) # 0 => get_from_id(o[1]) = {o}

\* The store behaves as the in-memory map: transactions that cannot be begun,
\* prepared or committed lose no object.  Rows that are refused and transactions
\* that are rolled back do, but never bring back or change one.
Map == INSTANCE ObjectMap WITH objs <- buffer \cup table \cup txRows,
                               lossy <- faults \cap {"row", "rollback"} # {}
ImplementsMap == Map!Spec

\* The memory taken by the buffer is bounded by its configured size, as long as
\* transactions can be begun and prepared and none is left open.
BufferBounded ==
    faults \cap {"begin", "prepare", "commit"} = {} =>
        Cardinality(buffer) <= (IF db_buffer_size = 0 THEN 1 ELSE db_buffer_size)
===============================================================================
