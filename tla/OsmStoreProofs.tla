---------------------------- MODULE OsmStoreProofs -----------------------------
(* Proofs about OsmStore, for any PBF file and any buffer size. *)
EXTENDS OsmStore, FiniteSetTheorems, TLAPS

\* An entry's id is in one place only.
Distinct ==
    /\ \A o \in buffer, p \in rows : o[1] # p[1]
    /\ \A o, p \in buffer : o[1] = p[1] => o = p
    /\ \A o, p \in rows : o[1] = p[1] => o = p

\* Rows are uncommitted only in a transaction left open.
Uncommitted == txRows # {} => txOpen

StoreInv == TypeOK /\ Distinct /\ Uncommitted

\* What a flush may leave behind: it moves objects from the buffer to rows, and
\* with them nothing else; only "row" and "rollback" faults lose objects.
LEMMA FlushMoves ==
    ASSUME StoreInv, NEW f \in flush_buffer
    PROVE  /\ f[1] \in {buffer, {}} /\ f[2] \subseteq Pbf /\ f[3] \subseteq Pbf /\ f[4] \in BOOLEAN
           /\ f[1] = buffer => f[2] \cup f[3] = rows
           /\ f[2] \cup f[3] \subseteq rows \cup buffer
           /\ f[3] # {} => f[4]
           /\ faults \cap {"row", "rollback"} = {} => f[1] \cup f[2] \cup f[3] = buffer \cup rows
<1> USE DEF StoreInv, TypeOK
<1>1. NewRows(buffer) = buffer
  BY DEF NewRows, IdsOf, Distinct
<1>2. \A S \in SUBSET buffer : NewRows(S) = S
  BY DEF NewRows, IdsOf, Distinct
<1>3. ASSUME NEW open \in BOOLEAN, f = Unflushed(open)
      PROVE  f[1] = buffer /\ f[2] = table /\ f[3] = txRows /\ f[4] = open
  BY <1>3 DEF Unflushed
<1>4. CASE \E open \in BOOLEAN : f = Unflushed(open) /\ (txOpen => open)
  <2>1. PICK open \in BOOLEAN : f = Unflushed(open) /\ (txOpen => open)
    BY <1>4
  <2> QED
    BY <1>3, <2>1 DEF rows, Uncommitted
<1>5. CASE /\ ~txOpen /\ buffer # {}
           /\ \E S \in IF "row" \in faults THEN SUBSET buffer ELSE {buffer} :
                \/ f = <<{}, table \cup NewRows(S), {}, FALSE>>
                \/ "commit" \in faults /\ f = <<{}, table, NewRows(S), TRUE>>
                \/ "rollback" \in faults /\ f = <<{}, table, {}, FALSE>>
  <2>1. txRows = {} /\ rows = table
    BY <1>5 DEF rows, Uncommitted
  <2>2. PICK S \in SUBSET buffer :
         /\ "row" \notin faults => S = buffer
         /\ \/ f = <<{}, table \cup S, {}, FALSE>>
            \/ f = <<{}, table, S, TRUE>>
            \/ "rollback" \in faults /\ f = <<{}, table, {}, FALSE>>
    BY <1>2, <1>5
  <2>3. CASE f = <<{}, table \cup S, {}, FALSE>>
    BY <1>5, <2>1, <2>2, <2>3
  <2>4. CASE f = <<{}, table, S, TRUE>>
    BY <1>5, <2>1, <2>2, <2>4
  <2>5. CASE "rollback" \in faults /\ f = <<{}, table, {}, FALSE>>
    BY <1>5, <2>1, <2>5
  <2> QED
    BY <2>2, <2>3, <2>4, <2>5
<1> QED
  BY <1>4, <1>5 DEF flush_buffer, FlushOutcomes, Drained

\* Every flush and insertion keeps the entries apart, whatever writes fail.
LEMMA StoreStep ==
    ASSUME StoreInv, [Next]_vars, "read" \notin Faults
    PROVE  StoreInv'
<1> USE DEF StoreInv, TypeOK
<1>1. ASSUME NEW o \in Pbf, insert(o)
      PROVE  StoreInv'
  <2>1. PICK f \in flush_buffer :
          /\ buffer' = {p \in f[1] : p[1] # o[1]} \cup {o}
          /\ table' = f[2]
          /\ txRows' = f[3]
          /\ txOpen' = f[4]
    BY <1>1 DEF insert
  <2>2. /\ f[1] \in {buffer, {}} /\ f[2] \subseteq Pbf /\ f[3] \subseteq Pbf /\ f[4] \in BOOLEAN
        /\ f[1] = buffer => f[2] \cup f[3] = rows
        /\ f[2] \cup f[3] \subseteq rows \cup buffer
        /\ f[3] # {} => f[4]
    BY FlushMoves
  <2>3. /\ \A p \in buffer \cup rows : p[1] # o[1]
        /\ reading' \in BOOLEAN /\ faults' \subseteq Faults
    BY <1>1 DEF insert, contains_key, IdsOf
  <2>4. rows' \subseteq rows \cup buffer /\ (f[1] = buffer => rows' = rows)
    BY <2>1, <2>2 DEF rows
  <2>5. TypeOK'
    BY <2>1, <2>2, <2>3
  <2>6. Uncommitted'
    BY <2>1, <2>2 DEF Uncommitted
  <2>7. \A p \in rows' : p[1] # o[1]
    BY <2>3, <2>4
  <2>8. \A p, q \in rows \cup buffer : p[1] = q[1] => p = q
    BY DEF Distinct
  <2>9. \A p \in f[1], q \in rows' : p[1] # q[1]
    BY <2>2, <2>4 DEF Distinct
  <2>10. buffer' \subseteq f[1] \cup {o} /\ f[1] \subseteq buffer
    BY <2>1, <2>2
  <2> HIDE DEF StoreInv, TypeOK
  <2>11. \A p \in buffer', q \in rows' : p[1] # q[1]
    BY <2>7, <2>9, <2>10
  <2>12. \A p, q \in buffer' : p[1] = q[1] => p = q
    BY <2>3, <2>8, <2>10
  <2>13. \A p, q \in rows' : p[1] = q[1] => p = q
    BY <2>4, <2>8
  <2> QED
    BY <2>5, <2>6, <2>11, <2>12, <2>13 DEF StoreInv, Distinct
<1>2. ASSUME finish \/ UNCHANGED vars
      PROVE  StoreInv'
  BY <1>2 DEF finish, vars, Distinct, Uncommitted, rows
<1> QED
  BY <1>1, <1>2 DEF Next

\* StoreInv holds from the empty store on.
LEMMA StoreInvariant ==
    ASSUME "read" \notin Faults
    PROVE  Spec => []StoreInv
<1>1. Init => StoreInv
  BY DEF Init, StoreInv, TypeOK, Distinct, Uncommitted, rows
<1> QED
  <2>1. StoreInv /\ [Next]_vars => StoreInv'
    BY StoreStep
  <2> QED
    BY <1>1, <2>1, PTL DEF Spec

\* for_each_filter never calls f twice for an object, whichever statements
\* SQLite refuses in flush_buffer; only a failing lookup could make it.
THEOREM VisitedOnceAlways ==
    ASSUME "read" \notin Faults
    PROVE  Spec => []VisitedOnce
<1>1. StoreInv => VisitedOnce
  <2> SUFFICES ASSUME StoreInv, NEW o \in Pbf
               PROVE  visits(o) <= 1 /\ (visits(o) # 0 => get_from_id(o[1]) = {o})
    BY DEF VisitedOnce
  <2>1. \A p, q \in buffer \cup rows : p[1] = q[1] => p = q
    BY DEF StoreInv, Distinct
  <2>2. visits(o) <= 1 /\ (visits(o) # 0 => o \in buffer \cup rows)
    BY DEF StoreInv, Distinct, visits
  <2>3. ASSUME o \in buffer \cup rows
        PROVE  get_from_id(o[1]) = {o}
    <3>1. CASE o \in buffer
      BY <2>1, <3>1 DEF get_from_id, IdsOf
    <3>2. CASE o \in rows /\ o[1] \in IdsOf(buffer)
      BY <3>2 DEF IdsOf, StoreInv, Distinct
    <3>3. CASE o \in rows /\ o[1] \notin IdsOf(buffer)
      BY <2>1, <3>3 DEF get_from_id
    <3> QED
      BY <2>3, <3>1, <3>2, <3>3 DEF IdsOf
  <2> QED
    BY <2>2, <2>3
<1>2. Spec => []StoreInv
  BY StoreInvariant
<1> QED
  BY <1>1, <1>2, PTL

\* As long as no lookup fails, Db implements the in-memory map, of which it loses
\* objects only when rows are refused or transactions rolled back: otherwise the
\* importer cannot tell one from the other.
THEOREM StoreImplementsMap ==
    ASSUME "read" \notin Faults
    PROVE  Spec => ImplementsMap
<1>1. Init => Map!Init
  BY DEF Init, Map!Init
<1>2. StoreInv /\ [Next]_vars => [Map!Next]_(Map!vars)
  <2> SUFFICES ASSUME StoreInv, [Next]_vars PROVE [Map!Next]_(Map!vars)
    OBVIOUS
  <2>1. ASSUME NEW o \in Pbf, insert(o)
        PROVE  Map!insert(o)
    <3>1. PICK f \in flush_buffer :
            /\ buffer' = {p \in f[1] : p[1] # o[1]} \cup {o}
            /\ table' = f[2]
            /\ txRows' = f[3]
      BY <2>1 DEF insert
    <3> DEFINE objs == buffer \cup table \cup txRows
               kept == f[1] \cup f[2] \cup f[3]
    <3>2. f[1] \in {buffer, {}} /\ kept \subseteq objs
      BY FlushMoves DEF rows
    <3>3. faults \cap {"row", "rollback"} = {} => kept = objs
      BY FlushMoves DEF rows
    <3>4. \A p \in buffer \cup rows : p[1] # o[1]
      BY <2>1 DEF insert, contains_key, IdsOf, StoreInv, TypeOK
    <3>5. {p \in f[1] : p[1] # o[1]} = f[1]
      BY <3>2, <3>4
    <3>6. objs' = kept \cup {o}
      BY <3>1, <3>5
    <3> HIDE DEF kept
    <3>7. /\ reading /\ UNCHANGED <<faults, reading>>
          /\ ~Map!contains_key(o[1])
      BY <2>1, <3>4 DEF insert, Map!contains_key, rows
    <3> QED
      BY <3>2, <3>3, <3>6, <3>7 DEF Map!insert
  <2>2. CASE finish
    BY <2>2 DEF finish, Map!finish, Map!Next
  <2>3. CASE UNCHANGED vars
    BY <2>3 DEF vars, Map!vars
  <2> QED
    BY <2>1, <2>2, <2>3 DEF Next, Map!Next
<1>3. Spec => []StoreInv
  BY StoreInvariant
<1> QED
  BY <1>1, <1>2, <1>3, PTL DEF Spec, ImplementsMap, Map!Spec

\* While transactions can be begun, prepared and committed none is left open, so
\* that a full buffer is always flushed.
Flushing == faults \cap {"begin", "prepare", "commit"} = {}

BufferInv ==
    /\ IsFiniteSet(buffer)
    /\ txOpen \in BOOLEAN
    /\ Flushing => ~txOpen
    /\ BufferBounded

\* The buffer keeps to its configured size, for any file, any size and whatever
\* rows, rollbacks and lookups fail: the memory the database is there to save.
THEOREM BufferBoundedAlways == Spec => []BufferBounded
<1>1. Init => BufferInv
  <2> SUFFICES ASSUME Init PROVE BufferInv
    OBVIOUS
  <2>1. IsFiniteSet(buffer) /\ Cardinality(buffer) = 0 /\ txOpen = FALSE
    BY FS_EmptySet DEF Init
  <2>2. 0 <= (IF db_buffer_size = 0 THEN 1 ELSE db_buffer_size)
    BY StoreAssumption
  <2>3. BufferBounded
    BY <2>1, <2>2 DEF BufferBounded
  <2> QED
    BY <2>1, <2>3 DEF BufferInv
<1>2. BufferInv /\ [Next]_vars => BufferInv'
  <2> SUFFICES ASSUME BufferInv, [Next]_vars PROVE BufferInv'
    OBVIOUS
  <2>1. ASSUME NEW o \in Pbf, insert(o)
        PROVE  BufferInv'
    <3>1. PICK f \in flush_buffer :
            /\ buffer' = {p \in f[1] : p[1] # o[1]} \cup {o}
            /\ txOpen' = f[4]
      BY <2>1 DEF insert
    <3>2. faults' = faults
      BY <2>1 DEF insert
    <3>3. /\ f[1] \in {buffer, {}} /\ f[4] \in BOOLEAN
          /\ Flushing => ~f[4]
          /\ Flushing /\ Full => f[1] = {}
      <4>1. CASE f = Unflushed(txOpen) /\ (Full => buffer = {})
        BY <4>1 DEF Unflushed, BufferInv
      <4>2. CASE Full /\ txOpen /\ f = Unflushed(TRUE)
        BY <4>2 DEF Unflushed, BufferInv
      <4>3. CASE "begin" \in faults /\ f = Unflushed(FALSE)
        BY <4>3 DEF Unflushed, Flushing
      <4>4. CASE "prepare" \in faults /\ f = Unflushed(TRUE)
        BY <4>4 DEF Unflushed, Flushing
      <4>5. ASSUME NEW S, f \in Drained(S)
            PROVE  f[1] = {} /\ f[4] \in BOOLEAN /\ (Flushing => ~f[4])
        <5>1. CASE "commit" \in faults /\ f = <<{}, table, NewRows(S), TRUE>>
          BY <5>1 DEF Flushing
        <5>2. CASE \E T : f = <<{}, T, {}, FALSE>>
          BY <5>2
        <5> QED
          BY <4>5, <5>1, <5>2 DEF Drained
      <4> QED
        BY <4>1, <4>2, <4>3, <4>4, <4>5 DEF flush_buffer, FlushOutcomes
    <3>4. f[1] \subseteq buffer /\ IsFiniteSet(f[1])
      BY <3>3, FS_EmptySet DEF BufferInv
    <3> DEFINE left == {p \in f[1] : p[1] # o[1]}
    <3>5. /\ IsFiniteSet(left) /\ Cardinality(left) \in Nat
          /\ Cardinality(left) <= Cardinality(f[1]) /\ Cardinality(f[1]) \in Nat
      BY <3>4, FS_Subset, FS_CardinalityType
    <3>6. /\ IsFiniteSet(buffer')
          /\ Cardinality(buffer') <= Cardinality(left) + 1
          /\ Cardinality(buffer') \in Nat
      <4>1. buffer' = left \cup {o}
        BY <3>1
      <4> HIDE DEF left
      <4>2. /\ IsFiniteSet(left \cup {o})
            /\ Cardinality(left \cup {o}) = IF o \in left THEN Cardinality(left) ELSE Cardinality(left) + 1
        BY <3>5, FS_AddElement, Zenon
      <4> QED
        BY <3>5, <4>1, <4>2
    <3>7. ASSUME Flushing
          PROVE  Cardinality(buffer') <= (IF db_buffer_size = 0 THEN 1 ELSE db_buffer_size)
      <4>1. CASE Full
        <5>1. Cardinality(f[1]) = 0
          BY <3>3, <3>7, <4>1, FS_EmptySet
        <5> QED
          BY <3>5, <3>6, <5>1, StoreAssumption
      <4>2. CASE ~Full
        <5>1. f[1] = buffer
          BY <3>1, <4>2 DEF flush_buffer, Unflushed
        <5> QED
          BY <3>5, <3>6, <4>2, <5>1, StoreAssumption DEF Full
      <4> QED
        BY <4>1, <4>2
    <3> QED
      BY <3>1, <3>2, <3>3, <3>6, <3>7 DEF BufferInv, Flushing, BufferBounded
  <2>2. ASSUME finish \/ UNCHANGED vars
        PROVE  BufferInv'
    BY <2>2 DEF finish, vars, BufferInv, Flushing, BufferBounded
  <2> QED
    BY <2>1, <2>2 DEF Next
<1>3. BufferInv => BufferBounded
  BY DEF BufferInv
<1> QED
  BY <1>1, <1>2, <1>3, PTL DEF Spec
===============================================================================
