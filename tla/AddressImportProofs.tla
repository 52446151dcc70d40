-------------------------- MODULE AddressImportProofs --------------------------
(* Proofs about AddressImport, for any files, admins, chunk size and number of *)
(* tasks.  What converts a record (Addresses, Places, Geofinder) is only       *)
(* expanded for InseeCity: the other proofs hold whatever addresses records    *)
(* become.                                                                     *)
EXTENDS AddressImport, GeofinderProofs

Address == UNION {into_addr(pr, r, A) : pr \in Programs, r \in Records, A \in SUBSET Admins}
Task == [first : Nat, last : Nat, state : {"running", "done", "panicked"},
         docs : SUBSET [of : Nat, addr : Address]]

Typed ==
    /\ program \in Programs /\ tree \in Trees
    /\ phase \in {"start", "admins", "opened", "import", "published", "failed", "panicked"}
    /\ admins \subseteq Admins /\ missed \subseteq Failing
    /\ heap \in Seq(DOMAIN tree) /\ file \in Seq(Records) /\ records \in Seq(Records)
    /\ tasks \in Seq(Task)
    /\ flattened \in 0..Len(tasks)

\* Documents are those of the accepted records of a range of positions.
Whole(docs, first, last, recs, prog, A) ==
    /\ {d.of : d \in docs} = {k \in first..last : recs[k].street /\ ~rejected(prog, recs[k])}
    /\ \A d, e \in docs : d.of = e.of => d = e
    /\ \A d \in docs : d.addr \in into_addr(prog, recs[d.of], A)

\* Chunks follow each other; none is empty, and none is longer than a chunk: all
\* that came after any of them is bounded.
Chunked ==
    /\ \A i \in 1..Len(tasks) :
          tasks[i].first = Upto(i - 1) + 1 /\ tasks[i].last \in tasks[i].first..Len(records)
    /\ \A i \in 0..Len(tasks) : Upto(Len(tasks)) - Upto(i) <= (Len(tasks) - i) * ChunkSize
    /\ pending \in 0..ChunkSize

Converted ==
    \A i \in 1..Len(tasks) :
        tasks[i].state = "done" => Whole(tasks[i].docs, tasks[i].first, tasks[i].last, records, program, admins)

Inserted == Whole(addresses, 1, Upto(flattened), records, program, admins)

Bounded == in_progress <= NumCpus /\ (pending > 0 => in_progress < NumCpus)

\* The listing is over before the first record is read.
Listed ==
    /\ phase = "start" => admins = {}
    /\ phase \in {"opened", "import", "published"} => admins = {} \/ Admins \ missed \subseteq admins
    /\ phase \in {"start", "admins", "opened"} => tasks = <<>> /\ addresses = {} /\ records = <<>>
    /\ phase = "published" => pending = 0 /\ flattened = Len(tasks)

IInv == Typed /\ Chunked /\ Converted /\ Inserted /\ Bounded /\ Listed

-------------------------------------------------------------------------------
\* Where chunks end.
LEMMA UptoType == ASSUME Typed, NEW i \in 0..Len(tasks) PROVE Upto(i) \in Nat
<1>1. CASE i = 0
  BY <1>1 DEF Upto
<1>2. CASE i # 0
  <2>1. i \in 1..Len(tasks) /\ tasks[i] \in Task
    BY <1>2 DEF Typed
  <2> QED
    BY <1>2, <2>1 DEF Upto, Task
<1> QED
  BY <1>1, <1>2

LEMMA UptoBound == ASSUME Typed, Chunked, NEW i \in 0..Len(tasks) PROVE Upto(i) \in 0..Len(records)
<1>1. CASE i = 0
  BY <1>1 DEF Upto, Typed
<1>2. CASE i # 0
  <2>1. i \in 1..Len(tasks) /\ tasks[i] \in Task
    BY <1>2 DEF Typed
  <2>2. tasks[i].last <= Len(records)
    BY <2>1 DEF Chunked, Task, Typed
  <2> QED
    BY <1>2, <2>1, <2>2 DEF Upto, Task
<1> QED
  BY <1>1, <1>2

\* A task gives the documents of its chunk.
LEMMA Converts ==
    ASSUME Typed, Chunked, NEW i \in 1..Len(tasks), NEW docs \in Conversions(tasks[i])
    PROVE  Whole(docs, tasks[i].first, tasks[i].last, records, program, admins) /\ docs \subseteq [of : Nat, addr : Address]
<1> DEFINE t == tasks[i]
<1>1. t \in Task /\ \A k \in kept(t) : k \in t.first..t.last /\ k \in Nat /\ k \in 1..Len(records)
  <2>1. t \in Task
    BY DEF Typed
  <2>2. t.first \in Nat /\ t.last \in Nat /\ t.last <= Len(records)
    BY <2>1 DEF Task, Typed, Chunked
  <2>3. t.first >= 1
    <3>1. i - 1 \in 0..Len(tasks)
      BY DEF Typed
    <3>2. Upto(i - 1) \in Nat
      BY <3>1, UptoType
    <3> QED
      BY <3>2 DEF Chunked
  <2> QED
    BY <2>1, <2>2, <2>3 DEF kept, Typed
<1>2. \A d \in docs : \E k \in kept(t) : \E a \in into_addr(program, records[k], admins) :
          d = [of |-> k, addr |-> a]
  BY DEF Conversions
<1>3. \A k \in kept(t) : \E d \in docs : {e \in docs : e.of = k} = {d}
  BY DEF Conversions
<1>4. {d.of : d \in docs} = kept(t)
  BY <1>2, <1>3
<1>5. \A d, e \in docs : d.of = e.of => d = e
  <2> SUFFICES ASSUME NEW d \in docs, NEW e \in docs, d.of = e.of PROVE d = e
    OBVIOUS
  <2>1. d.of \in kept(t)
    BY <1>4
  <2>2. PICK f \in docs : {g \in docs : g.of = d.of} = {f}
    BY <2>1, <1>3
  <2> QED
    BY <2>2
<1>6. \A d \in docs : d.addr \in into_addr(program, records[d.of], admins)
  BY <1>2
<1>7. ASSUME NEW d \in docs PROVE d \in [of : Nat, addr : Address]
  <2>1. PICK k \in kept(t) : \E a \in into_addr(program, records[k], admins) : d = [of |-> k, addr |-> a]
    BY <1>2
  <2>2. PICK a \in into_addr(program, records[k], admins) : d = [of |-> k, addr |-> a]
    BY <2>1
  <2>3. program \in Programs /\ records[k] \in Records /\ admins \in SUBSET Admins
    BY <1>1 DEF Typed
  <2>4. a \in Address
    BY <2>2, <2>3 DEF Address
  <2> QED
    BY <2>2, <2>4, <1>1
<1> QED
  BY <1>4, <1>5, <1>6, <1>7 DEF Whole, kept, Accepted

\* What is read later does not matter.
LEMMA StillWhole ==
    ASSUME NEW docs, NEW first, NEW last, NEW recs, NEW more, NEW prog, NEW A,
           \A k \in first..last : more[k] = recs[k],
           Whole(docs, first, last, recs, prog, A)
    PROVE  Whole(docs, first, last, more, prog, A)
<1>1. \A d \in docs : d.of \in first..last
  BY DEF Whole
<1>2. \A d \in docs : more[d.of] = recs[d.of]
  BY <1>1
<1>3. {k \in first..last : more[k].street /\ ~rejected(prog, more[k])}
         = {k \in first..last : recs[k].street /\ ~rejected(prog, recs[k])}
  OBVIOUS
<1> QED
  BY <1>2, <1>3 DEF Whole


\* Chunks and documents that are there stay what they are while the records that
\* are read are only added to.
LEMMA SameTasks ==
    ASSUME IInv, UNCHANGED <<program, admins, records, tasks, flattened, addresses>>
    PROVE  Chunked' /\ Converted' /\ Inserted' /\ Bounded'
BY DEF IInv, Chunked, Converted, Inserted, Bounded, Whole, Accepted, Upto, pending, in_progress

LEMMA ListingStep ==
    ASSUME IInv, list_documents \/ (\E a \in Admins : collect(a)) \/ listed \/ listing_breaks
                 \/ import_addresses_from_input_path
    PROVE  IInv'
<1>1. tasks = <<>> /\ addresses = {} /\ records = <<>>
  BY DEF IInv, Listed, list_documents, collect, listed, listing_breaks, import_addresses_from_input_path
<1>2. UNCHANGED <<program, tree, heap, file, records, tasks, flattened, addresses>>
  BY DEF list_documents, collect, listed, listing_breaks, import_addresses_from_input_path
<1>3. Typed' /\ Listed'
  BY <1>1, <1>2 DEF IInv, Typed, Listed, list_documents, collect, listed, listing_breaks,
     import_addresses_from_input_path
<1>4. Converted' /\ Inserted'
  <2>1. Len(tasks') = 0 /\ flattened = 0
    BY <1>1, <1>2 DEF IInv, Typed
  <2>2. Upto(flattened)' = 0
    BY <2>1, <1>2 DEF Upto
  <2> QED
    BY <1>1, <1>2, <2>1, <2>2 DEF Converted, Inserted, Whole
<1>5. Chunked' /\ Bounded'
  BY <1>2 DEF IInv, Chunked, Bounded, Upto, pending, in_progress
<1> QED
  BY <1>3, <1>4, <1>5 DEF IInv

LEMMA WalkStep == ASSUME IInv, walk_files_recursive PROVE IInv'
<1> DEFINE node == tree[Last(heap)]
<1>1. UNCHANGED <<program, tree, phase, admins, missed, records, tasks, flattened, addresses>>
  BY DEF walk_files_recursive
<1>2. Last(heap) \in DOMAIN tree /\ Front(heap) \in Seq(DOMAIN tree)
  <2>1. heap \in Seq(DOMAIN tree) /\ heap # <<>>
    BY DEF IInv, Typed, walk_files_recursive
  <2>2. Len(heap) \in Nat \ {0}
    BY <2>1
  <2> QED
    BY <2>1, <2>2 DEF Last, Front
<1>3. heap' \in Seq(DOMAIN tree) /\ file' \in Seq(Records)
  <2>1. CASE node.kind = "file" /\ heap' = Front(heap) /\ file' = node.records
    BY <1>2, <2>1, TreesAssumption DEF IInv, Typed
  <2>2. CASE /\ node.kind = "dir" /\ file' = <<>>
             /\ \E entries \in SetToSeqs(node.entries) : heap' = Front(heap) \o entries
    <3>1. PICK entries \in SetToSeqs(node.entries) : heap' = Front(heap) \o entries
      BY <2>2
    <3>2. IsFiniteSet(node.entries) /\ node.entries \subseteq DOMAIN tree
      BY <1>2, <2>2, TreesAssumption DEF IInv, Typed
    <3>3. Cardinality(node.entries) \in Nat
      BY <3>2, FS_CardinalityType
    <3>4. entries \in [1..Cardinality(node.entries) -> node.entries]
      BY DEF SetToSeqs
    <3>5. entries \in Seq(DOMAIN tree)
      BY <3>2, <3>3, <3>4
    <3> QED
      BY <1>2, <2>2, <3>1, <3>5
  <2>3. CASE (heap' = Front(heap) \/ heap' = <<>>) /\ file' = <<>>
    <3>1. <<>> \in Seq(DOMAIN tree) /\ <<>> \in Seq(Records)
      OBVIOUS
    <3> QED
      BY <1>2, <2>3, <3>1, Zenon
  <2>4. \/ node.kind = "file" /\ heap' = Front(heap) /\ file' = node.records
        \/ /\ node.kind = "dir" /\ file' = <<>>
           /\ \E entries \in SetToSeqs(node.entries) : heap' = Front(heap) \o entries
        \/ (heap' = Front(heap) \/ heap' = <<>>) /\ file' = <<>>
    BY Zenon DEF walk_files_recursive
  <2> QED
    BY <2>1, <2>2, <2>3, <2>4
<1>4. Typed' /\ Listed'
  BY <1>1, <1>3 DEF IInv, Typed, Listed, pending, Upto
<1> QED
  BY <1>1, <1>4, SameTasks DEF IInv

LEMMA ReadStep == ASSUME IInv, records_from_file PROVE IInv'
<1>1. UNCHANGED <<program, tree, phase, admins, missed, heap, tasks, flattened, addresses>>
  BY DEF records_from_file
<1>2. /\ file' \in Seq(Records) /\ records' \in Seq(Records)
      /\ \A k \in 1..Len(records) : records'[k] = records[k]
      /\ Len(records') \in {Len(records), Len(records) + 1}
  BY DEF IInv, Typed, records_from_file
<1>3. Typed' /\ Listed'
  BY <1>1, <1>2 DEF IInv, Typed, Listed, records_from_file, Pulled
<1>4. Upto(Len(tasks)) \in 0..Len(records) /\ Upto(flattened) \in 0..Len(records)
  BY UptoBound DEF IInv, Typed
<1>5. Chunked' /\ Bounded'
  <2>1. pending < ChunkSize /\ in_progress < NumCpus
    BY DEF records_from_file, Pulled
  <2>2. pending' \in 0..ChunkSize
    BY <1>1, <1>2, <1>4, <2>1, ChunkAssumption DEF pending, IInv, Typed, Upto
  <2>3. \A i \in 1..Len(tasks) :
           tasks[i].first = Upto(i - 1) + 1 /\ tasks[i].last \in tasks[i].first..Len(records')
    <3> TAKE i \in 1..Len(tasks)
    <3>1. tasks[i] \in Task
      BY DEF IInv, Typed
    <3>2. tasks[i].first = Upto(i - 1) + 1 /\ tasks[i].last \in tasks[i].first..Len(records)
      BY DEF IInv, Chunked
    <3>3. Len(records) \in Nat /\ tasks[i].first \in Nat
      BY <3>1 DEF IInv, Typed, Task
    <3> QED
      BY <1>2, <3>2, <3>3
  <2> QED
    BY <1>1, <2>1, <2>2, <2>3 DEF IInv, Chunked, Bounded, Upto, in_progress
<1>6. Inserted'
  <2>1. \A k \in 1..Upto(flattened) : records'[k] = records[k]
    BY <1>2, <1>4 DEF IInv, Typed
  <2>2. Whole(addresses, 1, Upto(flattened), records', program, admins)
    BY <2>1, StillWhole DEF IInv, Inserted
  <2> QED
    BY <1>1, <2>2 DEF Inserted, Upto
<1>7. Converted'
  <2> SUFFICES ASSUME NEW i \in 1..Len(tasks), tasks[i].state = "done"
               PROVE  Whole(tasks[i].docs, tasks[i].first, tasks[i].last, records', program, admins)
    BY <1>1 DEF Converted
  <2>1. tasks[i] \in Task
    BY DEF IInv, Typed
  <2>2. Upto(i - 1) \in Nat
    BY UptoType DEF IInv, Typed
  <2>3. tasks[i].first \in Nat \ {0} /\ tasks[i].last \in 0..Len(records)
    <3>1. tasks[i].first = Upto(i - 1) + 1 /\ tasks[i].last \in tasks[i].first..Len(records)
      BY DEF IInv, Chunked
    <3>2. Len(records) \in Nat
      BY DEF IInv, Typed
    <3> QED
      BY <2>1, <2>2, <3>1, <3>2 DEF Task
  <2>4. Whole(tasks[i].docs, tasks[i].first, tasks[i].last, records, program, admins)
    BY DEF IInv, Converted
  <2> QED
    <3>1. \A k \in tasks[i].first..tasks[i].last : records'[k] = records[k]
      <4>1. Len(records) \in Nat
        BY DEF IInv, Typed
      <4> QED
        BY <1>2, <2>3, <4>1
    <3> QED
      BY <2>4, <3>1, StillWhole
<1> QED
  BY <1>3, <1>5, <1>6, <1>7 DEF IInv

LEMMA SpawnStep == ASSUME IInv, spawn PROVE IInv'
<1>0. PICK n : n = Len(tasks)
  OBVIOUS
<1> DEFINE t == [first |-> Upto(n) + 1, last |-> Len(records), state |-> "running", docs |-> {}]
<1>1. /\ UNCHANGED <<program, tree, phase, admins, missed, heap, file, records, flattened, addresses>>
      /\ tasks' = Append(tasks, t) /\ phase = "import"
      /\ in_progress < NumCpus /\ pending > 0
  BY <1>0, ChunkAssumption DEF spawn
<1>2. n \in Nat /\ Len(records) \in Nat /\ Upto(n) \in 0..Len(records) /\ flattened \in 0..n
  BY <1>0, UptoBound DEF IInv, Typed
<1>3. t \in Task
  BY <1>2 DEF Task
<1>4. /\ tasks' \in Seq(Task) /\ Len(tasks') = n + 1 /\ tasks'[n + 1] = t
      /\ \A i \in 1..n : tasks'[i] = tasks[i]
  BY <1>0, <1>1, <1>3 DEF IInv, Typed
<1>5. \A i \in 0..n : Upto(i)' = Upto(i)
  BY <1>2, <1>4 DEF Upto
<1>6. Upto(n + 1)' = Len(records)
  BY <1>2, <1>4 DEF Upto
<1>7. Typed' /\ Listed'
  BY <1>0, <1>1, <1>2, <1>4 DEF IInv, Typed, Listed
<1>8. Chunked'
  <2>1. pending' = 0
    BY <1>0, <1>1, <1>2, <1>4, <1>6 DEF pending, Upto
  <2>2. ASSUME NEW i \in 1..(n + 1)
        PROVE  tasks'[i].first = Upto(i - 1)' + 1 /\ tasks'[i].last \in tasks'[i].first..Len(records)
    <3>1. CASE i = n + 1
      BY <1>0, <1>1, <1>2, <1>4, <1>5, <3>1 DEF pending
    <3>2. CASE i \in 1..n
      <4>1. Upto(i - 1)' = Upto(i - 1)
        BY <1>2, <1>5, <3>2
      <4> QED
        BY <1>0, <1>4, <3>2, <4>1 DEF IInv, Chunked
    <3> QED
      BY <1>2, <3>1, <3>2
  <2>3. ASSUME NEW i \in 0..(n + 1) PROVE Upto(n + 1)' - Upto(i)' <= (n + 1 - i) * ChunkSize
    <3>1. CASE i = n + 1
      BY <1>2, <1>6, <3>1, ChunkAssumption
    <3>2. CASE i \in 0..n
      <4>1. Upto(n) - Upto(i) <= (n - i) * ChunkSize
        BY <1>0, <3>2 DEF IInv, Chunked
      <4>2. Len(records) - Upto(n) <= ChunkSize
        BY <1>0, <1>2, ChunkAssumption DEF IInv, Chunked, pending
      <4>3. Upto(i) \in Nat
        BY <1>0, <3>2, UptoType DEF IInv, Typed
      <4>4. (n + 1 - i) * ChunkSize = (n - i) * ChunkSize + ChunkSize
        BY <1>2, <3>2, ChunkAssumption
      <4> QED
        BY <1>2, <1>5, <1>6, <3>2, <4>1, <4>2, <4>3, <4>4, ChunkAssumption
    <3> QED
      BY <1>2, <3>1, <3>2
  <2> QED
    BY <1>0, <1>1, <1>4, <2>1, <2>2, <2>3, ChunkAssumption DEF Chunked
<1>9. Converted' /\ Inserted'
  <2>2. Inserted'
    BY <1>1, <1>2, <1>5 DEF IInv, Inserted
  <2>3. ASSUME NEW i \in 1..(n + 1), tasks'[i].state = "done"
        PROVE  Whole(tasks'[i].docs, tasks'[i].first, tasks'[i].last, records, program, admins)
    <3>1. i \in 1..n
      BY <1>2, <1>4, <2>3
    <3>2. Whole(tasks[i].docs, tasks[i].first, tasks[i].last, records, program, admins)
      BY <1>0, <1>4, <2>3, <3>1 DEF IInv, Converted
    <3> QED
      BY <1>4, <3>1, <3>2
  <2> QED
    BY <1>1, <1>4, <2>2, <2>3 DEF Converted
<1>10. Bounded'
  BY <1>0, <1>1, <1>2, <1>4, <1>6, ChunkAssumption DEF Bounded, in_progress, pending, Upto
<1> QED
  BY <1>7, <1>8, <1>9, <1>10 DEF IInv

LEMMA ConvertStep == ASSUME IInv, NEW i \in DOMAIN tasks, into_addresses(i) PROVE IInv'
<1>1. UNCHANGED <<program, tree, phase, admins, missed, heap, file, records, flattened, addresses>>
  BY DEF into_addresses
<1>2. i \in 1..Len(tasks) /\ Len(tasks) \in Nat /\ tasks[i] \in Task
  BY DEF IInv, Typed
<1>3. \/ tasks' = [tasks EXCEPT ![i].state = "panicked"]
      \/ \E docs \in Conversions(tasks[i]) : tasks' = [tasks EXCEPT ![i].state = "done", ![i].docs = docs]
  BY DEF into_addresses
<1>4. \E u \in Task :
         /\ tasks' = [tasks EXCEPT ![i] = u]
         /\ u.first = tasks[i].first /\ u.last = tasks[i].last
         /\ u.state = "done" => u.docs \in Conversions(tasks[i])
  <2>1. CASE tasks' = [tasks EXCEPT ![i].state = "panicked"]
    <3> DEFINE u == [tasks[i] EXCEPT !.state = "panicked"]
    <3>1. u \in Task /\ u.first = tasks[i].first /\ u.last = tasks[i].last /\ u.state # "done"
      BY <1>2 DEF Task
    <3>2. tasks' = [tasks EXCEPT ![i] = u]
      BY <2>1
    <3> QED
      BY <3>1, <3>2
  <2>2. CASE \E docs \in Conversions(tasks[i]) :
                tasks' = [tasks EXCEPT ![i].state = "done", ![i].docs = docs]
    <3>1. PICK docs \in Conversions(tasks[i]) :
             tasks' = [tasks EXCEPT ![i].state = "done", ![i].docs = docs]
      BY <2>2
    <3> DEFINE u == [tasks[i] EXCEPT !.state = "done", !.docs = docs]
    <3>2. docs \subseteq [of : Nat, addr : Address]
      BY <1>2, Converts DEF IInv
    <3>3. u \in Task /\ u.first = tasks[i].first /\ u.last = tasks[i].last /\ u.docs = docs
      BY <1>2, <3>2 DEF Task
    <3>4. tasks' = [tasks EXCEPT ![i] = u]
      BY <1>2, <3>1 DEF IInv, Typed, Task
    <3> QED
      BY <3>3, <3>4
  <2> QED
    BY <1>3, <2>1, <2>2
<1>5. PICK u \in Task :
         /\ tasks' = [tasks EXCEPT ![i] = u]
         /\ u.first = tasks[i].first /\ u.last = tasks[i].last
         /\ u.state = "done" => u.docs \in Conversions(tasks[i])
  BY <1>4
<1>6. /\ tasks' \in Seq(Task) /\ Len(tasks') = Len(tasks) /\ tasks'[i] = u
       /\ \A j \in 1..Len(tasks) :
             /\ tasks'[j].first = tasks[j].first /\ tasks'[j].last = tasks[j].last
             /\ j # i => tasks'[j] = tasks[j]
  BY <1>2, <1>5 DEF IInv, Typed
<1>7. \A j \in 0..Len(tasks) : Upto(j)' = Upto(j)
  BY <1>2, <1>6 DEF Upto
<1>8. Typed' /\ Listed'
  BY <1>1, <1>2, <1>6 DEF IInv, Typed, Listed, into_addresses
<1>9. Chunked'
  <2>1. \A j \in 1..Len(tasks) : tasks'[j].first = Upto(j - 1)' + 1
    BY <1>2, <1>5, <1>6, <1>7 DEF IInv, Chunked
  <2>2. pending' = pending
    BY <1>1, <1>2, <1>5, <1>6, <1>7 DEF pending
  <2>3. \A j \in 1..Len(tasks) : tasks'[j].last \in tasks'[j].first..Len(records)
    BY <1>6 DEF IInv, Chunked
  <2>4. ASSUME NEW j \in 0..Len(tasks)
        PROVE  Upto(Len(tasks))' - Upto(j)' <= (Len(tasks) - j) * ChunkSize
    <3>1. Upto(Len(tasks)) - Upto(j) <= (Len(tasks) - j) * ChunkSize
      BY DEF IInv, Chunked
    <3>2. Upto(Len(tasks))' = Upto(Len(tasks))
      BY <1>2, <1>6 DEF Upto
    <3>3. Upto(j)' = Upto(j)
      BY <1>7
    <3> QED
      BY <3>1, <3>2, <3>3
  <2> QED
    BY <1>1, <1>6, <2>1, <2>2, <2>3, <2>4 DEF IInv, Chunked
<1>10. Bounded'
  BY <1>1, <1>2, <1>5, <1>6, <1>7 DEF IInv, Bounded, in_progress, pending
<1>11. Inserted'
  BY <1>1, <1>7 DEF IInv, Typed, Inserted
<1>12. Converted'
  <2> SUFFICES ASSUME NEW j \in 1..Len(tasks), tasks'[j].state = "done"
               PROVE  Whole(tasks'[j].docs, tasks'[j].first, tasks'[j].last, records, program, admins)
    BY <1>1, <1>6 DEF Converted
  <2>1. CASE j = i
    BY <1>2, <1>5, <1>6, <2>1, Converts DEF IInv
  <2>2. CASE j # i
    BY <1>5, <1>6, <2>2 DEF IInv, Converted
  <2> QED
    BY <2>1, <2>2
<1> QED
  BY <1>8, <1>9, <1>10, <1>11, <1>12 DEF IInv

LEMMA FlattenStep == ASSUME IInv, flatten PROVE IInv'
<1>0. PICK n : n = flattened
  OBVIOUS
<1> DEFINE t == tasks[n + 1]
<1>1. /\ UNCHANGED <<program, tree, phase, admins, missed, heap, file, records, tasks>>
      /\ phase = "import" /\ flattened < Len(tasks)
      /\ t.state = "done" /\ addresses' = addresses \cup t.docs
      /\ flattened' = n + 1
  BY <1>0 DEF flatten
<1>2. n \in Nat /\ Len(tasks) \in Nat /\ n + 1 \in 1..Len(tasks) /\ t \in Task
  BY <1>0, <1>1 DEF IInv, Typed
<1>3. t.first = Upto(n) + 1 /\ t.last \in t.first..Len(records) /\ Upto(n) \in Nat /\ t.last \in Nat
  <2>1. Upto(n) \in Nat
    BY <1>0, UptoType DEF IInv, Typed
  <2>2. t.first = Upto((n + 1) - 1) + 1 /\ t.last \in t.first..Len(records)
    BY <1>2 DEF IInv, Chunked
  <2>3. (n + 1) - 1 = n /\ t.last \in Nat
    BY <1>2 DEF Task
  <2> QED
    BY <2>1, <2>2, <2>3
<1>4. Upto(n + 1) = t.last /\ Upto(n + 1)' = t.last
  BY <1>1, <1>2 DEF Upto
<1>5. Inserted'
  <2> DEFINE Ok(k) == records[k].street /\ ~rejected(program, records[k])
  <2>1. /\ Whole(addresses, 1, Upto(n), records, program, admins)
        /\ Whole(t.docs, t.first, t.last, records, program, admins)
    BY <1>0, <1>1, <1>2 DEF IInv, Inserted, Converted
  <2>2. /\ {d.of : d \in addresses} = {k \in 1..Upto(n) : Ok(k)}
        /\ {d.of : d \in t.docs} = {k \in t.first..t.last : Ok(k)}
    BY <2>1 DEF Whole
  <2>3. \A k : k \in 1..t.last <=> k \in 1..Upto(n) \/ k \in t.first..t.last
    BY <1>3
  <2>4. \A k : ~(k \in 1..Upto(n) /\ k \in t.first..t.last)
    BY <1>3
  <2>5. {d.of : d \in addresses \cup t.docs} = {d.of : d \in addresses} \cup {d.of : d \in t.docs}
    OBVIOUS
  <2>6. {d.of : d \in addresses \cup t.docs} = {k \in 1..t.last : Ok(k)}
    <3> HIDE DEF Ok
    <3> QED
      BY <2>2, <2>3, <2>5
  <2>7. \A d, e \in addresses \cup t.docs : d.of = e.of => d = e
    BY <2>1, <2>2, <2>4 DEF Whole
  <2>8. Whole(addresses \cup t.docs, 1, t.last, records, program, admins)
    BY <2>1, <2>6, <2>7 DEF Whole
  <2> QED
    BY <1>1, <1>4, <2>8 DEF Inserted
<1>6. Typed' /\ Listed'
  BY <1>0, <1>1, <1>2 DEF IInv, Typed, Listed
<1>7. Chunked' /\ Converted'
  BY <1>1 DEF IInv, Chunked, Converted, Upto, pending
<1>8. Bounded'
  <2>1. flattened' = flattened + 1 /\ flattened \in Nat /\ NumCpus \in Nat /\ pending' = pending
    BY <1>0, <1>1, <1>2, ChunkAssumption DEF pending, Upto
  <2>2. in_progress' = in_progress - 1 /\ in_progress \in Nat
    BY <1>1, <1>2, <2>1 DEF in_progress
  <2> QED
    BY <2>1, <2>2 DEF IInv, Bounded
<1> QED
  BY <1>5, <1>6, <1>7, <1>8 DEF IInv

LEMMA EndStep == ASSUME IInv, join_panicked \/ publish \/ generate_index_fails PROVE IInv'
<1>1. UNCHANGED <<program, tree, admins, missed, heap, file, records, tasks, flattened, addresses>>
  BY DEF join_panicked, publish, generate_index_fails
<1>2. Typed' /\ Listed'
  BY <1>1 DEF IInv, Typed, Listed, join_panicked, publish, generate_index_fails, pending, Upto
<1> QED
  BY <1>1, <1>2, SameTasks DEF IInv

LEMMA Invariance == Spec => []IInv
<1>1. Init => IInv
  <2> SUFFICES ASSUME Init PROVE IInv
    OBVIOUS
  <2>1. Typed /\ Listed
    BY TreesAssumption DEF Init, Typed, Listed
  <2>2. Upto(0) = 0 /\ Len(tasks) = 0 /\ flattened = 0 /\ Len(records) = 0
    BY DEF Init, Upto
  <2>3. Chunked /\ Bounded
    BY <2>2, ChunkAssumption DEF Chunked, Bounded, pending, in_progress
  <2>4. Converted /\ Inserted
    BY <2>2 DEF Init, Converted, Inserted, Whole
  <2> QED
    BY <2>1, <2>3, <2>4 DEF IInv
<1>2. IInv /\ [Next]_vars => IInv'
  <2> SUFFICES ASSUME IInv, [Next]_vars PROVE IInv'
    OBVIOUS
  <2>1. CASE UNCHANGED vars
    <3>1. Typed' /\ Listed'
      BY <2>1 DEF vars, IInv, Typed, Listed, pending, Upto
    <3> QED
      BY <2>1, <3>1, SameTasks DEF vars, IInv
  <2>2. CASE list_documents \/ (\E a \in Admins : collect(a)) \/ listed \/ listing_breaks
             \/ import_addresses_from_input_path
    BY <2>2, ListingStep
  <2>3. CASE walk_files_recursive
    BY <2>3, WalkStep
  <2>4. CASE records_from_file
    BY <2>4, ReadStep
  <2>5. CASE spawn
    BY <2>5, SpawnStep
  <2>6. ASSUME NEW i \in DOMAIN tasks, into_addresses(i) PROVE IInv'
    BY <2>6, ConvertStep
  <2>7. CASE flatten
    BY <2>7, FlattenStep
  <2>8. CASE join_panicked \/ publish \/ generate_index_fails
    BY <2>8, EndStep
  <2> QED
    BY <2>1, <2>2, <2>3, <2>4, <2>5, <2>6, <2>7, <2>8 DEF Next, Advance
<1> QED
  BY <1>1, <1>2, PTL DEF Spec

-------------------------------------------------------------------------------
\* Whatever the files, the chunk size and the schedule of the tasks: chunks
\* follow each other without a gap (addr_reader.rs:57).
THEOREM Types == Spec => []TypeOK
<1>1. IInv => TypeOK
  <2> SUFFICES ASSUME IInv PROVE TypeOK
    OBVIOUS
  <2>1. DOMAIN tasks = 1..Len(tasks) /\ \A i \in 1..Len(tasks) : tasks[i] \in Task
    BY DEF IInv, Typed
  <2> QED
    BY <2>1 DEF IInv, Typed, Chunked, TypeOK, Task
<1> QED
  BY <1>1, Invariance, PTL

-------------------------------------------------------------------------------
\* Where the walk is with a path: it waits, or it is done and so are its entries.
Handled(p, C) ==
    \/ p \in ToSet(heap)
    \/ tree[p].kind = "dir" /\ tree[p].entries \subseteq C
    \/ tree[p].kind = "file" /\ Valid(p) \subseteq ToSet(file) \cup ToSet(records)
    \/ tree[p].kind \notin {"dir", "file"}

\* The walk has or will come to whatever it may reach, and to nothing else.
Walked ==
    /\ ToSet(heap) \subseteq Reachable
    /\ ToSet(records) \subseteq InFiles
    /\ \A r \in ToSet(file) : r.id # "invalid" => r \in InFiles
    /\ (\A p \in Reachable : tree[p].kind # "unreadable dir") =>
          \E C \in SUBSET DOMAIN tree : 1 \in C /\ \A p \in C : Handled(p, C)
    /\ phase = "published" => heap = <<>> /\ file = <<>>

LEMMA EntriesReachable ==
    ASSUME NEW p \in Reachable, tree[p].kind = "dir", tree[p].entries \subseteq DOMAIN tree
    PROVE  tree[p].entries \subseteq Reachable
BY DEF Reachable, Closed

\* An order of a set has all its elements.
LEMMA Permutes ==
    ASSUME NEW S, IsFiniteSet(S), NEW s \in SetToSeqs(S)
    PROVE  s \in Seq(S) /\ ToSet(s) = S
<1> DEFINE D == 1..Cardinality(S)
<1>1. Cardinality(S) \in Nat
  BY FS_CardinalityType
<1>2. s \in [D -> S] /\ \A i, j \in D : i # j => s[i] # s[j]
  BY DEF SetToSeqs
<1>3. s \in Injection(D, S)
  BY <1>2 DEF Injection, IsInjective
<1>4. Cardinality(D) = Cardinality(S)
  <2>1. 1 \in Int /\ Cardinality(S) \in Int
    BY <1>1
  <2>2. Cardinality(D) = IF 1 > Cardinality(S) THEN 0 ELSE Cardinality(S) - 1 + 1
    BY <2>1, FS_Interval
  <2> QED
    BY <1>1, <2>2
<1>5. s \in Surjection(D, S)
  <2> HIDE DEF D
  <2> QED
    BY <1>3, <1>4, FS_Injection
<1>6. \A x \in S : \E i \in D : s[i] = x
  BY <1>5 DEF Surjection
<1> QED
  BY <1>1, <1>2, <1>6 DEF ToSet

\* What a sequence is made of.
LEMMA Parts ==
    ASSUME NEW T, NEW s \in Seq(T), s # <<>>
    PROVE  /\ Last(s) \in ToSet(s) /\ Front(s) \in Seq(T)
           /\ ToSet(s) = ToSet(Front(s)) \cup {Last(s)}
           /\ Tail(s) \in Seq(T) /\ ToSet(s) = {Head(s)} \cup ToSet(Tail(s))
<1>1. Len(s) \in Nat \ {0} /\ DOMAIN s = 1..Len(s)
  OBVIOUS
<1>2. /\ Front(s) \in Seq(T) /\ Len(Front(s)) = Len(s) - 1
      /\ \A i \in 1..(Len(s) - 1) : Front(s)[i] = s[i]
  BY <1>1 DEF Front
<1>3. /\ Tail(s) \in Seq(T) /\ Len(Tail(s)) = Len(s) - 1 /\ Head(s) = s[1]
      /\ \A i \in 1..(Len(s) - 1) : Tail(s)[i] = s[i + 1]
  BY <1>1
<1>4. ToSet(s) = ToSet(Front(s)) \cup {Last(s)}
  BY <1>1, <1>2 DEF ToSet, Last
<1>5. ToSet(s) = {Head(s)} \cup ToSet(Tail(s))
  <2>1. \A i \in 1..Len(s) : i = 1 \/ (i - 1 \in 1..(Len(s) - 1) /\ s[i] = Tail(s)[i - 1])
    BY <1>1, <1>3
  <2>2. \A i \in 1..(Len(s) - 1) : i + 1 \in 1..Len(s)
    BY <1>1
  <2>3. DOMAIN Tail(s) = 1..(Len(s) - 1)
    BY <1>1, <1>3
  <2>4. ASSUME NEW x \in ToSet(s) PROVE x = Head(s) \/ x \in ToSet(Tail(s))
    <3>1. PICK i \in 1..Len(s) : x = s[i]
      BY <1>1 DEF ToSet
    <3> QED
      BY <1>3, <2>1, <2>3, <3>1 DEF ToSet
  <2>5. ASSUME NEW x \in ToSet(Tail(s)) PROVE x \in ToSet(s)
    BY <1>1, <1>3, <2>2, <2>3 DEF ToSet
  <2>6. Head(s) \in ToSet(s)
    BY <1>1, <1>3 DEF ToSet
  <2> QED
    BY <2>4, <2>5, <2>6
<1> QED
  BY <1>1, <1>2, <1>3, <1>4, <1>5 DEF ToSet, Last

LEMMA Concatenated ==
    ASSUME NEW T, NEW s \in Seq(T), NEW t \in Seq(T) PROVE ToSet(s \o t) = ToSet(s) \cup ToSet(t)
<1>1. /\ Len(s) \in Nat /\ Len(t) \in Nat /\ DOMAIN s = 1..Len(s) /\ DOMAIN t = 1..Len(t)
      /\ DOMAIN (s \o t) = 1..(Len(s) + Len(t))
      /\ \A i \in 1..(Len(s) + Len(t)) : (s \o t)[i] = IF i <= Len(s) THEN s[i] ELSE t[i - Len(s)]
  OBVIOUS
<1>2. ASSUME NEW x \in ToSet(s \o t) PROVE x \in ToSet(s) \cup ToSet(t)
  <2>1. PICK i \in 1..(Len(s) + Len(t)) : x = (s \o t)[i]
    BY <1>1 DEF ToSet
  <2>2. CASE i <= Len(s)
    BY <1>1, <2>1, <2>2 DEF ToSet
  <2>3. CASE ~(i <= Len(s))
    <3>1. i - Len(s) \in 1..Len(t)
      BY <1>1, <2>3
    <3> QED
      BY <1>1, <2>1, <2>3, <3>1 DEF ToSet
  <2> QED
    BY <2>2, <2>3
<1>3. ToSet(s) \subseteq ToSet(s \o t)
  BY <1>1 DEF ToSet
<1>4. ASSUME NEW x \in ToSet(t) PROVE x \in ToSet(s \o t)
  <2>1. PICK i \in 1..Len(t) : x = t[i]
    BY <1>1 DEF ToSet
  <2>2. i + Len(s) \in 1..(Len(s) + Len(t)) /\ ~(i + Len(s) <= Len(s)) /\ (i + Len(s)) - Len(s) = i
    BY <1>1
  <2> QED
    BY <1>1, <2>1, <2>2 DEF ToSet
<1> QED
  BY <1>2, <1>3, <1>4

LEMMA WalkedWalk == ASSUME Typed, Walked, walk_files_recursive PROVE Walked'
<1> DEFINE p == Last(heap)
           node == tree[p]
<1>1. /\ UNCHANGED <<tree, phase, records>> /\ phase = "import" /\ file = <<>> /\ heap # <<>>
      /\ heap \in Seq(DOMAIN tree) /\ tree \in Trees
  BY DEF walk_files_recursive, Pulled, Typed
<1>2. /\ p \in ToSet(heap) /\ Front(heap) \in Seq(DOMAIN tree)
      /\ ToSet(heap) = ToSet(Front(heap)) \cup {p}
  BY <1>1, Parts
<1>3. p \in Reachable /\ p \in DOMAIN tree
  BY <1>2 DEF Walked, Reachable
<1>4. Reachable' = Reachable /\ InFiles' = InFiles /\ \A q : Valid(q)' = Valid(q)
  BY <1>1 DEF Reachable, Closed, InFiles, Valid
<1>5. ToSet(<<>>) = {}
  BY DEF ToSet
<1>6. CASE node.kind = "file" /\ heap' = Front(heap) /\ file' = node.records
  <2>1. \A r \in ToSet(file') : r.id # "invalid" => r \in InFiles
    BY <1>3, <1>6 DEF InFiles, Valid
  <2>2. Valid(p) \subseteq ToSet(file')
    BY <1>6 DEF Valid
  <2>3. ASSUME NEW C \in SUBSET DOMAIN tree, NEW q \in C, Handled(q, C) PROVE Handled(q, C)'
    BY <1>1, <1>2, <1>4, <1>5, <1>6, <2>2, <2>3 DEF Handled
  <2> QED
    BY <1>1, <1>2, <1>4, <1>6, <2>1, <2>3 DEF Walked
<1>7. CASE /\ node.kind = "dir" /\ file' = <<>>
           /\ \E entries \in SetToSeqs(node.entries) : heap' = Front(heap) \o entries
  <2>1. PICK entries \in SetToSeqs(node.entries) : heap' = Front(heap) \o entries
    BY <1>7
  <2>2. IsFiniteSet(node.entries) /\ node.entries \subseteq DOMAIN tree
    BY <1>1, <1>3, <1>7, TreesAssumption
  <2>3. entries \in Seq(DOMAIN tree) /\ ToSet(entries) = node.entries
    <3>1. entries \in Seq(node.entries) /\ ToSet(entries) = node.entries
      BY <2>2, Permutes
    <3>2. entries \in [1..Len(entries) -> DOMAIN tree] /\ Len(entries) \in Nat
      BY <2>2, <3>1
    <3> QED
      BY <3>1, <3>2
  <2>4. ToSet(heap') = ToSet(Front(heap)) \cup node.entries
    BY <1>2, <2>1, <2>3, Concatenated
  <2>5. node.entries \subseteq Reachable
    BY <1>3, <1>7, <2>2, EntriesReachable
  <2>6. ASSUME NEW C \in SUBSET DOMAIN tree, 1 \in C, \A q \in C : Handled(q, C)
        PROVE  \E B \in SUBSET DOMAIN tree : 1 \in B /\ \A q \in B : Handled(q, B)'
    <3>0. PICK B : B = C \cup node.entries
      OBVIOUS
    <3>1. ASSUME NEW q \in B PROVE Handled(q, B)'
      <4>1. CASE q \in node.entries \/ q \in ToSet(Front(heap))
        BY <2>4, <4>1 DEF Handled
      <4>2. CASE q = p
        BY <1>1, <1>7, <3>0, <4>2 DEF Handled
      <4>3. CASE q \in C /\ q \notin ToSet(heap)
        BY <1>1, <1>4, <1>5, <1>7, <2>6, <3>0, <4>3 DEF Handled
      <4> QED
        BY <1>2, <3>0, <4>1, <4>2, <4>3
    <3> QED
      BY <2>2, <2>6, <3>0, <3>1
  <2>7. ToSet(heap') \subseteq Reachable
    BY <1>2, <2>4, <2>5 DEF Walked
  <2>8. (\A q \in Reachable : tree[q].kind # "unreadable dir") =>
           \E B \in SUBSET DOMAIN tree : 1 \in B /\ \A q \in B : Handled(q, B)'
    BY <2>6 DEF Walked
  <2> QED
    BY <1>1, <1>4, <1>5, <1>7, <2>7, <2>8 DEF Walked
<1>8. CASE node.kind = "unreadable file" /\ heap' = Front(heap) /\ file' = <<>>
  <2>1. ASSUME NEW C \in SUBSET DOMAIN tree, NEW q \in C, Handled(q, C) PROVE Handled(q, C)'
    BY <1>1, <1>2, <1>4, <1>8, <2>1 DEF Handled
  <2> QED
    BY <1>1, <1>2, <1>4, <1>5, <1>8, <2>1 DEF Walked
<1>9. CASE node.kind = "unreadable dir" /\ heap' = <<>> /\ file' = <<>>
  BY <1>1, <1>3, <1>4, <1>5, <1>9 DEF Walked
<1> QED
  BY <1>6, <1>7, <1>8, <1>9, Zenon DEF walk_files_recursive

LEMMA WalkedRead == ASSUME Typed, Walked, records_from_file PROVE Walked'
<1>1. /\ UNCHANGED <<tree, phase, heap>> /\ phase = "import" /\ file # <<>> /\ file' = Tail(file)
      /\ file \in Seq(Records) /\ records \in Seq(Records)
      /\ records' = IF Head(file).id = "invalid" THEN records ELSE Append(records, Head(file))
  BY DEF records_from_file, Pulled, Typed
<1>2. ToSet(file) = {Head(file)} \cup ToSet(file')
  BY <1>1, Parts
<1>3. ToSet(Append(records, Head(file))) = ToSet(records) \cup {Head(file)}
  <2>1. /\ Len(records) \in Nat /\ DOMAIN records = 1..Len(records)
        /\ DOMAIN Append(records, Head(file)) = 1..(Len(records) + 1)
        /\ \A i \in 1..Len(records) : Append(records, Head(file))[i] = records[i]
        /\ Append(records, Head(file))[Len(records) + 1] = Head(file)
    BY <1>1
  <2>2. \A i \in 1..(Len(records) + 1) : i \in 1..Len(records) \/ i = Len(records) + 1
    BY <2>1
  <2> QED
    BY <2>1, <2>2 DEF ToSet
<1>4. \A r \in ToSet(file) : r.id # "invalid" => r \in ToSet(file') \cup ToSet(records')
  BY <1>1, <1>2, <1>3
<1>5. Reachable' = Reachable /\ InFiles' = InFiles /\ \A q : Valid(q)' = Valid(q)
  BY <1>1 DEF Reachable, Closed, InFiles, Valid
<1>6. ToSet(records) \subseteq ToSet(records') /\ ToSet(records') \subseteq InFiles
  BY <1>1, <1>2, <1>3 DEF Walked
<1>7. \A q : Valid(q) \subseteq ToSet(file) \cup ToSet(records) => Valid(q) \subseteq ToSet(file') \cup ToSet(records')
  BY <1>4, <1>6 DEF Valid
<1>8. ASSUME NEW C \in SUBSET DOMAIN tree, NEW q \in C, Handled(q, C) PROVE Handled(q, C)'
  BY <1>1, <1>5, <1>7, <1>8 DEF Handled
<1> QED
  BY <1>1, <1>2, <1>5, <1>6, <1>8 DEF Walked

LEMMA WalkInvariance == Spec => []Walked
<1>1. Init => Walked
  <2> SUFFICES ASSUME Init PROVE Walked
    OBVIOUS
  <2>1. /\ tree \in Trees /\ heap = <<1>> /\ file = <<>> /\ records = <<>> /\ phase = "start"
        /\ 1 \in DOMAIN tree
    BY TreesAssumption DEF Init
  <2>2. ToSet(heap) = {1} /\ ToSet(file) = {} /\ ToSet(records) = {}
    BY <2>1 DEF ToSet
  <2>3. 1 \in Reachable
    BY <2>1 DEF Reachable, Closed
  <2>4. {1} \in SUBSET DOMAIN tree /\ 1 \in {1} /\ \A p \in {1} : Handled(p, {1})
    BY <2>1, <2>2 DEF Handled
  <2> QED
    BY <2>1, <2>2, <2>3, <2>4 DEF Walked
<1>2. IInv /\ Walked /\ [Next]_vars => Walked'
  <2> SUFFICES ASSUME IInv, Walked, [Next]_vars PROVE Walked'
    OBVIOUS
  <2>1. CASE UNCHANGED <<tree, heap, file, records>> /\ (phase' = "published" => heap = <<>> /\ file = <<>>)
    <3>1. Reachable' = Reachable /\ InFiles' = InFiles
      BY <2>1 DEF Reachable, Closed, InFiles, Valid
    <3>2. ASSUME NEW C \in SUBSET DOMAIN tree, NEW p \in C PROVE Handled(p, C)' = Handled(p, C)
      BY <2>1 DEF Handled, Valid
    <3> QED
      BY <2>1, <3>1, <3>2 DEF Walked
  <2>2. CASE walk_files_recursive
    BY <2>2, WalkedWalk DEF IInv
  <2>3. CASE records_from_file
    BY <2>3, WalkedRead DEF IInv
  <2>4. CASE \/ list_documents \/ (\E a \in Admins : collect(a)) \/ listed \/ listing_breaks
             \/ import_addresses_from_input_path \/ generate_index_fails \/ join_panicked
    BY <2>1, <2>4 DEF list_documents, collect, listed, listing_breaks, import_addresses_from_input_path,
       generate_index_fails, join_panicked
  <2>5. CASE spawn \/ (\E i \in DOMAIN tasks : into_addresses(i)) \/ flatten
    BY <2>1, <2>5 DEF spawn, into_addresses, flatten
  <2>6. CASE publish
    BY <2>1, <2>6 DEF publish, InputOver
  <2>7. CASE UNCHANGED vars
    BY <2>1, <2>7 DEF vars, Walked
  <2> QED
    BY <2>2, <2>3, <2>4, <2>5, <2>6, <2>7 DEF Next, Advance
<1> QED
  BY <1>1, <1>2, Invariance, PTL DEF Spec

\* An index that is published holds one address for each accepted record of the
\* files below the input, whatever the order in which they are visited, as long
\* as every directory can be listed, and nothing else (addr_reader.rs:57-92).
THEOREM NothingLostAlways == Spec => []NothingLost
<1>1. IInv /\ Walked => NothingLost
  <2> SUFFICES ASSUME IInv, Walked, phase = "published" PROVE NothingLost
    BY DEF NothingLost
  <2>1. pending = 0 /\ flattened = Len(tasks)
    BY DEF IInv, Listed
  <2>2. Upto(flattened) = Len(records)
    BY <2>1, UptoType DEF IInv, Typed, pending
  <2>3. DOMAIN records = 1..Len(records)
    BY DEF IInv, Typed
  <2>4. ASSUME \A p \in Reachable : tree[p].kind # "unreadable dir" PROVE ToSet(records) = InFiles
    <3>1. ToSet(heap) = {} /\ ToSet(file) = {}
      <4>1. heap = <<>> /\ file = <<>>
        BY DEF Walked
      <4>2. ToSet(<<>>) = {}
        BY DEF ToSet
      <4> QED
        BY <4>1, <4>2
    <3>2. PICK C \in SUBSET DOMAIN tree : 1 \in C /\ \A p \in C : Handled(p, C)
      BY <2>4 DEF Walked
    <3>3. Closed(C)
      BY <3>1, <3>2 DEF Closed, Handled
    <3>4. Reachable \subseteq C
      BY <3>3 DEF Reachable
    <3>5. \A p \in Reachable : tree[p].kind = "file" => Valid(p) \subseteq ToSet(records)
      BY <3>1, <3>2, <3>4 DEF Handled
    <3>6. InFiles \subseteq ToSet(records)
      BY <3>5 DEF InFiles
    <3> QED
      BY <3>6 DEF Walked
  <2> QED
    BY <2>2, <2>3, <2>4 DEF IInv, Inserted, Whole, Accepted, NothingLost
<1> QED
  BY <1>1, Invariance, WalkInvariance, PTL

\* The addresses of an index are attached to the admins of one listing, which
\* lacks at most what shards left out that failed, or to none (bano2mimir.rs:99).
THEOREM AdminsOrNoneAlways == Spec => []AdminsOrNone
<1>1. IInv => AdminsOrNone
  <2> SUFFICES ASSUME IInv, phase = "published" PROVE AdminsOrNone
    BY DEF AdminsOrNone
  <2>1. admins \subseteq Admins /\ (admins = {} \/ Admins \ missed \subseteq admins) /\ missed \subseteq Admins
    BY AdminsAssumption DEF IInv, Typed, Listed
  <2>2. CASE admins = {}
    BY <2>2 DEF IInv, Inserted, Whole, AdminsOrNone
  <2>3. CASE Admins \ missed \subseteq admins
    <3>1. admins = (Admins \ missed) \cup (admins \cap missed) /\ admins \cap missed \in SUBSET missed
      BY <2>1, <2>3
    <3>2. admins \in {{}} \cup {(Admins \ missed) \cup others : others \in SUBSET missed}
      BY <3>1
    <3> QED
      BY <3>2 DEF IInv, Inserted, Whole, AdminsOrNone
  <2> QED
    BY <2>1, <2>2, <2>3
<1> QED
  BY <1>1, Invariance, PTL

\* What is in memory is bounded by the chunk size and the number of tasks,
\* whatever the size of the files (addr_reader.rs:88).
THEOREM MemoryBoundedAlways == Spec => []MemoryBounded
<1>1. IInv => MemoryBounded
  <2> SUFFICES ASSUME IInv PROVE MemoryBounded
    OBVIOUS
  <2>1. /\ flattened \in Nat /\ Len(tasks) \in Nat /\ Len(records) \in Nat
        /\ Upto(flattened) \in Nat /\ Upto(Len(tasks)) \in Nat /\ flattened <= Len(tasks)
    BY UptoType DEF IInv, Typed
  <2>2. in_progress \in Nat /\ in_progress <= NumCpus /\ (pending > 0 => in_progress < NumCpus)
    BY <2>1 DEF IInv, Bounded, in_progress
  <2>3. Upto(Len(tasks)) - Upto(flattened) <= in_progress * ChunkSize
    BY <2>1 DEF IInv, Typed, Chunked, in_progress
  <2>4. pending \in 0..ChunkSize /\ Len(records) = Upto(Len(tasks)) + pending
    BY <2>1 DEF IInv, Chunked, pending
  <2>5. CASE pending = 0
    <3>1. in_progress * ChunkSize <= NumCpus * ChunkSize
      BY <2>2, ChunkAssumption
    <3>2. in_progress * ChunkSize \in Nat /\ NumCpus * ChunkSize \in Nat
      BY <2>2, ChunkAssumption
    <3> QED
      BY <2>1, <2>2, <2>3, <2>4, <2>5, <3>1, <3>2, ChunkAssumption DEF MemoryBounded
  <2>6. CASE pending > 0
    <3>1. (in_progress + 1) * ChunkSize <= NumCpus * ChunkSize
      BY <2>2, <2>6, ChunkAssumption
    <3>2. (in_progress + 1) * ChunkSize = in_progress * ChunkSize + ChunkSize
      BY <2>2, ChunkAssumption
    <3>3. in_progress * ChunkSize \in Nat /\ NumCpus * ChunkSize \in Nat
      BY <2>2, ChunkAssumption
    <3>4. Len(records) - Upto(flattened) <= in_progress * ChunkSize + ChunkSize
      BY <2>1, <2>3, <2>4, <3>3, ChunkAssumption
    <3>5. Len(records) - Upto(flattened) <= NumCpus * ChunkSize
      <4> DEFINE some == in_progress * ChunkSize
                 all == NumCpus * ChunkSize
                 left == Len(records) - Upto(flattened)
      <4>1. some \in Nat /\ all \in Nat /\ left \in Int /\ some + ChunkSize <= all /\ left <= some + ChunkSize
        BY <2>1, <3>1, <3>2, <3>3, <3>4
      <4> HIDE DEF some, all, left
      <4>2. left <= all
        BY <4>1, ChunkAssumption
      <4> QED
        BY <4>2 DEF left, all
    <3> QED
      BY <2>2, <3>5 DEF MemoryBounded
  <2> QED
    BY <2>4, <2>5, <2>6
<1> QED
  BY <1>1, Invariance, PTL

\* Addresses go out in the order in which their records were read, whatever task
\* ends first (addr_reader.rs:91).
THEOREM InOrderAlways == Spec => InOrder
<1>1. IInv /\ [Next]_vars => [\A d \in addresses' \ addresses : \A e \in addresses : e.of < d.of]_vars
  <2> SUFFICES ASSUME IInv, Next, NEW d \in addresses' \ addresses, NEW e \in addresses PROVE e.of < d.of
    OBVIOUS
  <2>1. flatten
    BY DEF Next, Advance, list_documents, collect, listed, listing_breaks,
       import_addresses_from_input_path, walk_files_recursive, records_from_file, spawn,
       into_addresses, join_panicked, publish, generate_index_fails
  <2> DEFINE t == tasks[flattened + 1]
  <2>2. d \in t.docs /\ t.state = "done" /\ flattened + 1 \in 1..Len(tasks)
    BY <2>1 DEF flatten, IInv, Typed
  <2>3. d.of \in t.first..t.last /\ t.first = Upto(flattened) + 1
    BY <2>2 DEF IInv, Typed, Converted, Whole, Chunked
  <2>4. e.of \in 1..Upto(flattened)
    BY DEF IInv, Inserted, Whole
  <2>5. Upto(flattened) \in Nat /\ t.last \in Nat
    <3>1. t \in Task /\ flattened \in 0..Len(tasks)
      BY <2>2 DEF IInv, Typed
    <3> QED
      BY <3>1, UptoType DEF IInv, Task
  <2> QED
    BY <2>3, <2>4, <2>5
<1> QED
  BY <1>1, Invariance, PTL DEF Spec, InOrder
-------------------------------------------------------------------------------
\* What is left of a list of admins are those of other levels.
LEMMA Replaced ==
    ASSUME NEW S, NEW list \in Seq(S), NEW a
    PROVE  \E rest \in Seq({b \in S : b.level # a.level}) : replace_level(list, a) = Append(rest, a)
<1> DEFINE K == {b \in S : b.level # a.level}
           V == Seq(K)
           Keep(rest, b) == IF b.level # a.level THEN Append(rest, b) ELSE rest
           G == [x \in V \X S |-> Keep(x[1], x[2])]
           D == SUBSET (DOMAIN list)
           Solves(g) == g = [s \in D |-> IF s = {} THEN <<>> ELSE Keep(g[s \ {Max(s)}], list[Max(s)])]
           iter == CHOOSE g : Solves(g)
<1>1. <<>> \in V
  OBVIOUS
<1>2. ASSUME NEW rest \in V, NEW b \in S PROVE Keep(rest, b) \in V
  OBVIOUS
<1>3. replace_level(list, a) = Append(iter[DOMAIN list], a)
  BY DEF replace_level, FoldLeft, MapThenFoldSet
<1>4. Solves(iter)
  <2>1. G \in [V \X S -> V]
    BY <1>2
  <2>2. PICK g \in [SUBSET (DOMAIN list) -> V] : Folded(list, <<>>, G, g)
    <3> HIDE DEF V, G
    <3> QED
      BY <1>1, <2>1, Foldable
  <2>3. ASSUME NEW s \in D
        PROVE  g[s] = IF s = {} THEN <<>> ELSE Keep(g[s \ {Max(s)}], list[Max(s)])
    <3>1. CASE s # {}
      <4>1. Max(s) \in s
        BY <3>1, MaxIn
      <4>2. list[Max(s)] \in S /\ g[s \ {Max(s)}] \in V
        BY <4>1
      <4>3. \A v \in V, b \in S : G[v, b] = Keep(v, b)
        OBVIOUS
      <4>4. G[g[s \ {Max(s)}], list[Max(s)]] = Keep(g[s \ {Max(s)}], list[Max(s)])
        BY <4>2, <4>3
      <4> QED
        BY <2>2, <3>1, <4>4 DEF Folded
    <3> QED
      BY <2>2, <3>1 DEF Folded
  <2>4. Solves(g)
    BY <2>2, <2>3
  <2> HIDE DEF Solves
  <2> QED
    BY <2>4
<1>5. iter[{}] = <<>>
  BY <1>4
<1> HIDE DEF Keep
<1>6. ASSUME NEW i \in 1..Len(list) PROVE iter[1..i] = Keep(iter[1..(i - 1)], list[i])
  <2>1. i - 1 \in Nat /\ (i - 1) + 1 = i
    OBVIOUS
  <2>2. Max(1..i) = i /\ (1..i) \ {i} = 1..(i - 1)
    BY <2>1, Prefixed
  <2>3. 1..i \in D /\ 1..i # {}
    <3>1. i \in 1..i /\ 1..i \subseteq 1..Len(list) /\ DOMAIN list = 1..Len(list)
      OBVIOUS
    <3> QED
      BY <3>1
  <2>4. iter[1..i] = Keep(iter[(1..i) \ {Max(1..i)}], list[Max(1..i)])
    BY <1>4, <2>3
  <2> QED
    BY <2>2, <2>4
<1> HIDE DEF iter, V
<1> DEFINE Done == {i \in 0..Len(list) : iter[1..i] \in V}
<1>7. 0 \in Done
  <2>1. 1..0 = {} /\ 0 \in 0..Len(list)
    OBVIOUS
  <2> QED
    BY <1>1, <1>5, <2>1
<1>8. ASSUME NEW i \in 0..Len(list), i < Len(list), i \in Done PROVE i + 1 \in Done
  <2>1. i + 1 \in 1..Len(list) /\ (i + 1) - 1 = i /\ list[i + 1] \in S
    BY <1>8
  <2> QED
    BY <1>2, <1>6, <1>8, <2>1
<1>9. iter[1..Len(list)] \in V
  <2>1. Len(list) \in 0..Len(list) /\ Len(list) \in Nat
    OBVIOUS
  <2>2. \A i \in 0..Len(list) : i \in Done
    <3> HIDE DEF Done
    <3> QED
      BY <1>7, <1>8, <2>1, UpTo
  <2> QED
    BY <2>1, <2>2
<1>10. DOMAIN list = 1..Len(list)
  OBVIOUS
<1> QED
  BY <1>3, <1>9, <1>10 DEF V

\* A lookup answers with admins of the geofinder.
LEMMA LookedUp ==
    ASSUME NEW A \in SUBSET Admins, NEW p, NEW g \in lookups(A, p)
    PROVE  g \in Seq(A)
<1> DEFINE finder == AdminGeoFinder(A)
           C == candidates(finder, p)
<1>1. finder \in SUBSET A
  BY DEF AdminGeoFinder
<1>2. Hierarchical(finder)
  <2>1. IsFiniteSet(finder)
    BY <1>1, AdminsAssumption, FS_Subset
  <2> QED
    BY <1>1, <2>1, AdminsAssumption DEF Hierarchical
<1>3. C \in SUBSET finder
  BY DEF candidates
<1>4. PICK res \in AdminsAt(finder, p) : g \in sort_by_zone_type(res)
  BY DEF lookups
<1>5. PICK order \in sort_by_zone_type(C) : res = get(finder, p, order)
  BY <1>4 DEF AdminsAt
<1> HIDE DEF finder, C
<1>6. order \in Seq(finder)
  BY <1>2, <1>3, <1>5, Orders
<1>7. PICK acc \in [0..Len(order) -> Testing(finder)] : get(finder, p, order) = acc[Len(order)].res
  BY <1>2, <1>6, Tests
<1>8. res \in SUBSET finder
  <2>1. Len(order) \in 0..Len(order)
    BY <1>6
  <2> QED
    BY <1>5, <1>7, <2>1 DEF Testing
<1>9. g \in Seq(finder)
  BY <1>2, <1>4, <1>8, Orders
<1> QED
  BY <1>1, <1>9

\* The place that a test finds a list of admins at is the last, if only that one passes.
LEMMA AtLast ==
    ASSUME NEW K, NEW rest \in Seq(K), NEW a, is_city(a), a.level = 8,
           \A b \in K : ~ is_city(b) /\ b.level # 8
    PROVE  \E n \in DOMAIN Append(rest, a) :
               /\ Append(rest, a)[n] = a /\ (CHOOSE i \in {n} : \A j \in {n} : i <= j) = n
               /\ {i \in DOMAIN Append(rest, a) : is_city(Append(rest, a)[i])} = {n}
               /\ {i \in DOMAIN Append(rest, a) : Append(rest, a)[i].level = 8} = {n}
<1> DEFINE list == Append(rest, a)
           n == Len(rest) + 1
<1>1. /\ DOMAIN list = 1..n /\ n \in DOMAIN list /\ list[n] = a
      /\ \A i \in DOMAIN list : i # n => list[i] \in K
  OBVIOUS
<1>2. {i \in DOMAIN list : is_city(list[i])} = {n} /\ {i \in DOMAIN list : list[i].level = 8} = {n}
  BY <1>1
<1>3. (CHOOSE i \in {n} : \A j \in {n} : i <= j) = n
  <2>1. n <= n
    OBVIOUS
  <2> QED
    BY <2>1
<1> QED
  BY <1>1, <1>2, <1>3

\* An address whose INSEE code is known is in that city.
LEMMA InCity ==
    ASSUME NEW A \in SUBSET Admins, NEW rec \in Records, NEW a \in from_insee(A, rec.insee),
           NEW doc \in bano_into_addr(rec, A)
    PROVE  /\ doc.label = {a.id} /\ doc.weight = {a.id}
           /\ from_place(doc).city = {a.id} /\ from_place(doc).citycode = a.insee
<1> DEFINE Of(s) == address(rec, s, format_label(s, {rec.city}), weight_of_level_8(s))
<1>1. from_insee(A, rec.insee) = {a} /\ is_city(a) /\ a.level = 8 /\ a \in Admins
  BY AdminsAssumption DEF from_insee
<1>2. PICK g \in lookups(A, rec.at) : doc = Of(replace_level(g, a))
  <2>1. PICK s \in {replace_level(g, b) : g \in lookups(A, rec.at), b \in from_insee(A, rec.insee)} : doc = Of(s)
    BY <1>1 DEF bano_into_addr
  <2> HIDE DEF Of
  <2> QED
    BY <1>1, <2>1
<1> DEFINE s == replace_level(g, a)
<1>3. g \in Seq(A)
  BY LookedUp
<1>4. PICK rest \in Seq({b \in A : b.level # a.level}) : s = Append(rest, a)
  BY <1>3, Replaced
<1>5. PICK n \in DOMAIN s :
          /\ s[n] = a /\ (CHOOSE i \in {n} : \A j \in {n} : i <= j) = n
          /\ {i \in DOMAIN s : is_city(s[i])} = {n} /\ {i \in DOMAIN s : s[i].level = 8} = {n}
  <2>1. \A b \in {b \in A : b.level # a.level} : ~ is_city(b) /\ b.level # 8
    BY <1>1, AdminsAssumption
  <2> QED
    BY <1>1, <1>4, <2>1, AtLast
<1> HIDE DEF s
<1>6. city_of(s) = {a}
  <2> DEFINE at == {i \in DOMAIN s : is_city(s[i])}
  <2>1. city_of(s) = IF at = {} THEN {} ELSE {s[CHOOSE i \in at : \A j \in at : i <= j]}
    BY DEF city_of, find
  <2>2. at = {n}
    BY <1>5
  <2> HIDE DEF at
  <2> QED
    BY <1>5, <2>1, <2>2
<1>7. weight_of_level_8(s) = {a.id}
  <2> DEFINE at == {i \in DOMAIN s : is_level_8(s[i])}
  <2>1. find(s, is_level_8) = IF at = {} THEN {} ELSE {s[CHOOSE i \in at : \A j \in at : i <= j]}
    BY DEF find
  <2>2. at = {n}
    BY <1>5 DEF is_level_8
  <2> HIDE DEF at
  <2>3. find(s, is_level_8) = {a}
    BY <1>5, <2>1, <2>2
  <2> QED
    BY <2>3 DEF weight_of_level_8
<1>8. doc = address(rec, s, {a.id}, {a.id})
  <2>1. format_label(s, {rec.city}) = {a.id}
    BY <1>6 DEF format_label
  <2> QED
    BY <1>2, <1>7, <2>1 DEF s
<1>9. doc.type = "addr" /\ doc.admins = s /\ doc.label = {a.id} /\ doc.weight = {a.id}
  BY <1>8 DEF address
<1>10. from_place(doc) = from_addr(doc)
  BY <1>9 DEF from_place
<1>11. from_addr(doc).city = get_city_name(s) /\ from_addr(doc).citycode = get_citycode(s)
  BY <1>9 DEF from_addr, properties
<1>12. from_addr(doc).city = {a.id} /\ from_addr(doc).citycode = a.insee
  BY <1>6, <1>11 DEF get_city_name, get_citycode
<1> QED
  BY <1>9, <1>10, <1>12

\* "If we have an admin corresponding to the INSEE, we know that's the good one"
\* (bano.rs:83), whatever else the geofinder answers: label, weight, city and code
\* of an address are those of this admin.
THEOREM InseeCityAlways == Spec => []InseeCity
<1>1. IInv => InseeCity
  <2> SUFFICES ASSUME IInv, NEW d \in addresses, NEW a \in from_insee(admins, records[d.of].insee),
                      program = "bano2mimir"
               PROVE  /\ d.addr.label = {a.id} /\ d.addr.weight = {a.id}
                      /\ from_place(d.addr).city = {a.id} /\ from_place(d.addr).citycode = a.insee
    BY DEF InseeCity
  <2>1. admins \in SUBSET Admins /\ flattened \in 0..Len(tasks) /\ Len(records) \in Nat
    BY DEF IInv, Typed
  <2>2. d.of \in 1..Upto(flattened) /\ d.addr \in into_addr(program, records[d.of], admins)
    BY DEF IInv, Inserted, Whole
  <2>3. Upto(flattened) \in 0..Len(records)
    BY <2>1, UptoBound DEF IInv
  <2>4. records[d.of] \in Records
    <3>1. d.of \in 1..Len(records)
      BY <2>1, <2>2, <2>3
    <3> QED
      BY <3>1 DEF IInv, Typed
  <2>5. d.addr \in bano_into_addr(records[d.of], admins)
    BY <2>2 DEF into_addr
  <2> DEFINE rec == records[d.of]
             doc == d.addr
             A == admins
  <2>6. A \in SUBSET Admins /\ rec \in Records /\ a \in from_insee(A, rec.insee) /\ doc \in bano_into_addr(rec, A)
    BY <2>1, <2>4, <2>5
  <2> HIDE DEF rec, doc, A
  <2>7. /\ doc.label = {a.id} /\ doc.weight = {a.id}
        /\ from_place(doc).city = {a.id} /\ from_place(doc).citycode = a.insee
    BY <2>6, InCity
  <2> QED
    BY <2>7 DEF doc
<1> QED
  BY <1>1, Invariance, PTL
===============================================================================
