----------------------------- MODULE AddressImport -----------------------------
(***************************************************************************)
(* The import of addresses (bin/bano2mimir.rs, bin/openaddresses2mimir.rs, *)
(* addr_reader.rs, utils/fs.rs).  The admins are listed; the files below a *)
(* path are then read one after the other into a stream of records, which  *)
(* is cut into chunks.  A chunk is converted by a task of its own, with at *)
(* most NumCpus of them under way, and the addresses of the chunks come    *)
(* out in the order of the chunks.  Nothing is read while no task may      *)
(* start: the stream is pulled by the insertion.                           *)
(*                                                                         *)
(* Paths are numbered.  A path is a "dir" with its entries, a "file" with  *)
(* its records, an "unreadable dir", an "unreadable file" (which may also  *)
(* be one of another extension), or "missing".                             *)
(* A record is described in Addresses; an unparsable one has id "invalid". *)
(***************************************************************************)
EXTENDS Addresses

CONSTANTS
    Programs,   \* among "bano2mimir" and "openaddresses2mimir"
    Admins,     \* what the index of admins holds
    Failing,    \* those on shards that may fail to answer a listing
    Records,    \* what files hold, with the unparsable ones
    Trees,      \* functions from paths to what is there, 1 being the input
    ChunkSize,  \* 1000 in the code
    NumCpus     \* num_cpus::get()

ASSUME ChunkAssumption == ChunkSize \in Nat \ {0} /\ NumCpus \in Nat \ {0}
ASSUME TreesAssumption ==
    \A t \in Trees :
        /\ 1 \in DOMAIN t
        /\ \A p \in DOMAIN t :
              /\ t[p].kind = "file" => t[p].records \in Seq(Records)
              /\ t[p].kind = "dir" => IsFiniteSet(t[p].entries) /\ t[p].entries \subseteq DOMAIN t
\* Admins have ids of their own, and parents of greater zone types.  A level 8 is a
\* city, and the INSEE code of a record is at most one city's.
ASSUME AdminsAssumption ==
    /\ IsFiniteSet(Admins) /\ Failing \subseteq Admins
    /\ \A a \in Admins : a.zone_type \in Nat /\ (a.level = 8 <=> is_city(a))
    /\ \A a, b \in Admins : a.id = b.id => a = b
    /\ \A a, b \in Admins : b.id \in a.parent_id => a.zone_type < b.zone_type
    /\ \A r \in Records : \A a \in from_insee(Admins, r.insee) :
          is_city(a) /\ from_insee(Admins, r.insee) = {a}

VARIABLES
    program, tree,  \* among Programs and Trees
    phase,          \* "start", "admins", "opened", "import", "published", "failed", "panicked"
    admins,         \* what into_addr looks the admins up in
    missed,         \* history: what shards that failed left out of the listing
    heap,           \* paths to visit
    file,           \* what is left of the file that is open
    records,        \* the valid records read so far
    tasks,          \* one for each chunk: [first, last, state, docs]
    flattened,      \* number of tasks whose addresses went out
    addresses       \* documents inserted, with their position in records

vars == <<program, tree, phase, admins, missed, heap, file, records, tasks, flattened, addresses>>

\* The number of records of the first n chunks.
Upto(n) == IF n = 0 THEN 0 ELSE tasks[n].last
pending == Len(records) - Upto(Len(tasks))
in_progress == Len(tasks) - flattened

\* The stream is pulled for another chunk.
Pulled == phase = "import" /\ in_progress < NumCpus /\ pending < ChunkSize
InputOver == heap = <<>> /\ file = <<>>

Init ==
    /\ program \in Programs /\ tree \in Trees
    /\ phase = "start"
    /\ admins = {} /\ missed = {}
    /\ heap = <<1>> /\ file = <<>>
    /\ records = <<>> /\ tasks = <<>> /\ flattened = 0
    /\ addresses = {}

\* A listing that cannot be opened, even because there is no such index, stands
\* for no admins.
list_documents ==
    /\ phase = "start"
    /\ \/ phase' = "admins" /\ missed' \in SUBSET Failing
       \/ phase' = "opened" /\ UNCHANGED missed
    /\ UNCHANGED <<program, tree, admins, heap, file, records, tasks, flattened, addresses>>

collect(a) ==
    /\ phase = "admins"
    /\ a \in Admins \ admins
    /\ admins' = admins \cup {a}
    /\ UNCHANGED <<program, tree, phase, missed, heap, file, records, tasks, flattened, addresses>>

\* The listing ends well, be it without what some shards left out: nobody is
\* told (ListDocuments).
listed ==
    /\ phase = "admins" /\ Admins \ missed \subseteq admins
    /\ phase' = "opened"
    /\ UNCHANGED <<program, tree, admins, missed, heap, file, records, tasks, flattened, addresses>>

\* Mutant: a listing that breaks off is as good as one that ends.
listing_cut ==
    /\ phase = "admins"
    /\ phase' = "opened"
    /\ UNCHANGED <<program, tree, admins, missed, heap, file, records, tasks, flattened, addresses>>

\* A listing that breaks off panics.
listing_breaks ==
    /\ phase = "admins"
    /\ phase' = "panicked"
    /\ UNCHANGED <<program, tree, admins, missed, heap, file, records, tasks, flattened, addresses>>

import_addresses_from_input_path ==
    /\ phase = "opened"
    /\ phase' = IF tree[1].kind = "missing" THEN "failed" ELSE "import"
    /\ UNCHANGED <<program, tree, admins, missed, heap, file, records, tasks, flattened, addresses>>

\* A file that cannot be read is skipped; a directory that cannot be read ends
\* the walk.  Both are only logged.
walk_files_recursive ==
    /\ Pulled /\ file = <<>> /\ heap # <<>>
    /\ LET node == tree[Last(heap)]
       IN  \/ node.kind = "file" /\ heap' = Front(heap) /\ file' = node.records
           \/ /\ node.kind = "dir"
              /\ \E entries \in SetToSeqs(node.entries) : heap' = Front(heap) \o entries
              /\ file' = <<>>
           \/ node.kind = "unreadable file" /\ heap' = Front(heap) /\ file' = <<>>
           \/ node.kind = "unreadable dir" /\ heap' = <<>> /\ file' = <<>>
    /\ UNCHANGED <<program, tree, phase, admins, missed, records, tasks, flattened, addresses>>

records_from_file ==
    /\ Pulled /\ file # <<>>
    /\ file' = Tail(file)
    /\ records' = IF Head(file).id = "invalid" THEN records ELSE Append(records, Head(file))
    /\ UNCHANGED <<program, tree, phase, admins, missed, heap, tasks, flattened, addresses>>

\* Mutant: only full chunks are handed to a task.
spawn_full ==
    /\ phase = "import" /\ in_progress < NumCpus
    /\ pending = ChunkSize
    /\ tasks' = Append(tasks, [first |-> Upto(Len(tasks)) + 1, last |-> Len(records),
                               state |-> "running", docs |-> {}])
    /\ UNCHANGED <<program, tree, phase, admins, missed, heap, file, records, flattened, addresses>>

\* A chunk that is full, or the last one, is handed to a task.
spawn ==
    /\ phase = "import" /\ in_progress < NumCpus
    /\ pending = ChunkSize \/ (InputOver /\ pending > 0)
    /\ tasks' = Append(tasks, [first |-> Upto(Len(tasks)) + 1, last |-> Len(records),
                               state |-> "running", docs |-> {}])
    /\ UNCHANGED <<program, tree, phase, admins, missed, heap, file, records, flattened, addresses>>

\* Records without an id or a street name are only logged.
Accepted(k) == records[k].street /\ ~rejected(program, records[k])

\* Mutant: a record that is rejected takes the rest of its chunk with it.
kept_before_rejected(t) ==
    {k \in t.first..t.last : \A j \in t.first..k : Accepted(j)}

\* The positions of the records of a chunk that give an address.
kept(t) == {k \in t.first..t.last : Accepted(k)}

\* The addresses a chunk may become: one for each record that is kept.
Conversions(t) ==
    LET choices == UNION {{[of |-> k, addr |-> a] : a \in into_addr(program, records[k], admins)} : k \in kept(t)}
    IN  {docs \in SUBSET choices : \A k \in kept(t) : \E d \in docs : {e \in docs : e.of = k} = {d}}

\* The task of a chunk ends, or panics.
into_addresses(i) ==
    /\ phase = "import"
    /\ tasks[i].state = "running"
    /\ \/ /\ \E k \in tasks[i].first..tasks[i].last : panics(program, records[k])
          /\ tasks' = [tasks EXCEPT ![i].state = "panicked"]
       \/ /\ \A k \in tasks[i].first..tasks[i].last : ~panics(program, records[k])
          /\ \E docs \in Conversions(tasks[i]) :
                tasks' = [tasks EXCEPT ![i].state = "done", ![i].docs = docs]
    /\ UNCHANGED <<program, tree, phase, admins, missed, heap, file, records, flattened, addresses>>

\* Mutant: chunks come out as soon as they are converted.
flatten_unordered ==
    /\ phase = "import" /\ flattened < Len(tasks)
    /\ \E i \in DOMAIN tasks :
          /\ tasks[i].state = "done" /\ tasks[i].docs \cap addresses = {}
          /\ addresses' = addresses \cup tasks[i].docs
    /\ flattened' = flattened + 1
    /\ UNCHANGED <<program, tree, phase, admins, missed, heap, file, records, tasks>>

\* The addresses of the first chunk that is not out yet go to the insertion.
flatten ==
    /\ phase = "import" /\ flattened < Len(tasks)
    /\ tasks[flattened + 1].state = "done"
    /\ addresses' = addresses \cup tasks[flattened + 1].docs
    /\ flattened' = flattened + 1
    /\ UNCHANGED <<program, tree, phase, admins, missed, heap, file, records, tasks>>

\* "tokio task panicked": so does the program.
join_panicked ==
    /\ phase = "import" /\ flattened < Len(tasks)
    /\ tasks[flattened + 1].state = "panicked"
    /\ phase' = "panicked"
    /\ UNCHANGED <<program, tree, admins, missed, heap, file, records, tasks, flattened, addresses>>

\* The stream is over: the index replaces the one that is served.
publish ==
    /\ phase = "import" /\ InputOver /\ pending = 0 /\ flattened = Len(tasks)
    /\ phase' = "published"
    /\ UNCHANGED <<program, tree, admins, missed, heap, file, records, tasks, flattened, addresses>>

\* Elasticsearch refuses to create the index, a bulk request or the publication.
generate_index_fails ==
    /\ phase = "import"
    /\ phase' = "failed"
    /\ UNCHANGED <<program, tree, admins, missed, heap, file, records, tasks, flattened, addresses>>

Advance ==
    \/ list_documents
    \/ \E a \in Admins : collect(a)
    \/ listed
    \/ import_addresses_from_input_path
    \/ walk_files_recursive
    \/ records_from_file
    \/ spawn
    \/ \E i \in DOMAIN tasks : into_addresses(i)
    \/ flatten
    \/ join_panicked
    \/ publish

Next == Advance \/ listing_breaks \/ generate_index_fails

Spec == Init /\ [][Next]_vars

\* The program takes its next step, whether or not Elasticsearch fails.
FairSpec == Spec /\ WF_vars(Advance)
-------------------------------------------------------------------------------
\* Types; chunks follow each other, and none is empty (addr_reader.rs:57).
TypeOK ==
    /\ program \in Programs /\ tree \in Trees
    /\ phase \in {"start", "admins", "opened", "import", "published", "failed", "panicked"}
    /\ admins \subseteq Admins /\ missed \subseteq Failing
    /\ heap \in Seq(DOMAIN tree) /\ file \in Seq(Records) /\ records \in Seq(Records)
    /\ flattened \in 0..Len(tasks)
    /\ pending \in 0..ChunkSize
    /\ \A i \in DOMAIN tasks :
          /\ tasks[i].state \in {"running", "done", "panicked"}
          /\ tasks[i].first = Upto(i - 1) + 1
          /\ tasks[i].last \in tasks[i].first..Len(records)

\* The paths below the input, which are in every set that holds the input and,
\* with a directory, its entries.
Closed(S) == 1 \in S /\ \A p \in S : tree[p].kind = "dir" => tree[p].entries \subseteq S
Reachable == {p \in DOMAIN tree : \A S \in SUBSET DOMAIN tree : Closed(S) => p \in S}
Valid(p) == {r \in ToSet(tree[p].records) : r.id # "invalid"}
InFiles == UNION {Valid(p) : p \in {q \in Reachable : tree[q].kind = "file"}}

\* What is published has one address for each record that is accepted, and
\* nothing else: a rejected record takes no other with it, no chunk is left out
\* at the end, and no panic of a task goes unnoticed (addr_reader.rs:57-92).
\* Those records are all that the files below the input hold, whatever the order
\* of the walk and however many files cannot be read, as long as every directory
\* can ("all files from this directory or subdirectory are yielded", fs.rs:7).
NothingLost ==
    phase = "published" =>
        /\ {d.of : d \in addresses} = {k \in DOMAIN records : Accepted(k)}
        /\ \A d, e \in addresses : d.of = e.of => d = e
        /\ (\A p \in Reachable : tree[p].kind # "unreadable dir") => ToSet(records) = InFiles

\* However the tasks are scheduled, addresses go out in the order of the files
\* (addr_reader.rs:91).  Of two documents with one id it is then always the same
\* that stays, as long as one bulk request is under way at a time.
InOrder ==
    [][\A d \in addresses' \ addresses : \A e \in addresses : e.of < d.of]_vars

\* "This line will spawn at most num_cpus::get() tasks": what is read and not
\* inserted yet is bounded, however slow the insertion (addr_reader.rs:88).
MemoryBounded ==
    /\ in_progress <= NumCpus
    /\ Len(records) - Upto(flattened) <= NumCpus * ChunkSize

\* All addresses are attached to the admins of one listing or, when their index
\* cannot be listed, to none at all, never to those of a listing that broke off:
\* only what failing shards left out may be missing (bano2mimir.rs:99).
AdminsOrNone ==
    phase = "published" =>
        \E listing \in {{}} \cup {(Admins \ missed) \cup others : others \in SUBSET missed} :
            \A d \in addresses : d.addr \in into_addr(program, records[d.of], listing)

\* "If we have an admin corresponding to the INSEE, we know that's the good one"
\* (bano.rs:83): label, weight, and the city and code of the answer, each looked
\* up on its own, are all of that admin, where a level 8 is a city.
InseeCity ==
    \A d \in addresses : \A a \in from_insee(admins, records[d.of].insee) :
        program = "bano2mimir" =>
            /\ d.addr.label = {a.id}
            /\ d.addr.weight = {a.id}
            /\ from_place(d.addr).city = {a.id}
            /\ from_place(d.addr).citycode = a.insee

\* The import ends, one way or the other.
ImportEnds == <>(phase \in {"published", "failed", "panicked"})
===============================================================================
