# mimirsbrunn in TLA+

mimirsbrunn is a geocoder on top of Elasticsearch. Importers (`osm2mimir`,
`bano2mimir`, `openaddresses2mimir`, `cosmogony2mimir`, `ntfs2mimir`,
`poi2mimir`) read a source file, enrich its objects with administrative regions
and addresses that earlier importers have indexed, fill a new index and publish
it under aliases; `ctlmimir` installs the index templates; `bragi` is the HTTP
server that searches behind the aliases. The processes share nothing but
Elasticsearch.

This directory holds TLA+ modules for the parts of that system where order,
failure and concurrency matter, configurations that check them with TLC, and
proofs for TLAPS. In what follows `M` is `libs/mimir/src` and `ES` is
`M/adapters/secondary/elasticsearch`.

## 1. The system

| Component | State | Operations | Interacts with | What is hard | What makes it correct |
|---|---|---|---|---|---|
| Names (`M/domain/model/configuration.rs`) | none | build `munin_{type}_{dataset}_{date}` and its aliases, take a name apart | every other part | a separator that datasets may contain | names tell containers apart |
| Index publication (`M/domain/ports/primary/generate_index.rs`, `ES/storage.rs`, `ES/internal.rs`) | in Elasticsearch: indices, aliases, what is refreshed; in an importer: how far it is, the previous indices | create, fill, refresh, list previous indices, update three aliases, delete, force-merge, look up | importers of the same container, bragi | a dozen requests without transaction; failure between any two; a second importer | what is served is complete, unique and never absent |
| Bulk insertion (`ES/internal.rs` bulk, bulk_block) | chunks in flight, statistics | read a chunk, send, fold the answers | the publication | concurrent requests in any order, partial failure inside a 200 answer | Ok means stored; statistics are exact |
| Listing (`ES/internal.rs` list_documents, `ES/list.rs`) | a point in time, the continuation token | open, next page, close | importers that need admins, a publication that replaces the index | paging boundary, expiry, index replaced between two pages, shards that do not answer a page | documents of one snapshot, each once, all of them unless shards failed |
| OSM store (`src/osm_reader/osm_store.rs`) | a buffer, a SQLite table | insert, contains_key, get, for_each_filter | PBF reader, street and POI importers | flush half-done, errors only logged | behaves as a map |
| Streets import (`src/osm_reader/street.rs`) | the store, the list of streets | relations first, then ways with a name, then admins with a name | OSM store, admin geofinder | a way in a relation must not be indexed twice; several passes | each street once per admin |
| Admin geofinder (`src/admin_geofinder.rs`) | r-tree of admins, map by id | insert, get, get_admins_if | every importer | hierarchy with missing or cyclic parents | one admin per zone type, closed under parents |
| Admin import (`src/admin.rs`, `src/bin/cosmogony2mimir.rs`) | the zones | into_admin, index_cosmogony | publication | ids put together by a rule, zones that cannot be read in the middle of a chain of parents | the parents of an admin are served with it |
| Addresses (`src/addr_reader.rs`, `src/bano.rs`, `src/openaddresses.rs`, `src/utils/fs.rs`, `src/bin/bano2mimir.rs`) | a walk through directories, chunks, tasks in progress | walk, read, convert in worker tasks, insert | admins listed at the start, geofinder, publication | concurrent tasks whose results keep their order, tasks that panic, unreadable files and directories | one address for each record that is not rejected, in order |
| Stops (`src/stops.rs`), POIs (`src/pois.rs`, `src/osm_reader/poi.rs`) | documents made so far | weigh, attach to admins, search an address | admins listed, streets and addresses searched one by one | indices of earlier imports that are missing, or replaced meanwhile | attached to what is served |
| Templates (`M/adapters/primary/templates.rs`, `src/bin/ctlmimir.rs`) | templates in Elasticsearch | import components, then indices | publication | order, partial failure | components before the indices that use them |
| bragi (`M/adapters/primary/bragi/*`, `src/bragi/server.rs`) | metrics, response cache headers | autocomplete, explain, reverse, features, status, metrics | the aliases | second search after an empty first one, timeouts, rejections | every request gets one answer of the right status |
| Settings (`src/settings/*`, `libs/common/src/config.rs`) | none | merge default, mode, override, environment and arguments | start of every binary | precedence | the last layer wins |
| Query DSL (`M/adapters/primary/common/dsl.rs`, `filters.rs`) | none | build the queries of a search | bragi | nested `bool` queries, each filter alone and together | what is found is what the filters say |
| Labels and places (`src/labels.rs`, `libs/places/*`, `M/adapters/primary/common/geocoding.rs`) | none | derive label, weight, zip codes from admins; answer in GeocodeJSON | importers, bragi | each looks for the city on its own | they agree on the city |

## 2. Plan

Done:

1. Names and index publication, with proofs (this is where data is lost or
   taken offline).
2. Bulk insertion and listing, the two streams between importers and
   Elasticsearch; proofs for listing.
3. The OSM store against the abstract map; proof of the refinement.
4. An abstract catalogue, what publication promises to whoever searches;
   `IndexPublication` implements it, by a proof.
5. bragi over the catalogue: routes, handlers, statuses, what an answer may
   contain while publications are under way.
6. The import of streets with its passes as actions, over the geofinder, whose
   lookups are operators checked over bounded hierarchies.
7. The import of addresses from directories of files to the publication, with
   its pool of tasks and its proofs.
8. The programs that fill indices beside each other, each with what others
   publish: admins (`Cosmogony`), addresses, streets, points of interest
   (`Pois`), stops (`Stops`), templates; a proof about the templates.
9. The query DSL, with what Elasticsearch selects by a query, and the answers
   made of what it finds.
10. Proofs about bragi over the catalogue, about both streams of the client
    (with the statistics of bulk insertion), about the lookups of the geofinder,
    the import of streets, what programs take from each other's indices, and what
    a search finds.

Left, in this order:

11. Relations with relations as members in the street import, and cycles of
    parents in the geofinder.
12. The layers of the settings, if they are ever merged by code of this
    repository.

## 3. The modules and the code

`IndexNames` — names as sequences of pieces: formatting is concatenation,
`split_index_name` picks pieces two and three by position, `Matches` is the
wildcard `{base}_*`. What strings do with `_` is kept, the characters are not.

`IndexPublication` — a *run* is one `generate_index`. `phase` is where it is in
`init_container`, `insert_documents`, `publish`; `previous` is the local list
`previous_indices`; `todo` and `inflight` are the chunks of its stream. The
Elasticsearch side is `indices`, `aliases`, `docs` (stored) and `visible`
(refreshed). Each request is one action: it takes effect and answers (`Reply`),
takes effect while the answer is lost, or does not take effect (`Fails`). A run
that gets an error stops where it is, as the code does with `?` or a panic;
nothing is undone. A crash is no different from a failed request. Bulk requests
of a run that stopped may execute later, and create the index anew when another
run has deleted it. `update_alias` is atomic, and refused when one of its
indices is gone. A run creates one index, so the run stands for the creation
time in the name, which is assumed to tell indices apart (nanoseconds).

`Catalogue` — the abstract specification of publication, for importers that take
turns: `served` is which run's index is searched through which alias. `switch`
puts the index of a run in one alias in place of the others of its container,
in the order dataset, document type, root; `delete` takes a container's other
indices away once all aliases are switched; a run may stop after any step.
`ImplementsCatalogue` in `IndexPublication` is the refinement: `served` is
`aliases`, `publishing` the active runs, `ended` those that ended; bulk requests,
refreshes and requests that fail are stuttering steps.

`BulkInsertion` — what the "insert" phase of `IndexPublication` abstracts:
operations instead of chunks, which item of a request is performed,
`InsertStats`, the update stream that may follow. The position of an operation
in its stream tells operations apart. Every request may have items rejected,
fail, or take effect while its answer is lost. `window` is
insertion_concurrent_requests. `refused` is history.

`ListDocuments` — the `try_unfold` stream with its `State`, the PIT and the
alias underneath. `publish`, `drop` and `expire` are the environment:
another importer, the consumer, Elasticsearch's keep_alive. The code reads
neither the status of a page nor its `_shards`: a page that lacks the hits of
some of `Shards` is taken for a full one, and the listing goes on below its last
hit or, when it is empty, ends well. `missed` is history: the shards that have
left a page unanswered.

`ObjectMap` — the abstract map (`ObjWrapper::Map`) filled by the PBF reader.

`OsmStore` — `ObjWrapper::Db`: buffer, committed rows, rows of a transaction
left open. `faults` says which SQLite calls may fail in an import.
`ImplementsMap` is the refinement: the map is the union of the three, and may
lose objects (`lossy`) when rows are refused or transactions rolled back.

`BragiRequests` — what bragi decides without Elasticsearch: which rejections a
request meets on its route, the status `report_invalid` makes of them, and the
aliases each endpoint asks for. A request is a record of what the code tests.

`Bragi` — the handlers over the `Catalogue`. One step is one request to
Elasticsearch, which sees the aliases of one moment: `search_prefix`, then
`search_fuzzy` when nothing was found, `cluster_health`, then `cluster_version`.
A hit is the documents of one run; which of them match, and which shards answer
in time, is left open. Requests to Elasticsearch fail or time out at any time,
and the handler then rejects, or panics when the error cannot be read; a client
may close its connection. `begun`, `reachable` and `answered` are history. Two
assumptions about what is not in this repository: requests are answered by
Elasticsearch nodes that agree on the aliases, so that who asks later sees no
older state (`NeverOlder`), and all importers of one container use the same
visibility (`CatalogueAssumption`): a private publication of a public container
takes it out of the aliases of its type. `RequestsAssumption` says what the
routes deserialize.

`Geofinder` — the lookups of `AdminGeoFinder`. Geometry is abstracted to where a
point is with respect to each admin (outside its envelope, in it, on its edge,
inside), which is what the code asks of it. `get_admins_if` gives branches of
the hierarchy to streets, `get` a flat list to everything else. The r-tree gives
candidates in any order, and sorting by zone type keeps it within a type: both
take the order as an argument, and `AdminsIf` and `AdminsAt` are what they may
answer. Parents are of a greater zone type than their children, as cosmogony
gives them: the loop of `get_admins_if` would not end on a cycle.

`lookups` is `get` for the points of importers, admins without a boundary left
out.

`Streets` — `collect` lists the admins and reads the file into the store;
`visit_relation` and `visit_way` are one call of the two closures of
`for_each_filter`; `end_of_relations` and `end_of_ways` are what follows the
passes. The store is taken as the map that `OsmStore` implements, and the order
of a visit is free. Of a street's id the kind, the OSM id and the suffix are
kept; the order of branches that the suffix depends on is that of their first
admin's id (`Ord for Admin`). The default coordinate is {}.

`Places` — what labels.rs derives from the admins of a place and what
geocoding.rs answers about it. A label is the city in it, a weight the city it
comes from: the properties are about which admin that is.

`Addresses` — a record of BANO or OpenAddresses becomes an address, is rejected
or makes the conversion panic. What `get` may answer and which admin has an
INSEE code twice are left open, so that a record has a set of addresses.

`AddressImport` — both programs. `heap` is the stack of `walk_files_recursive`,
`records` what the stream has given; `tasks` are the chunks that were spawned,
`pending` the records of the one that is being filled, `flattened` how many
chunks have come out of `buffered`. `Pulled` is what makes the stream lazy. A
directory gives its entries in any order; one that cannot be listed ends the
walk, as the error ends the stream and is filtered out. A listing of admins
that ends well may lack those of `Failing`, which are on shards that may not
answer; `missed` is history. The publication is one step, or fails at any time.

`Cosmogony`, `Pois`, `Stops` — what the programs make of their input: ids and
parents of admins, the type and the address of a point of interest, weights and
lines of a stop area, in which stop points are told apart by their ids. Names,
properties and coordinates are left out.

`Importers` — the programs of `src/bin`, started in the order of a schedule and
beside each other. A run's `phase` is where it is: `list_admins` before all
others, `search_address` once for each point of interest, `generate_index` at
the end; osm2mimir goes on from streets to points of interest. Each reads
`served`, what is behind the aliases, at its moment. What the other modules
show is taken for granted here: a publication replaces an index at once, and
`Listings` are what `ListDocuments` leaves possible, what was served when the
listing was opened without any of the admins of `FailingIds`. `fresh` is history:
which of the indices that were there when a program started are still served,
and nothing once it met a fault, which a partial listing is; it gives the
properties their condition. A panic ends a program like an error does, and an
answer to a search that cannot be read is one (poi.rs:313). poi2mimir leaves out
a point of interest of an unknown type before it searches its address
(`Unrecognized`). ctlmimir imports one template at a time, in any
order of each directory, and Elasticsearch refuses an index template whose
components are missing.

`QueryDsl` — the JSON of dsl.rs as records, with `Selects`, what Elasticsearch
selects by them (external: the semantics of `bool`, of which an optional
`should` is the delicate part). The queries of bragi are nested three deep at
most, so `Selects` has three levels, each over the one below, and no recursion.
Boosts and weights only order an answer and
are left out. Text is abstracted to the fields that match the words.

`Search` — the handlers with these queries, the indices of `BragiRequests` and
the answers of `Places`, over documents that stay as they are: the prefix
search, the fuzzy one when it finds nothing, the reverse search. A shard that
is late leaves hits out. Its requests (`Searches`) name no dataset, as which
indices those stand for is the matter of `Bragi`.

Definitions named `...` after a comment `Mutant:` are wrong variants of the
definition that follows. They document what each property catches: put in the
place of the right definition, each makes a property fail (PROJECT.json,
"mutants").

## 4. What is checked

| Run | Bounds | Shows |
|---|---|---|
| publication_serial | 3 runs of one container (2 public, 1 private), 2 chunks, window 2 | importers that take turns serve complete and unique indices without interruption, and a publication that succeeds cleans up, wherever earlier ones stopped |
| publication_concurrent | 2 overlapping runs of one container, 1 of another dataset of the same type | runs of other containers are never touched; no run gets stuck |
| publication_overlap (violation) | as publication_serial, overlapping, 1 chunk | two importers of one container can leave it in no alias (section 6) |
| publication_nested (violation) | datasets `fr` and `fr_ne` | publishing one deletes the other (section 6) |
| bulk_insertion | up to 5 documents and 2 updates on 2 ids, chunks of 2, window 1 or 2, every rejection and lost answer | Ok means stored and exact statistics, updates after insertions, the last document of an id wins within a request, and altogether when the window is 1; the call ends |
| list_documents | 2 publications, any subset of 5 tiebreakers (one gap) on 2 shards that may not answer a page, pages of 2 | a listing that ends well is the snapshot, but for documents of shards that failed, once each; the PIT does not stay open |
| osm_store | 6 objects on 5 ids, buffer of 2, every set of write faults | implements the map; no object visited twice; the buffer keeps its bound |
| bragi_requests | 1 client with any of 24 requests, right and wrong, or 2 clients that search or ask for documents in one dataset; addresses, streets, admins, stops and POIs served, POIs of two datasets being published | no container in two versions, no alias missed, who asks after another's answer never sees an older version, right statuses, every request ends |
| streets | a town of two overlapping cities and two suburbs with every file of three ways (12 sorts each: names, validity, nodes missing or not) and at most one relation; every hierarchy of four admins of five sorts around a point | ways of a relation are not indexed again, others once per name and city in any order, ids differ, coordinates lie in the admins; both lookups of the geofinder keep their promise |
| address_import | both programs, nine trees of at most seven records with every kind of record and path, chunks of 2, 2 tasks at once, six admins, one on a shard that may fail | one address for each record that is accepted, of all the files, in their order; admins of one listing or none; label, weight and answers agree on the city of the INSEE code; the import ends |
| search | one or two documents of 21 kinds, 12 requests with each filter alone and several together, answers of one document | what is found is what the filters and the comments about them say, all of it, and nothing else |
| importers | four schedules of two to four programs, two at once, two files of admins, one zone of them on a shard that may fail, every step failing or not | what was imported without a fault is attached to what is served; stops never without admins, but for those that shards left out; parents are served; templates are all there; every program ends |

`publication_serial` also checks `ImplementsCatalogue`.

Why the bounds are enough. Three runs give a served index, a run that failed
after or before aliasing, and one that replaces both; a fourth adds another
leftover of the same kinds. Two chunks and a window of two give a partial load,
a chunk in flight and one not sent. Five operations in chunks of two give full
chunks, a last shorter one and three requests for two places. Five tiebreakers
with pages of two give empty, short, exact and several pages. Five ids with a
buffer of two give two flushes, so that a flush meets the transaction the one
before left open. For bragi, one client is enough where a property is about one
answer, two where it compares answers; one container published anew switches its
three aliases in three steps, and a second container beside it shares two of
them. Three ways give a pair that merges and one that does not, in any of six
orders; four admins give two hierarchies of two, or one with a branch, which is
what the shortcuts of the geofinder may confuse. Seven records in chunks of two
give four chunks, the last one short, and more of them than tasks; the trees
have a file that cannot be read between two that can, a directory in a
directory, and one that cannot be listed. Two shards, one above the other as a
tiebreaker begins with the number of the shard, give documents that are skipped
at the start, in the middle and at the end of a listing. A query treats each document by
itself: one document shows which it selects, two which of them the limit
leaves. Schedules have the documented order, and a second import of each type
that others depend on while these are at work. The proofs below lift these
bounds where they go.

Fairness. `FairSpec` gives weak fairness to each run's own requests without
`Fails`: an importer runs until it ends, and Elasticsearch answers or the
client's timeout does; `force_merge` alone sets no timeout, and for it the
assumption is that Elasticsearch answers. `BulkInsertion` has weak fairness of
the next-state relation, for the same reason. In `ListDocuments` the consumer
reads on and Elasticsearch lets a point in time expire once its keep_alive has
passed; fairness on dropping the stream or on failures is not assumed. In
`Bragi` each handler goes on: every request it makes has a `request_timeout`.
In `AddressImport` the program takes its next step (`Advance`), and no fairness
is assumed of a listing that breaks off or a publication that fails. In
`Importers` programs of the schedule are started, and some program takes its
next step. `Search` and `Streets` are checked for safety only: their steps are
as many as documents and objects.

Deadlock checking is off in all configurations: runs, calls and listings end.

## 5. What is proved

`IndexPublicationProofs`, for any runs, containers, chunks and window:

- `TypeCorrect`, for overlapping runs too.
- `SerialInvariant`: `SerialInv` is inductive for runs that take turns
  (`Exclusion`). It says where a run's chunks are in each phase and that an
  index is visible all or nothing (`Loaded`); that what is aliased is complete,
  in a late phase, under its own aliases (`Aliased`); which aliases a publishing
  run has switched (`Switched`); and that whatever else its container has in an
  alias, and every index of it that is not a leftover of a failed run's bulk
  request, is in `previous` (`Listed`). The last one is why the properties are
  not inductive alone: that removing `previous` from an alias leaves one index
  only depends on what get_previous_indices saw, several steps earlier, still
  being all there is.
- from it `ServedCompleteAlways`, `ServedOnceAlways`, `NoDowntimeAlways`,
  `PublishedIsCurrentAlways`.
- `PartitionedAlways`, for overlapping runs: it needs only that `previous`
  stays in the container.

All but the first assume `SimpleNames`: dataset names without `_`. The lemmas
`NamePieces`, `DatasetAlias`, `MatchesIff` and `SimpleNamesLemma` show that names
then tell containers apart; publication_nested shows that the assumption is
needed.

`ClientProofs`, on `BulkInsertion`: `OkMeansStoredAlways`, `LastWriteWinsAlways`
and `StatsExactAlways` for any documents, chunk size and window. `IInv` follows
an operation from the stream into a request and into the index: requests are
whole chunks (`Whole`, `Cut`, from `ChunkBounds` about the division), what was
refused waits in an answer that will panic (`Reported`), and an operation that
was executed is behind its document or was overtaken by another chunk
(`KeptAll`), which takes that a request that is alone comes last (`OneByOne`).
Neither property is inductive: they say nothing until the last answer is folded.
The statistics add up what the answers tell. `SInv` has the sum as the size of a
set that has, for each answer, as many elements as it counts (`Tally`, `Sum`), so
that a sum over answers in any order becomes one fact about cardinalities; what
was answered is what was executed (`Answered`), and a created document is counted
in one answer only (`Counted`), as long as no request failed (`Good`).

`ClientProofs`, on `ListDocuments`: `ListsSnapshotAlways`, `OneGenerationAlways`
and `ListedOnceAlways` for any set of documents and page size, from `ListInv`: what
is fetched is the part of the snapshot from the token upwards, less what shards
that failed may have left out, handed out from its upper end. A listing that
ends well has all documents of the shards that answered every page
(`OnAnswering`), and is the snapshot when none failed.

`IndexPublicationProofs`, on `Catalogue`: `PublicationImplementsCatalogue`, for any
runs that take turns with simple names. It needs `SerialInv`, and one fact more: only public runs get
beyond the first alias (`OnlyPublicGoesFurther`), so that "every alias of this
run is switched" means the same in both specifications. `UpdateAliasSwitches` and
`DeletionDeletes` map the two kinds of steps that touch aliases, `QuietStep` all
others; `CatalogueReading` expands the mapping once for all.

`OsmStoreProofs`, for any file, buffer size and write faults: `VisitedOnceAlways`
and `StoreImplementsMap`, the refinement of `ObjectMap`, as long as lookups do
not fail; `BufferBoundedAlways`, whatever fails. The invariant `StoreInv` keeps
ids in one place and uncommitted rows inside an open transaction; `FlushMoves`
says what a flush may do.

`AddressImportProofs`, for any trees, admins, chunk size and number of tasks:
`NothingLostAlways`, `AdminsOrNoneAlways`, `InOrderAlways`, and `Types` and
`MemoryBoundedAlways`, which no run checks. The invariant says that
tasks cut `records` into consecutive chunks, that what is converted has one
address for each record of its chunk that is accepted, and that what came out is
exactly that of the first `flattened` chunks; all are converted with the admins
of one listing, which has those that are not in `missed`. That all files are read takes a
second invariant (`Walked`): each path below the input is on the stack, below a
directory on it, or read, however directories order their entries
(`Permutes`, `EntriesReachable`). `InseeCityAlways` is about the data: whatever the
lookup answers, replacing a level leaves the city of the INSEE code last and the
only one of its level (`Replaced`, `AtLast`), so that label, weight, city and code
all find it (`InCity`). `AdminsAssumption` is what it takes of the admins: ids of
their own, parents of a greater zone type, and for the INSEE code of a record at most
one admin, which is the city; the cities are those of level 8.

`BragiProofs`, for any publications, requests and clients: `AnswersOnceAlways`,
`NotMissedAlways`, `ReportedAlways` and `NeverOlderAlways`. `Aliased` and `OneVersion` are kept by
every step of the catalogue; `Reached` says that an alias that a client could
have searched stays. The lemma `OneLevel` is the heart of the first: names of
one, two and more pieces are never mixed in one search of a document type, so
that two versions, which are only ever in different levels of aliases, never
meet in an answer. `NeverOlder` has an invariant of its own, `OInv`: runs of a
container begin one after the other, and only the last one publishes (`TakeTurns`),
so that behind an alias there is always what an answer showed or what came after it
(`Shown`), and who asks once another client was answered finds no older run.

`BragiProofs`, on `Search`: `OnlyAskedAlways` and `AllAskedAlways`, for any
documents, requests, limit and radius. The heart of both is that the queries say
what the comments of dsl.rs say: `QuerySelects` takes `bool` apart, clause by
clause, for a document of any type, and `FoundIs` has what each of the three
searches finds as the documents that are asked for. `SInv` says that when the fuzzy
search takes place although no shard was late, no document matched as a prefix:
without it the answer of the second search could not be told to be the right one
(`Answered`). `SearchAssumption` has finitely many
documents of the five types of place, types of request that bragi accepts, and
each option of a request given at most once.

`GeofinderProofs`: what the lookups answer, for any admins and any order in which
the r-tree gives them. The provers do no induction over data: here it is the choice
of a counterexample that is least (`LeastNat`, `Least`) or of the greatest zone type
(`Highest`). So `UpTo` shows a statement of the numbers up to some bound,
`Recursion` that a recursive function has a value, and `Foldable` that a fold does.
`Hierarchy` says that a branch starts with an admin and goes on with that of its
parent; `Leaves` that `get_admins_if` gives a branch for each admin that overlaps the
point and has none below it that does; `AtPoint` that what `get` answers is closed
under parents, comes from admins that contain the point, and misses one that contains
it only for its zone type; `Chain` that a branch goes from parent to parent until there
is none. `Sortable` lists a finite set in an order, so that a lookup has an answer
(`SomeOrder`).

`StreetsProofs`, for any admins and files: `NotIndexedTwiceAlways`,
`DistinctIdsAlways`, `CoordInAdminsAlways`, `OncePerCityAlways` and
`HierarchyKeptAlways`. `IInv` follows the passes: the geofinder is filled once
(`Filled`); the ways of the relations that were visited are marked (`Marked`), which
is what keeps a way of a relation from being indexed as itself, a pass later;
each street was made of a visited object and a branch of the admins around it
(`Merged`, `Listed`, `AllListed`), and once for each object, city and name
(`ListedOnce`). `InputsAssumption` is what the proofs need of the input: finitely
many admins with ids of their own, parents of a greater zone type whose envelope
holds what their children's does, objects of OSM with ids of their own.

`ImportersProofs`, for any schedule and any number of programs at once:

- `TemplatesInForceAlways`, for any templates. `Import` counts what is left of each
  directory, and templates are never taken away, so that the components are there
  for whoever comes after them.
- `AttachedAlways`, `StopsAttachedAlways` and `HierarchyServedAlways`, for any files
  of Cosmogony, streets, records and stops. `AInv` says of each program what its
  documents were made from (`FromAdmins`): admins from one file, the rest from admins
  that are served as long as it has met no fault, and stops otherwise from a listing
  of one file, however partial (`ListingUsable`). Publishing keeps it as it takes
  the type out of what others call fresh (`PublishFrom`). That what was made is right
  is a matter of data: the admins of a file, as they are read and as they are
  published, can be used by a geofinder (`ReadAdmins`, `ImportedUsable`); a lookup
  has an answer with the city of the point and no other (`Answers`), a branch of a
  street has one city (`OneOfType`), and each city that holds the point is in a
  branch (`Lowest`, `BranchAnswers`); lines can be sorted (`Asymmetric`, `Listable`).

- `AddressedAlways`, for any rules, objects of OSM, points of interest of Navitia and
  distances. `PInv` says of each program that has met no fault since there were streets
  and addresses (`Fit`) what is known of the points of interest it has made and of those
  it has still to search for (`Complete`): each search adds one and takes one away
  (`OneMoreOfOsm`, `OneMoreOfNavitia`), and another publication leaves it as it was, or
  the program is no longer `Fit` (`Lasting`). Where two addresses are at one distance,
  either may be the first hit, and a point of interest of Navitia is in an admin if the
  one that was found is: `Addressed` gives both bounds (`InAdmins`).

`FilesAssumption` is what they take of a file: finitely many zones with indices and
ids of their own, at most one parent, of a greater zone type and around its
children at the points of what is imported, and no point in two cities.
`LinesAssumption` has names, codes and sort orders of lines as numbers, the last two
as options; `PoisAssumption` has the rules in a sequence, ids as numbers and the point
of an object as an option. TLC evaluates all three on the instance of the run.

Only model-checked: liveness (`RunsEnd`, `BulkEnds`, `PitReleased`,
`RequestsEnd`, `ImportEnds`, `ImportersEnd`), which TLAPS cannot prove under
fairness. All invariants that a run checks are proved, and all action properties.

## 6. Where the code and its documentation disagree

- *Overlapping importers* (publication_overlap). `get_previous_indices` takes
  every other index of the container, also one that another importer is filling
  or has just published. An importer that listed the previous indices before the
  other one published removes the old index from the alias; the other then
  deletes the first one's index, and the container is gone from an alias.
  docs/architecture.md:154-155 promises a switch "without impacting anyone",
  "without any downtime". Nothing in the code prevents two importers.
- *Datasets with an underscore* (publication_nested). `split_index_name` cuts
  the dataset at the first `_`: the dataset `fr_ne` is published under the alias
  of `fr`, and deletes its index. docs/concepts.md:5: "Dataset are a way to
  partition the data stored in Elasticsearch".
Others that no run is devoted to, met while the modules were written:

- `build_es_indices_to_search` adds the stops only when the request names a
  `pt_dataset` (`BragiRequests`). docs/bragi.md:234: "If no type is given, all
  types are searched."
- `get` takes a candidate that is a parent of an earlier one whatever its zone
  type: a point in a suburb of one city and a district of another is attached to
  both cities (`Geofinder`). admin_geofinder.rs:382: "a point can be associated to
  only 1 admin type".
- A prefix search is to "use every possible information even though these are not
  present in label" by `full_label` (dsl.rs:250-252), but `build_string_query` is
  required as well and searches the label, the name and whole zip codes: the
  beginning of a zip code finds nothing (`Search`, `Text`).
- Translations are searched in `label.{lang}` (dsl.rs:75-100); places have them in
  `labels` (poi.rs:38, admin.rs:68 of libs/places).
- "all files from this directory or subdirectory are yielded" (fs.rs:7): the walk
  ends at a directory that cannot be listed, and the import ends well without
  what was still to come (`AddressImport`).
- "We the the admins from the address, or, if we don't have any, from the
  geofinder" (pois.rs:217): an address without admins wins over the geofinder,
  and the point of interest is left out (`Pois`).
- poi2mimir leaves out every point of interest when streets or addresses were
  never imported, as each search is refused; osm2mimir imports streets without
  admins, that is none at all, when the listing of admins cannot be opened. Both
  end well (`Importers`).
- `PoiConfig::check` is only called by `from_reader`, which only tests call: what
  comes from the settings is not checked.
- `list_documents` reads neither the status nor `_shards` of a page
  (internal.rs:980-1011): documents of shards that do not answer are skipped, or
  an empty page ends the listing well before its end (`ListDocuments`). Importers
  then attach to the admins that are left and publish (`AddressImport`,
  `Importers`); "First you have to import admins objects" (docs/components.md:12)
  is not enough for them to be found.
- The parents of an admin are followed without a check for cycles in
  `get_admins_if` (admin_geofinder.rs:174) and in `into_admin` (admin.rs:179).
- The comparison of lines is not transitive when some have no code
  (stop.rs:186-198 of libs/places): their order depends on the sort.
- The prefix of environment variables "defaults to the `MIMIR` prefix"
  (config.rs:26 of libs/common): without a prefix none is read. ctlmimir is to
  read "`<config-dir>/ctlmimir` and `<config-dir>/elasticsearch`"
  (settings/ctlmimir.rs:76), and reads the latter.
- `update_metrics` decrements the gauge `bragi_http_requests_in_flight` and nothing
  increments it, though prometheus_handler.rs:57 calls it "current number of http
  request being served".
- `get_way_coord` "Returns arbitrary Coord on the way" (osm_utils.rs:42) but gives
  the default coordinate when the second half of the nodes is missing, while
  `get_street_admin` goes on to the first half.

## 7. Not modelled

The table in PROJECT.json ("components") lists every part. Left out of parts that
are modelled: `build_features_query`, which only lists ids; what orders an answer
(boosts, weights by importance or radius, proximity); the texts of labels, names
and translations, and the geometry of boundaries; relations whose members are
relations; the counters of the metrics; of osm2mimir, the settings that switch
one of its imports off.

Not modelled at all: the settings, which an external library merges once, before
a program does anything; the docker helper and the other tools of the tests;
GraphQL, a front end that no binary mounts; documentation and benchmarks.
