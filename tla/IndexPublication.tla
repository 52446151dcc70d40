--------------------------- MODULE IndexPublication ---------------------------
(***************************************************************************)
(* Building and publishing an index: the port GenerateIndex                *)
(* (domain/ports/primary/generate_index.rs) over the Elasticsearch adapter *)
(* (adapters/secondary/elasticsearch/storage.rs and internal.rs).          *)
(*                                                                         *)
(* A run is one execution of generate_index by an importer (bano2mimir,    *)
(* osm2mimir, ...).  Its index is named after its container and its        *)
(* creation time; a run creates one index only, so the run itself stands   *)
(* for the creation time and also identifies the index.                    *)
(*                                                                         *)
(* Every request to Elasticsearch is a step of its own.  It may fail       *)
(* without effect (Fails), or take effect while its answer is lost or is   *)
(* an error (the "failed" outcome of Reply): the run then stops, as every  *)
(* caller returns the error with `?` or panics, and no run undoes anything.*)
(* A crash of the importer is one of these two.  Bulk requests already     *)
(* sent by a run that stopped may still be executed by Elasticsearch.      *)
(***************************************************************************)
EXTENDS IndexNames, FiniteSets

CONSTANTS Runs,        \* executions of generate_index
          DocTypeOf,   \* the doc_type of a run's container
          DatasetOf,   \* the dataset of a run's container, as pieces
          VisibilityOf,\* Public or Private
          Chunks,      \* the chunks of documents a run inserts
          Window,      \* config: insertion_concurrent_requests
          ForceMerge,  \* config: force_merge.enabled
          DocTypes,    \* the document types
          Pieces       \* the pieces dataset names are made of

ASSUME ConstantsAssumption ==
    /\ DocTypeOf \in [Runs -> DocTypes]
    /\ DatasetOf \in [Runs -> Seq(Pieces)]
    /\ \A r \in Runs : Len(DatasetOf[r]) > 0
    /\ VisibilityOf \in [Runs -> {"Public", "Private"}]
    /\ IsFiniteSet(Chunks)
    /\ Window \in Nat \ {0}
    /\ ForceMerge \in BOOLEAN

VARIABLES
    phase,     \* where each run is
    previous,  \* publish_index's previous_indices, shrinking as they are deleted
    todo,      \* chunks a run has not sent yet
    inflight,  \* bulk requests sent and not executed yet
    indices,   \* Elasticsearch: the indices that exist
    aliases,   \* Elasticsearch: <<alias, index>> pairs
    docs,      \* Elasticsearch: the chunks stored in each index
    visible    \* Elasticsearch: the chunks a search of each index sees

runVars == <<phase, previous, todo, inflight>>
esVars == <<indices, aliases, docs, visible>>
vars == <<phase, previous, todo, inflight, indices, aliases, docs, visible>>

Container(r) == <<DocTypeOf[r], DatasetOf[r]>>

\* The name given to the run's index, and the Index that find_index rebuilds
\* from that name: every later step uses the latter.
Name(r) == root_doctype_dataset_ts(DocTypeOf[r], DatasetOf[r], r)
Index(r) == split_index_name(Name(r))

\* Mutant: the dataset is forgotten.
doctype_only_alias(r) == root_doctype(Index(r).doc_type)

dataset_alias(r) == root_doctype_dataset(Index(r).doc_type, Index(r).dataset)
doctype_alias(r) == root_doctype(Index(r).doc_type)
AliasNames == {dataset_alias(r) : r \in Runs} \cup {doctype_alias(r) : r \in Runs} \cup {root}

Ended == {"done", "failed"}
Publishing == {"previous", "alias_dataset", "alias_doctype", "alias_root", "delete", "check"}
Phases == {"new", "find", "pipeline", "insert", "refresh"} \cup Publishing \cup Ended
Active(r) == phase[r] \notin {"new"} \cup Ended

-------------------------------------------------------------------------------
Init ==
    /\ phase = [r \in Runs |-> "new"]
    /\ previous = [r \in Runs |-> {}]
    /\ todo = [r \in Runs |-> Chunks]
    /\ inflight = [r \in Runs |-> {}]
    /\ indices = {}
    /\ aliases = {}
    /\ docs = [r \in Runs |-> {}]
    /\ visible = [r \in Runs |-> {}]

\* The outcome of a request that took effect: the run goes on to phase next, or
\* stops because the answer is lost, late or not acknowledged.
Reply(r, next) == \E p \in {next, "failed"} : phase' = [phase EXCEPT ![r] = p]
Stop(r) == phase' = [phase EXCEPT ![r] = "failed"]

\* A request that did not reach Elasticsearch or was refused by it.
Fails(r) ==
    /\ Active(r)
    /\ Stop(r)
    /\ UNCHANGED <<previous, todo, inflight, esVars>>

create_index(r) ==
    /\ phase[r] = "new"
    /\ indices' = indices \cup {r}
    /\ Reply(r, "find")
    /\ UNCHANGED <<previous, todo, inflight, aliases, docs, visible>>

find_index(r) ==
    /\ phase[r] = "find"
    /\ IF r \in indices THEN Reply(r, "pipeline") ELSE Stop(r)
    /\ UNCHANGED <<previous, todo, inflight, esVars>>

add_pipeline(r) ==
    /\ phase[r] = "pipeline"
    /\ Reply(r, "insert")
    /\ UNCHANGED <<previous, todo, inflight, esVars>>

\* Mutant: off by one in the number of concurrent requests.
bulk_send_one_less(r, k) ==
    /\ phase[r] = "insert"
    /\ k \in todo[r]
    /\ Cardinality(inflight[r]) < Window - 1
    /\ todo' = [todo EXCEPT ![r] = @ \ {k}]
    /\ inflight' = [inflight EXCEPT ![r] = @ \cup {k}]
    /\ UNCHANGED <<phase, previous, esVars>>

\* buffer_unordered polls a new chunk when fewer than Window requests are pending.
bulk_send(r, k) ==
    /\ phase[r] = "insert"
    /\ k \in todo[r]
    /\ Cardinality(inflight[r]) < Window
    /\ todo' = [todo EXCEPT ![r] = @ \ {k}]
    /\ inflight' = [inflight EXCEPT ![r] = @ \cup {k}]
    /\ UNCHANGED <<phase, previous, esVars>>

\* Elasticsearch executes a bulk request, whether or not the run still waits
\* for it; it creates the index when it does not exist.
bulk_executed(r, k) ==
    /\ k \in inflight[r]
    /\ inflight' = [inflight EXCEPT ![r] = @ \ {k}]
    /\ indices' = indices \cup {r}
    /\ docs' = [docs EXCEPT ![r] = @ \cup {k}]
    /\ IF phase[r] = "insert" THEN Reply(r, "insert") ELSE UNCHANGED phase
    /\ UNCHANGED <<previous, todo, aliases, visible>>

\* A bulk request is lost, or some of its documents are rejected: bulk_block
\* returns an error and bulk panics.
bulk_rejected(r, k) ==
    /\ k \in inflight[r]
    /\ inflight' = [inflight EXCEPT ![r] = @ \ {k}]
    /\ indices' \in {indices, indices \cup {r}}
    /\ Stop(r)
    /\ UNCHANGED <<previous, todo, aliases, docs, visible>>

\* Mutant: the requests still in progress are not awaited.
bulk_end_early(r) ==
    /\ phase[r] = "insert"
    /\ todo[r] = {}
    /\ phase' = [phase EXCEPT ![r] = "refresh"]
    /\ UNCHANGED <<previous, todo, inflight, esVars>>

bulk_end(r) ==
    /\ phase[r] = "insert"
    /\ todo[r] = {} /\ inflight[r] = {}
    /\ phase' = [phase EXCEPT ![r] = "refresh"]
    /\ UNCHANGED <<previous, todo, inflight, esVars>>

refresh_index(r) ==
    /\ phase[r] = "refresh"
    /\ IF r \in indices
       THEN /\ visible' = [visible EXCEPT ![r] = docs[r]]
            /\ Reply(r, "previous")
       ELSE Stop(r) /\ UNCHANGED visible
    /\ UNCHANGED <<previous, todo, inflight, indices, aliases, docs>>

\* Mutant: only the index that the alias points at is previous.
PreviouslyAliased(r) == {q \in indices : <<dataset_alias(r), q>> \in aliases} \ {r}

\* Every index whose name starts like the dataset's alias, aliased or not,
\* except the run's own.
PreviousIndices(r) == {q \in indices : Matches(dataset_alias(r), Name(q))} \ {r}

get_previous_indices(r) ==
    /\ phase[r] = "previous"
    /\ previous' = [previous EXCEPT ![r] = PreviousIndices(r)]
    /\ Reply(r, "alias_dataset")
    /\ UNCHANGED <<todo, inflight, esVars>>

\* Mutant: the previous indices stay in the alias until they are deleted.
update_alias_add_only(r, alias, next) ==
    /\ IF {r} \cup previous[r] \subseteq indices
       THEN aliases' = aliases \cup {<<alias, r>>} /\ Reply(r, next)
       ELSE Stop(r) /\ UNCHANGED aliases
    /\ UNCHANGED <<previous, todo, inflight, indices, docs, visible>>

\* Mutant: the previous indices are removed by a request of their own.
update_alias_in_two(r, alias, next) ==
    /\ IF ~({r} \cup previous[r] \subseteq indices)
       THEN Stop(r) /\ UNCHANGED aliases
       ELSE IF aliases \cap ({alias} \X previous[r]) # {}
       THEN aliases' = aliases \ ({alias} \X previous[r]) /\ UNCHANGED phase
       ELSE aliases' = aliases \cup {<<alias, r>>} /\ Reply(r, next)
    /\ UNCHANGED <<previous, todo, inflight, indices, docs, visible>>

\* One request adds the run's index to the alias and removes the previous ones;
\* Elasticsearch refuses it as a whole when one of these indices is missing.
update_alias(r, alias, next) ==
    /\ IF {r} \cup previous[r] \subseteq indices
       THEN /\ aliases' = (aliases \cup {<<alias, r>>}) \ ({alias} \X previous[r])
            /\ Reply(r, next)
       ELSE Stop(r) /\ UNCHANGED aliases
    /\ UNCHANGED <<previous, todo, inflight, indices, docs, visible>>

publish_dataset(r) ==
    /\ phase[r] = "alias_dataset"
    /\ update_alias(r, dataset_alias(r),
                    IF VisibilityOf[r] = "Public" THEN "alias_doctype" ELSE "delete")

\* Mutant: the root alias is switched before that of the document type.
publish_root_first(r) ==
    /\ phase[r] = "alias_doctype"
    /\ update_alias(r, root, "alias_root")

publish_doctype(r) ==
    /\ phase[r] = "alias_doctype"
    /\ update_alias(r, doctype_alias(r), "alias_root")

publish_root(r) ==
    /\ phase[r] = "alias_root"
    /\ update_alias(r, root, "delete")

\* Deleting an index also removes it from every alias.
delete_container(r, q) ==
    /\ phase[r] = "delete"
    /\ q \in previous[r]
    /\ IF q \in indices
       THEN /\ indices' = indices \ {q}
            /\ aliases' = {x \in aliases : x[2] # q}
            /\ docs' = [docs EXCEPT ![q] = {}]
            /\ visible' = [visible EXCEPT ![q] = {}]
            /\ previous' = [previous EXCEPT ![r] = @ \ {q}]
            /\ Reply(r, "delete")
       ELSE Stop(r) /\ UNCHANGED <<previous, esVars>>
    /\ UNCHANGED <<todo, inflight>>

force_merge(r) ==
    /\ phase[r] = "delete"
    /\ previous[r] = {}
    /\ IF ForceMerge /\ r \notin indices THEN Stop(r) ELSE Reply(r, "check")
    /\ UNCHANGED <<previous, todo, inflight, esVars>>

\* publish() looks the published index up and fails when it is gone.
find_container(r) ==
    /\ phase[r] = "check"
    /\ IF r \in indices THEN Reply(r, "done") ELSE Stop(r)
    /\ UNCHANGED <<previous, todo, inflight, esVars>>

-------------------------------------------------------------------------------
Progress(r) ==
    \/ find_index(r)
    \/ add_pipeline(r)
    \/ \E k \in Chunks : bulk_send(r, k) \/ bulk_executed(r, k) \/ bulk_rejected(r, k)
    \/ bulk_end(r)
    \/ refresh_index(r)
    \/ get_previous_indices(r)
    \/ publish_dataset(r)
    \/ publish_doctype(r)
    \/ publish_root(r)
    \/ \E q \in Runs : delete_container(r, q)
    \/ force_merge(r)
    \/ find_container(r)

Step(r) == Progress(r) \/ Fails(r)

Next == \E r \in Runs : create_index(r) \/ Step(r)

\* Nothing in the code keeps two importers of one container from running at the
\* same time.  SerialSpec is the system when its operators see to it.
Alone(r) == \A q \in Runs \ {r} : Container(q) = Container(r) => ~Active(q)

SerialNext == \E r \in Runs : (Alone(r) /\ create_index(r)) \/ Step(r)

Spec == Init /\ [][Next]_vars
SerialSpec == Init /\ [][SerialNext]_vars

\* A started importer keeps running and every request is answered.  Fails is no
\* help: a run must reach an end even when no request fails.
FairSpec == Spec /\ \A r \in Runs : WF_vars(Progress(r))
-------------------------------------------------------------------------------
TypeOK ==
    /\ phase \in [Runs -> Phases]
    /\ previous \in [Runs -> SUBSET Runs]
    /\ todo \in [Runs -> SUBSET Chunks]
    /\ inflight \in [Runs -> SUBSET Chunks]
    /\ indices \subseteq Runs
    /\ aliases \subseteq AliasNames \X Runs
    /\ docs \in [Runs -> SUBSET Chunks]
    /\ visible \in [Runs -> SUBSET Chunks]

Serves(alias, c) == \E r \in Runs : Container(r) = c /\ <<alias, r>> \in aliases

\* While importers of one container take turns, an index that can be reached
\* through an alias exists and a search of it sees every chunk of its run
\* (refresh_interval is -1, so only refresh_index makes documents visible):
\* bragi never serves a container that is being filled, whatever requests fail.
ServedComplete ==
    \A x \in aliases : x[2] \in indices /\ visible[x[2]] = Chunks

\* While importers of one container take turns, an alias never covers two
\* indices of one container: bragi never finds the same place twice because a
\* publication is under way or an earlier one stopped half-way.
ServedOnce ==
    \A x, y \in aliases :
        x[1] = y[1] /\ Container(x[2]) = Container(y[2]) => x = y

\* "without any downtime" (docs/architecture.md:155): no step takes a container
\* out of an alias that serves it, except that a Private publication, once its
\* own index is served by the dataset's alias, deletes the indices that an
\* earlier Public one had put in the doctype and root aliases.
NoDowntime ==
    [][\A x \in aliases \ aliases' :
         \/ Serves(x[1], Container(x[2]))'
         \/ \E q \in Runs : /\ VisibilityOf[q] = "Private" /\ phase[q] = "delete"
                            /\ Container(q) = Container(x[2])
                            /\ <<dataset_alias(q), q>> \in aliases']_vars

\* What publish() promises when it returns Ok, even after earlier runs stopped
\* anywhere: the run's index is complete and the only one of its container in
\* any alias, the aliases of its visibility all cover it, and every other
\* index of the container is an empty-looking leftover of a failed run, created
\* anew by a bulk request that outlived it.
PublishedIsCurrent ==
    [][\A r \in Runs : phase[r] # "done" /\ phase'[r] = "done" =>
         /\ r \in indices' /\ visible'[r] = Chunks
         /\ <<dataset_alias(r), r>> \in aliases'
         /\ VisibilityOf[r] = "Public" =>
               <<doctype_alias(r), r>> \in aliases' /\ <<root, r>> \in aliases'
         /\ \A q \in indices' \ {r} : Container(q) = Container(r) =>
               phase'[q] = "failed" /\ visible'[q] = {} /\ \A x \in aliases' : x[2] # q
      ]_vars

\* "Dataset are a way to partition the data" (docs/concepts.md:5): a step of a
\* run changes nothing about the runs and the indices of another container.
View(r) == <<phase[r], previous[r], todo[r], inflight[r], r \in indices,
             {x \in aliases : x[2] = r}, docs[r], visible[r]>>

Partitioned ==
    [][\A r, q \in Runs :
         View(r) # View(r)' /\ View(q) # View(q)' => Container(r) = Container(q)]_vars

\* Every run that has created its index comes to an end, published or failed,
\* whatever the others do to the indices in the meantime.
RunsEnd == \A r \in Runs : Active(r) ~> phase[r] \in Ended

\* The aliases publish_index switches to a run's index, in order.
aliases_of(r) ==
    IF VisibilityOf[r] = "Public" THEN <<dataset_alias(r), doctype_alias(r), root>>
    ELSE <<dataset_alias(r)>>

\* While importers of one container take turns, bragi may rely on Catalogue: an
\* index enters its aliases in order, each time in place of the container's
\* others, and a run that has ended never comes back, whatever requests fail.
Promise == INSTANCE Catalogue WITH
    ContainerOf <- [r \in Runs |-> Container(r)],
    AliasesOf <- [r \in Runs |-> aliases_of(r)],
    AtStart <- {},
    served <- aliases,
    publishing <- {r \in Runs : Active(r)},
    ended <- {r \in Runs : phase[r] \in Ended}
ImplementsCatalogue == Promise!Spec
-------------------------------------------------------------------------------
\* The inductive invariant of SerialSpec behind the properties above.

\* Dataset names without '_', which split_index_name gives back unchanged.
SimpleNames == \A r \in Runs : Len(DatasetOf[r]) = 1

\* Importers of one container take turns.
Exclusion ==
    \A r, q \in Runs : Active(r) /\ Active(q) /\ Container(r) = Container(q) => r = q

\* A run only plans to delete indices of its own container, never its own.
PreviousInContainer ==
    \A r \in Runs : \A q \in previous[r] : q # r /\ Container(q) = Container(r)

\* Where the chunks of a run are, and that searches see all or none of them.
Loaded ==
    \A r \in Runs :
        /\ phase[r] \in {"new", "find", "pipeline"} => todo[r] = Chunks
        /\ phase[r] = "insert" => Chunks = docs[r] \cup todo[r] \cup inflight[r]
        /\ phase[r] = "refresh" => docs[r] = Chunks
        /\ phase[r] \in {"new", "find", "pipeline", "insert", "refresh"} => visible[r] = {}
        /\ phase[r] \in Publishing => visible[r] = Chunks
        /\ inflight[r] # {} => phase[r] \in {"insert", "failed"} /\ visible[r] = {}

\* Only complete indices are aliased, under their own container's aliases.
Aliased ==
    \A x \in aliases :
        /\ x[2] \in indices /\ visible[x[2]] = Chunks
        /\ phase[x[2]] \in Publishing \cup Ended
        /\ x[1] \in {dataset_alias(x[2]), doctype_alias(x[2]), root}

\* The aliases a publishing run has already switched to its index.
Switched ==
    \A r \in Runs :
        /\ phase[r] \in {"alias_doctype", "alias_root", "delete", "check"} =>
              <<dataset_alias(r), r>> \in aliases
        /\ VisibilityOf[r] = "Public" /\ phase[r] \in {"alias_root", "delete", "check"} =>
              <<doctype_alias(r), r>> \in aliases
        /\ VisibilityOf[r] = "Public" /\ phase[r] \in {"delete", "check"} =>
              <<root, r>> \in aliases

\* Once a run has listed the previous indices, whatever else the container has
\* in an alias is on that list, and so is every other index of the container
\* but those that bulk requests of failed runs created again.
Listed ==
    \A r \in Runs : phase[r] \in Publishing \ {"previous"} =>
        /\ \A x \in aliases : Container(x[2]) = Container(r) =>
              x[2] \in previous[r] \cup {r}
        /\ \A q \in indices \ ({r} \cup previous[r]) : Container(q) = Container(r) =>
              phase[q] = "failed" /\ visible[q] = {}
        /\ phase[r] = "check" => previous[r] = {}

SerialInv ==
    /\ TypeOK
    /\ Exclusion
    /\ PreviousInContainer
    /\ Loaded
    /\ Aliased
    /\ Switched
    /\ Listed
    /\ ServedOnce
===============================================================================
