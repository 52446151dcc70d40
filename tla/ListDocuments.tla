---------------------------- MODULE ListDocuments -----------------------------
(***************************************************************************)
(* Listing all documents of a type                                         *)
(* (adapters/secondary/elasticsearch/internal.rs, list_documents): the     *)
(* importers read the administrative regions this way before they build    *)
(* their own index.  A point in time (PIT) is opened on the doctype alias; *)
(* a stream then fetches pages of it, sorted by a decreasing tiebreaker,   *)
(* each page starting after the last tiebreaker of the page before; an     *)
(* empty page ends the listing and the PIT is closed.                      *)
(*                                                                         *)
(* A document is <<generation, tiebreaker>>: publishing a new index under  *)
(* the alias starts a new generation.  Elasticsearch is external: a PIT    *)
(* keeps the documents it was opened on until it is closed or expires      *)
(* (keep_alive), and gives each a tiebreaker of its own.  The documents are*)
(* on shards; a search that some shards do not answer is answered with     *)
(* success and the hits of the others, and the code reads neither `_shards`*)
(* nor the status.                                                         *)
(***************************************************************************)
EXTENDS Naturals, FiniteSets

CONSTANTS Tiebreakers,    \* tiebreakers of the documents of a PIT
          Shards,         \* the tiebreakers of each shard
          Generations,    \* successive publications under the alias
          ScrollChunkSize \* config: scroll_chunk_size

ASSUME ListAssumption ==
    /\ Tiebreakers \subseteq Nat /\ IsFiniteSet(Tiebreakers)
    /\ UNION Shards = Tiebreakers
    /\ \A s, t \in Shards : s # t => s \cap t = {}
    /\ Generations \subseteq Nat
    /\ ScrollChunkSize \in Nat \ {0}

VARIABLES
    live,      \* Elasticsearch: the documents under the alias
    pit,       \* Elasticsearch: "none", "open", "closed" or "expired"
    snapshot,  \* Elasticsearch: the documents of the PIT
    state,     \* State of the stream: "Init", "Start", "Next", "End", then an end
    token,     \* tiebreaker of the ContinuationToken, in state "Next"
    page,      \* documents fetched and not yet handed to the consumer
    listed,    \* documents handed to the consumer
    missed     \* history: the shards that have left a search unanswered

listVars == <<live, pit, snapshot, state, token, page, listed, missed>>

Documents == Generations \X Tiebreakers
Ends == {"Done", "Error", "NoIndex", "Dropped"}

\* The documents of one generation.
Contents == {{<<g, t>> : t \in T} : g \in Generations, T \in SUBSET Tiebreakers}

ListInit ==
    /\ live \in Contents
    /\ pit = "none" /\ snapshot = {}
    /\ state = "Init" /\ token = 0
    /\ page = {} /\ listed = {} /\ missed = {}

\* Opening the PIT fails when nothing is published under the alias, or when the
\* request fails; list_documents then returns an error and no stream.
open_point_in_time ==
    /\ state = "Init"
    /\ \/ /\ pit' = "open" /\ snapshot' = live
          /\ state' = "Start"
       \/ state' = "NoIndex" /\ UNCHANGED <<pit, snapshot>>
    /\ UNCHANGED <<live, token, page, listed, missed>>

\* Mutants: the search is inclusive; it skips a tiebreaker; it reads the alias.
RemainingInclusive == {d \in snapshot : state = "Next" => d[2] <= token}
RemainingSkips == {d \in snapshot : state = "Next" => d[2] + 1 < token}
\* The hits of a search with `size` and, after the first page, `search_after`.
Remaining == {d \in snapshot : state = "Next" => d[2] < token}

IsPage(P, S) ==
    /\ P \subseteq S
    /\ \A d \in P, e \in S \ P : d[2] > e[2]
    /\ Cardinality(P) <= ScrollChunkSize
    /\ P = S \/ Cardinality(P) = ScrollChunkSize

IsLastHit(d, P) == d \in P /\ \A e \in P : d[2] <= e[2]

\* Elasticsearch: the hits when some shards fail (allow_partial_search_results).
HitsWithout(failed) == {d \in Remaining : d[2] \notin UNION failed}

\* try_flatten asks for another page once the current one is consumed.  A page
\* that lacks the hits of some shards is a page like any other, and the listing
\* goes on below it; if nothing is left on it, the listing is over.
read_response ==
    /\ state \in {"Start", "Next"}
    /\ page = {}
    /\ pit = "open"
    /\ \E failed \in (SUBSET Shards) \ {Shards}, P \in SUBSET Remaining :
         /\ IsPage(P, HitsWithout(failed))
         /\ page' = P
         /\ missed' = missed \cup failed
         /\ \/ \E d \in P : IsLastHit(d, P) /\ state' = "Next" /\ token' = d[2]
            \/ P = {} /\ state' = "End" /\ UNCHANGED token
    /\ UNCHANGED <<live, pit, snapshot, listed>>

\* Mutant: the stream goes on after an error.
read_error_retried ==
    /\ state \in {"Start", "Next"}
    /\ page = {}
    /\ UNCHANGED listVars

\* A search fails or answers without a pit_id, as it does when no shard answers
\* or the PIT has expired: the stream yields the error and ends, the PIT is not
\* closed.
read_error ==
    /\ state \in {"Start", "Next"}
    /\ page = {}
    /\ state' = "Error"
    /\ UNCHANGED <<live, pit, snapshot, token, page, listed, missed>>

\* The consumer takes the next document, in the order of the page.
take(d) ==
    /\ state = "Next"
    /\ d \in page /\ \A e \in page : e[2] <= d[2]
    /\ page' = page \ {d}
    /\ listed' = listed \cup {d}
    /\ UNCHANGED <<live, pit, snapshot, state, token, missed>>

\* Closing reports no error for a PIT that has expired; a failing request
\* panics in unwrap.
close_point_in_time ==
    /\ state = "End"
    /\ page = {}
    /\ \/ state' = "Done" /\ pit' = "closed"
       \/ state' = "Error" /\ pit' \in {pit, "closed"}
    /\ UNCHANGED <<live, snapshot, token, page, listed, missed>>

\* The consumer drops the stream, its importer having failed.
drop ==
    /\ state \in {"Start", "Next", "End"}
    /\ state' = "Dropped"
    /\ UNCHANGED <<live, pit, snapshot, token, page, listed, missed>>

\* Elasticsearch: an importer publishes a new index under the alias.
publish ==
    /\ \E c \in Contents : (\A d \in live, e \in c : d[1] < e[1]) /\ live' = c
    /\ UNCHANGED <<pit, snapshot, state, token, page, listed, missed>>

\* Elasticsearch: nothing was asked of the PIT for longer than its keep_alive.
expire ==
    /\ pit = "open"
    /\ pit' = "expired"
    /\ UNCHANGED <<live, snapshot, state, token, page, listed, missed>>

Stream ==
    \/ open_point_in_time
    \/ read_response
    \/ pit # "open" /\ read_error
    \/ \E d \in Documents : take(d)
    \/ close_point_in_time

ListNext == Stream \/ read_error \/ drop \/ publish \/ expire

\* The consumer reads to the end and its requests are answered, with an error
\* when the PIT is gone; Elasticsearch reclaims a PIT that nobody uses.
ListSpec == ListInit /\ [][ListNext]_listVars /\ WF_listVars(Stream) /\ WF_listVars(expire)
-------------------------------------------------------------------------------
TypeOK ==
    /\ live \subseteq Documents /\ snapshot \subseteq Documents
    /\ pit \in {"none", "open", "closed", "expired"}
    /\ state \in {"Init", "Start", "Next", "End"} \cup Ends
    /\ token \in Nat
    /\ page \subseteq Documents /\ listed \subseteq Documents
    /\ missed \subseteq Shards

\* The documents of the PIT on shards that have answered every search.
OnAnswering == {d \in snapshot : d[2] \notin UNION missed}

\* A listing that ends without error gave the consumer every document published
\* when it began, but for those of shards that left a search unanswered, and
\* nothing of what was published since.  However the page size divides the
\* documents, what one shard leaves out never takes a document of another with
\* it; of what it leaves out nobody is told.
ListsSnapshot ==
    state = "Done" => OnAnswering \subseteq listed /\ listed \subseteq snapshot

\* The consumer never gets a document twice, and gets them in the decreasing
\* order of tiebreakers that makes search_after correct: what leaves the page
\* comes after everything handed out before.
ListedOnce ==
    [][\A d \in page \ page' :
         d \notin listed /\ d \in listed' /\ \A e \in listed : d[2] < e[2]]_listVars

\* The documents of a listing come from one publication, although the alias may
\* be switched between two pages.
OneGeneration == \A d, e \in listed \cup page : d[1] = e[1]

\* A listing comes to an end, and whether it ends well, with an error or by
\* being dropped, its PIT does not stay open.
PitReleased == <>[](state \in Ends /\ pit # "open")

-------------------------------------------------------------------------------
\* The inductive invariant behind them: what has been fetched is the part of the
\* snapshot down to the token, less what some shards left out, handed out from
\* its upper end.
SameGeneration(S) == \A d, e \in S : d[1] = e[1]

Progress ==
    /\ state \in {"Init", "Start"} => page = {} /\ listed = {}
    /\ state = "Next" =>
         /\ \A d \in listed \cup page : d[2] >= token
         /\ {d \in OnAnswering : d[2] >= token} \subseteq listed \cup page
         /\ \A d \in listed, e \in page : d[2] > e[2]
    /\ state \in {"End", "Done"} => page = {} /\ OnAnswering \subseteq listed

ListInv ==
    /\ TypeOK
    /\ SameGeneration(live) /\ SameGeneration(snapshot)
    /\ page \subseteq snapshot /\ listed \subseteq snapshot
    /\ Progress
===============================================================================
