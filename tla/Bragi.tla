--------------------------------- MODULE Bragi ---------------------------------
(***************************************************************************)
(* bragi answering requests (adapters/primary/bragi/handlers.rs) while     *)
(* importers publish.  Each request to Elasticsearch is a step that reads  *)
(* the Catalogue at one moment; a handler that asks twice may find another *)
(* catalogue the second time.                                              *)
(*                                                                         *)
(* A hit stands for the documents of one run.  Whether a run holds         *)
(* documents that match, and whether a shard answers in time (a search that*)
(* reaches shard_timeout is still a success, with less hits), is left open.*)
(* Every request has a timeout on the client's side (request_timeout): it  *)
(* is answered, fails or times out, and each handler turns the latter two  *)
(* into a rejection.  A handler panics when the body of an error response  *)
(* is not the exception it expects; the connection is then dropped.        *)
(***************************************************************************)
EXTENDS BragiRequests, FiniteSets

CONSTANTS Runs, ContainerOf, AliasesOf, AtStart,  \* see Catalogue
          Unreadable, \* the runs whose documents are not readable as a Place
          Clients,    \* each sends one request
          Sessions,   \* the requests that may come (see BragiRequests): functions
                      \* from the clients that send one
          Limit       \* the most hits asked for

ASSUME BragiAssumption ==
    /\ AtStart \subseteq Runs /\ Unreadable \subseteq Runs
    /\ Limit \in Nat

\* One version of each container is served to begin with, and all runs of a
\* container publish under the same aliases: those of its dataset and document
\* type and the root, which configuration.rs makes of one piece of a name or more.
Datasets == Seq(STRING) \ {<<>>}
ASSUME CatalogueAssumption ==
    /\ \A g, h \in AtStart : ContainerOf[g] = ContainerOf[h] => g = h
    /\ \A r \in Runs : AliasesOf[r] \in Seq(Seq(STRING))
    /\ \A g, h \in Runs :
          g # h /\ ContainerOf[g] = ContainerOf[h] =>
              LET t == ContainerOf[g][1]
                  d == ContainerOf[g][2]
              IN  /\ AliasesOf[g] = AliasesOf[h]
                  /\ t \in STRING /\ d \in Datasets
                  /\ \A i \in DOMAIN AliasesOf[g] :
                        AliasesOf[g][i] \in {root_doctype_dataset(t, d), root_doctype(t), root}

VARIABLES
    served, publishing, ended, \* see Catalogue
    state,     \* where the handler of each client's request is
    request,   \* the request of each client, as a set of at most one
    answer,    \* what each client was answered
    \* History: the order in which runs began, the aliases there were when a
    \* request came, and the clients that had been answered by then.
    begun, reachable, answered

Catalogue == INSTANCE Catalogue

catalogue == <<served, publishing, ended>>
handlerVars == <<state, request, answer, reachable, answered>>
vars == <<catalogue, handlerVars, begun>>

Requests == UNION {{session[d] : d \in DOMAIN session} : session \in Sessions}

\* What the routes deserialize: one of the known types, and names of datasets.
ASSUME RequestsAssumption ==
    \A q \in Requests :
        /\ q.path \in Handlers \cup {"unknown"}
        /\ \A T \in q.types : T \subseteq {"house", "street", "zone", "city", "poi", "stop_area"}
        /\ \A D \in q.pt_dataset \cup q.poi_dataset : D \subseteq Datasets
        /\ q.doc_type \in STRING

NoAnswer == [status |-> "none", hits |-> {}, missing |-> {}]
Waiting == {"prefix", "fuzzy", "reverse", "features", "explain", "health", "version", "metrics"}

Init ==
    /\ Catalogue!Init
    /\ state = [c \in Clients |-> "idle"]
    /\ request = [c \in Clients |-> {}]
    /\ answer = [c \in Clients |-> NoAnswer]
    /\ begun = <<>>
    /\ reachable = [c \in Clients |-> {}]
    /\ answered = [c \in Clients |-> {}]

-------------------------------------------------------------------------------
\* The reply leaves.
reply(c, status, hits, missing) ==
    /\ state' = [state EXCEPT ![c] = "answered"]
    /\ answer' = [answer EXCEPT ![c] = [status |-> status, hits |-> hits, missing |-> missing]]

reject(c, R, missing) == reply(c, report_invalid(with_other_routes(R)), {}, missing)

next_phase(c, phase) ==
    /\ state' = [state EXCEPT ![c] = phase]
    /\ UNCHANGED answer

panic(c) == next_phase(c, "dropped")

\* The first step of each endpoint's handler.
handler(path) ==
    CASE path = "autocomplete" -> "prefix"
      [] path = "autocomplete-explain" -> "explain"
      [] path = "status" -> "health"
      [] OTHER -> path

Sends(session, c) == {session[d] : d \in {c} \cap DOMAIN session}

receive(c, q) ==
    /\ state[c] = "idle"
    /\ \E session \in Sessions :
          q \in Sends(session, c) /\ \A d \in Clients : request[d] \subseteq Sends(session, d)
    /\ request' = [request EXCEPT ![c] = {q}]
    /\ reachable' = [reachable EXCEPT ![c] = {x[1] : x \in served}]
    /\ answered' = [answered EXCEPT ![c] = {d \in Clients : state[d] = "answered"}]
    /\ IF rejections(q) = {} THEN next_phase(c, handler(q.path))
       ELSE reject(c, rejections(q), {})
    /\ UNCHANGED <<catalogue, begun>>

\* The client closes the connection: the handler is dropped where it waits.
abandon(c) ==
    /\ state[c] \in Waiting
    /\ panic(c)

indices(c) == UNION {indices_of(q) : q \in request[c]}
Behind(name) == {r \in Runs : <<name, r>> \in served}
Missing(c) == {n \in indices(c) : Behind(n) = {}}

\* What a search may find.
Hits(c) == {S \in SUBSET UNION {Behind(n) : n \in indices(c)} : Cardinality(S) <= Limit}

\* Elasticsearch answers with an error, or not in time.
es_error(c) == reject(c, {"InternalError"}, {}) \/ panic(c)

\* Elasticsearch refuses a search when one of its indices is missing.
search_error(c) ==
    IF Missing(c) = {} THEN es_error(c)
    ELSE reject(c, {"InternalError"}, Missing(c)) \/ panic(c)

places(c, S) ==
    IF S \cap Unreadable = {} THEN reply(c, "OK", S, {}) ELSE reject(c, {"InternalError"}, {})

\* Mutant: the prefix search is tried again.
prefix_again(c) ==
    /\ state[c] = "fuzzy"
    /\ \/ search_error(c)
       \/ /\ Missing(c) = {}
          /\ \E S \in Hits(c) : IF S = {} THEN next_phase(c, "prefix") ELSE places(c, S)

\* forward_geocoder searches by prefix, and only then with fuzziness.
search_prefix(c) ==
    /\ state[c] = "prefix"
    /\ \/ search_error(c)
       \/ /\ Missing(c) = {}
          /\ \E S \in Hits(c) : IF S = {} THEN next_phase(c, "fuzzy") ELSE places(c, S)

search_fuzzy(c) ==
    /\ state[c] = "fuzzy"
    /\ \/ search_error(c)
       \/ /\ Missing(c) = {}
          /\ \E S \in Hits(c) : places(c, S)

\* reverse_geocoder unwraps the conversion of the documents.
search_reverse(c) ==
    /\ state[c] = "reverse"
    /\ \/ search_error(c)
       \/ /\ Missing(c) = {}
          /\ \E S \in Hits(c) : IF S \cap Unreadable = {} THEN reply(c, "OK", S, {}) ELSE panic(c)

\* The document is asked for in each index.  The item of an index that is
\* missing, or of an alias of several, is an error, and has no source: it is
\* left out like a document that is not found.
get_documents_by_id(c) ==
    /\ state[c] = "features"
    /\ \/ es_error(c)
       \/ \E S \in SUBSET {r \in Runs : \E n \in indices(c) : Behind(n) = {r}} :
             IF S = {} THEN reject(c, {"ObjectNotFoundError"}, {}) ELSE places(c, S)

explain_search(c) ==
    /\ state[c] = "explain"
    /\ \/ search_error(c)
       \/ \E n \in indices(c), r \in Runs : Behind(n) = {r} /\ reply(c, "OK", {r}, {})

cluster_health(c) ==
    /\ state[c] = "health"
    /\ es_error(c) \/ next_phase(c, "version")

cluster_version(c) ==
    /\ state[c] = "version"
    /\ es_error(c) \/ reply(c, "OK", {}, {})

metrics(c) ==
    /\ state[c] = "metrics"
    /\ reply(c, "OK", {}, {})

-------------------------------------------------------------------------------
Handle(c) ==
    \/ search_prefix(c)
    \/ search_fuzzy(c)
    \/ search_reverse(c)
    \/ get_documents_by_id(c)
    \/ explain_search(c)
    \/ cluster_health(c)
    \/ cluster_version(c)
    \/ metrics(c)

HandleStep(c) ==
    /\ Handle(c)
    /\ UNCHANGED <<catalogue, request, begun, reachable, answered>>

AbandonStep(c) ==
    /\ abandon(c)
    /\ UNCHANGED <<catalogue, request, begun, reachable, answered>>

\* Importers at work.
Publication ==
    /\ \E r \in Runs :
          \/ Catalogue!begin(r) /\ begun' = Append(begun, r)
          \/ Catalogue!Work(r) /\ UNCHANGED begun
    /\ UNCHANGED handlerVars

Next ==
    \/ \E c \in Clients : (\E q \in Requests : receive(c, q)) \/ HandleStep(c) \/ AbandonStep(c)
    \/ Publication

Spec == Init /\ [][Next]_vars

\* A handler goes on when Elasticsearch has answered or its timeout is over.
FairSpec == Spec /\ \A c \in Clients : WF_vars(HandleStep(c))
-------------------------------------------------------------------------------
\* An answer never shows one container twice, in an older and a newer version,
\* although a publication switches the aliases of a container one by one: no
\* request is searched through two levels of aliases of one document type.
AnswersOnce ==
    \A c \in Clients : \A g, h \in answer[c].hits : ContainerOf[g] = ContainerOf[h] => g = h

\* "then switch the alias to point to the new data" (docs/architecture.md:154):
\* an alias that was there when a request came is not missing when it is
\* searched, as long as every run of a container publishes under the same
\* aliases.
NotMissed == \A c \in Clients : answer[c].missing \cap reachable[c] = {}

Since(r) == IF r \in AtStart THEN 0 ELSE CHOOSE i \in 1..Len(begun) : begun[i] = r

SameDatasets(p, q) ==
    /\ {p.path, q.path} \subseteq {"autocomplete", "features"}
    /\ p.pt_dataset = q.pt_dataset /\ p.poi_dataset = q.poi_dataset

\* A client that keeps to its datasets never goes back to an older version of a
\* container than an earlier answer has shown, also when it asks for other types,
\* or asks /features for what it has found with /autocomplete.
NeverOlder ==
    \A c \in Clients : \A d \in answered[c] :
        (\E p \in request[c], q \in request[d] : SameDatasets(p, q)) =>
            \A h \in answer[c].hits, g \in answer[d].hits :
                ContainerOf[g] = ContainerOf[h] => Since(h) >= Since(g)

\* report_invalid has a last resort, INTERNAL_SERVER_ERROR (routes.rs:370): no
\* rejection of the routes and handlers comes to it, and none of a handler is
\* mistaken for an error of the client's.
Reported ==
    \A c \in Clients : \A q \in request[c] : state[c] = "answered" =>
        /\ answer[c].status # "INTERNAL_SERVER_ERROR"
        /\ answer[c].status \in {"invalid query", "validation error", "no route"} <=> rejections(q) # {}

\* Every request comes to an answer, or its connection to an end.
RequestsEnd == \A c \in Clients : state[c] # "idle" ~> state[c] \in {"answered", "dropped"}
===============================================================================
