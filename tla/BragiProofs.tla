------------------------------ MODULE BragiProofs ------------------------------
(* Proofs about Bragi, for any publications, requests and clients, where what  *)
(* a search finds is left open, and about Search, for any documents.           *)
EXTENDS Bragi, Search, FiniteSetTheorems, TLAPS

Phases == Waiting \cup {"idle", "answered", "dropped"}

\* A client has sent at most one request, and is answered after it.
Typed ==
    /\ state \in [Clients -> Phases]
    /\ request \in [Clients -> SUBSET Requests]
    /\ answer = [c \in Clients |-> answer[c]]
    /\ reachable = [c \in Clients |-> reachable[c]]
    /\ \A c \in Clients : answer[c].hits \subseteq Runs
    /\ \A c \in Clients : \A p, q \in request[c] : p = q
    /\ \A c \in Clients : state[c] = "idle" => answer[c] = NoAnswer

\* Indices are behind the aliases of their run.
Aliased == \A x \in served : \E r \in Runs : \E i \in DOMAIN AliasesOf[r] : x = <<AliasesOf[r][i], r>>

\* No alias has two versions of a container.
OneVersion == \A x, y \in served : x[1] = y[1] /\ ContainerOf[x[2]] = ContainerOf[y[2]] => x = y

\* An alias that was there stays.
Reached == \A c \in Clients : \A n \in reachable[c] : \E x \in served : x[1] = n

IInv == Typed /\ Aliased /\ OneVersion /\ Reached /\ AnswersOnce /\ NotMissed

Served == Aliased /\ OneVersion

-------------------------------------------------------------------------------
\* What names are made of.
LEMMA Parts ==
    ASSUME NEW t
    PROVE  /\ Len(root) = 1 /\ Len(root_doctype(t)) = 2 /\ root_doctype(t)[2] = t
           /\ \A d \in Datasets : Len(root_doctype_dataset(t, d)) \notin {1, 2} /\ root_doctype_dataset(t, d)[2] = t
<1>1. Len(root) = 1 /\ Len(root_doctype(t)) = 2 /\ root_doctype(t)[2] = t
  BY DEF root, root_doctype
<1>2. ASSUME NEW d \in Datasets
      PROVE  Len(root_doctype_dataset(t, d)) \notin {1, 2} /\ root_doctype_dataset(t, d)[2] = t
  <2>1. PICK S : INDEX_ROOT \in S /\ t \in S /\ STRING \subseteq S
    <3> WITNESS {INDEX_ROOT, t} \cup STRING
    <3> QED
      OBVIOUS
  <2> DEFINE p == <<INDEX_ROOT, t>>
  <2>3. p \in Seq(S) /\ Len(p) = 2
    BY <2>1
  <2>4. d \in Seq(S) /\ Len(d) \in Nat /\ Len(d) > 0
    <3>1. d \in [1..Len(d) -> STRING] /\ Len(d) \in Nat /\ d \in Seq(STRING) /\ d # <<>>
      BY DEF Datasets
    <3>2. Len(d) > 0
      BY <3>1
    <3>3. d \in [1..Len(d) -> S]
      BY <2>1, <3>1
    <3> QED
      BY <3>1, <3>2, <3>3
  <2>5. Len(p \o d) = 2 + Len(d) /\ (p \o d)[2] = t
    BY <2>3, <2>4
  <2> QED
    BY <2>4, <2>5 DEF root_doctype_dataset
<1> QED
  BY <1>1, <1>2

\* Whether a request searches a document type as a whole, rather than datasets.
Whole(q, t) ==
    \/ q.path = "autocomplete-explain"
    \/ (t = "poi" => q.poi_dataset = {}) /\ (t = "stop" => q.pt_dataset = {})

LEMMA SearchedNames ==
    ASSUME NEW q \in Requests, NEW n \in indices_of(q)
    PROVE  \E t : IF Whole(q, t) THEN n = root_doctype(t)
                  ELSE \E d \in Datasets : n = root_doctype_dataset(t, d)
<1> DEFINE Held(t) == IF Whole(q, t) THEN n = root_doctype(t)
                       ELSE \E d \in Datasets : n = root_doctype_dataset(t, d)
<1>1. CASE q.path \in {"autocomplete", "features"}
  <2>1. ASSUME n \in dataset_indices("poi", q.poi_dataset) PROVE Held("poi")
    BY <1>1, <2>1, RequestsAssumption DEF dataset_indices, Whole
  <2>2. ASSUME n \in dataset_indices("stop", q.pt_dataset) PROVE Held("stop")
    BY <1>1, <2>2, RequestsAssumption DEF dataset_indices, Whole
  <2>3. ASSUME NEW t \in {"addr", "street", "admin"}, n = root_doctype(t) PROVE Held(t)
    BY <2>3 DEF Whole
  <2>4. \/ n \in dataset_indices("poi", q.poi_dataset) \/ n \in dataset_indices("stop", q.pt_dataset)
        \/ n \in {root_doctype("addr"), root_doctype("street"), root_doctype("admin")}
    <3>1. ASSUME NEW t \in {"house", "street", "zone", "city", "poi", "stop_area"},
                 n \in type_indices(t, q.pt_dataset, q.poi_dataset)
          PROVE  \/ n \in dataset_indices("poi", q.poi_dataset) \/ n \in dataset_indices("stop", q.pt_dataset)
                 \/ n \in {root_doctype("addr"), root_doctype("street"), root_doctype("admin")}
      BY <3>1 DEF type_indices
    <3>2. \A T \in q.types : T \subseteq {"house", "street", "zone", "city", "poi", "stop_area"}
      BY RequestsAssumption
    <3>3. ASSUME NEW types \in {q.types, {}}, n \in build_es_indices_to_search(types, q.pt_dataset, q.poi_dataset)
          PROVE  \/ n \in dataset_indices("poi", q.poi_dataset) \/ n \in dataset_indices("stop", q.pt_dataset)
                 \/ n \in {root_doctype("addr"), root_doctype("street"), root_doctype("admin")}
      <4>1. CASE types # {}
        <5>1. n \in UNION {type_indices(t, q.pt_dataset, q.poi_dataset) : t \in UNION types}
          BY <3>3, <4>1 DEF build_es_indices_to_search
        <5>2. PICK t \in UNION types : n \in type_indices(t, q.pt_dataset, q.poi_dataset)
          BY <5>1
        <5> QED
          BY <3>1, <3>2, <5>2
      <4>2. CASE types = {}
        BY <3>3, <4>2 DEF build_es_indices_to_search
      <4> QED
        BY <4>1, <4>2
    <3> QED
      BY <1>1, <3>3 DEF indices_of
  <2> QED
    BY <2>1, <2>2, <2>3, <2>4
<1>2. CASE q.path = "reverse"
  <2>1. n \in {root_doctype("street"), root_doctype("addr")}
    BY <1>2 DEF indices_of
  <2>2. Whole(q, "street") /\ Whole(q, "addr")
    BY DEF Whole
  <2> QED
    BY <2>1, <2>2
<1>3. CASE q.path = "autocomplete-explain"
  <2>1. n = root_doctype(q.doc_type)
    BY <1>3 DEF indices_of
  <2>2. Whole(q, q.doc_type)
    BY <1>3 DEF Whole
  <2> QED
    BY <2>1, <2>2
<1>4. CASE q.path \notin {"autocomplete", "features", "reverse", "autocomplete-explain"}
  BY <1>4 DEF indices_of
<1> QED
  BY <1>1, <1>2, <1>3, <1>4

\* Which of the aliases of a container a request is searched through, if any.
LEMMA Level ==
    ASSUME NEW q \in Requests, NEW t, NEW d \in Datasets, NEW x \in indices_of(q),
           x \in {root_doctype_dataset(t, d), root_doctype(t), root}
    PROVE  x = IF Whole(q, t) THEN root_doctype(t) ELSE root_doctype_dataset(t, d)
<1>0. /\ Len(root) = 1 /\ Len(root_doctype(t)) = 2 /\ root_doctype(t)[2] = t
      /\ Len(root_doctype_dataset(t, d)) \notin {1, 2} /\ root_doctype_dataset(t, d)[2] = t
  BY Parts
<1>1. PICK u : IF Whole(q, u) THEN x = root_doctype(u)
                          ELSE \E e \in Datasets : x = root_doctype_dataset(u, e)
  BY SearchedNames
<1>2. CASE Whole(q, u)
  <2>1. x = root_doctype(u) /\ Len(x) = 2 /\ x[2] = u
    BY <1>1, <1>2, Parts
  <2>2. x # root /\ x # root_doctype_dataset(t, d)
    BY <1>0, <2>1
  <2>3. x = root_doctype(t) /\ x[2] = t
    BY <1>0, <2>2
  <2> QED
    BY <1>2, <2>1, <2>3
<1>3. CASE ~Whole(q, u)
  <2>1. PICK e \in Datasets : x = root_doctype_dataset(u, e)
    BY <1>1, <1>3
  <2>2. Len(x) \notin {1, 2} /\ x[2] = u
    BY <2>1, Parts
  <2>3. x # root /\ x # root_doctype(t)
    BY <1>0, <2>2
  <2>4. x = root_doctype_dataset(t, d) /\ x[2] = t
    BY <1>0, <2>3
  <2> QED
    BY <1>3, <2>2, <2>4
<1> QED
  BY <1>2, <1>3

\* No request is searched through two of the aliases of a container.
LEMMA OneLevel ==
    ASSUME NEW q \in Requests, NEW t, NEW d \in Datasets,
           NEW m \in indices_of(q), NEW n \in indices_of(q),
           {m, n} \subseteq {root_doctype_dataset(t, d), root_doctype(t), root}
    PROVE  m = n
BY Level

\* What is found behind the aliases of one request, at one moment, has one
\* version of each container.
LEMMA FoundOnce ==
    ASSUME Typed, Served, NEW c \in Clients, NEW g \in Runs, NEW h \in Runs,
           NEW m \in indices(c), NEW n \in indices(c), g \in Behind(m), h \in Behind(n),
           ContainerOf[g] = ContainerOf[h]
    PROVE  g = h
<1> SUFFICES ASSUME g # h PROVE FALSE
  OBVIOUS
<1>1. PICK q \in request[c] : m \in indices_of(q)
  BY DEF indices
<1>2. n \in indices_of(q) /\ q \in Requests
  BY <1>1 DEF indices, Typed
<1>3. <<m, g>> \in served /\ <<n, h>> \in served
  BY DEF Behind
<1>4. /\ \E i \in DOMAIN AliasesOf[g] : m = AliasesOf[g][i]
      /\ \E i \in DOMAIN AliasesOf[h] : n = AliasesOf[h][i]
  BY <1>3 DEF Served, Aliased
<1>5. PICK t \in STRING, d \in Datasets :
         /\ AliasesOf[g] = AliasesOf[h]
         /\ \A i \in DOMAIN AliasesOf[g] :
               AliasesOf[g][i] \in {root_doctype_dataset(t, d), root_doctype(t), root}
  BY CatalogueAssumption
<1>6. m = n
  <2>1. {m, n} \subseteq {root_doctype_dataset(t, d), root_doctype(t), root}
    BY <1>4, <1>5
  <2> QED
    BY <1>1, <1>2, <2>1, OneLevel
<1> QED
  BY <1>3, <1>6 DEF Served, OneVersion

-------------------------------------------------------------------------------
\* A run takes its aliases over one by one, and its peers lose an alias only to
\* a run that is already behind it.
LEMMA SwitchStep ==
    ASSUME IInv, NEW r \in Runs, NEW n \in 1..Len(AliasesOf[r]), Catalogue!switch(r, n)
    PROVE  Served' /\ \A x \in served : \E y \in served' : y[1] = x[1]
<1> DEFINE a == AliasesOf[r][n]
           own == <<a, r>>
<1>1. /\ served' = {x \in served : x[1] # a \/ x[2] \notin Catalogue!Peers(r)} \cup {own}
      /\ own[1] = a /\ own[2] = r
  BY DEF Catalogue!switch
<1>2. \A x \in served : x[2] \in Runs
  BY DEF IInv, Aliased
<1>3. Aliased'
  <2>1. n \in DOMAIN AliasesOf[r]
    BY CatalogueAssumption
  <2> QED
    BY <1>1, <2>1 DEF IInv, Aliased
<1>4. ASSUME NEW x \in served, x[2] \notin Catalogue!Peers(r), x[1] = a, ContainerOf[x[2]] = ContainerOf[r]
      PROVE  x = own
  <2>1. x[2] = r
    BY <1>2, <1>4 DEF Catalogue!Peers
  <2>2. PICK q \in Runs : \E i \in DOMAIN AliasesOf[q] : x = <<AliasesOf[q][i], q>>
    BY DEF IInv, Aliased
  <2> QED
    BY <1>4, <2>1, <2>2
<1>5. OneVersion'
  <2> SUFFICES ASSUME NEW x \in served', NEW y \in served', x[1] = y[1], ContainerOf[x[2]] = ContainerOf[y[2]]
               PROVE  x = y
    BY DEF OneVersion
  <2> HIDE DEF a, own
  <2>1. CASE x \in served /\ y \in served
    BY <2>1 DEF IInv, OneVersion
  <2>2. CASE x = own /\ y # own
    BY <1>1, <1>4, <2>2
  <2>3. CASE y = own /\ x # own
    BY <1>1, <1>4, <2>3
  <2> QED
    BY <1>1, <2>1, <2>2, <2>3
<1>6. \A x \in served : \E y \in served' : y[1] = x[1]
  BY <1>1
<1> QED
  BY <1>3, <1>5, <1>6 DEF Served

LEMMA DeleteStep ==
    ASSUME IInv, NEW r \in Runs, NEW q \in Catalogue!Peers(r), Catalogue!delete(r, q)
    PROVE  Served' /\ \A x \in served : \E y \in served' : y[1] = x[1]
<1>1. served' = {x \in served : x[2] # q} /\ Catalogue!SwitchedUpTo(r, Len(AliasesOf[r]))
  BY DEF Catalogue!delete
<1>2. Served'
  BY <1>1 DEF IInv, Served, Aliased, OneVersion
<1>3. ASSUME NEW x \in served PROVE \E y \in served' : y[1] = x[1]
  <2>0. PICK g \in Runs : \E i \in DOMAIN AliasesOf[g] : x = <<AliasesOf[g][i], g>>
    BY DEF IInv, Aliased
  <2>1. PICK i \in DOMAIN AliasesOf[g] : x = <<AliasesOf[g][i], g>>
    BY <2>0
  <2>2. CASE g # q
    BY <1>1, <2>1, <2>2
  <2>3. CASE g = q
    <3>1. q # r /\ AliasesOf[q] = AliasesOf[r]
      BY CatalogueAssumption DEF Catalogue!Peers
    <3>2. i \in 1..Len(AliasesOf[r])
      BY <2>1, <2>3, <3>1, CatalogueAssumption
    <3>3. <<AliasesOf[r][i], r>> \in served'
      BY <1>1, <3>1, <3>2 DEF Catalogue!SwitchedUpTo
    <3> QED
      BY <2>1, <2>3, <3>1, <3>3
  <2> QED
    BY <2>2, <2>3
<1> QED
  BY <1>2, <1>3

LEMMA PublicationStep == ASSUME IInv, Publication PROVE IInv'
<1>1. UNCHANGED handlerVars
  BY DEF Publication
<1>2. PICK r \in Runs : Catalogue!begin(r) \/ Catalogue!Work(r)
  BY DEF Publication
<1>3. Served' /\ \A x \in served : \E y \in served' : y[1] = x[1]
  <2>1. CASE Catalogue!begin(r) \/ Catalogue!end(r)
    BY <2>1 DEF Catalogue!begin, Catalogue!end, IInv, Served, Aliased, OneVersion
  <2>2. CASE \E n \in 1..Len(AliasesOf[r]) : Catalogue!switch(r, n)
    BY <2>2, SwitchStep
  <2>3. CASE \E q \in Catalogue!Peers(r) : Catalogue!delete(r, q)
    BY <2>3, DeleteStep
  <2> QED
    BY <1>2, <2>1, <2>2, <2>3 DEF Catalogue!Work
<1>4. Reached'
  BY <1>1, <1>3 DEF handlerVars, IInv, Reached
<1> QED
  BY <1>1, <1>3, <1>4 DEF handlerVars, IInv, Typed, Served, AnswersOnce, NotMissed

-------------------------------------------------------------------------------
\* What a reply may hold.
Allowed(c, found, missing) ==
    /\ found \subseteq Runs
    /\ \A g \in found : \E n \in indices(c) : g \in Behind(n)
    /\ \A g, h \in found : ContainerOf[g] = ContainerOf[h] => g = h
    /\ missing \cap reachable[c] = {}

\* A handler replies with what is allowed, or replies nothing yet.
Replies(c) ==
    /\ \E next \in Phases \ {"idle"} : state' = [state EXCEPT ![c] = next]
    /\ \/ UNCHANGED answer
       \/ \E status, found, missing :
             /\ Allowed(c, found, missing)
             /\ answer' = [answer EXCEPT ![c] = [status |-> status, hits |-> found, missing |-> missing]]

LEMMA RepliesStep ==
    ASSUME IInv, NEW c \in Clients, Replies(c), UNCHANGED <<catalogue, request, reachable>> PROVE IInv'
<1>1. UNCHANGED <<served, request, reachable>>
  BY DEF catalogue
<1>2. PICK next \in Phases \ {"idle"} : state' = [state EXCEPT ![c] = next]
  BY DEF Replies
<1>3. CASE UNCHANGED answer
  BY <1>1, <1>2, <1>3 DEF IInv, Typed, Aliased, OneVersion, Reached, AnswersOnce, NotMissed
<1>4. ASSUME NEW status, NEW found, NEW missing, Allowed(c, found, missing),
             answer' = [answer EXCEPT ![c] = [status |-> status, hits |-> found, missing |-> missing]]
      PROVE  IInv'
  <2>1. /\ answer'[c] = [status |-> status, hits |-> found, missing |-> missing]
        /\ \A d \in Clients : d # c => answer'[d] = answer[d]
        /\ answer' = [d \in Clients |-> answer'[d]]
    BY <1>4 DEF IInv, Typed
  <2>2. Typed'
    BY <1>1, <1>2, <1>4, <2>1 DEF IInv, Typed, Allowed
  <2>3. AnswersOnce' /\ NotMissed'
    BY <1>1, <1>4, <2>1 DEF IInv, AnswersOnce, NotMissed, Allowed
  <2> QED
    BY <1>1, <2>2, <2>3 DEF IInv, Aliased, OneVersion, Reached
<1> QED
  BY <1>3, <1>4 DEF Replies

LEMMA NothingAllowed == ASSUME NEW c PROVE Allowed(c, {}, {})
BY DEF Allowed

\* A rejection that tells of missing indices is of indices that were not there.
LEMMA ErrorReplies ==
    ASSUME IInv, NEW c \in Clients, es_error(c) \/ search_error(c) PROVE Replies(c)
<1>1. Allowed(c, {}, {}) /\ Allowed(c, {}, Missing(c))
  <2>1. ASSUME NEW n \in Missing(c), n \in reachable[c] PROVE FALSE
    <3>1. PICK x \in served : x[1] = n
      BY <2>1 DEF IInv, Reached
    <3>2. PICK r \in Runs : \E i \in DOMAIN AliasesOf[r] : x = <<AliasesOf[r][i], r>>
      BY DEF IInv, Aliased
    <3>3. r \in Behind(n)
      BY <3>1, <3>2 DEF Behind
    <3> QED
      BY <3>3 DEF Missing
  <2> QED
    BY <2>1 DEF Allowed
<1>2. CASE panic(c)
  BY <1>2 DEF panic, next_phase, Replies, Phases
<1>3. ASSUME NEW R, NEW missing \in {{}, Missing(c)}, reject(c, R, missing) PROVE Replies(c)
  <2>1. /\ state' = [state EXCEPT ![c] = "answered"]
        /\ answer' = [answer EXCEPT ![c] = [status |-> report_invalid(with_other_routes(R)),
                                            hits |-> {}, missing |-> missing]]
    BY <1>3 DEF reject, reply
  <2> QED
    BY <1>1, <2>1 DEF Replies, Phases
<1> QED
  BY <1>2, <1>3 DEF es_error, search_error

LEMMA HitsAllowed ==
    ASSUME IInv, NEW c \in Clients, NEW S \in SUBSET Runs,
           \A g \in S : \E n \in indices(c) : g \in Behind(n)
    PROVE  Allowed(c, S, {})
BY FoundOnce DEF IInv, Served, Allowed

LEMMA OkReplies ==
    ASSUME IInv, NEW c \in Clients, NEW S, Allowed(c, S, {}), reply(c, "OK", S, {}) \/ places(c, S)
    PROVE  Replies(c)
<1>1. CASE reply(c, "OK", S, {})
  BY <1>1 DEF reply, Replies, Phases
<1>2. CASE reject(c, {"InternalError"}, {})
  BY <1>2, NothingAllowed DEF reject, reply, Replies, Phases
<1> QED
  BY <1>1, <1>2 DEF places

LEMMA HandleReplies == ASSUME IInv, NEW c \in Clients, Handle(c) PROVE Replies(c)
<1>1. ASSUME NEW S \in Hits(c) PROVE Allowed(c, S, {})
  <2>1. \A g \in S : g \in Runs /\ \E n \in indices(c) : g \in Behind(n)
    BY DEF Hits, Behind
  <2> QED
    BY <2>1, HitsAllowed
<1>2. ASSUME NEW where \in {"fuzzy", "version", "dropped"}, next_phase(c, where) PROVE Replies(c)
  BY <1>2 DEF next_phase, Replies, Phases, Waiting
<1>3. ASSUME NEW R, reject(c, R, {}) PROVE Replies(c)
  BY <1>3, NothingAllowed DEF reject, reply, Replies, Phases
<1>4. CASE search_prefix(c) \/ search_fuzzy(c) \/ search_reverse(c)
  BY <1>1, <1>2, <1>4, ErrorReplies, OkReplies DEF search_prefix, search_fuzzy, search_reverse, panic
<1>5. CASE get_documents_by_id(c)
  <2>1. ASSUME NEW S \in SUBSET {r \in Runs : \E n \in indices(c) : Behind(n) = {r}} PROVE Allowed(c, S, {})
    BY HitsAllowed
  <2> QED
    BY <1>3, <1>5, <2>1, ErrorReplies, OkReplies DEF get_documents_by_id
<1>6. CASE explain_search(c)
  <2>1. ASSUME NEW r \in Runs, NEW n \in indices(c), Behind(n) = {r} PROVE Allowed(c, {r}, {})
    BY <2>1 DEF Allowed
  <2> QED
    BY <1>6, <2>1, ErrorReplies, OkReplies DEF explain_search
<1>7. CASE cluster_health(c) \/ cluster_version(c) \/ metrics(c)
  BY <1>2, <1>7, ErrorReplies, OkReplies, NothingAllowed DEF cluster_health, cluster_version, metrics
<1> QED
  BY <1>4, <1>5, <1>6, <1>7 DEF Handle

LEMMA ReceiveStep == ASSUME IInv, NEW c \in Clients, NEW q \in Requests, receive(c, q) PROVE IInv'
<1>1. /\ state[c] = "idle" /\ answer[c] = NoAnswer
      /\ request' = [request EXCEPT ![c] = {q}]
      /\ reachable' = [reachable EXCEPT ![c] = {x[1] : x \in served}]
      /\ UNCHANGED served
  BY DEF receive, IInv, Typed, catalogue
<1>2. /\ \E next \in Phases \ {"idle"} : state' = [state EXCEPT ![c] = next]
      /\ \/ UNCHANGED answer
         \/ \E status : answer' = [answer EXCEPT ![c] = [status |-> status, hits |-> {}, missing |-> {}]]
  <2>1. CASE rejections(q) = {} /\ next_phase(c, handler(q.path))
    <3>1. q.path \in Handlers
      BY <2>1 DEF rejections
    <3>2. handler(q.path) \in Phases \ {"idle"}
      BY <3>1 DEF handler, Handlers, Phases, Waiting
    <3> QED
      BY <2>1, <3>2 DEF next_phase
  <2>2. CASE reject(c, rejections(q), {})
    BY <2>2 DEF reject, reply, Phases
  <2> QED
    BY <2>1, <2>2 DEF receive
<1>3. /\ answer'[c].hits = {} /\ answer'[c].missing = {}
      /\ \A d \in Clients : d # c => answer'[d] = answer[d] /\ reachable'[d] = reachable[d]
      /\ reachable'[c] = {x[1] : x \in served}
      /\ answer' = [d \in Clients |-> answer'[d]] /\ reachable' = [d \in Clients |-> reachable'[d]]
  <2>1. /\ \A d \in Clients : d # c => reachable'[d] = reachable[d]
        /\ reachable'[c] = {x[1] : x \in served} /\ reachable' = [d \in Clients |-> reachable'[d]]
    BY <1>1 DEF IInv, Typed
  <2>2. /\ answer'[c].hits = {} /\ answer'[c].missing = {}
        /\ \A d \in Clients : d # c => answer'[d] = answer[d]
        /\ answer' = [d \in Clients |-> answer'[d]]
    <3>1. CASE UNCHANGED answer
      BY <1>1, <3>1 DEF IInv, Typed, NoAnswer
    <3>2. ASSUME NEW status, answer' = [answer EXCEPT ![c] = [status |-> status, hits |-> {}, missing |-> {}]]
          PROVE  /\ answer'[c].hits = {} /\ answer'[c].missing = {}
                 /\ \A d \in Clients : d # c => answer'[d] = answer[d]
                 /\ answer' = [d \in Clients |-> answer'[d]]
      BY <3>2 DEF IInv, Typed
    <3> QED
      BY <1>2, <3>1, <3>2
  <2> QED
    BY <2>1, <2>2
<1>4. Typed'
  BY <1>1, <1>2, <1>3 DEF IInv, Typed
<1>5. Reached' /\ AnswersOnce' /\ NotMissed'
  BY <1>1, <1>3 DEF IInv, Reached, AnswersOnce, NotMissed
<1> QED
  BY <1>1, <1>4, <1>5 DEF IInv, Aliased, OneVersion

LEMMA Invariance == Spec => []IInv
<1>1. Init => IInv
  <2> SUFFICES ASSUME Init PROVE IInv
    OBVIOUS
  <2>1. Typed /\ Reached /\ AnswersOnce /\ NotMissed
    BY DEF Init, Typed, Phases, NoAnswer, Reached, AnswersOnce, NotMissed
  <2>2. ASSUME NEW x \in served
        PROVE  \E r \in AtStart : \E i \in DOMAIN AliasesOf[r] : x = <<AliasesOf[r][i], r>>
    <3>1. PICK r \in AtStart : x \in {<<AliasesOf[r][i], r>> : i \in 1..Len(AliasesOf[r])}
      BY DEF Init, Catalogue!Init
    <3>2. DOMAIN AliasesOf[r] = 1..Len(AliasesOf[r])
      BY BragiAssumption, CatalogueAssumption
    <3> QED
      BY <3>1, <3>2
  <2>3. Aliased /\ OneVersion
    BY <2>2, BragiAssumption, CatalogueAssumption DEF Aliased, OneVersion
  <2> QED
    BY <2>1, <2>3 DEF IInv
<1>2. IInv /\ [Next]_vars => IInv'
  <2> SUFFICES ASSUME IInv, [Next]_vars PROVE IInv'
    OBVIOUS
  <2>1. CASE UNCHANGED vars
    BY <2>1 DEF vars, catalogue, handlerVars, IInv, Typed, Aliased, OneVersion, Reached, AnswersOnce, NotMissed
  <2>2. CASE Publication
    BY <2>2, PublicationStep
  <2>3. ASSUME NEW c \in Clients, NEW q \in Requests, receive(c, q) PROVE IInv'
    BY <2>3, ReceiveStep
  <2>4. ASSUME NEW c \in Clients, HandleStep(c) PROVE IInv'
    BY <2>4, HandleReplies, RepliesStep DEF HandleStep
  <2>5. ASSUME NEW c \in Clients, AbandonStep(c) PROVE IInv'
    <3>1. Replies(c)
      BY <2>5 DEF AbandonStep, abandon, panic, next_phase, Replies, Phases
    <3> QED
      BY <2>5, <3>1, RepliesStep DEF AbandonStep
  <2> QED
    BY <2>1, <2>2, <2>3, <2>4, <2>5 DEF Next
<1> QED
  BY <1>1, <1>2, PTL DEF Spec

\* An answer shows each container in one version, whatever is published while
\* the handler waits (handlers.rs:109): no request mixes the levels of aliases
\* of a document type, and no alias has two versions.
THEOREM AnswersOnceAlways == Spec => []AnswersOnce
<1>1. IInv => AnswersOnce
  BY DEF IInv
<1> QED
  BY <1>1, Invariance, PTL

\* An alias that was there when a request came is there when it is searched
\* (internal.rs:1077), however many publications come in between.
THEOREM NotMissedAlways == Spec => []NotMissed
<1>1. IInv => NotMissed
  BY DEF IInv
<1> QED
  BY <1>1, Invariance, PTL

-------------------------------------------------------------------------------
\* Only accepted requests wait; the statuses of their answers are not those of
\* requests that no route takes.
ClientErrors == {"invalid query", "validation error", "no route"}
Accepted == \A c \in Clients : \A q \in request[c] : state[c] \in Waiting => rejections(q) = {}
Moves(c) ==
    \E next \in {"fuzzy", "version", "dropped", "answered"} :
        /\ state' = [state EXCEPT ![c] = next]
        /\ next = "answered" => answer'[c].status \in {"OK", "query error", "Unable to find object"}
        /\ \A d \in Clients : d # c => answer'[d] = answer[d]

LEMMA HandleMoves == ASSUME Typed, NEW c \in Clients, Handle(c) PROVE state[c] \in Waiting /\ Moves(c)
<1>1. state[c] \in Waiting
  BY DEF Handle, search_prefix, search_fuzzy, search_reverse, get_documents_by_id, explain_search,
     cluster_health, cluster_version, metrics, Waiting
<1>2. ASSUME NEW status \in {"OK", "query error", "Unable to find object"}, NEW found, NEW missing,
             reply(c, status, found, missing)
      PROVE  Moves(c)
  BY <1>2 DEF reply, Moves, Typed
<1>3. ASSUME NEW where \in {"fuzzy", "version", "dropped"}, next_phase(c, where) PROVE Moves(c)
  BY <1>3 DEF next_phase, Moves
<1>4. ASSUME NEW R \in {{"InternalError"}, {"ObjectNotFoundError"}}, NEW missing, reject(c, R, missing) PROVE Moves(c)
  <2>1. report_invalid(with_other_routes(R)) \in {"query error", "Unable to find object"}
    BY DEF report_invalid, with_other_routes
  <2> QED
    BY <1>2, <1>4, <2>1 DEF reject
<1>5. ASSUME es_error(c) \/ search_error(c) PROVE Moves(c)
  BY <1>3, <1>4, <1>5 DEF es_error, search_error, panic
<1>6. ASSUME NEW S, places(c, S) PROVE Moves(c)
  BY <1>2, <1>4, <1>6 DEF places
<1>7. CASE search_prefix(c) \/ search_fuzzy(c) \/ search_reverse(c)
  BY <1>1, <1>2, <1>3, <1>5, <1>6, <1>7 DEF search_prefix, search_fuzzy, search_reverse, panic
<1>8. CASE get_documents_by_id(c) \/ explain_search(c)
  BY <1>1, <1>2, <1>4, <1>5, <1>6, <1>8 DEF get_documents_by_id, explain_search
<1>9. CASE cluster_health(c) \/ cluster_version(c) \/ metrics(c)
  BY <1>1, <1>2, <1>3, <1>5, <1>9 DEF cluster_health, cluster_version, metrics
<1> QED
  BY <1>1, <1>7, <1>8, <1>9 DEF Handle

LEMMA MovesStep ==
    ASSUME Typed, Accepted, Reported, NEW c \in Clients, state[c] \in Waiting, Moves(c), UNCHANGED request
    PROVE  Accepted' /\ Reported'
<1>1. PICK next \in {"fuzzy", "version", "dropped", "answered"} :
         /\ state' = [state EXCEPT ![c] = next]
         /\ next = "answered" => answer'[c].status \in {"OK", "query error", "Unable to find object"}
         /\ \A d \in Clients : d # c => answer'[d] = answer[d]
  BY DEF Moves
<1>2. state'[c] = next /\ \A d \in Clients : d # c => state'[d] = state[d]
  BY <1>1 DEF Typed
<1>3. \A q \in request[c] : rejections(q) = {}
  BY DEF Accepted
<1>4. Accepted'
  BY <1>2, <1>3 DEF Accepted
<1>5. ASSUME NEW d \in Clients, NEW q \in request[d], state'[d] = "answered"
      PROVE  /\ answer'[d].status # "INTERNAL_SERVER_ERROR"
             /\ answer'[d].status \in ClientErrors <=> rejections(q) # {}
  <2>1. CASE d = c
    BY <1>1, <1>2, <1>3, <1>5, <2>1 DEF ClientErrors
  <2>2. CASE d # c
    BY <1>1, <1>2, <1>5, <2>2 DEF Reported, ClientErrors
  <2> QED
    BY <2>1, <2>2
<1> QED
  BY <1>4, <1>5 DEF Reported, ClientErrors

\* A rejection of the routes is always told as one.
LEMMA RejectionStatus ==
    ASSUME NEW q, rejections(q) # {} PROVE report_invalid(with_other_routes(rejections(q))) \in ClientErrors
<1>1. rejections(q) \in {{"NotThisRoute"}, {"InvalidPostBody"}, {"InvalidQuery"}, {"InvalidRequest"}}
  BY DEF rejections, query_rejections
<1> QED
  BY <1>1 DEF report_invalid, with_other_routes, ClientErrors

LEMMA ReceiveReported ==
    ASSUME Typed, Accepted, Reported, NEW c \in Clients, NEW q \in Requests, receive(c, q)
    PROVE  Accepted' /\ Reported'
<1>1. /\ request'[c] = {q} /\ \A d \in Clients : d # c => request'[d] = request[d]
  BY DEF receive, Typed
<1>2. CASE rejections(q) = {} /\ next_phase(c, handler(q.path))
  <2>1. handler(q.path) # "answered"
    BY <1>2 DEF rejections, handler, Handlers
  <2>2. /\ state'[c] = handler(q.path) /\ \A d \in Clients : d # c => state'[d] = state[d]
        /\ answer' = answer
    BY <1>2 DEF next_phase, Typed
  <2> QED
    BY <1>1, <1>2, <2>1, <2>2 DEF Accepted, Reported
<1>3. CASE rejections(q) # {} /\ reject(c, rejections(q), {})
  <2>1. /\ state'[c] = "answered" /\ \A d \in Clients : d # c => state'[d] = state[d]
        /\ answer'[c].status = report_invalid(with_other_routes(rejections(q)))
        /\ \A d \in Clients : d # c => answer'[d] = answer[d]
    BY <1>3 DEF reject, reply, Typed
  <2>2. answer'[c].status \in ClientErrors
    BY <1>3, <2>1, RejectionStatus
  <2>3. Accepted'
    BY <1>1, <2>1 DEF Accepted, Waiting
  <2>4. Reported'
    BY <1>1, <1>3, <2>1, <2>2 DEF Reported, ClientErrors
  <2> QED
    BY <2>3, <2>4
<1> QED
  BY <1>2, <1>3 DEF receive

\* Whatever is requested and whatever fails, a request has the status that tells
\* whose error it was (routes.rs:361).
THEOREM ReportedAlways == Spec => []Reported
<1>1. Init => Accepted /\ Reported
  BY DEF Init, Accepted, Reported
<1>2. IInv /\ Accepted /\ Reported /\ [Next]_vars => (Accepted /\ Reported)'
  <2> SUFFICES ASSUME IInv, Accepted, Reported, [Next]_vars PROVE (Accepted /\ Reported)'
    OBVIOUS
  <2>1. CASE UNCHANGED vars \/ Publication
    BY <2>1 DEF vars, Publication, handlerVars, Accepted, Reported
  <2>2. ASSUME NEW c \in Clients, NEW q \in Requests, receive(c, q) PROVE (Accepted /\ Reported)'
    BY <2>2, ReceiveReported DEF IInv
  <2>3. ASSUME NEW c \in Clients, HandleStep(c) PROVE (Accepted /\ Reported)'
    BY <2>3, HandleMoves, MovesStep DEF HandleStep, IInv
  <2>4. ASSUME NEW c \in Clients, AbandonStep(c) PROVE (Accepted /\ Reported)'
    <3>1. state[c] \in Waiting /\ Moves(c) /\ UNCHANGED request
      BY <2>4 DEF AbandonStep, abandon, panic, next_phase, Moves
    <3> QED
      BY <3>1, MovesStep DEF IInv
  <2> QED
    BY <2>1, <2>2, <2>3, <2>4 DEF Next
<1> QED
  BY <1>1, <1>2, Invariance, PTL DEF Spec

-------------------------------------------------------------------------------
\* Runs of a container take turns.  Begun lists the runs in the order they began;
\* the last of its container, if any, is the one that publishes.
Known == publishing \cup ended

Ordered ==
    /\ \E S : begun \in Seq(S)
    /\ \A i, j \in DOMAIN begun : begun[i] = begun[j] => i = j
    /\ \A i \in DOMAIN begun : begun[i] \notin AtStart
    /\ \A r \in Runs : r \in Known <=> r \in AtStart \/ \E i \in DOMAIN begun : begun[i] = r
    /\ publishing \subseteq Runs
    /\ \A x \in served : x[2] \in Known

TakeTurns == \A r \in publishing : \A q \in Catalogue!Peers(r) \cap Known : Since(q) < Since(r)

\* Behind an alias there is, of a container, what an answer showed or what came after it.
Still(q, g) ==
    \E x \in served : x[1] \in indices_of(q) /\ ContainerOf[x[2]] = ContainerOf[g] /\ Since(x[2]) >= Since(g)
Shown == \A d \in Clients : \A g \in answer[d].hits : g \in Known /\ \E q \in request[d] : Still(q, g)

\* A client that was answered stays so.
Stay == \A c \in Clients : answered[c] \subseteq {d \in Clients : state[d] = "answered"}

OInv == Ordered /\ TakeTurns /\ Shown /\ Stay /\ NeverOlder

\* When a run began.
LEMMA SinceIs ==
    ASSUME Ordered, NEW r \in Runs, r \in Known
    PROVE  /\ Since(r) \in Nat
           /\ r \in AtStart => Since(r) = 0
           /\ r \notin AtStart => Since(r) \in DOMAIN begun /\ begun[Since(r)] = r
<1>1. PICK S : begun \in Seq(S)
  BY DEF Ordered
<1>2. Len(begun) \in Nat /\ DOMAIN begun = 1..Len(begun)
  BY <1>1
<1>3. CASE r \in AtStart
  BY <1>3 DEF Since
<1>4. CASE r \notin AtStart
  <2>1. \E i \in 1..Len(begun) : begun[i] = r
    BY <1>2, <1>4 DEF Ordered
  <2>2. Since(r) = CHOOSE i \in 1..Len(begun) : begun[i] = r
    BY <1>4 DEF Since
  <2>3. Since(r) \in 1..Len(begun) /\ begun[Since(r)] = r
    BY <2>1, <2>2
  <2> QED
    BY <1>2, <1>4, <2>3
<1> QED
  BY <1>3, <1>4

\* Runs that have begun keep their place, and one that begins comes last.
LEMMA BeginOrder ==
    ASSUME Ordered, NEW r \in Runs, r \notin Known, begun' = Append(begun, r),
           Known' = Known \cup {r}, served' = served, publishing' \subseteq Runs
    PROVE  /\ Ordered'
           /\ \A q \in Runs \cap Known : Since(q)' = Since(q) /\ Since(q) < Since(r)'
<1>1. PICK S : begun \in Seq(S)
  BY DEF Ordered
<1>2. /\ Len(begun) \in Nat /\ DOMAIN begun = 1..Len(begun)
      /\ begun' \in Seq(S \cup {r}) /\ Len(begun') = Len(begun) + 1
      /\ DOMAIN begun' = 1..(Len(begun) + 1)
      /\ \A i \in DOMAIN begun : begun'[i] = begun[i]
      /\ begun'[Len(begun) + 1] = r
  <2>1. begun \in Seq(S \cup {r})
    BY <1>1
  <2> QED
    BY <1>1, <2>1
<1>3. r \notin AtStart /\ \A i \in DOMAIN begun : begun[i] # r
  BY DEF Ordered
<1>4. Ordered'
  <2>1. \A i \in DOMAIN begun' : i \in DOMAIN begun \/ i = Len(begun) + 1
    BY <1>2
  <2>2. \A i, j \in DOMAIN begun' : begun'[i] = begun'[j] => i = j
    BY <1>2, <1>3, <2>1 DEF Ordered
  <2>3. \A i \in DOMAIN begun' : begun'[i] \notin AtStart
    BY <1>2, <1>3, <2>1 DEF Ordered
  <2>4. ASSUME NEW q \in Runs PROVE q \in Known' <=> q \in AtStart \/ \E i \in DOMAIN begun' : begun'[i] = q
    <3>1. (\E i \in DOMAIN begun' : begun'[i] = q) <=> q = r \/ \E i \in DOMAIN begun : begun[i] = q
      BY <1>2, <2>1
    <3> QED
      BY <3>1 DEF Ordered
  <2>5. \A x \in served' : x[2] \in Known'
    BY DEF Ordered
  <2>6. \E T : begun' \in Seq(T)
    BY <1>2
  <2> QED
    BY <2>2, <2>3, <2>4, <2>5, <2>6 DEF Ordered
<1>5. Since(r)' = Len(begun) + 1
  <2>1. r \in Known'
    OBVIOUS
  <2>2. Since(r)' \in DOMAIN begun' /\ begun'[Since(r)'] = r
    <3>1. Since(r)' = CHOOSE i \in 1..Len(begun') : begun'[i] = r
      BY <1>3 DEF Since
    <3> QED
      BY <1>2, <3>1
  <2> QED
    BY <1>2, <1>3, <2>2
<1>6. ASSUME NEW q \in Runs \cap Known PROVE Since(q)' = Since(q) /\ Since(q) < Since(r)'
  <2>1. CASE q \in AtStart
    BY <1>2, <1>5, <2>1 DEF Since
  <2>2. CASE q \notin AtStart
    <3>1. Since(q) \in DOMAIN begun /\ begun[Since(q)] = q
      BY <2>2, SinceIs
    <3>2. Since(q)' = CHOOSE i \in 1..Len(begun') : begun'[i] = q
      BY <2>2 DEF Since
    <3>3. Since(q)' \in 1..Len(begun') /\ begun'[Since(q)'] = q
      BY <1>2, <3>1, <3>2
    <3>4. Since(q)' = Since(q)
      BY <1>2, <1>4, <3>1, <3>3 DEF Ordered
    <3> QED
      BY <1>2, <1>5, <3>1, <3>4
  <2> QED
    BY <2>1, <2>2
<1> QED
  BY <1>4, <1>6

\* Nothing that is behind an alias is followed by something older.
Onward ==
    \A x \in served : \E y \in served' :
        /\ y[1] = x[1] /\ ContainerOf[y[2]] = ContainerOf[x[2]]
        /\ Since(y[2]) >= Since(x[2])

LEMMA SwitchOnward ==
    ASSUME IInv, OInv, NEW r \in Runs, NEW n \in 1..Len(AliasesOf[r]), Catalogue!switch(r, n)
    PROVE  Onward /\ \A x \in served' : x[2] \in Known
<1> DEFINE own == <<AliasesOf[r][n], r>>
<1>1. /\ r \in publishing
      /\ served' = {x \in served : x[1] # own[1] \/ x[2] \notin Catalogue!Peers(r)} \cup {own}
      /\ own[1] = AliasesOf[r][n] /\ own[2] = r
  BY DEF Catalogue!switch
<1> HIDE DEF own
<1>2. ASSUME NEW x \in served
      PROVE  \E y \in served' : y[1] = x[1] /\ ContainerOf[y[2]] = ContainerOf[x[2]] /\ Since(y[2]) >= Since(x[2])
  <2>0. x[2] \in Runs \cap Known
    BY DEF OInv, Ordered, IInv, Aliased
  <2>1. Since(x[2]) \in Nat /\ Since(r) \in Nat
    BY <1>1, <2>0, SinceIs DEF OInv, Known
  <2>2. CASE x \in served'
    BY <2>1, <2>2
  <2>3. CASE x[1] = own[1] /\ x[2] \in Catalogue!Peers(r)
    <3>1. Since(x[2]) < Since(r) /\ ContainerOf[x[2]] = ContainerOf[r]
      BY <1>1, <2>0, <2>3 DEF OInv, TakeTurns, Catalogue!Peers
    <3> QED
      BY <1>1, <2>1, <2>3, <3>1
  <2> QED
    BY <1>1, <2>2, <2>3
<1> QED
  BY <1>1, <1>2 DEF Onward, OInv, Ordered, Known

LEMMA DeleteOnward ==
    ASSUME IInv, OInv, NEW r \in Runs, NEW q \in Catalogue!Peers(r), Catalogue!delete(r, q)
    PROVE  Onward /\ \A x \in served' : x[2] \in Known
<1>1. /\ r \in publishing /\ Catalogue!SwitchedUpTo(r, Len(AliasesOf[r]))
      /\ served' = {x \in served : x[2] # q}
  BY DEF Catalogue!delete
<1>2. ASSUME NEW x \in served
      PROVE  \E y \in served' : y[1] = x[1] /\ ContainerOf[y[2]] = ContainerOf[x[2]] /\ Since(y[2]) >= Since(x[2])
  <2>0. x[2] \in Runs \cap Known
    BY DEF OInv, Ordered, IInv, Aliased
  <2>1. Since(x[2]) \in Nat /\ Since(r) \in Nat
    BY <1>1, <2>0, SinceIs DEF OInv, Known
  <2>2. CASE x[2] # q
    BY <1>1, <2>1, <2>2
  <2>3. CASE x[2] = q
    <3>1. q # r /\ ContainerOf[q] = ContainerOf[r] /\ AliasesOf[q] = AliasesOf[r] /\ q \in Runs
      BY CatalogueAssumption DEF Catalogue!Peers
    <3>2. PICK g \in Runs : \E i \in DOMAIN AliasesOf[g] : x = <<AliasesOf[g][i], g>>
      BY DEF IInv, Aliased
    <3>3. PICK i \in DOMAIN AliasesOf[g] : x = <<AliasesOf[g][i], g>>
      BY <3>2
    <3>4. i \in 1..Len(AliasesOf[r]) /\ x[1] = AliasesOf[r][i]
      BY <2>3, <3>1, <3>3, CatalogueAssumption
    <3>5. <<AliasesOf[r][i], r>> \in served'
      BY <1>1, <3>1, <3>4 DEF Catalogue!SwitchedUpTo
    <3>6. Since(q) < Since(r)
      BY <1>1, <2>0, <2>3 DEF OInv, TakeTurns
    <3> DEFINE y == <<AliasesOf[r][i], r>>
    <3>8. y \in served' /\ y[1] = x[1] /\ y[2] = r
      BY <3>4, <3>5
    <3> HIDE DEF y
    <3> QED
      BY <2>1, <2>3, <3>1, <3>6, <3>8
  <2> QED
    BY <2>2, <2>3
<1> QED
  BY <1>1, <1>2 DEF Onward, OInv, Ordered, Known

\* What an answer has shown stays, or something newer takes its place.
LEMMA OnwardShown ==
    ASSUME IInv, OInv, Onward, Ordered, \A x \in served' : x[2] \in Runs \cap Known,
           \A r \in Runs \cap Known : Since(r)' = Since(r) /\ r \in Known',
           UNCHANGED handlerVars
    PROVE  Shown' /\ Stay' /\ NeverOlder'
<1>1. \A d \in Clients : \A g \in answer[d].hits : g \in Runs \cap Known
  BY DEF OInv, Shown, IInv, Typed
<1>2. ASSUME NEW d \in Clients, NEW g \in answer[d].hits
      PROVE  \E q \in request[d] : Still(q, g)'
  <2>1. PICK q \in request[d], x \in served :
           x[1] \in indices_of(q) /\ ContainerOf[x[2]] = ContainerOf[g] /\ Since(x[2]) >= Since(g)
    BY DEF OInv, Shown, Still
  <2>2. PICK y \in served' : /\ y[1] = x[1] /\ ContainerOf[y[2]] = ContainerOf[x[2]]
                             /\ Since(y[2]) >= Since(x[2])
    BY DEF Onward
  <2>3. g \in Runs \cap Known /\ x[2] \in Runs \cap Known /\ y[2] \in Runs \cap Known
    BY <1>1, <2>2 DEF OInv, Ordered, IInv, Aliased
  <2>4. Since(y[2]) \in Nat /\ Since(x[2]) \in Nat /\ Since(g) \in Nat
    BY <2>3, SinceIs
  <2> DEFINE s == y[2]
  <2>5. Since(s)' = Since(s) /\ Since(g)' = Since(g)
    BY <2>3
  <2>6. y[1] \in indices_of(q) /\ ContainerOf[s] = ContainerOf[g] /\ Since(s) >= Since(g)
    BY <2>1, <2>2, <2>4
  <2> QED
    BY <2>2, <2>5, <2>6 DEF Still
<1>3. Shown'
  BY <1>1, <1>2 DEF handlerVars, Shown
<1>4. Stay'
  BY DEF handlerVars, OInv, Stay
<1>5. NeverOlder'
  <2> SUFFICES ASSUME NEW c \in Clients, NEW d \in answered'[c],
                      NEW p \in request'[c], NEW q \in request'[d], SameDatasets(p, q),
                      NEW h \in answer'[c].hits, NEW g \in answer'[d].hits, ContainerOf[g] = ContainerOf[h]
               PROVE  Since(h)' >= Since(g)'
    BY DEF NeverOlder
  <2>1. d \in Clients /\ d \in answered[c] /\ p \in request[c] /\ q \in request[d]
        /\ h \in answer[c].hits /\ g \in answer[d].hits
    BY DEF handlerVars, OInv, Stay
  <2>2. Since(h) >= Since(g)
    BY <2>1 DEF OInv, NeverOlder
  <2>3. Since(h)' = Since(h) /\ Since(g)' = Since(g)
    BY <1>1, <2>1
  <2> QED
    BY <2>2, <2>3
<1> QED
  BY <1>3, <1>4, <1>5

LEMMA PublicationOnward == ASSUME IInv, OInv, Publication PROVE OInv'
<1>1. UNCHANGED handlerVars
  BY DEF Publication
<1>2. PICK r \in Runs : \/ Catalogue!begin(r) /\ begun' = Append(begun, r)
                        \/ Catalogue!Work(r) /\ UNCHANGED begun
  BY DEF Publication
<1>3. \A x \in served : x[2] \in Runs \cap Known
  BY DEF OInv, Ordered, IInv, Aliased
<1>4. CASE Catalogue!begin(r) /\ begun' = Append(begun, r)
  <2>1. /\ r \notin Known /\ publishing \cap Catalogue!Peers(r) = {} /\ served' = served
        /\ Known' = Known \cup {r} /\ publishing' \subseteq publishing \cup {r} /\ publishing' \subseteq Runs
    BY <1>4 DEF Catalogue!begin, Known, OInv, Ordered
  <2>2. Ordered' /\ \A q \in Runs \cap Known : Since(q)' = Since(q) /\ Since(q) < Since(r)'
    BY <1>4, <2>1, BeginOrder DEF OInv
  <2>3. ASSUME NEW s \in publishing', NEW q \in Catalogue!Peers(s) \cap Known' PROVE Since(q)' < Since(s)'
    <3>1. s \in Runs /\ q \in Runs /\ q # s /\ ContainerOf[q] = ContainerOf[s]
      BY <2>1, <2>3 DEF Catalogue!Peers
    <3>2. CASE s = r
      BY <2>1, <2>2, <3>1, <3>2
    <3>3. CASE s # r /\ q = r
      <4>1. s \in publishing \cap Catalogue!Peers(r)
        BY <2>1, <3>1, <3>3 DEF Catalogue!Peers
      <4> QED
        BY <2>1, <4>1
    <3>4. CASE s # r /\ q # r
      <4>1. s \in publishing /\ q \in Known /\ s \in Known
        BY <2>1, <3>4 DEF Known
      <4>2. Since(q) < Since(s)
        BY <4>1 DEF OInv, TakeTurns
      <4> QED
        BY <2>2, <3>1, <4>1, <4>2
    <3> QED
      BY <3>2, <3>3, <3>4
  <2>4. TakeTurns'
    BY <2>3 DEF TakeTurns
  <2>5. Onward
    <3>1. \A x \in served : Since(x[2]) \in Nat
      BY <1>3, SinceIs DEF OInv
    <3> QED
      BY <2>1, <3>1 DEF Onward
  <2>6. Shown' /\ Stay' /\ NeverOlder'
    BY <1>1, <1>3, <2>1, <2>2, <2>5, OnwardShown DEF OInv
  <2> QED
    BY <2>2, <2>4, <2>6 DEF OInv
<1>5. CASE Catalogue!Work(r) /\ UNCHANGED begun
  <2>1. /\ r \in publishing /\ Known' = Known /\ publishing' \subseteq publishing
    BY <1>5 DEF Catalogue!Work, Catalogue!switch, Catalogue!delete, Catalogue!end, Catalogue!GoesOn, Known
  <2>2. Onward /\ \A x \in served' : x[2] \in Known
    <3>1. CASE \E n \in 1..Len(AliasesOf[r]) : Catalogue!switch(r, n)
      BY <3>1, SwitchOnward
    <3>2. CASE \E q \in Catalogue!Peers(r) : Catalogue!delete(r, q)
      BY <3>2, DeleteOnward
    <3>3. CASE Catalogue!end(r)
      <4>1. served' = served
        BY <3>3 DEF Catalogue!end
      <4>2. \A x \in served : Since(x[2]) \in Nat
        BY <1>3, SinceIs DEF OInv
      <4> QED
        BY <1>3, <4>1, <4>2 DEF Onward
    <3> QED
      BY <1>5, <3>1, <3>2, <3>3 DEF Catalogue!Work
  <2>3. \A q \in Runs : Since(q)' = Since(q)
    BY <1>5 DEF Since
  <2>4. Ordered'
    BY <1>5, <2>1, <2>2 DEF OInv, Ordered
  <2>5. TakeTurns'
    <3>1. ASSUME NEW s \in publishing', NEW q \in Catalogue!Peers(s) \cap Known' PROVE Since(q)' < Since(s)'
      <4>1. s \in publishing /\ s \in Runs /\ q \in Runs /\ q \in Known
        BY <2>1 DEF OInv, Ordered, Catalogue!Peers
      <4> QED
        BY <2>3, <4>1 DEF OInv, TakeTurns
    <3> QED
      BY <3>1 DEF TakeTurns
  <2>6. \A x \in served' : x[2] \in Runs \cap Known
    <3>1. IInv'
      BY PublicationStep
    <3> QED
      BY <2>2, <3>1 DEF IInv, Aliased
  <2>7. Shown' /\ Stay' /\ NeverOlder'
    BY <1>1, <2>1, <2>2, <2>3, <2>6, OnwardShown DEF OInv
  <2> QED
    BY <2>4, <2>5, <2>7 DEF OInv
<1> QED
  BY <1>2, <1>4, <1>5

-------------------------------------------------------------------------------
\* What two requests with the same datasets find of one container.
LEMMA SameLevel ==
    ASSUME IInv, OInv, NEW p \in Requests, NEW q \in Requests, SameDatasets(p, q),
           NEW h \in Runs, NEW g \in Runs, ContainerOf[g] = ContainerOf[h],
           NEW n \in indices_of(p), <<n, h>> \in served, g \in Known, Still(q, g)
    PROVE  Since(h) >= Since(g)
<1>1. PICK x \in served : x[1] \in indices_of(q) /\ ContainerOf[x[2]] = ContainerOf[g] /\ Since(x[2]) >= Since(g)
  BY DEF Still
<1>2. PICK r \in Runs : \E i \in DOMAIN AliasesOf[r] : x = <<AliasesOf[r][i], r>>
  BY DEF IInv, Aliased
<1>3. x = <<x[1], r>> /\ x[2] = r /\ \E i \in DOMAIN AliasesOf[r] : x[1] = AliasesOf[r][i]
  BY <1>2
<1>4. CASE r = h
  BY <1>1, <1>3, <1>4
<1>5. CASE r # h
  <2>1. \E i \in DOMAIN AliasesOf[h] : n = AliasesOf[h][i]
    BY DEF IInv, Aliased
  <2>2. PICK t \in STRING, d \in Datasets :
           /\ AliasesOf[r] = AliasesOf[h]
           /\ \A i \in DOMAIN AliasesOf[r] :
                 AliasesOf[r][i] \in {root_doctype_dataset(t, d), root_doctype(t), root}
    BY <1>1, <1>3, <1>5, CatalogueAssumption
  <2>3. {n, x[1]} \subseteq {root_doctype_dataset(t, d), root_doctype(t), root}
    BY <1>3, <2>1, <2>2
  <2>4. Whole(p, t) <=> Whole(q, t)
    BY DEF SameDatasets, Whole
  <2>5. n = x[1]
    BY <1>1, <2>3, <2>4, Level
  <2>6. <<n, h>> = x
    <3> DEFINE y == <<n, h>>
    <3>1. y \in served /\ y[1] = x[1] /\ ContainerOf[y[2]] = ContainerOf[x[2]]
      BY <1>1, <2>5
    <3> QED
      BY <3>1 DEF IInv, OneVersion
  <2> QED
    BY <1>3, <1>5, <2>6
<1> QED
  BY <1>4, <1>5

\* A handler replies while it waits.
LEMMA RepliesOnward ==
    ASSUME IInv, OInv, NEW c \in Clients, state[c] # "answered", Replies(c),
           UNCHANGED <<catalogue, begun, request, reachable, answered>>
    PROVE  OInv'
<1>1. UNCHANGED <<served, publishing, ended, begun, request, answered>>
  BY DEF catalogue
<1>2. Known' = Known /\ (\A r : Since(r)' = Since(r)) /\ (\A q, g : Still(q, g)' <=> Still(q, g))
  BY <1>1 DEF Known, Since, Still
<1>3. Ordered' /\ TakeTurns'
  BY <1>1, <1>2 DEF OInv, Ordered, TakeTurns
<1>4. Stay'
  <2>1. PICK next \in Phases \ {"idle"} : state' = [state EXCEPT ![c] = next]
    BY DEF Replies
  <2>2. \A d \in Clients : d # c => state'[d] = state[d]
    BY <2>1 DEF IInv, Typed
  <2> QED
    BY <1>1, <2>2 DEF OInv, Stay
<1>5. CASE UNCHANGED answer
  <2>1. Shown'
    BY <1>1, <1>2, <1>5 DEF OInv, Shown
  <2>2. NeverOlder'
    BY <1>1, <1>2, <1>5 DEF OInv, NeverOlder
  <2> QED
    BY <1>3, <1>4, <2>1, <2>2 DEF OInv
<1>6. ASSUME NEW status, NEW found, NEW missing, Allowed(c, found, missing),
             answer' = [answer EXCEPT ![c] = [status |-> status, hits |-> found, missing |-> missing]]
      PROVE  OInv'
  <2>1. answer'[c].hits = found /\ \A d \in Clients : d # c => answer'[d] = answer[d]
    BY <1>6 DEF IInv, Typed
  <2>2. ASSUME NEW h \in found
        PROVE  h \in Runs \cap Known /\ Since(h) \in Nat
               /\ \E p \in request[c] : \E n \in indices_of(p) : <<n, h>> \in served
    <3>1. PICK n \in indices(c) : <<n, h>> \in served
      BY <1>6 DEF Allowed, Behind
    <3>2. h \in Runs
      BY <1>6 DEF Allowed
    <3>3. h \in Known
      <4> DEFINE y == <<n, h>>
      <4>1. y \in served /\ y[2] = h
        BY <3>1
      <4> QED
        BY <4>1 DEF OInv, Ordered
    <3> QED
      BY <3>1, <3>2, <3>3, SinceIs DEF OInv, indices
  <2>3. ASSUME NEW h \in found PROVE \E q \in request[c] : Still(q, h)
    <3>0. PICK p \in request[c] : \E n \in indices_of(p) : <<n, h>> \in served
      BY <2>2
    <3>1. PICK n \in indices_of(p) : <<n, h>> \in served
      BY <3>0
    <3> DEFINE y == <<n, h>>
    <3>2. y \in served /\ y[1] \in indices_of(p) /\ y[2] = h
      BY <3>1
    <3>3. Since(h) >= Since(h)
      BY <2>2
    <3> HIDE DEF y
    <3> QED
      BY <3>2, <3>3 DEF Still
  <2>4. Shown'
    BY <1>1, <1>2, <2>1, <2>2, <2>3 DEF OInv, Shown
  <2>5. ASSUME NEW e \in Clients, NEW d \in answered[e], NEW p \in request[e], NEW q \in request[d], SameDatasets(p, q),
               NEW h \in answer'[e].hits, NEW g \in answer'[d].hits, ContainerOf[g] = ContainerOf[h]
        PROVE  Since(h) >= Since(g)
    <3>1. d \in Clients /\ d # c /\ answer'[d] = answer[d]
      BY <2>1 DEF OInv, Stay
    <3>2. CASE e # c
      BY <2>1, <2>5, <3>1, <3>2 DEF OInv, NeverOlder
    <3>3. CASE e = c
      <4>0. PICK u \in request[c] : \E n \in indices_of(u) : <<n, h>> \in served
        BY <2>1, <2>2, <3>3
      <4>1. PICK n \in indices_of(u) : <<n, h>> \in served
        BY <4>0
      <4>2. u = p /\ p \in Requests /\ q \in Requests
        BY <3>1, <3>3, <4>1 DEF IInv, Typed
      <4>3. g \in Known /\ g \in Runs /\ Still(q, g)
        BY <3>1 DEF OInv, Shown, IInv, Typed
      <4>4. h \in Runs
        BY <2>1, <2>2, <3>3
      <4> QED
        BY <2>5, <4>1, <4>2, <4>3, <4>4, SameLevel
    <3> QED
      BY <3>2, <3>3
  <2>6. NeverOlder'
    <3> SUFFICES ASSUME NEW e \in Clients, NEW d \in answered'[e], NEW p \in request'[e], NEW q \in request'[d],
                        SameDatasets(p, q), NEW h \in answer'[e].hits, NEW g \in answer'[d].hits,
                        ContainerOf[g] = ContainerOf[h]
                 PROVE  Since(h)' >= Since(g)'
      BY DEF NeverOlder
    <3>1. Since(h) >= Since(g)
      BY <1>1, <2>5
    <3> QED
      BY <1>2, <3>1
  <2> QED
    BY <1>3, <1>4, <2>4, <2>6 DEF OInv
<1> QED
  BY <1>5, <1>6 DEF Replies

LEMMA ReceiveOnward == ASSUME IInv, OInv, NEW c \in Clients, NEW q \in Requests, receive(c, q) PROVE OInv'
<1>1. /\ state[c] = "idle" /\ answer[c] = NoAnswer /\ UNCHANGED <<served, publishing, ended, begun>>
      /\ request' = [request EXCEPT ![c] = {q}]
      /\ answered' = [answered EXCEPT ![c] = {d \in Clients : state[d] = "answered"}]
  BY DEF receive, IInv, Typed, catalogue
<1>2. Known' = Known /\ (\A r : Since(r)' = Since(r)) /\ (\A u, g : Still(u, g)' <=> Still(u, g))
  BY <1>1 DEF Known, Since, Still
<1>3. /\ answer'[c].hits = {}
      /\ \A d \in Clients : d # c => answer'[d] = answer[d] /\ state'[d] = state[d]
  BY <1>1 DEF receive, next_phase, reject, reply, IInv, Typed, NoAnswer
<1>4. \A d \in Clients : d # c => request'[d] = request[d]
  BY <1>1 DEF IInv, Typed
<1>5. /\ \A d \in Clients : d # c => answered'[d] = answered[d]
      /\ \A d \in Clients : answered'[d] \subseteq {e \in Clients : state[e] = "answered"}
  BY <1>1 DEF OInv, Stay
<1>6. Ordered' /\ TakeTurns'
  BY <1>1, <1>2 DEF OInv, Ordered, TakeTurns
<1>7. Shown'
  BY <1>2, <1>3, <1>4 DEF OInv, Shown
<1>8. Stay'
  BY <1>1, <1>3, <1>5 DEF Stay
<1>9. NeverOlder'
  <2> SUFFICES ASSUME NEW e \in Clients, NEW d \in answered'[e], NEW p \in request'[e], NEW u \in request'[d],
                      SameDatasets(p, u), NEW h \in answer'[e].hits, NEW g \in answer'[d].hits,
                      ContainerOf[g] = ContainerOf[h]
               PROVE  Since(h)' >= Since(g)'
    BY DEF NeverOlder
  <2>1. e # c /\ d # c /\ d \in Clients
    BY <1>1, <1>3, <1>5
  <2>2. d \in answered[e] /\ p \in request[e] /\ u \in request[d] /\ h \in answer[e].hits /\ g \in answer[d].hits
    BY <1>3, <1>4, <1>5, <2>1
  <2> QED
    BY <1>2, <2>2 DEF OInv, NeverOlder
<1> QED
  BY <1>6, <1>7, <1>8, <1>9 DEF OInv

\* A client that keeps to its datasets is never shown an older version of a
\* container than an answer has shown before it asked, whatever is published and
\* however many replies are under way (handlers.rs:109, 248, 270).
THEOREM NeverOlderAlways == Spec => []NeverOlder
<1>1. Init => OInv
  <2> SUFFICES ASSUME Init PROVE OInv
    OBVIOUS
  <2>1. Ordered
    <3>1. begun \in Seq({}) /\ DOMAIN begun = {}
      BY DEF Init
    <3>2. \A r \in Runs : r \in Known <=> r \in AtStart
      BY DEF Init, Catalogue!Init, Known
    <3>3. \A x \in served : x[2] \in AtStart /\ AtStart \subseteq Known
      BY DEF Init, Catalogue!Init, Known
    <3>4. publishing = {}
      BY DEF Init, Catalogue!Init
    <3> QED
      BY <3>1, <3>2, <3>3, <3>4 DEF Ordered
  <2> QED
    BY <2>1 DEF Init, Catalogue!Init, OInv, TakeTurns, Shown, Stay, NeverOlder, NoAnswer
<1>2. IInv /\ OInv /\ [Next]_vars => OInv'
  <2> SUFFICES ASSUME IInv, OInv, [Next]_vars PROVE OInv'
    OBVIOUS
  <2>1. CASE UNCHANGED vars
    <3>1. UNCHANGED <<served, publishing, ended, begun, answer, request, state, answered>>
      BY <2>1 DEF vars, catalogue, handlerVars
    <3>2. Known' = Known /\ (\A r : Since(r)' = Since(r)) /\ (\A q, g : Still(q, g)' <=> Still(q, g))
      BY <3>1 DEF Known, Since, Still
    <3> QED
      BY <3>1, <3>2 DEF OInv, Ordered, TakeTurns, Shown, Stay, NeverOlder
  <2>2. CASE Publication
    BY <2>2, PublicationOnward
  <2>3. ASSUME NEW c \in Clients, NEW q \in Requests, receive(c, q) PROVE OInv'
    BY <2>3, ReceiveOnward
  <2>4. ASSUME NEW c \in Clients, HandleStep(c) PROVE OInv'
    <3>1. Replies(c) /\ state[c] \in Waiting
      BY <2>4, HandleReplies, HandleMoves DEF HandleStep, IInv
    <3>2. state[c] # "answered"
      BY <3>1 DEF Waiting
    <3> QED
      BY <2>4, <3>1, <3>2, RepliesOnward DEF HandleStep
  <2>5. ASSUME NEW c \in Clients, AbandonStep(c) PROVE OInv'
    <3>1. Replies(c) /\ state[c] # "answered"
      BY <2>5 DEF AbandonStep, abandon, panic, next_phase, Replies, Phases, Waiting
    <3> QED
      BY <2>5, <3>1, RepliesOnward DEF AbandonStep
  <2> QED
    BY <2>1, <2>2, <2>3, <2>4, <2>5 DEF Next
<1>3. OInv => NeverOlder
  BY DEF OInv
<1> QED
  BY <1>1, <1>2, <1>3, Invariance, PTL DEF Spec
-------------------------------------------------------------------------------
\* What each kind of query selects, at any depth of what is not made of others.
Plain(dsl) == dsl.op \in {"terms", "exists", "match", "shape", "near", "score"}

LEMMA PlainEverywhere ==
    ASSUME NEW dsl, Plain(dsl), NEW d
    PROVE  (SelectsInner(dsl, d) <=> SelectsPlain(dsl, d)) /\ (SelectsFilter(dsl, d) <=> SelectsPlain(dsl, d))
BY DEF Plain, SelectsInner, SelectsFilter, SelectsBool

LEMMA TermsSelect ==
    ASSUME NEW d, NEW name, NEW values
    PROVE  Plain(terms(name, values)) /\ (SelectsPlain(terms(name, values), d) <=> field(d, name) \cap values # {})
BY DEF Plain, terms, SelectsPlain

LEMMA ExistsSelect ==
    ASSUME NEW d, NEW name
    PROVE  Plain(exists(name)) /\ (SelectsPlain(exists(name), d) <=> field(d, name) # {})
BY DEF Plain, exists, SelectsPlain

LEMMA MatchSelect ==
    ASSUME NEW d, NEW name
    PROVE  Plain(match(name)) /\ (SelectsPlain(match(name), d) <=> name \in d.matching)
BY DEF Plain, match, SelectsPlain

LEMMA InnerBools ==
    ASSUME NEW a, NEW b, NEW d, Plain(a), Plain(b)
    PROVE  /\ SelectsInner(bool(<<a, b>>, <<>>, <<>>, <<>>), d) <=> SelectsPlain(a, d) /\ SelectsPlain(b, d)
           /\ SelectsInner(bool(<<a>>, <<>>, <<b>>, <<>>), d) <=> SelectsPlain(a, d) /\ SelectsPlain(b, d)
           /\ SelectsInner(bool(<<>>, <<>>, <<>>, <<a>>), d) <=> ~SelectsPlain(a, d)
           /\ SelectsFilter(bool(<<>>, <<>>, <<>>, <<a>>), d) <=> ~SelectsPlain(a, d)
<1>1. SelectsInner(bool(<<a, b>>, <<>>, <<>>, <<>>), d) <=> SelectsPlain(a, d) /\ SelectsPlain(b, d)
  BY DEF SelectsInner, SelectsBool, bool
<1>2. SelectsInner(bool(<<a>>, <<>>, <<b>>, <<>>), d) <=> SelectsPlain(a, d) /\ SelectsPlain(b, d)
  <2> DEFINE dsl == bool(<<a>>, <<>>, <<b>>, <<>>)
             s == <<a>>
             t == <<b>>
  <2>1. dsl.op = "bool" /\ dsl.must = s /\ dsl.filter = t /\ dsl.must_not = <<>> /\ dsl.should = <<>>
    BY DEF bool
  <2>2. DOMAIN s = {1} /\ s[1] = a /\ DOMAIN t = {1} /\ t[1] = b /\ s # <<>>
    OBVIOUS
  <2> HIDE DEF dsl, s, t
  <2>3. SelectsInner(dsl, d) <=> SelectsPlain(a, d) /\ SelectsPlain(b, d)
    BY <2>1, <2>2 DEF SelectsInner, SelectsBool
  <2> QED
    BY <2>3 DEF dsl
<1>3. SelectsInner(bool(<<>>, <<>>, <<>>, <<a>>), d) <=> ~SelectsPlain(a, d)
  BY DEF SelectsInner, SelectsBool, bool
<1>4. SelectsFilter(bool(<<>>, <<>>, <<>>, <<a>>), d) <=> ~SelectsInner(a, d)
  BY DEF SelectsFilter, SelectsBool, bool
<1> QED
  BY <1>1, <1>2, <1>3, <1>4, PlainEverywhere

LEMMA EitherOf ==
    ASSUME NEW a, NEW b, NEW d
    PROVE  SelectsFilter(bool(<<>>, <<a, b>>, <<>>, <<>>), d) <=> SelectsInner(a, d) \/ SelectsInner(b, d)
<1> DEFINE dsl == bool(<<>>, <<a, b>>, <<>>, <<>>)
<1>1. dsl.op = "bool" /\ dsl.must = <<>> /\ dsl.filter = <<>> /\ dsl.must_not = <<>> /\ dsl.should = <<a, b>>
  BY DEF bool
<1> HIDE DEF dsl
<1>2. SelectsFilter(dsl, d) <=> \E i \in DOMAIN dsl.should : SelectsInner(dsl.should[i], d)
  BY <1>1 DEF SelectsFilter, SelectsBool
<1> DEFINE s == <<a, b>>
<1>3. DOMAIN s = {1, 2} /\ s[1] = a /\ s[2] = b
  OBVIOUS
<1> HIDE DEF s
<1>4. dsl.should = s
  BY <1>1 DEF s
<1> QED
  BY <1>2, <1>3, <1>4 DEF dsl

\* The filters restrict the documents of some types and let those of others through.
LEMMA Filters ==
    ASSUME NEW d, NEW T
    PROVE  /\ SelectsFilter(build_shape_query(T), d) <=> (d.type \in T => d.inside)
           /\ SelectsFilter(build_poi_types_filter(T), d) <=> (d.type = "poi" => d.poi_type \cap T # {})
           /\ SelectsFilter(build_zone_types_filter(T), d) <=> (d.type = "admin" => d.zone_type \cap T # {})
<1>1. /\ field(d, "type") = {d.type} /\ field(d, "poi_type") = d.poi_type /\ field(d, "zone_type") = d.zone_type
      /\ field(d, "house_number") = d.house_number
  BY DEF field
<1> DEFINE typed(V) == terms("type", V)
           shape == [op |-> "shape"]
<1>2. /\ \A V : Plain(typed(V)) /\ (SelectsPlain(typed(V), d) <=> d.type \in V)
      /\ Plain(shape) /\ (SelectsPlain(shape, d) <=> d.inside)
  <2>1. Plain(shape) /\ (SelectsPlain(shape, d) <=> d.inside)
    BY DEF Plain, SelectsPlain
  <2>2. ASSUME NEW V PROVE Plain(typed(V)) /\ (SelectsPlain(typed(V), d) <=> d.type \in V)
    <3>1. Plain(typed(V)) /\ (SelectsPlain(typed(V), d) <=> field(d, "type") \cap V # {})
      BY TermsSelect
    <3> QED
      BY <1>1, <3>1
  <2> HIDE DEF typed, shape
  <2> QED
    BY <2>1, <2>2
<1>3. /\ Plain(terms("poi_type", T)) /\ (SelectsPlain(terms("poi_type", T), d) <=> d.poi_type \cap T # {})
      /\ Plain(terms("zone_type", T)) /\ (SelectsPlain(terms("zone_type", T), d) <=> d.zone_type \cap T # {})
  <2>1. Plain(terms("poi_type", T)) /\ (SelectsPlain(terms("poi_type", T), d) <=> field(d, "poi_type") \cap T # {})
    BY TermsSelect
  <2>2. Plain(terms("zone_type", T)) /\ (SelectsPlain(terms("zone_type", T), d) <=> field(d, "zone_type") \cap T # {})
    BY TermsSelect
  <2> QED
    BY <1>1, <2>1, <2>2
<1> HIDE DEF typed, shape
<1>4. SelectsFilter(build_shape_query(T), d) <=> (d.type \in T => d.inside)
  <2>1. build_shape_query(T) =
          bool(<<>>, <<bool(<<typed(T)>>, <<>>, <<shape>>, <<>>), bool(<<>>, <<>>, <<>>, <<typed(T)>>)>>, <<>>, <<>>)
    BY DEF build_shape_query, typed, shape
  <2>2. SelectsInner(bool(<<typed(T)>>, <<>>, <<shape>>, <<>>), d) <=> d.type \in T /\ d.inside
    BY <1>2, InnerBools
  <2>3. SelectsInner(bool(<<>>, <<>>, <<>>, <<typed(T)>>), d) <=> d.type \notin T
    BY <1>2, InnerBools
  <2> QED
    BY <2>1, <2>2, <2>3, EitherOf
<1>5. ASSUME NEW type, NEW passes, Plain(passes)
      PROVE  SelectsFilter(bool(<<>>, <<bool(<<typed({type}), passes>>, <<>>, <<>>, <<>>),
                                        bool(<<>>, <<>>, <<>>, <<typed({type})>>)>>, <<>>, <<>>), d)
             <=> (d.type = type => SelectsPlain(passes, d))
  <2> DEFINE t == typed({type})
  <2>0. Plain(t) /\ (SelectsPlain(t, d) <=> d.type = type)
    BY <1>2
  <2> HIDE DEF t
  <2>1. SelectsInner(bool(<<t, passes>>, <<>>, <<>>, <<>>), d) <=> d.type = type /\ SelectsPlain(passes, d)
    BY <1>5, <2>0, InnerBools
  <2>2. SelectsInner(bool(<<>>, <<>>, <<>>, <<t>>), d) <=> d.type # type
    BY <2>0, InnerBools
  <2>3. SelectsFilter(bool(<<>>, <<bool(<<t, passes>>, <<>>, <<>>, <<>>), bool(<<>>, <<>>, <<>>, <<t>>)>>, <<>>, <<>>), d)
        <=> (d.type = type => SelectsPlain(passes, d))
    BY <2>1, <2>2, EitherOf
  <2> QED
    BY <2>3 DEF t
<1>6. SelectsFilter(build_poi_types_filter(T), d) <=> (d.type = "poi" => d.poi_type \cap T # {})
  BY <1>3, <1>5 DEF build_poi_types_filter, typed
<1>7. SelectsFilter(build_zone_types_filter(T), d) <=> (d.type = "admin" => d.zone_type \cap T # {})
  BY <1>3, <1>5 DEF build_zone_types_filter, typed
<1> QED
  BY <1>4, <1>6, <1>7

LEMMA Appended ==
    ASSUME NEW S, NEW s \in Seq(S), NEW x \in S, NEW t, t = Append(s, x)
    PROVE  DOMAIN t = 1..(Len(s) + 1) /\ t # <<>> /\ t[Len(s) + 1] = x /\ \A i \in 1..Len(s) : t[i] = s[i]
<1>1. Len(s) \in Nat
  OBVIOUS
<1>2. t \in Seq(S) /\ Len(t) = Len(s) + 1 /\ t[Len(s) + 1] = x /\ \A i \in 1..Len(s) : t[i] = s[i]
  OBVIOUS
<1>3. DOMAIN t = 1..(Len(s) + 1)
  BY <1>2
<1>4. t # <<>>
  BY <1>1, <1>2
<1> QED
  BY <1>2, <1>3, <1>4

\* Every document has one of the types, and a house number is found by more words only.
LEMMA Conditions ==
    ASSUME NEW d, NEW q
    PROVE  /\ SelectsFilter(build_house_number_condition(q), d) <=>
                  (d.house_number # {} => q.words > 1 /\ "house_number" \in d.matching)
           /\ \A type : SelectsFilter(build_matching_condition(type), d) <=>
                  (IF type = "PREFIX" THEN "full_label.prefix" ELSE "full_label.ngram") \in d.matching
<1> DEFINE numbered == exists("house_number")
           number == match("house_number")
<1>1. field(d, "house_number") = d.house_number
  BY DEF field
<1>2. /\ Plain(numbered) /\ (SelectsPlain(numbered, d) <=> d.house_number # {})
      /\ Plain(number) /\ (SelectsPlain(number, d) <=> "house_number" \in d.matching)
  BY <1>1, ExistsSelect, MatchSelect
<1> HIDE DEF numbered, number
<1>3. SelectsFilter(build_house_number_condition(q), d) <=>
          (d.house_number # {} => q.words > 1 /\ "house_number" \in d.matching)
  <2>1. SelectsInner(bool(<<>>, <<>>, <<>>, <<numbered>>), d) <=> d.house_number = {}
    BY <1>2, InnerBools
  <2>2. SelectsFilter(bool(<<>>, <<>>, <<>>, <<numbered>>), d) <=> d.house_number = {}
    BY <1>2, InnerBools
  <2>3. SelectsInner(number, d) <=> "house_number" \in d.matching
    BY <1>2, PlainEverywhere
  <2>4. SelectsFilter(bool(<<>>, <<bool(<<>>, <<>>, <<>>, <<numbered>>), number>>, <<>>, <<>>), d)
          <=> d.house_number = {} \/ "house_number" \in d.matching
    BY <2>1, <2>3, EitherOf
  <2>5. build_house_number_condition(q) =
          IF q.words > 1 THEN bool(<<>>, <<bool(<<>>, <<>>, <<>>, <<numbered>>), number>>, <<>>, <<>>)
          ELSE bool(<<>>, <<>>, <<>>, <<numbered>>)
    BY DEF build_house_number_condition, numbered, number
  <2>6. CASE q.words > 1
    BY <2>4, <2>5, <2>6
  <2>7. CASE ~(q.words > 1)
    BY <2>2, <2>5, <2>7
  <2> QED
    BY <2>6, <2>7
<1>4. ASSUME NEW type
      PROVE  SelectsFilter(build_matching_condition(type), d) <=>
                 (IF type = "PREFIX" THEN "full_label.prefix" ELSE "full_label.ngram") \in d.matching
  <2>1. \A name : SelectsFilter(match(name), d) <=> name \in d.matching
    BY MatchSelect, PlainEverywhere
  <2> QED
    BY <2>1 DEF build_matching_condition
<1> QED
  BY <1>3, <1>4

\* A text field is looked in for the words, and a type for a boost.
LEMMA Musts ==
    ASSUME NEW d, d.type \in {"admin", "street", "addr", "poi", "stop"}, NEW q, NEW type \in {"PREFIX", "FUZZY"}
    PROVE  /\ SelectsFilter(build_place_type_boost, d)
           /\ SelectsFilter(build_string_query(q, type), d) <=>
                  d.matching \cap ({"name", "label", "label.prefix", "zip_codes", "house_number"}
                                   \cup (IF type = "PREFIX" THEN {} ELSE {"label.ngram"})) # {}
<1>1. \A name : SelectsInner(match(name), d) <=> name \in d.matching
  BY MatchSelect, PlainEverywhere
<1>2. \A V : SelectsInner(terms("type", V), d) <=> d.type \in V
  <2>1. field(d, "type") = {d.type}
    BY DEF field
  <2>2. ASSUME NEW V PROVE SelectsInner(terms("type", V), d) <=> d.type \in V
    <3>1. Plain(terms("type", V)) /\ (SelectsPlain(terms("type", V), d) <=> field(d, "type") \cap V # {})
      BY TermsSelect
    <3> QED
      BY <2>1, <3>1, PlainEverywhere
  <2> QED
    BY <2>2
<1>3. ASSUME NEW should, should # <<>>
      PROVE  SelectsFilter(bool(<<>>, should, <<>>, <<>>), d) <=> \E i \in DOMAIN should : SelectsInner(should[i], d)
  <2> DEFINE dsl == bool(<<>>, should, <<>>, <<>>)
  <2>1. dsl.op = "bool" /\ dsl.must = <<>> /\ dsl.filter = <<>> /\ dsl.must_not = <<>> /\ dsl.should = should
    BY DEF bool
  <2> HIDE DEF dsl
  <2>2. SelectsFilter(dsl, d) <=> \E i \in DOMAIN dsl.should : SelectsInner(dsl.should[i], d)
    BY <1>3, <2>1 DEF SelectsFilter, SelectsBool
  <2> QED
    BY <2>1, <2>2 DEF dsl
<1>4. SelectsFilter(build_place_type_boost, d)
  <2> DEFINE s == <<terms("type", {"admin"}), terms("type", {"addr"}), terms("type", {"stop"}),
                    terms("type", {"poi"}), terms("type", {"street"})>>
  <2>1. DOMAIN s = 1..5 /\ s # <<>>
    OBVIOUS
  <2>2. /\ s[1] = terms("type", {"admin"}) /\ s[2] = terms("type", {"addr"}) /\ s[3] = terms("type", {"stop"})
        /\ s[4] = terms("type", {"poi"}) /\ s[5] = terms("type", {"street"})
    OBVIOUS
  <2>3. build_place_type_boost = bool(<<>>, s, <<>>, <<>>)
    BY DEF build_place_type_boost
  <2> HIDE DEF s
  <2>4. \E i \in 1..5 : SelectsInner(s[i], d)
    BY <1>2, <2>2
  <2> QED
    BY <1>3, <2>1, <2>3, <2>4
<1>5. SelectsFilter(build_string_query(q, type), d) <=>
          d.matching \cap ({"name", "label", "label.prefix", "zip_codes", "house_number"}
                           \cup (IF type = "PREFIX" THEN {} ELSE {"label.ngram"})) # {}
  <2> DEFINE s == <<match("name"), match("label"), match("label.prefix"), match("zip_codes"), match("house_number")>>
             t == Append(s, match("label.ngram"))
  <2>1. /\ DOMAIN s = 1..5 /\ s # <<>>
        /\ s[1] = match("name") /\ s[2] = match("label") /\ s[3] = match("label.prefix")
        /\ s[4] = match("zip_codes") /\ s[5] = match("house_number")
    OBVIOUS
  <2>2. build_string_query(q, type) = bool(<<>>, IF type = "FUZZY" THEN t ELSE s, <<>>, <<>>)
    BY DEF build_string_query, build_multi_match_query, build_match_query
  <2>3. \E S : s \in Seq(S) /\ match("label.ngram") \in S
    <3>1. s \in Seq({match("name"), match("label"), match("label.prefix"), match("zip_codes"), match("house_number"),
                     match("label.ngram")})
      OBVIOUS
    <3> QED
      BY <3>1
  <2> HIDE DEF s
  <2>4. DOMAIN t = 1..6 /\ t # <<>> /\ (\A i \in 1..5 : t[i] = s[i]) /\ t[6] = match("label.ngram")
    <3>1. PICK S : s \in Seq(S) /\ match("label.ngram") \in S
      BY <2>3
    <3>2. Len(s) = 5
      BY <2>1, <3>1
    <3>3. t = Append(s, match("label.ngram"))
      BY DEF s
    <3> HIDE DEF t
    <3> DEFINE x == match("label.ngram")
    <3>4. s \in Seq(S) /\ x \in S /\ t = Append(s, x)
      BY <3>1, <3>3
    <3> HIDE DEF x
    <3>5. DOMAIN t = 1..(Len(s) + 1) /\ t # <<>> /\ t[Len(s) + 1] = x /\ \A i \in 1..Len(s) : t[i] = s[i]
      BY <3>4, Appended
    <3>6. Len(s) + 1 = 6 /\ 1..Len(s) = 1..5
      BY <3>2
    <3>7. t # <<>> /\ (\A i \in 1..5 : t[i] = s[i]) /\ t[6] = x
      BY <3>5, <3>6
    <3>8. DOMAIN t = 1..6
      BY <3>5, <3>6
    <3> QED
      BY <3>7, <3>8 DEF x
  <2> HIDE DEF t
  <2>5. (\E i \in DOMAIN s : SelectsInner(s[i], d)) <=>
            d.matching \cap {"name", "label", "label.prefix", "zip_codes", "house_number"} # {}
    <3>1. (\E i \in 1..5 : SelectsInner(s[i], d)) <=>
              \/ SelectsInner(s[1], d) \/ SelectsInner(s[2], d) \/ SelectsInner(s[3], d) \/ SelectsInner(s[4], d)
              \/ SelectsInner(s[5], d)
      OBVIOUS
    <3> QED
      BY <1>1, <2>1, <3>1
  <2>6. (\E i \in DOMAIN t : SelectsInner(t[i], d)) <=>
            d.matching \cap {"name", "label", "label.prefix", "zip_codes", "house_number"} # {}
            \/ "label.ngram" \in d.matching
    <3>1. (\E i \in 1..6 : SelectsInner(t[i], d)) <=> (\E i \in 1..5 : SelectsInner(t[i], d)) \/ SelectsInner(t[6], d)
      OBVIOUS
    <3> QED
      BY <1>1, <2>1, <2>4, <2>5, <3>1
  <2>7. CASE type = "PREFIX"
    BY <1>3, <2>1, <2>2, <2>5, <2>7
  <2>8. CASE type = "FUZZY"
    BY <1>3, <2>2, <2>4, <2>6, <2>8
  <2> QED
    BY <2>7, <2>8
<1> QED
  BY <1>4, <1>5

\* Queries that are all required.
Required(s, d) == \A i \in DOMAIN s : SelectsFilter(s[i], d)
Listing(s) == \E S : s \in Seq(S)

LEMMA RequiredParts ==
    ASSUME NEW s, Listing(s), NEW t, Listing(t), NEW d
    PROVE  Listing(s \o t) /\ (Required(s \o t, d) <=> Required(s, d) /\ Required(t, d))
<1>1. PICK S : s \in Seq(S) /\ t \in Seq(S)
  <2>1. PICK A : s \in Seq(A)
    BY DEF Listing
  <2>2. PICK B : t \in Seq(B)
    BY DEF Listing
  <2>3. s \in Seq(A \cup B) /\ t \in Seq(A \cup B)
    BY <2>1, <2>2
  <2> QED
    BY <2>3
<1> DEFINE u == s \o t
<1>2. /\ u \in Seq(S) /\ Len(u) = Len(s) + Len(t)
      /\ \A i \in 1..Len(u) : u[i] = IF i <= Len(s) THEN s[i] ELSE t[i - Len(s)]
  BY <1>1
<1> HIDE DEF u
<1>3. DOMAIN u = 1..(Len(s) + Len(t)) /\ DOMAIN s = 1..Len(s) /\ DOMAIN t = 1..Len(t)
  BY <1>1, <1>2
<1>4. Len(s) \in Nat /\ Len(t) \in Nat
  BY <1>1
<1>5. ASSUME Required(u, d), NEW i \in DOMAIN s PROVE SelectsFilter(s[i], d)
  <2>1. i \in DOMAIN u /\ u[i] = s[i]
    BY <1>2, <1>3, <1>4
  <2> QED
    BY <1>5, <2>1 DEF Required
<1>6. ASSUME Required(u, d), NEW i \in DOMAIN t PROVE SelectsFilter(t[i], d)
  <2>1. i + Len(s) \in DOMAIN u /\ u[i + Len(s)] = t[i]
    BY <1>2, <1>3, <1>4
  <2> QED
    BY <1>6, <2>1 DEF Required
<1>7. ASSUME Required(s, d), Required(t, d), NEW i \in DOMAIN u PROVE SelectsFilter(u[i], d)
  <2>1. i <= Len(s) => i \in DOMAIN s /\ u[i] = s[i]
    BY <1>2, <1>3, <1>4
  <2>2. ~(i <= Len(s)) => i - Len(s) \in DOMAIN t /\ u[i] = t[i - Len(s)]
    BY <1>2, <1>3, <1>4
  <2> QED
    BY <1>7, <2>1, <2>2 DEF Required
<1>8. Required(u, d) <=> Required(s, d) /\ Required(t, d)
  <2>1. Required(u, d) => Required(s, d)
    BY <1>5 DEF Required
  <2>2. Required(u, d) => Required(t, d)
    BY <1>6 DEF Required
  <2>3. Required(s, d) /\ Required(t, d) => Required(u, d)
    BY <1>7 DEF Required
  <2> QED
    BY <2>1, <2>2, <2>3
<1>9. Listing(u)
  BY <1>2 DEF Listing
<1> QED
  BY <1>8, <1>9 DEF u

LEMMA RequiredNone == ASSUME NEW d PROVE Listing(<<>>) /\ Required(<<>>, d)
<1>1. <<>> \in Seq({})
  OBVIOUS
<1> QED
  BY <1>1 DEF Listing, Required

LEMMA RequiredOne == ASSUME NEW a, NEW d PROVE Listing(<<a>>) /\ (Required(<<a>>, d) <=> SelectsFilter(a, d))
<1> DEFINE s == <<a>>
<1>1. s \in Seq({a}) /\ DOMAIN s = {1} /\ s[1] = a
  OBVIOUS
<1> HIDE DEF s
<1>2. Listing(s) /\ (Required(s, d) <=> SelectsFilter(a, d))
  BY <1>1 DEF Listing, Required
<1> QED
  BY <1>2 DEF s

LEMMA RequiredTwo ==
    ASSUME NEW a, NEW b, NEW d
    PROVE  Required(<<a, b>>, d) <=> SelectsFilter(a, d) /\ SelectsFilter(b, d)
<1> DEFINE s == <<a, b>>
<1>1. DOMAIN s = {1, 2} /\ s[1] = a /\ s[2] = b
  OBVIOUS
<1> HIDE DEF s
<1>2. Required(s, d) <=> SelectsFilter(a, d) /\ SelectsFilter(b, d)
  BY <1>1 DEF Required
<1> QED
  BY <1>2 DEF s

LEMMA RequiredAfter ==
    ASSUME NEW s, Listing(s), NEW x, NEW d
    PROVE  Listing(Append(s, x)) /\ (Required(Append(s, x), d) <=> Required(s, d) /\ SelectsFilter(x, d))
<1>1. PICK S : s \in Seq(S) /\ x \in S
  <2>1. PICK A : s \in Seq(A)
    BY DEF Listing
  <2>2. s \in Seq(A \cup {x})
    BY <2>1
  <2> QED
    BY <2>2
<1> DEFINE t == Append(s, x)
<1>2. t \in Seq(S)
  BY <1>1
<1>3. t = Append(s, x)
  OBVIOUS
<1> HIDE DEF t
<1>4. DOMAIN t = 1..(Len(s) + 1) /\ t[Len(s) + 1] = x /\ \A i \in 1..Len(s) : t[i] = s[i]
  BY <1>1, <1>3, Appended
<1>5. Len(s) \in Nat /\ DOMAIN s = 1..Len(s)
  BY <1>1
<1>6. DOMAIN t = DOMAIN s \cup {Len(s) + 1} /\ \A i \in DOMAIN s : t[i] = s[i]
  BY <1>4, <1>5
<1>7. Required(t, d) <=> Required(s, d) /\ SelectsFilter(x, d)
  BY <1>4, <1>6 DEF Required
<1>8. Listing(t)
  BY <1>2 DEF Listing
<1> QED
  BY <1>7, <1>8 DEF t

\* The filters of a request.
LEMMA FiltersOf ==
    ASSUME NEW q, NEW d
    PROVE  /\ Listing(build_filters(q))
           /\ Required(build_filters(q), d) <=>
                 /\ q.shape => (d.type \in shape_scope(q) => d.inside)
                 /\ q.poi_types # {} => (d.type = "poi" => d.poi_type \cap UNION q.poi_types # {})
                 /\ q.zone_types # {} => (d.type = "admin" => d.zone_type \cap UNION q.zone_types # {})
<1> DEFINE shape == IF q.shape THEN <<build_shape_query(shape_scope(q))>> ELSE <<>>
           pois == IF q.poi_types # {} THEN <<build_poi_types_filter(UNION q.poi_types)>> ELSE <<>>
           zones == IF q.zone_types # {} THEN <<build_zone_types_filter(UNION q.zone_types)>> ELSE <<>>
<1>1. Listing(shape) /\ (Required(shape, d) <=> (q.shape => (d.type \in shape_scope(q) => d.inside)))
  BY RequiredOne, RequiredNone, Filters
<1>2. Listing(pois) /\ (Required(pois, d) <=>
          (q.poi_types # {} => (d.type = "poi" => d.poi_type \cap UNION q.poi_types # {})))
  BY RequiredOne, RequiredNone, Filters
<1>3. Listing(zones) /\ (Required(zones, d) <=>
          (q.zone_types # {} => (d.type = "admin" => d.zone_type \cap UNION q.zone_types # {})))
  BY RequiredOne, RequiredNone, Filters
<1>4. build_filters(q) = shape \o pois \o zones
  BY DEF build_filters
<1> HIDE DEF shape, pois, zones
<1>5. Listing(shape \o pois) /\ (Required(shape \o pois, d) <=> Required(shape, d) /\ Required(pois, d))
  BY <1>1, <1>2, RequiredParts
<1>6. Listing(shape \o pois \o zones)
      /\ (Required(shape \o pois \o zones, d) <=> Required(shape \o pois, d) /\ Required(zones, d))
  BY <1>3, <1>5, RequiredParts
<1> QED
  BY <1>1, <1>2, <1>3, <1>4, <1>5, <1>6

\* What a query selects, in the words of its comments.
LEMMA QuerySelects ==
    ASSUME NEW d, d.type \in {"admin", "street", "addr", "poi", "stop"},
           NEW q \in Searches, NEW type \in {"PREFIX", "FUZZY"}
    PROVE  Selects(build_query(q, type), d) <=>
              /\ q.shape => (d.type \in shape_scope(q) => d.inside)
              /\ q.poi_types # {} => (d.type = "poi" => d.poi_type \cap UNION q.poi_types # {})
              /\ q.zone_types # {} => (d.type = "admin" => d.zone_type \cap UNION q.zone_types # {})
              /\ d.house_number # {} => q.words > 1 /\ "house_number" \in d.matching
              /\ (IF type = "PREFIX" THEN "full_label.prefix" ELSE "full_label.ngram") \in d.matching
              /\ d.matching \cap ({"name", "label", "label.prefix", "zip_codes", "house_number"}
                                   \cup (IF type = "PREFIX" THEN {} ELSE {"label.ngram"})) # {}
<1> DEFINE must == <<build_place_type_boost, build_string_query(q, type)>>
           matched == Append(build_filters(q), build_matching_condition(type))
           filter == Append(matched, build_house_number_condition(q))
           dsl == build_query(q, type)
<1>1. dsl.op = "bool" /\ dsl.must = must /\ dsl.filter = filter /\ dsl.must_not = <<>> /\ must # <<>>
  BY DEF build_query, bool
<1>2. Required(must, d) <=> d.matching \cap ({"name", "label", "label.prefix", "zip_codes", "house_number"}
                                   \cup (IF type = "PREFIX" THEN {} ELSE {"label.ngram"})) # {}
  BY Musts, RequiredTwo
<1>3. Listing(matched) /\ (Required(matched, d) <=>
          /\ Required(build_filters(q), d)
          /\ (IF type = "PREFIX" THEN "full_label.prefix" ELSE "full_label.ngram") \in d.matching)
  BY FiltersOf, RequiredAfter, Conditions
<1> HIDE DEF matched
<1>4. Required(filter, d) <=>
          /\ Required(matched, d)
          /\ d.house_number # {} => q.words > 1 /\ "house_number" \in d.matching
  BY <1>3, RequiredAfter, Conditions
<1> HIDE DEF must, filter, dsl
<1>5. Selects(dsl, d) <=> Required(must, d) /\ Required(filter, d)
  BY <1>1 DEF Selects, SelectsBool, Required
<1> QED
  BY <1>2, <1>3, <1>4, <1>5, FiltersOf DEF dsl

\* What the filters of a request let through, and what is best among it.
Exact == {d \in corpus : Searched(d) /\ Text(d, TRUE)}
Fuzzily == {d \in corpus : Searched(d) /\ Text(d, FALSE)}
Around == {d \in corpus : Searched(d)}
Wanted == IF ~Forward THEN Around ELSE IF Exact # {} THEN Exact ELSE Fuzzily

Prefix == Found(build_query(params, "PREFIX"))
Fuzzy == Found(build_query(params, "FUZZY"))
Nearby == Found(build_reverse_query(Radius))

LEMMA ReverseSelects == ASSUME NEW d, NEW r PROVE Selects(build_reverse_query(r), d) <=> d.distance <= r
<1> DEFINE near == [op |-> "near", radius |-> r]
           s == <<near>>
           dsl == build_reverse_query(r)
<1>1. dsl.op = "bool" /\ dsl.must = <<>> /\ dsl.filter = s /\ dsl.must_not = <<>> /\ dsl.should = <<>>
  BY DEF build_reverse_query, bool
<1>2. SelectsFilter(near, d) <=> d.distance <= r
  <2>1. Plain(near) /\ (SelectsPlain(near, d) <=> d.distance <= r)
    BY DEF Plain, SelectsPlain
  <2> HIDE DEF near
  <2> QED
    BY <2>1, PlainEverywhere
<1> HIDE DEF near
<1>3. DOMAIN s = {1} /\ s[1] = near
  OBVIOUS
<1> HIDE DEF s, dsl
<1>4. Selects(dsl, d) <=> SelectsFilter(near, d)
  BY <1>1, <1>3 DEF Selects, SelectsBool
<1> QED
  BY <1>2, <1>4 DEF dsl

\* The words of the comments say what a query selects.
LEMMA FoundIs ==
    ASSUME params \in Searches, corpus \in Corpora
    PROVE  /\ Forward => Prefix = Exact /\ Fuzzy = Fuzzily
           /\ ~Forward => Nearby = Around
<1>1. \A d \in corpus : d.type \in {"admin", "street", "addr", "poi", "stop"}
  BY SearchAssumption
<1>2. /\ params.path \in {"autocomplete", "reverse"}
      /\ \A S, T \in params.shape_scope : S = T
      /\ \A S, T \in params.poi_types : S = T
      /\ \A S, T \in params.zone_types : S = T
  BY SearchAssumption
<1>3. ASSUME NEW d \in corpus
      PROVE  Restricted(d) <=>
                /\ params.shape => (d.type \in shape_scope(params) => d.inside)
                /\ params.poi_types # {} => (d.type = "poi" => d.poi_type \cap UNION params.poi_types # {})
                /\ params.zone_types # {} => (d.type = "admin" => d.zone_type \cap UNION params.zone_types # {})
  <2>1. (\A T \in params.shape_scope : d.type \in T) <=> d.type \in shape_scope(params)
    BY <1>1, <1>2 DEF shape_scope
  <2>2. ASSUME NEW options, \A S, T \in options : S = T, NEW values
        PROVE  (\A T \in options : values \cap T # {}) <=> (options # {} => values \cap UNION options # {})
    <3>1. CASE options = {}
      BY <3>1
    <3>2. ASSUME NEW T \in options PROVE options = {T} /\ UNION options = T
      BY <2>2
    <3> QED
      BY <3>1, <3>2
  <2>3. (\A T \in params.poi_types : d.poi_type \cap T # {}) <=>
            (params.poi_types # {} => d.poi_type \cap UNION params.poi_types # {})
    BY <1>2, <2>2
  <2>4. (\A T \in params.zone_types : d.zone_type \cap T # {}) <=>
            (params.zone_types # {} => d.zone_type \cap UNION params.zone_types # {})
    BY <1>2, <2>2
  <2> QED
    BY <2>1, <2>3, <2>4 DEF Restricted
<1>4. ASSUME Forward, NEW d \in corpus
      PROVE  /\ root_doctype(d.type) \in indices_of(params) /\ Selects(build_query(params, "PREFIX"), d)
                <=> Searched(d) /\ Text(d, TRUE)
             /\ root_doctype(d.type) \in indices_of(params) /\ Selects(build_query(params, "FUZZY"), d)
                <=> Searched(d) /\ Text(d, FALSE)
  <2>1. Searched(d) <=> root_doctype(d.type) \in indices_of(params) /\ Restricted(d) /\ HouseNumber(d)
    BY <1>4 DEF Searched, Forward
  <2>2. HouseNumber(d) <=> (d.house_number # {} => params.words > 1 /\ "house_number" \in d.matching)
    BY DEF HouseNumber
  <2>3. Selects(build_query(params, "PREFIX"), d) <=> Restricted(d) /\ HouseNumber(d) /\ Text(d, TRUE)
    BY <1>1, <1>3, <2>2, QuerySelects DEF Text
  <2>4. Selects(build_query(params, "FUZZY"), d) <=> Restricted(d) /\ HouseNumber(d) /\ Text(d, FALSE)
    BY <1>1, <1>3, <2>2, QuerySelects DEF Text
  <2> QED
    BY <2>1, <2>3, <2>4
<1>5. ASSUME ~Forward, NEW d \in corpus
      PROVE  root_doctype(d.type) \in indices_of(params) /\ Selects(build_reverse_query(Radius), d) <=> Searched(d)
  <2>1. params.path = "reverse"
    BY <1>2, <1>5 DEF Forward
  <2>2. indices_of(params) = {root_doctype("street"), root_doctype("addr")}
    BY <2>1 DEF indices_of
  <2>3. \A t, u : root_doctype(t) = root_doctype(u) => t = u
    BY DEF root_doctype
  <2>4. Searched(d) <=> d.type \in {"addr", "street"} /\ d.distance <= Radius
    BY <2>1 DEF Searched
  <2> QED
    BY <2>2, <2>3, <2>4, ReverseSelects
<1>6. Forward => Prefix = Exact
  BY <1>4 DEF Prefix, Found, Exact
<1>7. Forward => Fuzzy = Fuzzily
  BY <1>4 DEF Fuzzy, Found, Fuzzily
<1>8. ~Forward => Nearby = Around
  BY <1>5 DEF Nearby, Found, Around
<1> QED
  BY <1>6, <1>7, <1>8

\* Of the indices that are searched, all hold places of a type that was asked for.
LEMMA PlaceTyped == 
    ASSUME params \in Searches, NEW d, d.type \in {"admin", "street", "addr", "poi", "stop"},
           root_doctype(d.type) \in indices_of(params)
    PROVE  AskedType(from_place(d).place_type)
<1>1. from_place(d).place_type = CASE d.type = "admin" -> "zone" [] d.type = "street" -> "street"
                                   [] d.type = "addr" -> "house" [] d.type = "poi" -> "poi" [] d.type = "stop" -> "stop_area"
  BY DEF from_place, from_admin, from_street, from_addr, from_poi, from_stop, properties
<1>2. /\ params.path \in {"autocomplete", "reverse"} /\ params.pt_dataset = {} /\ params.poi_dataset = {}
      /\ \A T \in params.types : T \subseteq {"house", "street", "zone", "city", "poi", "stop_area"}
      /\ \A S, T \in params.types : S = T
  BY SearchAssumption
<1>3. \A t, u : root_doctype(t) = root_doctype(u) => t = u
  BY DEF root_doctype
<1>4. CASE params.path = "reverse"
  <2>1. d.type \in {"street", "addr"}
    BY <1>3, <1>4 DEF indices_of
  <2> QED
    BY <1>1, <1>4, <2>1 DEF AskedType, Forward
<1>5. ASSUME params.path = "autocomplete", NEW T \in params.types
      PROVE  from_place(d).place_type \in T \/ (from_place(d).place_type = "zone" /\ "city" \in T)
  <2>1. UNION params.types = T
    BY <1>2, <1>5
  <2>2. PICK t \in T : root_doctype(d.type) \in type_indices(t, {}, {})
    BY <1>2, <1>5, <2>1 DEF indices_of, build_es_indices_to_search
  <2>3. t \in {"house", "street", "zone", "city", "poi", "stop_area"}
    BY <1>2, <1>5
  <2>4. d.type = CASE t = "house" -> "addr" [] t = "street" -> "street" [] t \in {"zone", "city"} -> "admin"
                   [] t = "poi" -> "poi" [] t = "stop_area" -> "stop"
    BY <1>3, <2>2, <2>3 DEF type_indices, dataset_indices
  <2> QED
    BY <1>1, <2>3, <2>4
<1> QED
  BY <1>2, <1>4, <1>5 DEF AskedType, Forward

LEMMA Least ==
    ASSUME NEW a \in Nat, NEW b \in Nat
    PROVE  Min({a, b}) \in {a, b} /\ Min({a, b}) <= a /\ Min({a, b}) <= b
<1>1. \E x \in {a, b} : \A y \in {a, b} : x <= y
  <2>1. a <= b \/ b <= a
    OBVIOUS
  <2> QED
    BY <2>1
<1>2. Min({a, b}) \in {a, b} /\ \A y \in {a, b} : Min({a, b}) <= y
  BY <1>1 DEF Min
<1> QED
  BY <1>2

\* What was found is all that was wanted.
Answered ==
    /\ hits \subseteq Wanted
    /\ Cardinality(hits) = Min({ResultLimit, Cardinality(Wanted)})
    /\ ~Forward => \A d \in hits, e \in Wanted \ hits : d.distance <= e.distance

\* The second search only takes place when the first one found nothing.
SInv ==
    /\ corpus \in Corpora /\ params \in Searches
    /\ phase \in {"PREFIX", "FUZZY"} => Forward
    /\ phase = "reverse" => ~Forward
    /\ phase = "FUZZY" /\ ~cut => ResultLimit = 0 \/ Exact = {}
    /\ hits \subseteq IF Forward THEN Exact \cup Fuzzily ELSE Around
    /\ phase = "answered" /\ ~cut => Answered

Unmoved == corpus' = corpus /\ params' = params

LEMMA SetsUnmoved ==
    ASSUME Unmoved
    PROVE  Exact' = Exact /\ Fuzzily' = Fuzzily /\ Around' = Around /\ Forward' = Forward /\ Wanted' = Wanted
<1>1. Forward' = Forward
  BY DEF Unmoved, Forward
<1>2. ASSUME NEW d PROVE Searched(d)' = Searched(d)
  BY DEF Unmoved, Searched, Restricted, HouseNumber
<1>3. Exact' = Exact /\ Fuzzily' = Fuzzily /\ Around' = Around
  BY <1>2 DEF Unmoved, Exact, Fuzzily, Around, Text
<1> QED
  BY <1>1, <1>3 DEF Wanted

LEMMA Sizes ==
    ASSUME corpus \in Corpora
    PROVE  /\ IsFiniteSet(Exact) /\ IsFiniteSet(Fuzzily) /\ IsFiniteSet(Around)
           /\ \A S \in SUBSET corpus : IsFiniteSet(S) /\ Cardinality(S) \in Nat /\ (Cardinality(S) = 0 <=> S = {})
<1>1. IsFiniteSet(corpus)
  BY SearchAssumption
<1>2. ASSUME NEW S \in SUBSET corpus
      PROVE  IsFiniteSet(S) /\ Cardinality(S) \in Nat /\ (Cardinality(S) = 0 <=> S = {})
  <2>1. IsFiniteSet(S)
    BY <1>1, FS_Subset
  <2> QED
    BY <2>1, FS_CardinalityType, FS_EmptySet
<1>3. Exact \subseteq corpus /\ Fuzzily \subseteq corpus /\ Around \subseteq corpus
  BY DEF Exact, Fuzzily, Around
<1> QED
  BY <1>2, <1>3

LEMMA SearchInitially == ASSUME SearchInit PROVE SInv
<1>1. params.path \in {"autocomplete", "reverse"}
  BY SearchAssumption DEF SearchInit
<1> QED
  BY <1>1 DEF SearchInit, SInv, Forward

LEMMA ForwardKeeps ==
    ASSUME SInv, NEW type \in {"PREFIX", "FUZZY"}, forward_geocoder(type)
    PROVE  SInv'
<1> DEFINE found == IF type = "PREFIX" THEN Exact ELSE Fuzzily
<1>1. phase = type /\ Forward /\ params \in Searches /\ corpus \in Corpora
  BY DEF SInv, forward_geocoder
<1>2. Found(build_query(params, type)) = found
  BY <1>1, FoundIs DEF Prefix, Fuzzy
<1>3. PICK best \in SUBSET found : /\ Cardinality(best) = Min({ResultLimit, Cardinality(found)})
                                   /\ \E S \in SUBSET best : hits' = S /\ cut' = (cut \/ S # best)
                                   /\ UNCHANGED <<corpus, params>>
  BY <1>2 DEF forward_geocoder, Best, search_documents
<1>4. PICK S \in SUBSET best : hits' = S /\ cut' = (cut \/ S # best)
  BY <1>3
<1>5. Unmoved /\ phase' = IF type = "PREFIX" /\ hits' = {} THEN "FUZZY" ELSE "answered"
  BY <1>3 DEF Unmoved, forward_geocoder
<1>6. Exact' = Exact /\ Fuzzily' = Fuzzily /\ Around' = Around /\ Forward' = Forward /\ Wanted' = Wanted
  BY <1>5, SetsUnmoved
<1>7. /\ IsFiniteSet(found) /\ Cardinality(found) \in Nat /\ (Cardinality(found) = 0 <=> found = {})
      /\ Cardinality(best) \in Nat /\ (Cardinality(best) = 0 <=> best = {})
  <2>1. found \subseteq corpus
    BY DEF Exact, Fuzzily
  <2> QED
    BY <1>1, <2>1, Sizes
<1>8. ResultLimit \in Nat
  BY SearchAssumption
<1>9. best = {} => ResultLimit = 0 \/ found = {}
  BY <1>3, <1>7, <1>8, Least
<1>10. ResultLimit = 0 => best = {}
  BY <1>3, <1>7, <1>8, Least
<1>11. ASSUME phase' = "FUZZY", ~cut' PROVE ResultLimit = 0 \/ Exact = {}
  BY <1>4, <1>5, <1>9, <1>11
<1>12. ASSUME phase' = "answered", ~cut'
       PROVE  hits' \subseteq Wanted /\ Cardinality(hits') = Min({ResultLimit, Cardinality(Wanted)})
  <2>1. hits' = best /\ ~cut
    BY <1>4, <1>12
  <2>2. CASE Wanted = found
    BY <1>3, <2>1, <2>2
  <2>3. CASE ResultLimit = 0 /\ best = {}
    <3>1. Wanted \in SUBSET corpus
      BY DEF Wanted, Exact, Fuzzily, Around
    <3>2. Cardinality(Wanted) \in Nat /\ Cardinality(best) = 0
      BY <1>1, <1>7, <2>3, <3>1, Sizes
    <3>3. Min({ResultLimit, Cardinality(Wanted)}) = 0
      BY <2>3, <3>2, Least
    <3> QED
      BY <2>1, <2>3, <3>2, <3>3
  <2>4. CASE type = "PREFIX"
    <3>1. Exact # {}
      BY <1>4, <1>5, <1>12, <2>4
    <3> QED
      BY <1>1, <2>2, <2>4, <3>1 DEF Wanted
  <2>5. CASE type = "FUZZY"
    <3>1. ResultLimit = 0 \/ Exact = {}
      BY <1>1, <2>1, <2>5 DEF SInv
    <3>2. Exact = {} => Wanted = found
      BY <1>1, <2>5 DEF Wanted
    <3> QED
      BY <1>10, <2>2, <2>3, <3>1, <3>2
  <2> QED
    BY <2>4, <2>5
<1>13. (phase' = "answered" /\ ~cut' => Answered')
  BY <1>1, <1>6, <1>12 DEF Answered
<1>14. phase' # "reverse" /\ hits' \subseteq Exact \cup Fuzzily
  BY <1>4, <1>5
<1>15. corpus' \in Corpora /\ params' \in Searches
  BY <1>1, <1>5 DEF Unmoved
<1> QED
  BY <1>1, <1>6, <1>11, <1>13, <1>14, <1>15 DEF SInv

LEMMA ReverseKeeps == ASSUME SInv, reverse_geocoder PROVE SInv'
<1>1. phase = "reverse" /\ ~Forward /\ params \in Searches /\ corpus \in Corpora
  BY DEF SInv, reverse_geocoder
<1>2. Found(build_reverse_query(Radius)) = Around
  BY <1>1, FoundIs DEF Nearby
<1>3. PICK best \in SUBSET Around : /\ Cardinality(best) = Min({ResultLimit, Cardinality(Around)})
                                    /\ \A d \in best, e \in Around \ best : d.distance <= e.distance
                                    /\ \E S \in SUBSET best : hits' = S /\ cut' = (cut \/ S # best)
                                    /\ UNCHANGED <<corpus, params>>
  BY <1>2 DEF reverse_geocoder, Best, search_documents
<1>4. PICK S \in SUBSET best : hits' = S /\ cut' = (cut \/ S # best)
  BY <1>3
<1>5. Unmoved /\ phase' = "answered"
  BY <1>3 DEF Unmoved, reverse_geocoder
<1>6. Exact' = Exact /\ Fuzzily' = Fuzzily /\ Around' = Around /\ Forward' = Forward /\ Wanted' = Wanted
  BY <1>5, SetsUnmoved
<1>7. Wanted = Around
  BY <1>1 DEF Wanted
<1>8. ~cut' => Answered'
  BY <1>3, <1>4, <1>6, <1>7 DEF Answered
<1>9. corpus' \in Corpora /\ params' \in Searches
  BY <1>1, <1>5 DEF Unmoved
<1> QED
  BY <1>1, <1>4, <1>5, <1>6, <1>8, <1>9 DEF SInv

LEMMA SearchInvariance == SInv /\ [SearchNext]_searchVars => SInv'
<1> SUFFICES ASSUME SInv, [SearchNext]_searchVars PROVE SInv'
  OBVIOUS
<1>1. CASE UNCHANGED searchVars
  <2>1. Unmoved /\ phase' = phase /\ hits' = hits /\ cut' = cut
    BY <1>1 DEF searchVars, Unmoved
  <2>2. Exact' = Exact /\ Fuzzily' = Fuzzily /\ Around' = Around /\ Forward' = Forward /\ Wanted' = Wanted
    BY <2>1, SetsUnmoved
  <2> QED
    BY <2>1, <2>2 DEF SInv, Answered, Unmoved
<1> QED
  BY <1>1, ForwardKeeps, ReverseKeeps DEF SearchNext
-------------------------------------------------------------------------------
\* What is found matches, is inside the restrictions of the request, and comes back as
\* a type that was asked for, whatever the filters, the documents and late shards
\* (dsl.rs:16, internal.rs:1084).
THEOREM OnlyAskedAlways == SearchSpec => []OnlyAsked
<1>1. SInv => OnlyAsked
  <2> SUFFICES ASSUME SInv, NEW d \in hits
               PROVE  /\ Searched(d) /\ AskedType(from_place(d).place_type)
                      /\ Forward => Text(d, TRUE) \/ Text(d, FALSE)
    BY DEF OnlyAsked
  <2>1. /\ d \in corpus /\ Searched(d) /\ (Forward => Text(d, TRUE) \/ Text(d, FALSE))
        /\ corpus \in Corpora /\ params \in Searches
    BY DEF SInv, Exact, Fuzzily, Around
  <2>2. d.type \in {"admin", "street", "addr", "poi", "stop"}
    BY <2>1, SearchAssumption
  <2>3. root_doctype(d.type) \in indices_of(params)
    <3>1. params.path # "reverse" => root_doctype(d.type) \in indices_of(params)
      BY <2>1 DEF Searched
    <3>2. params.path = "reverse" => d.type \in {"addr", "street"}
      BY <2>1 DEF Searched
    <3>3. params.path = "reverse" => indices_of(params) = {root_doctype("street"), root_doctype("addr")}
      BY DEF indices_of
    <3> QED
      BY <3>1, <3>2, <3>3
  <2>4. AskedType(from_place(d).place_type)
    BY <2>1, <2>2, <2>3, PlaceTyped
  <2> QED
    BY <2>1, <2>4
<1> QED
  BY <1>1, SearchInitially, SearchInvariance, PTL DEF SearchSpec

\* Nothing else is left out as long as no shard is late: an answer has as many
\* documents as there are, up to the limit, that match as a prefix, or else with
\* fuzziness, or are the nearest ones (handlers.rs:109).
THEOREM AllAskedAlways == SearchSpec => []AllAsked
<1>1. SInv => AllAsked
  <2> SUFFICES ASSUME SInv, phase = "answered", ~cut PROVE AllAsked
    BY DEF AllAsked
  <2> DEFINE asked == {d \in corpus : Searched(d)}
             exact == {d \in asked : Text(d, TRUE)}
             fuzzily == {d \in asked : Text(d, FALSE)}
  <2>1. asked = Around /\ exact = Exact /\ fuzzily = Fuzzily
    BY DEF Around, Exact, Fuzzily
  <2>2. Wanted = IF ~Forward THEN asked ELSE IF exact # {} THEN exact ELSE fuzzily
    BY <2>1 DEF Wanted
  <2>3. Answered
    BY DEF SInv
  <2> QED
    BY <2>2, <2>3 DEF AllAsked, Answered
<1> QED
  BY <1>1, SearchInitially, SearchInvariance, PTL DEF SearchSpec
===============================================================================
