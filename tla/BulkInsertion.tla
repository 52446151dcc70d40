---------------------------- MODULE BulkInsertion -----------------------------
(***************************************************************************)
(* Filling an index (adapters/secondary/elasticsearch/internal.rs, bulk    *)
(* and bulk_block): a stream of operations is cut into chunks; so many bulk*)
(* requests are in progress at once, each in a task of its own; their      *)
(* answers are folded into InsertStats in the order they come back; an     *)
(* error in an answer panics.  ContainerGenerator calls insert_documents,  *)
(* which indexes documents, and then may call update_documents, which      *)
(* modifies documents that must exist.                                     *)
(*                                                                         *)
(* An operation is the id of its document; its position in the stream      *)
(* tells it from other operations on the same document.                    *)
(***************************************************************************)
EXTENDS Naturals, Sequences, FiniteSets

CONSTANTS Ids,        \* document ids
          MaxInserts, \* bound: length of the stream of documents
          MaxUpdates, \* bound: length of the stream of updates
          ChunkSize,  \* config: insertion_chunk_size
          Windows     \* config: insertion_concurrent_requests, the values it may have

ASSUME BulkAssumption ==
    /\ MaxInserts \in Nat /\ MaxUpdates \in Nat
    /\ ChunkSize \in Nat \ {0} /\ Windows \subseteq Nat \ {0}

VARIABLES
    window,   \* how many requests may be in progress at once
    ops,      \* the two streams: ops[1] documents, ops[2] updates
    call,     \* 1: insert_documents, 2: update_documents
    next,     \* position of the first operation not yet read from the stream
    pending,  \* chunks whose bulk request has been sent and not executed
    answers,  \* answers of bulk requests, not yet folded
    stats,    \* InsertStats of each call
    outcome,  \* "running", "ok", "panic"
    store,    \* Elasticsearch: per id, positions of the operations that made it
    refused   \* history: operations that Elasticsearch did not perform

vars == <<window, ops, call, next, pending, answers, stats, outcome, store, refused>>

Calls == 1..2
Absent == [indexed |-> 0, updated |-> 0]
IdsOf(c, S) == {ops[c][i] : i \in S}
Last(S) == CHOOSE i \in S : \A j \in S : j <= i

Streams(n) == UNION {[1..k -> Ids] : k \in 0..n}

Init ==
    /\ window \in Windows
    /\ ops \in {<<s, u>> : s \in Streams(MaxInserts), u \in Streams(MaxUpdates)}
    /\ call = 1 /\ next = 1
    /\ pending = {} /\ answers = {}
    /\ stats = [c \in Calls |-> [created |-> 0, updated |-> 0]]
    /\ outcome = "running"
    /\ store = [id \in Ids |-> Absent]
    /\ refused = {}

\* Mutant: one request too many.
RoomForOneMore == Cardinality(pending) + Cardinality(answers) <= window

\* buffer_unordered holds at most `window` requests and answers.
Room == Cardinality(pending) + Cardinality(answers) < window

\* Mutant: the last operation of the stream is never read.
MoreBeforeLast == next < Len(ops[call])

More == next <= Len(ops[call])

\* The next chunk is read and sent; the last one may be shorter.
poll_chunk ==
    /\ outcome = "running"
    /\ More
    /\ Room
    /\ LET end == IF next + ChunkSize - 1 < Len(ops[call])
                  THEN next + ChunkSize - 1 ELSE Len(ops[call])
       IN  /\ pending' = pending \cup {[call |-> call, items |-> next..end]}
           /\ next' = end + 1
    /\ UNCHANGED <<window, ops, call, answers, stats, outcome, store, refused>>

\* Elasticsearch performs the operations of a bulk request in their order,
\* except those it rejects: `index` creates or replaces a document, `update`
\* needs one.  The other items of the request are performed all the same.
NotFound(ch) == {i \in ch.items : ch.call = 2 /\ store[ops[2][i]].indexed = 0}

Performed(ch, rejected) == ch.items \ (rejected \cup NotFound(ch))

Stored(ch, done) ==
    [id \in Ids |->
        LET mine == {i \in done : ops[ch.call][i] = id}
        IN  IF mine = {} THEN store[id]
            ELSE IF ch.call = 1 THEN [indexed |-> Last(mine), updated |-> 0]
            ELSE [store[id] EXCEPT !.updated = Last(mine)]]

\* Mutant: every operation on a document that was not there counts.
CreatedTwice(ch, done) ==
    IF ch.call = 1
    THEN Cardinality({i \in done : store[ops[1][i]].indexed = 0})
    ELSE 0

\* The counts of bulk_block: what was not there before is created.
Created(ch, done) ==
    IF ch.call = 1
    THEN Cardinality({id \in IdsOf(1, done) : store[id].indexed = 0})
    ELSE 0

\* Mutant: the answer's status is taken for that of its items.
StatusOk(ch, done) == TRUE

\* Every item of the answer is looked at.
ItemsOk(ch, done) == done = ch.items

bulk_block(ch) ==
    /\ ch \in pending
    /\ pending' = pending \ {ch}
    /\ \E rejected \in SUBSET ch.items :
         LET done == Performed(ch, rejected)
             new == Created(ch, done)
         IN  /\ store' = Stored(ch, done)
             /\ refused' = refused \cup {<<ch.call, i>> : i \in ch.items \ done}
             /\ answers' = answers \cup
                  {[chunk |-> ch, ok |-> ItemsOk(ch, done), created |-> new,
                    updated |-> Cardinality(done) - new]}
    /\ UNCHANGED <<window, ops, call, next, stats, outcome>>

\* The answer of a bulk request does not come back, or comes back as an error
\* of the request as a whole, whether or not it was executed.
bulk_error(ch) ==
    /\ ch \in pending
    /\ pending' = pending \ {ch}
    /\ answers' = answers \cup {[chunk |-> ch, ok |-> FALSE, created |-> 0, updated |-> 0]}
    /\ \E rejected \in {{}, ch.items} :
         LET done == Performed(ch, rejected)
         IN  /\ store' = Stored(ch, done)
             /\ refused' = refused \cup {<<ch.call, i>> : i \in ch.items \ done}
    /\ UNCHANGED <<window, ops, call, next, stats, outcome>>

fold(a) ==
    /\ outcome = "running"
    /\ a \in answers
    /\ answers' = answers \ {a}
    /\ IF a.ok
       THEN /\ stats' = [stats EXCEPT ![call].created = @ + a.created,
                                      ![call].updated = @ + a.updated]
            /\ UNCHANGED outcome
       ELSE /\ outcome' = "panic"
            /\ UNCHANGED stats
    /\ UNCHANGED <<window, ops, call, next, pending, store, refused>>

\* The stream is exhausted and every answer folded: the call returns.
bulk_return ==
    /\ outcome = "running"
    /\ next > Len(ops[call])
    /\ pending = {} /\ answers = {}
    /\ IF call = 1 THEN call' = 2 /\ next' = 1 /\ UNCHANGED outcome
                   ELSE outcome' = "ok" /\ UNCHANGED <<call, next>>
    /\ UNCHANGED <<window, ops, pending, answers, stats, store, refused>>

Next ==
    \/ poll_chunk
    \/ \E ch \in pending : bulk_block(ch) \/ bulk_error(ch)
    \/ \E a \in answers : fold(a)
    \/ bulk_return

\* The importer's tasks keep running, and requests time out.
Spec == Init /\ [][Next]_vars /\ WF_vars(Next)
-------------------------------------------------------------------------------
\* insert_documents returned: `bulk` reports Ok.
Inserted == call = 2 \/ outcome = "ok"

\* When `bulk` returns Ok the statistics it reports are exact, in whatever order
\* the answers of concurrent requests came back: as many documents created as
\* there are distinct ids, every other operation counted as an update.
StatsExact ==
    /\ Inserted =>
         /\ stats[1].created = Cardinality(IdsOf(1, DOMAIN ops[1]))
         /\ stats[1].created + stats[1].updated = Len(ops[1])
    /\ outcome = "ok" => stats[2] = [created |-> 0, updated |-> Len(ops[2])]

\* `bulk` never reports Ok when Elasticsearch refused an operation, although
\* the refusal is buried in the items of a request that succeeded.
OkMeansStored ==
    /\ Inserted => /\ \A i \in DOMAIN ops[1] : <<1, i>> \notin refused
                   /\ \A id \in IdsOf(1, DOMAIN ops[1]) : store[id].indexed # 0
    /\ outcome = "ok" => refused = {}

\* A document is only overwritten by an earlier one of its stream when the two
\* were sent in different requests, and several requests are allowed at once.
Request(i) == (i - 1) \div ChunkSize
LastWriteWins ==
    Inserted => \A i \in DOMAIN ops[1] :
        LET stored == store[ops[1][i]].indexed
        IN  i <= stored \/ (window > 1 /\ Request(i) # Request(stored))

\* Filling an index comes to an end.
BulkEnds == <>(outcome # "running")
===============================================================================
