----------------------------- MODULE ClientProofs -----------------------------
(* Proofs about the two streams between importers and Elasticsearch             *)
(* (adapters/secondary/elasticsearch/internal.rs): BulkInsertion, for any       *)
(* documents, chunk size and window, and ListDocuments, for any set of documents*)
(* and any page size.                                                           *)
EXTENDS BulkInsertion, ListDocuments, FiniteSetTheorems, WellFoundedInduction, TLAPS

\* The operations of the same chunk as some operation, of those of a stream.
Chunk(c, k) == {i \in DOMAIN ops[c] : Request(i) = k}

\* Requests and answers are those of the call; a document that is stored is one
\* of the stream.
Typed ==
    /\ window \in Windows
    /\ ops[1] \in Seq(Ids) /\ ops[2] \in Seq(Ids)
    /\ call \in Calls /\ next \in Nat \ {0}
    /\ outcome \in {"running", "ok", "panic"}
    /\ IsFiniteSet(pending) /\ IsFiniteSet(answers)
    /\ \A ch \in pending : ch.call = call /\ \A i \in ch.items : i < next
    /\ \A x \in refused : x[1] = call
    /\ store \in [Ids -> [indexed : Nat, updated : Nat]]

\* A request has all the operations of a chunk.
Whole == \A ch \in pending : \E k \in Nat : ch.items = Chunk(call, k)
Cut == next > Len(ops[call]) \/ \E k \in Nat : next = ChunkSize * k + 1

\* A call that goes on past its answers has had nothing refused.
Reported ==
    /\ refused # {} => outcome = "panic" \/ \E a \in answers : ~a.ok
    /\ outcome = "ok" => call = 2 /\ refused = {} /\ pending = {} /\ answers = {}

Waiting(i) == \E ch \in pending : i \in ch.items

\* A document that Elasticsearch was asked to store, and did not refuse.
Executed(i) == i \in DOMAIN ops[1] /\ (call = 1 => i < next /\ ~Waiting(i) /\ <<1, i>> \notin refused)

\* A request alone comes after all others.
OneByOne ==
    call = 1 /\ window = 1 =>
        \A ch \in pending : \A i \in 1..next - 1 : i \notin ch.items => \A j \in ch.items : i < j

Kept(i, stored) == stored # 0 /\ (i <= stored \/ (window > 1 /\ Request(i) # Request(stored)))
KeptAll == \A i \in DOMAIN ops[1] : Executed(i) => Kept(i, store[ops[1][i]].indexed)

IInv == Typed /\ Whole /\ Cut /\ Reported /\ OneByOne /\ KeptAll
-------------------------------------------------------------------------------
\* Chunks follow one another.
LEMMA ChunkBounds ==
    ASSUME NEW k \in Nat, NEW i \in Nat \ {0}
    PROVE  Request(i) = k <=> (ChunkSize * k + 1 <= i /\ i < ChunkSize * k + 1 + ChunkSize)
<1> DEFINE q == (i - 1) \div ChunkSize
<1>1. ChunkSize \in Nat /\ ChunkSize > 0
  BY BulkAssumption
<1>2. q \in Nat /\ ChunkSize * q <= i - 1 /\ i - 1 < ChunkSize * q + ChunkSize
  BY <1>1
<1>3. ASSUME NEW m \in Nat, NEW n \in Nat, m < n PROVE ChunkSize * m + ChunkSize <= ChunkSize * n
  <2>1. ChunkSize * (m + 1) <= ChunkSize * n
    BY <1>1, <1>3
  <2>2. ChunkSize * (m + 1) = ChunkSize * m + ChunkSize
    BY <1>1
  <2> QED
    BY <2>1, <2>2
<1> HIDE DEF q
<1>4. ChunkSize * q \in Nat /\ ChunkSize * k \in Nat
  BY <1>1, <1>2
<1>5. CASE q = k
  BY <1>1, <1>2, <1>4, <1>5 DEF Request, q
<1>6. CASE q < k
  BY <1>1, <1>2, <1>3, <1>4, <1>6 DEF Request, q
<1>7. CASE q > k
  BY <1>1, <1>2, <1>3, <1>4, <1>7 DEF Request, q
<1> QED
  BY <1>2, <1>5, <1>6, <1>7

\* There is a last one among some operations of a stream.
LEMMA LastIs ==
    ASSUME NEW n \in Nat, NEW S \in SUBSET (1..n), S # {}
    PROVE  Last(S) \in S /\ \A j \in S : j <= Last(S)
<1> DEFINE Above(i) == {j \in S : i < j}
           T == {Above(i) : i \in S}
<1>1. IsWellFoundedOn(StrictSubsetOrdering(1..n), SUBSET (1..n))
  <2>1. IsFiniteSet(1..n)
    BY FS_Interval
  <2>2. FiniteSubsetsOf(1..n) = SUBSET (1..n)
    BY <2>1, FS_FiniteSubsetsOfFinite, Zenon
  <2>3. IsWellFoundedOn(StrictSubsetOrdering(1..n), FiniteSubsetsOf(1..n))
    BY FS_StrictSubsetOrderingWellFounded, Zenon
  <2> QED
    BY <2>2, <2>3
<1>2. T \subseteq SUBSET (1..n) /\ T # {}
  OBVIOUS
<1>3. PICK U \in T : \A V \in T : ~ <<V, U>> \in StrictSubsetOrdering(1..n)
  <2> HIDE DEF T
  <2> QED
    BY <1>1, <1>2, WFMin, Zenon
<1>4. PICK i \in S : U = Above(i)
  BY <1>3
<1>5. ASSUME NEW j \in S, i < j PROVE FALSE
  <2>1. Above(j) \subseteq Above(i) /\ j \in Above(i) /\ j \notin Above(j)
    <3>1. i \in Nat /\ j \in Nat /\ \A k \in S : k \in Nat
      OBVIOUS
    <3>2. \A k \in Above(j) : k \in Above(i)
      BY <1>5, <3>1
    <3>3. j \in Above(i) /\ j \notin Above(j)
      BY <1>5, <3>1
    <3> QED
      BY <3>2, <3>3
  <2>2. Above(j) \in T /\ Above(j) \in SUBSET (1..n) /\ Above(i) \in SUBSET (1..n)
    OBVIOUS
  <2>3. <<Above(j), Above(i)>> \in StrictSubsetOrdering(1..n)
    <3> HIDE DEF Above, T
    <3> QED
      BY <2>1, <2>2 DEF StrictSubsetOrdering
  <2> QED
    BY <1>3, <1>4, <2>2, <2>3
<1>6. \A j \in S : j <= i
  BY <1>5
<1> QED
  BY <1>6 DEF Last
-------------------------------------------------------------------------------
LEMMA Streamed == Init => ops[1] \in Seq(Ids) /\ ops[2] \in Seq(Ids)
<1> SUFFICES ASSUME Init PROVE ops[1] \in Seq(Ids) /\ ops[2] \in Seq(Ids)
  OBVIOUS
<1>1. ASSUME NEW n \in Nat, NEW s \in Streams(n) PROVE s \in Seq(Ids)
  <2>1. PICK k \in 0..n : s \in [1..k -> Ids]
    BY <1>1 DEF Streams
  <2> QED
    BY <2>1
<1>2. PICK s \in Streams(MaxInserts), u \in Streams(MaxUpdates) : ops = <<s, u>>
  BY DEF Init
<1> QED
  BY <1>1, <1>2, BulkAssumption

LEMMA Initially == Init => IInv
<1> SUFFICES ASSUME Init PROVE IInv
  OBVIOUS
<1>1. Typed
  BY Streamed, FS_EmptySet DEF Init, Typed, Calls, Absent
<1>2. Cut
  BY BulkAssumption DEF Init, Cut
<1>3. KeptAll
  <2> SUFFICES ASSUME NEW i \in DOMAIN ops[1], call = 1 => i < next PROVE FALSE
    BY DEF KeptAll, Executed
  <2>1. ops[1] \in Seq(Ids) /\ call = 1 /\ next = 1
    BY Streamed DEF Init
  <2> QED
    BY <2>1
<1> QED
  BY <1>1, <1>2, <1>3 DEF IInv, Init, Whole, Reported, OneByOne

\* What is in a stream.
LEMMA Streams12 ==
    ASSUME Typed
    PROVE  \A c \in Calls : Len(ops[c]) \in Nat /\ DOMAIN ops[c] = 1..Len(ops[c]) /\ \A i \in DOMAIN ops[c] : ops[c][i] \in Ids
BY DEF Typed, Calls

\* What a bulk request stores: of a document the last operation in it.
LEMMA StoredIs ==
    ASSUME Typed, NEW ch \in pending, ch.items \subseteq DOMAIN ops[call],
           NEW done \in SUBSET ch.items
    PROVE  /\ Stored(ch, done) \in [Ids -> [indexed : Nat, updated : Nat]]
           /\ \A id \in Ids :
                LET last == Stored(ch, done)[id].indexed
                IN  \/ /\ call = 1 /\ last \in done /\ ops[1][last] = id
                       /\ \A i \in done : ops[1][i] = id => i <= last
                    \/ /\ last = store[id].indexed
                       /\ call = 1 => \A i \in done : ops[1][i] # id
<1>1. ch.call = call /\ call \in Calls /\ store \in [Ids -> [indexed : Nat, updated : Nat]]
  BY DEF Typed
<1>2. Len(ops[call]) \in Nat /\ DOMAIN ops[call] = 1..Len(ops[call])
  BY <1>1, Streams12
<1> DEFINE Mine(id) == {i \in done : ops[ch.call][i] = id}
<1>3. \A id : Mine(id) \in SUBSET (1..Len(ops[call]))
  BY <1>1, <1>2
<1>4. ASSUME NEW id, Mine(id) # {}
      PROVE  Last(Mine(id)) \in Mine(id) /\ Last(Mine(id)) \in Nat /\ \A j \in Mine(id) : j <= Last(Mine(id))
  <2> HIDE DEF Mine
  <2>1. Last(Mine(id)) \in Mine(id) /\ \A j \in Mine(id) : j <= Last(Mine(id))
    BY <1>2, <1>3, <1>4, LastIs
  <2> QED
    BY <1>2, <1>3, <2>1
<1>5. ASSUME NEW id \in Ids
      PROVE  Stored(ch, done)[id] =
               IF Mine(id) = {} THEN store[id]
               ELSE IF ch.call = 1 THEN [indexed |-> Last(Mine(id)), updated |-> 0]
               ELSE [store[id] EXCEPT !.updated = Last(Mine(id))]
  BY DEF Stored
<1>6. Stored(ch, done) = [id \in Ids |-> Stored(ch, done)[id]]
  BY DEF Stored
<1>3b. \A id : \A i : i \in Mine(id) <=> i \in done /\ ops[call][i] = id
  BY <1>1
<1> HIDE DEF Mine
<1>7. ASSUME NEW id \in Ids PROVE Stored(ch, done)[id] \in [indexed : Nat, updated : Nat]
  <2>1. store[id] \in [indexed : Nat, updated : Nat]
    BY <1>1
  <2>2. CASE Mine(id) = {}
    BY <1>5, <2>1, <2>2
  <2> DEFINE l == Last(Mine(id))
  <2>3. CASE Mine(id) # {}
    <3>1. l \in Nat
      BY <1>4, <2>3
    <3> HIDE DEF l
    <3>2. [indexed |-> l, updated |-> 0] \in [indexed : Nat, updated : Nat]
          /\ [store[id] EXCEPT !.updated = l] \in [indexed : Nat, updated : Nat]
      BY <2>1, <3>1
    <3> QED
      BY <1>5, <2>3, <3>2 DEF l
  <2> QED
    BY <2>2, <2>3
<1>8. ASSUME NEW id \in Ids
      PROVE  \/ /\ call = 1 /\ Mine(id) # {} /\ Stored(ch, done)[id].indexed = Last(Mine(id))
             \/ /\ Stored(ch, done)[id].indexed = store[id].indexed
                /\ call = 1 => Mine(id) = {}
  <2>1. store[id] \in [indexed : Nat, updated : Nat]
    BY <1>1
  <2>2. CASE Mine(id) = {}
    BY <1>5, <2>2
  <2>3. CASE Mine(id) # {} /\ ch.call = 1
    <3>1. Stored(ch, done)[id] = [indexed |-> Last(Mine(id)), updated |-> 0]
      BY <1>5, <2>3
    <3> QED
      BY <1>1, <2>3, <3>1
  <2>4. CASE Mine(id) # {} /\ ch.call # 1
    <3>1. [store[id] EXCEPT !.updated = Last(Mine(id))].indexed = store[id].indexed
      BY <2>1
    <3> QED
      BY <1>1, <1>5, <2>4, <3>1
  <2> QED
    BY <2>2, <2>3, <2>4
<1>9. ASSUME NEW id \in Ids
      PROVE  LET last == Stored(ch, done)[id].indexed
             IN  \/ /\ call = 1 /\ last \in done /\ ops[1][last] = id
                    /\ \A i \in done : ops[1][i] = id => i <= last
                 \/ /\ last = store[id].indexed
                    /\ call = 1 => \A i \in done : ops[1][i] # id
  <2>1. CASE Mine(id) # {} /\ call = 1 /\ Stored(ch, done)[id].indexed = Last(Mine(id))
    BY <1>3b, <1>4, <2>1
  <2>2. CASE Stored(ch, done)[id].indexed = store[id].indexed /\ (call = 1 => Mine(id) = {})
    BY <1>3b, <2>2
  <2> QED
    BY <1>8, <2>1, <2>2
<1> QED
  BY <1>6, <1>7, <1>9
-------------------------------------------------------------------------------
\* A bulk request that is executed, as a whole, in part or not at all.
Executes(ch, done) ==
    /\ ch \in pending /\ done \subseteq ch.items
    /\ pending' = pending \ {ch}
    /\ store' = Stored(ch, done)
    /\ refused' = refused \cup {<<ch.call, i>> : i \in ch.items \ done}
    /\ UNCHANGED <<window, ops, call, next>>

LEMMA ExecutionKeeps ==
    ASSUME IInv, NEW ch, NEW done, Executes(ch, done)
    PROVE  /\ store' \in [Ids -> [indexed : Nat, updated : Nat]]
           /\ IsFiniteSet(pending')
           /\ \A x \in refused' : x[1] = call'
           /\ Whole' /\ Cut' /\ OneByOne' /\ KeptAll'
<1> USE DEF IInv
<1>1. ch \in pending /\ done \in SUBSET ch.items /\ ch.call = call /\ call \in Calls
      /\ window' = window /\ ops' = ops /\ call' = call /\ next' = next
      /\ pending' = pending \ {ch} /\ store' = Stored(ch, done)
      /\ refused' = refused \cup {<<call, i>> : i \in ch.items \ done}
  BY DEF Executes, Typed
<1>2. PICK k \in Nat : ch.items = Chunk(call, k)
  BY <1>1 DEF Whole
<1>3. ch.items \subseteq DOMAIN ops[call]
  BY <1>2 DEF Chunk
<1>4. DOMAIN ops[1] = 1..Len(ops[1]) /\ Len(ops[1]) \in Nat /\ \A i \in DOMAIN ops[1] : ops[1][i] \in Ids
  BY Streams12 DEF Calls
<1>5. KeptAll'
  <2> SUFFICES ASSUME NEW i \in DOMAIN ops[1], Executed(i)' PROVE Kept(i, store[ops[1][i]].indexed)'
    BY <1>1 DEF KeptAll
  <2> DEFINE last == Stored(ch, done)[ops[1][i]].indexed
  <2>1. \/ /\ call = 1 /\ last \in done /\ ops[1][last] = ops[1][i]
           /\ \A j \in done : ops[1][j] = ops[1][i] => j <= last
        \/ /\ last = store[ops[1][i]].indexed
           /\ call = 1 => \A j \in done : ops[1][j] # ops[1][i]
    BY <1>1, <1>3, <1>4, StoredIs
  <2> HIDE DEF last
  <2>2. CASE call = 1 /\ i \in ch.items
    <3>1. i \in done
      BY <1>1, <2>2 DEF Executed
    <3>2. last \in done /\ i <= last
      BY <2>1, <2>2, <3>1
    <3>3. last # 0
      BY <1>1, <1>3, <1>4, <2>2, <3>2
    <3> QED
      BY <1>1, <3>2, <3>3 DEF Kept, last
  <2>3. CASE call = 2 \/ i \notin ch.items
    <3>1. Executed(i)
      BY <1>1, <2>3 DEF Executed, Waiting
    <3>2. Kept(i, store[ops[1][i]].indexed)
      BY <3>1 DEF KeptAll
    <3>3. CASE last = store[ops[1][i]].indexed
      BY <1>1, <3>2, <3>3 DEF Kept, Request, last
    <3>4. CASE call = 1 /\ last \in done
      <4>1. i \notin ch.items /\ last \in ch.items /\ last \in DOMAIN ops[1]
        BY <1>1, <1>3, <2>3, <3>4
      <4>2. CASE window = 1
        <5>1. i \in 1..next - 1
          BY <1>4, <3>1, <3>4 DEF Executed, Typed
        <5>2. i < last
          BY <1>1, <3>4, <4>1, <4>2, <5>1 DEF OneByOne
        <5> QED
          BY <1>1, <1>4, <4>1, <5>2 DEF Kept, last
      <4>3. CASE window # 1
        <5>1. window > 1
          BY <4>3, BulkAssumption DEF Typed
        <5>2. Request(i) # Request(last)
          BY <1>2, <3>4, <4>1 DEF Chunk
        <5> QED
          BY <1>1, <1>4, <4>1, <5>1, <5>2 DEF Kept, Request, last
      <4> QED
        BY <4>2, <4>3
    <3> QED
      BY <2>1, <3>3, <3>4
  <2> QED
    BY <1>1, <2>2, <2>3 DEF Calls
<1>6. store' \in [Ids -> [indexed : Nat, updated : Nat]]
  BY <1>1, <1>3, StoredIs
<1>7. IsFiniteSet(pending') /\ \A x \in refused' : x[1] = call'
  BY <1>1, FS_RemoveElement DEF Typed
<1>8. Whole' /\ Cut'
  BY <1>1 DEF Whole, Cut, Chunk, Request
<1>9. OneByOne'
  BY <1>1 DEF OneByOne
<1> QED
  BY <1>5, <1>6, <1>7, <1>8, <1>9

\* The next chunk is all of a chunk.
LEMMA NextChunk ==
    ASSUME Typed, Cut, next <= Len(ops[call]), NEW end,
           end = IF next + ChunkSize - 1 < Len(ops[call]) THEN next + ChunkSize - 1 ELSE Len(ops[call])
    PROVE  /\ end \in Nat /\ next <= end
           /\ \E k \in Nat : next..end = Chunk(call, k)
           /\ end + 1 > Len(ops[call]) \/ \E k \in Nat : end + 1 = ChunkSize * k + 1
<1>1. ChunkSize \in Nat /\ ChunkSize > 0 /\ next \in Nat /\ next > 0 /\ Len(ops[call]) \in Nat
      /\ DOMAIN ops[call] = 1..Len(ops[call])
  BY BulkAssumption, Streams12 DEF Typed
<1>2. PICK k \in Nat : next = ChunkSize * k + 1
  BY <1>1 DEF Cut
<1>3. end \in Nat /\ next <= end
  BY <1>1
<1>4. ASSUME NEW i PROVE i \in next..end <=> i \in Chunk(call, k)
  <2>1. CASE i \in Nat \ {0}
    <3>1. Request(i) = k <=> (next <= i /\ i < next + ChunkSize)
      BY <1>2, <2>1, ChunkBounds
    <3> QED
      BY <1>1, <1>3, <2>1, <3>1 DEF Chunk
  <2>2. CASE i \notin Nat \ {0}
    BY <1>1, <1>3, <2>2 DEF Chunk
  <2> QED
    BY <2>1, <2>2
<1>5. next..end = Chunk(call, k)
  BY <1>4
<1>6. end + 1 > Len(ops[call]) \/ end + 1 = ChunkSize * (k + 1) + 1
  <2>1. ChunkSize * (k + 1) = ChunkSize * k + ChunkSize /\ ChunkSize * k \in Nat
    BY <1>1
  <2> QED
    BY <1>1, <1>2, <2>1
<1> QED
  BY <1>3, <1>5, <1>6

LEMMA PollKeeps == ASSUME IInv, poll_chunk PROVE IInv'
<1> USE DEF IInv
<1> DEFINE end == IF next + ChunkSize - 1 < Len(ops[call]) THEN next + ChunkSize - 1 ELSE Len(ops[call])
           ch == [call |-> call, items |-> next..end]
<1>1. /\ outcome = "running" /\ next <= Len(ops[call]) /\ pending' = pending \cup {ch} /\ next' = end + 1
      /\ Cardinality(pending) + Cardinality(answers) < window
      /\ UNCHANGED <<window, ops, call, answers, stats, outcome, store, refused>>
  BY DEF poll_chunk, More, Room
<1>2. /\ end \in Nat /\ next <= end
      /\ \E k \in Nat : next..end = Chunk(call, k)
      /\ end + 1 > Len(ops[call]) \/ \E k \in Nat : end + 1 = ChunkSize * k + 1
  BY <1>1, NextChunk
<1> HIDE DEF end
<1>3. next \in Nat \ {0} /\ call \in Calls /\ Len(ops[call]) \in Nat /\ DOMAIN ops[call] = 1..Len(ops[call])
  BY Streams12 DEF Typed
<1>4. Typed'
  <2>1. IsFiniteSet(pending')
    BY <1>1, FS_AddElement DEF Typed
  <2>2. \A c \in pending' : c.call = call' /\ \A i \in c.items : i < next'
    <3>1. ch.call = call /\ ch.items = next..end
      OBVIOUS
    <3>2. \A i \in next..end : i < end + 1
      BY <1>2, <1>3
    <3>3. ASSUME NEW c \in pending, NEW i \in c.items PROVE i < end + 1
      <4>1. c.call = call /\ i < next /\ \E k \in Nat : c.items = Chunk(call, k)
        BY DEF Typed, Whole
      <4>2. i \in Nat
        BY <1>3, <4>1 DEF Chunk
      <4> QED
        BY <1>2, <1>3, <4>1, <4>2
    <3>4. \A c \in pending : c.call = call
      BY DEF Typed
    <3> HIDE DEF ch
    <3> QED
      BY <1>1, <3>1, <3>2, <3>3, <3>4
  <2> QED
    BY <1>1, <1>2, <2>1, <2>2 DEF Typed
<1>5. Whole'
  <2>1. \A c \in pending' : \E k \in Nat : c.items = Chunk(call, k)
    BY <1>1, <1>2 DEF Whole
  <2> QED
    BY <1>1, <2>1 DEF Whole, Chunk, Request
<1>6. Cut'
  BY <1>1, <1>2 DEF Cut
<1>7. Reported'
  BY <1>1 DEF Reported
<1>8. OneByOne'
  <2>1. Cardinality(pending) \in Nat /\ Cardinality(answers) \in Nat
    BY FS_CardinalityType DEF Typed
  <2>2. ASSUME window = 1, NEW c \in pending' PROVE c.items = next..end
    <3>1. pending = {}
      BY <1>1, <2>1, <2>2, FS_EmptySet DEF Typed
    <3> QED
      BY <1>1, <2>2, <3>1
  <2>3. \A i \in 1..end : i \notin next..end => \A j \in next..end : i < j
    BY <1>2, <1>3
  <2>4. next' - 1 = end /\ window' = window
    BY <1>1, <1>2
  <2> HIDE DEF ch
  <2>5. ASSUME window' = 1, NEW c \in pending', NEW i \in 1..next' - 1, i \notin c.items, NEW j \in c.items
        PROVE  i < j
    BY <2>2, <2>3, <2>4, <2>5
  <2> QED
    BY <2>5 DEF OneByOne
<1>9. KeptAll'
  <2> SUFFICES ASSUME NEW i \in DOMAIN ops[1], Executed(i)' PROVE Kept(i, store[ops[1][i]].indexed)'
    BY <1>1 DEF KeptAll
  <2>1. Executed(i)
    <3>1. CASE call = 1
      <4>0. ch \in pending' /\ ch.items = next..end
        BY <1>1
      <4>1. i < end + 1 /\ i \notin next..end /\ ~Waiting(i) /\ <<1, i>> \notin refused
        <5> HIDE DEF ch
        <5> QED
          BY <1>1, <3>1, <4>0 DEF Executed, Waiting
      <4> QED
        BY <1>2, <1>3, <3>1, <4>1 DEF Executed
    <3>2. CASE call # 1
      BY <1>1, <3>2 DEF Executed
    <3> QED
      BY <3>1, <3>2
  <2> QED
    BY <1>1, <2>1 DEF KeptAll, Kept, Request
<1> QED
  BY <1>4, <1>5, <1>6, <1>7, <1>8, <1>9

LEMMA BlockKeeps == ASSUME IInv, NEW ch \in pending, bulk_block(ch) PROVE IInv'
<1>1. PICK rejected \in SUBSET ch.items :
        /\ store' = Stored(ch, Performed(ch, rejected))
        /\ refused' = refused \cup {<<ch.call, i>> : i \in ch.items \ Performed(ch, rejected)}
        /\ answers' = answers \cup
             {[chunk |-> ch, ok |-> ItemsOk(ch, Performed(ch, rejected)), created |-> Created(ch, Performed(ch, rejected)),
               updated |-> Cardinality(Performed(ch, rejected)) - Created(ch, Performed(ch, rejected))]}
  BY DEF bulk_block
<1> DEFINE done == Performed(ch, rejected)
<1>2. PICK n, m : answers' = answers \cup {[chunk |-> ch, ok |-> done = ch.items, created |-> n, updated |-> m]}
  BY <1>1 DEF ItemsOk
<1>3. done \subseteq ch.items
  BY DEF Performed
<1> HIDE DEF done
<1>4. Executes(ch, done)
  BY <1>1, <1>3 DEF Executes, bulk_block, done
<1>5. UNCHANGED <<window, ops, call, next, stats, outcome>> /\ pending' = pending \ {ch}
  BY DEF bulk_block
<1>6. Typed'
  BY <1>2, <1>4, <1>5, ExecutionKeeps, FS_AddElement DEF Typed, IInv
<1>7. Reported'
  <2>1. refused' = refused \cup {<<ch.call, i>> : i \in ch.items \ done} /\ outcome # "ok"
    BY <1>4 DEF Executes, IInv, Reported
  <2>2. CASE refused # {}
    BY <1>2, <1>5, <2>1, <2>2 DEF IInv, Reported
  <2>3. CASE refused = {} /\ done = ch.items
    BY <1>5, <2>1, <2>3 DEF Reported
  <2>4. CASE done # ch.items
    <3>1. \E a \in answers' : ~a.ok
      <4>1. [chunk |-> ch, ok |-> done = ch.items, created |-> n, updated |-> m] \in answers'
        BY <1>2
      <4> QED
        BY <2>4, <4>1
    <3> QED
      BY <1>5, <2>1, <3>1 DEF Reported
  <2> QED
    BY <2>2, <2>3, <2>4
<1> QED
  BY <1>4, <1>6, <1>7, ExecutionKeeps DEF IInv

LEMMA ErrorKeeps == ASSUME IInv, NEW ch \in pending, bulk_error(ch) PROVE IInv'
<1>1. PICK rejected \in {{}, ch.items} :
        /\ store' = Stored(ch, Performed(ch, rejected))
        /\ refused' = refused \cup {<<ch.call, i>> : i \in ch.items \ Performed(ch, rejected)}
  BY DEF bulk_error
<1> DEFINE done == Performed(ch, rejected)
           a == [chunk |-> ch, ok |-> FALSE, created |-> 0, updated |-> 0]
<1>2. done \subseteq ch.items
  BY DEF Performed
<1> HIDE DEF done
<1>3. Executes(ch, done)
  BY <1>1, <1>2 DEF Executes, bulk_error, done
<1>4. UNCHANGED <<window, ops, call, next, stats, outcome>> /\ answers' = answers \cup {a} /\ ~a.ok
      /\ pending' = pending \ {ch}
  BY DEF bulk_error
<1> HIDE DEF a
<1>5. Typed'
  BY <1>3, <1>4, ExecutionKeeps, FS_AddElement DEF Typed, IInv
<1>6. Reported'
  BY <1>4 DEF Reported, IInv
<1> QED
  BY <1>3, <1>5, <1>6, ExecutionKeeps DEF IInv

LEMMA FoldKeeps == ASSUME IInv, NEW a \in answers, fold(a) PROVE IInv'
<1> USE DEF IInv
<1>1. /\ outcome = "running" /\ answers' = answers \ {a}
      /\ IF a.ok THEN outcome' = outcome ELSE outcome' = "panic"
      /\ UNCHANGED <<window, ops, call, next, pending, store, refused>>
  BY DEF fold
<1>2. Typed'
  BY <1>1, FS_RemoveElement DEF Typed
<1>3. Reported'
  BY <1>1 DEF Reported
<1>4. Whole' /\ Cut' /\ OneByOne' /\ KeptAll'
  BY <1>1 DEF Whole, Cut, OneByOne, KeptAll, Chunk, Request, Executed, Waiting, Kept
<1> QED
  BY <1>2, <1>3, <1>4

LEMMA ReturnKeeps == ASSUME IInv, bulk_return PROVE IInv'
<1> USE DEF IInv
<1>1. /\ outcome = "running" /\ next > Len(ops[call]) /\ pending = {} /\ answers = {}
      /\ UNCHANGED <<window, ops, pending, answers, store, refused>>
      /\ IF call = 1 THEN call' = 2 /\ next' = 1 /\ outcome' = outcome
                     ELSE outcome' = "ok" /\ call' = call /\ next' = next
  BY DEF bulk_return
<1>2. refused = {}
  BY <1>1 DEF Reported
<1>3. call \in Calls /\ Len(ops[1]) \in Nat /\ DOMAIN ops[1] = 1..Len(ops[1]) /\ next \in Nat
  BY Streams12 DEF Typed, Calls
<1>4. \A i \in DOMAIN ops[1] : Executed(i)
  BY <1>1, <1>2, <1>3 DEF Executed, Waiting
<1>5. Typed'
  BY <1>1, <1>2 DEF Typed, Calls
<1>6. Whole' /\ OneByOne'
  BY <1>1 DEF Whole, OneByOne
<1>7. Cut'
  <2>1. ChunkSize * 0 + 1 = 1
    BY BulkAssumption
  <2> QED
    BY <1>1, <2>1 DEF Cut
<1>8. Reported'
  BY <1>1, <1>2, <1>3 DEF Reported, Calls
<1>9. KeptAll'
  BY <1>1, <1>4 DEF KeptAll, Kept, Request
<1> QED
  BY <1>5, <1>6, <1>7, <1>8, <1>9

LEMMA Invariance == IInv /\ [Next]_vars => IInv'
<1> SUFFICES ASSUME IInv, [Next]_vars PROVE IInv'
  OBVIOUS
<1>1. CASE UNCHANGED vars
  BY <1>1 DEF vars, IInv, Typed, Whole, Cut, Reported, OneByOne, KeptAll, Chunk, Request, Executed, Waiting, Kept
<1>2. CASE poll_chunk
  BY <1>2, PollKeeps
<1>3. ASSUME NEW ch \in pending, bulk_block(ch) PROVE IInv'
  BY <1>3, BlockKeeps
<1>4. ASSUME NEW ch \in pending, bulk_error(ch) PROVE IInv'
  BY <1>4, ErrorKeeps
<1>5. ASSUME NEW a \in answers, fold(a) PROVE IInv'
  BY <1>5, FoldKeeps
<1>6. CASE bulk_return
  BY <1>6, ReturnKeeps
<1> QED
  BY <1>1, <1>2, <1>3, <1>4, <1>5, <1>6 DEF Next

LEMMA Always == Spec => []IInv
<1> QED
  BY Initially, Invariance, PTL DEF Spec

LEMMA InsertedMeans == IInv /\ Inserted => call = 2 /\ \A i \in DOMAIN ops[1] : Kept(i, store[ops[1][i]].indexed)
<1> SUFFICES ASSUME IInv, Inserted PROVE call = 2 /\ \A i \in DOMAIN ops[1] : Kept(i, store[ops[1][i]].indexed)
  OBVIOUS
<1>1. call = 2
  BY DEF IInv, Inserted, Reported
<1>2. \A i \in DOMAIN ops[1] : Executed(i)
  BY <1>1 DEF Executed
<1> QED
  BY <1>1, <1>2 DEF IInv, KeptAll
-------------------------------------------------------------------------------
\* Whatever the chunks, the number of concurrent requests and the order in which
\* they are executed and answered, `bulk` returns Ok only when Elasticsearch has
\* performed every operation (internal.rs, bulk_block's look at each item).
THEOREM OkMeansStoredAlways == Spec => []OkMeansStored
<1>1. IInv => OkMeansStored
  <2> SUFFICES ASSUME IInv PROVE OkMeansStored
    OBVIOUS
  <2>1. ASSUME Inserted, NEW i \in DOMAIN ops[1]
        PROVE  <<1, i>> \notin refused /\ store[ops[1][i]].indexed # 0
    BY <2>1, InsertedMeans DEF IInv, Typed, Kept
  <2>2. outcome = "ok" => refused = {}
    BY DEF IInv, Reported
  <2> QED
    BY <2>1, <2>2 DEF OkMeansStored, IdsOf
<1> QED
  BY <1>1, Always, PTL

\* Of the documents of one id the last one of the stream is stored, whatever the
\* stream, when requests are made one at a time (insertion_concurrent_requests),
\* and otherwise when they were sent in one request.
THEOREM LastWriteWinsAlways == Spec => []LastWriteWins
<1>1. IInv => LastWriteWins
  BY InsertedMeans DEF LastWriteWins, Kept
<1> QED
  BY <1>1, Always, PTL
-------------------------------------------------------------------------------
\* The sum of numbers that go with some things, as the size of a set that has so
\* many elements for each.
Tally(P) == UNION {{p} \X (1..p[2]) : p \in P}
Sum(P) == Cardinality(Tally(P))

LEMMA SumAdds ==
    ASSUME NEW P, IsFiniteSet(Tally(P)), NEW x, NEW n \in Nat, <<x, n>> \notin P
    PROVE  IsFiniteSet(Tally(P \cup {<<x, n>>})) /\ Sum(P \cup {<<x, n>>}) = Sum(P) + n
<1> DEFINE p == <<x, n>>
           new == {p} \X (1..p[2])
<1>1. Tally(P \cup {p}) = Tally(P) \cup new
  BY DEF Tally
<1>2. Tally(P) \cap new = {}
  BY DEF Tally
<1>3. IsFiniteSet(new) /\ Cardinality(new) = n
  <2>1. IsFiniteSet(1..n) /\ Cardinality(1..n) = n
    BY FS_Interval
  <2>2. IsFiniteSet({p}) /\ Cardinality({p}) = 1
    <3> HIDE DEF p
    <3> QED
      BY FS_Singleton
  <2>3. IsFiniteSet({p} \X (1..n)) /\ Cardinality({p} \X (1..n)) = 1 * n
    <3> HIDE DEF p
    <3> QED
      BY <2>1, <2>2, FS_Product
  <2>4. new = {p} \X (1..n)
    OBVIOUS
  <2> HIDE DEF p, new
  <2> QED
    BY <2>3, <2>4
<1> HIDE DEF new
<1>4. /\ IsFiniteSet(Tally(P) \cup new)
      /\ Cardinality(Tally(P) \cup new) = Cardinality(Tally(P)) + Cardinality(new) - Cardinality(Tally(P) \cap new)
  BY <1>3, FS_Union
<1>5. Cardinality(Tally(P) \cap new) = 0 /\ Cardinality(Tally(P)) \in Nat
  BY <1>2, FS_EmptySet, FS_CardinalityType
<1>6. Cardinality(Tally(P \cup {p})) = Cardinality(Tally(P)) + n
  <2> DEFINE all == Cardinality(Tally(P \cup {p}))
             old == Cardinality(Tally(P))
  <2>1. all = old + Cardinality(new) - Cardinality(Tally(P) \cap new)
    <3> HIDE DEF p
    <3> QED
      BY <1>1, <1>4
  <2>2. all = old + n - 0 /\ old \in Nat
    <3> HIDE DEF all, old
    <3> QED
      BY <1>3, <1>5, <2>1 DEF old
  <2> HIDE DEF all, old
  <2>3. all = old + n
    BY <2>2
  <2> QED
    BY <2>3 DEF all, old
<1>7. IsFiniteSet(Tally(P \cup {p}))
  BY <1>1, <1>4
<1> QED
  BY <1>6, <1>7 DEF Sum

LEMMA SumRemoves ==
    ASSUME NEW P, IsFiniteSet(Tally(P)), NEW x, NEW n \in Nat, <<x, n>> \in P
    PROVE  IsFiniteSet(Tally(P \ {<<x, n>>})) /\ Sum(P) = Sum(P \ {<<x, n>>}) + n
<1> DEFINE Q == P \ {<<x, n>>}
<1>1. Tally(Q) \subseteq Tally(P)
  BY DEF Tally
<1>2. IsFiniteSet(Tally(Q))
  BY <1>1, FS_Subset
<1>3. Q \cup {<<x, n>>} = P /\ <<x, n>> \notin Q
  OBVIOUS
<1> HIDE DEF Q
<1> QED
  BY <1>2, <1>3, SumAdds DEF Q

LEMMA SumNone == IsFiniteSet(Tally({})) /\ Sum({}) = 0
<1>1. Tally({}) = {}
  BY DEF Tally
<1> QED
  BY <1>1, FS_EmptySet DEF Sum

\* Documents are not more than the operations on them.
LEMMA IdsFinite ==
    ASSUME Typed, NEW c \in Calls, NEW S \in SUBSET (DOMAIN ops[c])
    PROVE  /\ IsFiniteSet(S) /\ Cardinality(S) \in Nat
           /\ IsFiniteSet(IdsOf(c, S)) /\ Cardinality(IdsOf(c, S)) \in Nat
           /\ Cardinality(IdsOf(c, S)) <= Cardinality(S)
<1>1. IsFiniteSet(S)
  <2>1. DOMAIN ops[c] = 1..Len(ops[c]) /\ Len(ops[c]) \in Nat
    BY Streams12
  <2>2. IsFiniteSet(1..Len(ops[c]))
    BY <2>1, FS_Interval
  <2> QED
    BY <2>1, <2>2, FS_Subset
<1> DEFINE f == [i \in S |-> ops[c][i]]
<1>2. f \in Surjection(S, IdsOf(c, S))
  BY DEF Surjection, IdsOf
<1> HIDE DEF f
<1>3. IsFiniteSet(IdsOf(c, S)) /\ Cardinality(IdsOf(c, S)) <= Cardinality(S)
  BY <1>1, <1>2, FS_Surjection
<1> QED
  BY <1>1, <1>3, FS_CardinalityType
-------------------------------------------------------------------------------
\* What some answers report, one pair per answer.
CreatedBy(A) == {<<a, a.created>> : a \in A}
UpdatedBy(A) == {<<a, a.updated>> : a \in A}

\* Each request is answered once.
Answered ==
    /\ \A ch \in pending : ch = [call |-> call, items |-> ch.items]
    /\ \A a \in answers : /\ a.created \in Nat /\ a.updated \in Nat
                          /\ a.chunk \notin pending /\ \A i \in a.chunk.items : i \in Nat /\ i < next
    /\ IsFiniteSet(Tally(CreatedBy(answers))) /\ IsFiniteSet(Tally(UpdatedBy(answers)))

\* As long as all answers are good, the statistics and the answers not yet folded
\* count what was executed.
Good == outcome # "panic" /\ \A a \in answers : a.ok
Asked(c) == {i \in DOMAIN ops[c] : c = call => i < next /\ ~ Waiting(i)}
CountedFirst ==
    /\ \A id \in Ids : store[id].indexed # 0 <=> id \in IdsOf(1, Asked(1))
    /\ stats[1].created + Sum(CreatedBy(answers)) = Cardinality(IdsOf(1, Asked(1)))
    /\ stats[1].updated + Sum(UpdatedBy(answers)) = Cardinality(Asked(1)) - Cardinality(IdsOf(1, Asked(1)))
FirstDone ==
    /\ stats[1].created = Cardinality(IdsOf(1, DOMAIN ops[1]))
    /\ stats[1].created + stats[1].updated = Len(ops[1])
CountedSecond == stats[2].updated + Sum(UpdatedBy(answers)) = Cardinality(Asked(2))
Counted ==
    /\ stats \in [Calls -> [created : Nat, updated : Nat]]
    /\ call = 1 => stats[2].updated = 0
    /\ stats[2].created = 0
    /\ call = 2 => \A a \in answers : a.created = 0
    /\ call = 2 => FirstDone
    /\ call = 1 /\ Good => CountedFirst
    /\ call = 2 /\ Good => CountedSecond
    /\ outcome = "ok" => next > Len(ops[2])

\* The inductive invariant of the counting.
SInv == IInv /\ Answered /\ Counted

\* An answer comes back.
LEMMA Answers ==
    ASSUME SInv, NEW ch \in pending, NEW ok, NEW n \in Nat, NEW m \in Nat,
           pending' = pending \ {ch}, UNCHANGED <<call, next>>,
           answers' = answers \cup {[chunk |-> ch, ok |-> ok, created |-> n, updated |-> m]}
    PROVE  /\ Answered'
           /\ Sum(CreatedBy(answers))' = Sum(CreatedBy(answers)) + n
           /\ Sum(UpdatedBy(answers))' = Sum(UpdatedBy(answers)) + m
<1> DEFINE a == [chunk |-> ch, ok |-> ok, created |-> n, updated |-> m]
<1>1. a.chunk = ch /\ a.created = n /\ a.updated = m /\ answers' = answers \cup {a}
  OBVIOUS
<1> HIDE DEF a
<1>2. a \notin answers
  BY <1>1 DEF SInv, Answered
<1>3. <<a, n>> \notin CreatedBy(answers) /\ <<a, m>> \notin UpdatedBy(answers)
  BY <1>2 DEF CreatedBy, UpdatedBy
<1>4. CreatedBy(answers') = CreatedBy(answers) \cup {<<a, n>>} /\ UpdatedBy(answers') = UpdatedBy(answers) \cup {<<a, m>>}
  BY <1>1 DEF CreatedBy, UpdatedBy
<1>5. IsFiniteSet(Tally(CreatedBy(answers'))) /\ Sum(CreatedBy(answers')) = Sum(CreatedBy(answers)) + n
  <2> DEFINE P == CreatedBy(answers)
  <2>1. IsFiniteSet(Tally(P)) /\ <<a, n>> \notin P
    BY <1>3 DEF SInv, Answered
  <2>2. CreatedBy(answers') = P \cup {<<a, n>>}
    BY <1>4
  <2> HIDE DEF P
  <2>3. IsFiniteSet(Tally(P \cup {<<a, n>>})) /\ Sum(P \cup {<<a, n>>}) = Sum(P) + n
    BY <2>1, SumAdds
  <2> QED
    BY <2>2, <2>3 DEF P
<1>5u. IsFiniteSet(Tally(UpdatedBy(answers'))) /\ Sum(UpdatedBy(answers')) = Sum(UpdatedBy(answers)) + m
  <2> DEFINE P == UpdatedBy(answers)
  <2>1. IsFiniteSet(Tally(P)) /\ <<a, m>> \notin P
    BY <1>3 DEF SInv, Answered
  <2>2. UpdatedBy(answers') = P \cup {<<a, m>>}
    BY <1>4
  <2> HIDE DEF P
  <2>3. IsFiniteSet(Tally(P \cup {<<a, m>>})) /\ Sum(P \cup {<<a, m>>}) = Sum(P) + m
    BY <2>1, SumAdds
  <2> QED
    BY <2>2, <2>3 DEF P
<1>6. \A i \in ch.items : i \in Nat /\ i < next
  <2>1. \A i \in ch.items : i < next /\ i \in DOMAIN ops[call]
    BY DEF SInv, IInv, Typed, Whole, Chunk
  <2>2. \A i \in DOMAIN ops[call] : i \in Nat
    BY Streams12 DEF SInv, IInv, Typed
  <2> QED
    BY <2>1, <2>2
<1>7. \A b \in answers' : /\ b.created \in Nat /\ b.updated \in Nat
                          /\ b.chunk \notin pending' /\ \A i \in b.chunk.items : i \in Nat /\ i < next'
  BY <1>1, <1>6 DEF SInv, Answered
<1>8. \A c \in pending' : c = [call |-> call', items |-> c.items]
  BY DEF SInv, Answered
<1> QED
  BY <1>5, <1>5u, <1>7, <1>8 DEF Answered

LEMMA Disjoint ==
    ASSUME NEW A, NEW B, IsFiniteSet(A), IsFiniteSet(B), A \cap B = {}
    PROVE  Cardinality(A \cup B) = Cardinality(A) + Cardinality(B)
<1>1. Cardinality(A \cup B) = Cardinality(A) + Cardinality(B) - Cardinality(A \cap B)
  BY FS_Union
<1>2. Cardinality(A \cap B) = 0 /\ Cardinality(A) \in Nat /\ Cardinality(B) \in Nat
  BY FS_EmptySet, FS_CardinalityType
<1> QED
  BY <1>1, <1>2

\* No other request has an operation of one that is executed.
LEMMA AskedMore ==
    ASSUME SInv, NEW ch \in pending, pending' = pending \ {ch}, UNCHANGED <<ops, call, next>>
    PROVE  /\ ch.items \subseteq DOMAIN ops[call]
           /\ Asked(call) \cap ch.items = {}
           /\ Asked(call)' = Asked(call) \cup ch.items
<1>1. PICK k \in Nat : ch.items = Chunk(call, k)
  BY DEF SInv, IInv, Whole
<1>2. ch.items \subseteq DOMAIN ops[call] /\ \A i \in ch.items : i < next
  BY <1>1 DEF Chunk, SInv, IInv, Typed
<1>3. Asked(call) \cap ch.items = {}
  BY DEF Asked, Waiting
<1>4. ASSUME NEW c \in pending, NEW i \in ch.items, i \in c.items PROVE c = ch
  <2>1. PICK l \in Nat : c.items = Chunk(call, l)
    BY DEF SInv, IInv, Whole
  <2>2. c.items = ch.items
    BY <1>1, <1>4, <2>1 DEF Chunk
  <2> QED
    BY <2>2 DEF SInv, Answered
<1>5. \A i : Waiting(i)' <=> Waiting(i) /\ i \notin ch.items
  BY <1>4 DEF Waiting
<1>6. \A i \in ch.items : Waiting(i)
  BY DEF Waiting
<1>7. Asked(call)' = {i \in DOMAIN ops[call] : i < next /\ ~ Waiting(i)'}
  BY DEF Asked
<1>8. Asked(call)' = Asked(call) \cup ch.items
  BY <1>2, <1>5, <1>6, <1>7 DEF Asked
<1> QED
  BY <1>2, <1>3, <1>8

\* What a request creates is counted once, and is no more than what it performed.
LEMMA CreatedIs ==
    ASSUME SInv, NEW ch \in pending, NEW done \in SUBSET ch.items, ch.items \subseteq DOMAIN ops[call]
    PROVE  /\ Cardinality(done) \in Nat /\ Created(ch, done) \in Nat
           /\ Cardinality(done) - Created(ch, done) \in Nat
           /\ call = 2 => Created(ch, done) = 0
           /\ call = 1 => Created(ch, done) = Cardinality({id \in IdsOf(1, done) : store[id].indexed = 0})
<1>1. ch.call = call /\ call \in Calls /\ done \in SUBSET DOMAIN ops[call] /\ Typed
  BY DEF SInv, IInv, Typed
<1>2. /\ Cardinality(done) \in Nat
      /\ IsFiniteSet(IdsOf(call, done)) /\ Cardinality(IdsOf(call, done)) \in Nat
      /\ Cardinality(IdsOf(call, done)) <= Cardinality(done)
  BY <1>1, IdsFinite
<1>3. call = 2 => Created(ch, done) = 0
  BY <1>1 DEF Created
<1>4. ASSUME call = 1
      PROVE  /\ Created(ch, done) = Cardinality({id \in IdsOf(1, done) : store[id].indexed = 0})
             /\ Created(ch, done) \in Nat /\ Created(ch, done) <= Cardinality(done)
  <2> DEFINE new == {id \in IdsOf(1, done) : store[id].indexed = 0}
  <2>1. Created(ch, done) = Cardinality(new)
    BY <1>1, <1>4 DEF Created
  <2>2. IsFiniteSet(new) /\ Cardinality(new) <= Cardinality(IdsOf(1, done))
    <3>1. new \in SUBSET IdsOf(1, done) /\ IsFiniteSet(IdsOf(1, done))
      BY <1>2, <1>4
    <3> HIDE DEF new
    <3> QED
      BY <3>1, FS_Subset
  <2>3. Cardinality(new) \in Nat
    BY <2>2, FS_CardinalityType
  <2> HIDE DEF new
  <2>4. Created(ch, done) \in Nat /\ Created(ch, done) <= Cardinality(done)
    BY <1>2, <1>4, <2>1, <2>2, <2>3
  <2> QED
    BY <2>1, <2>4 DEF new
<1>5. Created(ch, done) \in Nat /\ Created(ch, done) <= Cardinality(done)
  BY <1>1, <1>2, <1>3, <1>4 DEF Calls
<1> QED
  BY <1>2, <1>3, <1>4, <1>5

\* A document is created by the first operation on it that is executed.
LEMMA FirstCounted ==
    ASSUME SInv, call = 1, NEW ch \in pending, ch.items \subseteq DOMAIN ops[1],
           pending' = pending \ {ch}, UNCHANGED <<ops, call, next, stats>>,
           store' = Stored(ch, ch.items), CountedFirst, NEW n,
           n = Cardinality({id \in IdsOf(1, ch.items) : store[id].indexed = 0}),
           Sum(CreatedBy(answers)) \in Nat, Sum(UpdatedBy(answers)) \in Nat,
           Sum(CreatedBy(answers))' = Sum(CreatedBy(answers)) + n,
           Sum(UpdatedBy(answers))' = Sum(UpdatedBy(answers)) + (Cardinality(ch.items) - n)
    PROVE  CountedFirst'
<1> DEFINE S == Asked(1)
           new == {id \in IdsOf(1, ch.items) : store[id].indexed = 0}
<1>1. S \cap ch.items = {} /\ Asked(1)' = S \cup ch.items /\ S \subseteq DOMAIN ops[1]
  BY AskedMore DEF Asked
<1>2. \A id \in Ids : store[id].indexed # 0 <=> id \in IdsOf(1, S)
  BY DEF CountedFirst
<1>3. IdsOf(1, S \cup ch.items) = IdsOf(1, S) \cup IdsOf(1, ch.items)
  BY DEF IdsOf
<1>4. Typed /\ \A i \in DOMAIN ops[1] : i # 0 /\ ops[1][i] \in Ids
  BY Streams12 DEF SInv, IInv, Calls
<1>5. IdsOf(1, ch.items) \subseteq Ids
  BY <1>4 DEF IdsOf
<1>6. /\ IsFiniteSet(S) /\ IsFiniteSet(IdsOf(1, S)) /\ Cardinality(S) \in Nat /\ Cardinality(IdsOf(1, S)) \in Nat
  BY <1>1, <1>4, IdsFinite DEF Calls
<1>7. /\ IsFiniteSet(ch.items) /\ IsFiniteSet(IdsOf(1, ch.items)) /\ Cardinality(ch.items) \in Nat
  BY <1>4, IdsFinite DEF Calls
<1>8. IsFiniteSet(new) /\ Cardinality(new) \in Nat
  <2>1. new \in SUBSET IdsOf(1, ch.items)
    OBVIOUS
  <2> HIDE DEF new
  <2> QED
    BY <1>7, <2>1, FS_Subset, FS_CardinalityType
<1>9. IdsOf(1, S) \cap new = {} /\ IdsOf(1, S) \cup IdsOf(1, ch.items) = IdsOf(1, S) \cup new
  BY <1>2, <1>5
<1> HIDE DEF S, new
<1>10. Cardinality(IdsOf(1, S \cup ch.items)) = Cardinality(IdsOf(1, S)) + Cardinality(new)
  BY <1>3, <1>6, <1>8, <1>9, Disjoint
<1>11. Cardinality(S \cup ch.items) = Cardinality(S) + Cardinality(ch.items)
  BY <1>1, <1>6, <1>7, Disjoint
<1>12. ASSUME NEW id \in Ids PROVE store'[id].indexed # 0 <=> id \in IdsOf(1, S) \cup IdsOf(1, ch.items)
  <2> DEFINE last == store'[id].indexed
  <2>1. \/ /\ last \in ch.items /\ ops[1][last] = id
        \/ /\ last = store[id].indexed
           /\ \A i \in ch.items : ops[1][i] # id
    BY <1>4, StoredIs
  <2> HIDE DEF last
  <2>2. CASE last \in ch.items /\ ops[1][last] = id
    <3>1. last # 0 /\ id \in IdsOf(1, ch.items)
      BY <1>4, <2>2 DEF IdsOf
    <3> QED
      BY <3>1 DEF last
  <2>3. CASE last = store[id].indexed /\ \A i \in ch.items : ops[1][i] # id
    <3>1. id \notin IdsOf(1, ch.items)
      BY <2>3 DEF IdsOf
    <3> QED
      BY <1>2, <2>3, <3>1 DEF last
  <2> QED
    BY <2>1, <2>2, <2>3
<1>13. IdsOf(1, Asked(1))' = IdsOf(1, S) \cup IdsOf(1, ch.items)
  BY <1>1, <1>3 DEF IdsOf
<1>14. \A id \in Ids : store'[id].indexed # 0 <=> id \in IdsOf(1, Asked(1))'
  BY <1>12, <1>13
<1>15. stats[1].created \in Nat /\ stats[1].updated \in Nat
  BY DEF SInv, Counted, Calls
<1>16. Cardinality(IdsOf(1, Asked(1)))' = Cardinality(IdsOf(1, S)) + n
  BY <1>3, <1>10, <1>13 DEF new
<1>17. Cardinality(Asked(1))' = Cardinality(S) + Cardinality(ch.items)
  BY <1>1, <1>11
<1>18. /\ stats[1].created + Sum(CreatedBy(answers)) = Cardinality(IdsOf(1, S))
       /\ stats[1].updated + Sum(UpdatedBy(answers)) = Cardinality(S) - Cardinality(IdsOf(1, S))
  BY DEF CountedFirst, S
<1>19. n \in Nat
  BY <1>8 DEF new
<1>20. stats'[1].created + Sum(CreatedBy(answers))' = Cardinality(IdsOf(1, Asked(1)))'
  BY <1>6, <1>15, <1>16, <1>18, <1>19
<1>21. stats'[1].updated + Sum(UpdatedBy(answers))' = Cardinality(Asked(1))' - Cardinality(IdsOf(1, Asked(1)))'
  BY <1>6, <1>7, <1>15, <1>16, <1>17, <1>18, <1>19
<1> QED
  BY <1>14, <1>20, <1>21 DEF CountedFirst

LEMMA Numbers ==
    ASSUME SInv
    PROVE  /\ Sum(CreatedBy(answers)) \in Nat /\ Sum(UpdatedBy(answers)) \in Nat
           /\ \A c \in Calls : stats[c].created \in Nat /\ stats[c].updated \in Nat
<1>1. Sum(CreatedBy(answers)) \in Nat /\ Sum(UpdatedBy(answers)) \in Nat
  BY FS_CardinalityType DEF SInv, Answered, Sum
<1> QED
  BY <1>1 DEF SInv, Counted

LEMMA SInitially == Init => SInv
<1> SUFFICES ASSUME Init PROVE SInv
  OBVIOUS
<1>1. IInv
  BY Initially
<1>2. answers = {} /\ pending = {} /\ call = 1 /\ next = 1 /\ outcome = "running"
      /\ stats = [c \in Calls |-> [created |-> 0, updated |-> 0]] /\ store = [id \in Ids |-> Absent]
  BY DEF Init
<1>3. CreatedBy(answers) = {} /\ UpdatedBy(answers) = {}
  BY <1>2 DEF CreatedBy, UpdatedBy
<1>4. Answered
  BY <1>2, <1>3, SumNone DEF Answered
<1>5. stats[1].created = 0 /\ stats[1].updated = 0 /\ stats[2].created = 0 /\ stats[2].updated = 0
      /\ stats \in [Calls -> [created : Nat, updated : Nat]]
  BY <1>2 DEF Calls
<1>6. Asked(1) = {}
  <2>1. DOMAIN ops[1] = 1..Len(ops[1]) /\ Len(ops[1]) \in Nat
    BY <1>1, Streams12 DEF IInv, Calls
  <2> QED
    BY <1>2, <2>1 DEF Asked
<1>7. CountedFirst
  <2>1. IdsOf(1, Asked(1)) = {}
    BY <1>6 DEF IdsOf
  <2>2. \A id \in Ids : store[id].indexed = 0
    BY <1>2 DEF Absent
  <2>3. Cardinality(Asked(1)) = 0 /\ Cardinality(IdsOf(1, Asked(1))) = 0
    BY <1>6, <2>1, FS_EmptySet
  <2>4. Sum(CreatedBy(answers)) = 0 /\ Sum(UpdatedBy(answers)) = 0
    BY <1>3, SumNone
  <2> QED
    BY <1>5, <2>1, <2>2, <2>3, <2>4 DEF CountedFirst
<1> QED
  BY <1>1, <1>2, <1>4, <1>5, <1>7 DEF SInv, Counted

LEMMA SPoll == ASSUME SInv, poll_chunk PROVE Answered' /\ Counted'
<1> DEFINE end == IF next + ChunkSize - 1 < Len(ops[call]) THEN next + ChunkSize - 1 ELSE Len(ops[call])
           ch == [call |-> call, items |-> next..end]
<1>1. /\ outcome = "running" /\ next <= Len(ops[call]) /\ pending' = pending \cup {ch} /\ next' = end + 1
      /\ UNCHANGED <<window, ops, call, answers, stats, outcome, store, refused>>
  BY DEF poll_chunk, More
<1>2. end \in Nat /\ next <= end
  <2> HIDE DEF ch
  <2> QED
    BY <1>1, NextChunk DEF SInv, IInv
<1> HIDE DEF end
<1>3. next \in Nat \ {0} /\ call \in Calls /\ \A c \in Calls : DOMAIN ops[c] = 1..Len(ops[c]) /\ Len(ops[c]) \in Nat
  BY Streams12 DEF SInv, IInv, Typed
<1>4. ch.items = next..end /\ next \in ch.items /\ ch = [call |-> call, items |-> ch.items]
  BY <1>2, <1>3
<1> HIDE DEF ch
<1>5. Answered'
  <2>1. \A c \in pending' : c = [call |-> call', items |-> c.items]
    BY <1>1, <1>4 DEF SInv, Answered
  <2>2. ASSUME NEW a \in answers
        PROVE  /\ a.created \in Nat /\ a.updated \in Nat
               /\ a.chunk \notin pending' /\ \A i \in a.chunk.items : i \in Nat /\ i < next'
    <3>1. /\ a.created \in Nat /\ a.updated \in Nat
          /\ a.chunk \notin pending /\ \A i \in a.chunk.items : i \in Nat /\ i < next
      BY DEF SInv, Answered
    <3>2. a.chunk # ch
      <4>1. next \in Nat /\ next \in ch.items
        BY <1>3, <1>4
      <4>2. ~ (next < next)
        BY <4>1
      <4> QED
        BY <3>1, <4>1, <4>2
    <3>3. \A i \in a.chunk.items : i < end + 1
      BY <1>2, <1>3, <3>1
    <3> QED
      BY <1>1, <3>1, <3>2, <3>3
  <2> QED
    BY <1>1, <2>1, <2>2 DEF SInv, Answered
<1>6. \A c \in Calls : Asked(c)' = Asked(c)
  <2>1. \A i : Waiting(i)' <=> Waiting(i) \/ i \in next..end
    BY <1>1, <1>4 DEF Waiting
  <2>2. \A i : Waiting(i) => i < next
    BY DEF Waiting, SInv, IInv, Typed
  <2>3. \A i \in Nat : i < end + 1 /\ i \notin next..end <=> i < next
    BY <1>2, <1>3
  <2>4. ASSUME NEW c \in Calls, NEW i \in DOMAIN ops[c] PROVE i \in Asked(c)' <=> i \in Asked(c)
    <3>1. i \in Nat
      BY <1>3
    <3> QED
      BY <1>1, <2>1, <2>3, <3>1 DEF Asked
  <2> QED
    BY <1>1, <2>4 DEF Asked
<1>8. (CountedFirst => CountedFirst') /\ (FirstDone => FirstDone') /\ (CountedSecond => CountedSecond') /\ (Good' => Good)
  <2>1. IdsOf(1, Asked(1))' = IdsOf(1, Asked(1)) /\ IdsOf(1, DOMAIN ops[1])' = IdsOf(1, DOMAIN ops[1])
    BY <1>1, <1>6 DEF IdsOf, Calls
  <2> QED
    BY <1>1, <1>6, <2>1 DEF CountedFirst, FirstDone, CountedSecond, Good, Calls
<1> QED
  BY <1>1, <1>5, <1>8 DEF SInv, Counted

LEMMA SExecutes ==
    ASSUME SInv, NEW ch \in pending, NEW done \in SUBSET ch.items, NEW ok \in BOOLEAN,
           NEW n \in Nat, NEW m \in Nat,
           pending' = pending \ {ch}, store' = Stored(ch, done),
           UNCHANGED <<ops, call, next, stats, outcome>>,
           answers' = answers \cup {[chunk |-> ch, ok |-> ok, created |-> n, updated |-> m]},
           call = 2 => n = 0,
           ok => done = ch.items /\ n = Created(ch, done) /\ m = Cardinality(done) - n
    PROVE  Answered' /\ Counted'
<1> DEFINE a == [chunk |-> ch, ok |-> ok, created |-> n, updated |-> m]
<1>1. /\ Answered'
      /\ Sum(CreatedBy(answers))' = Sum(CreatedBy(answers)) + n
      /\ Sum(UpdatedBy(answers))' = Sum(UpdatedBy(answers)) + m
  BY Answers
<1>2. a.chunk = ch /\ a.ok = ok /\ a.created = n /\ answers' = answers \cup {a}
  OBVIOUS
<1> HIDE DEF a
<1>3. Good' => Good /\ ok
  BY <1>2 DEF Good
<1>4. ch.items \subseteq DOMAIN ops[call] /\ Asked(call) \cap ch.items = {} /\ Asked(call)' = Asked(call) \cup ch.items
  BY AskedMore
<1>5. call \in Calls /\ Typed
  BY DEF SInv, IInv, Typed
<1>6. ASSUME call = 1, Good' PROVE CountedFirst'
  <2>1. done = ch.items /\ n = Created(ch, ch.items) /\ m = Cardinality(ch.items) - n /\ CountedFirst
    BY <1>3, <1>6 DEF SInv, Counted
  <2>2. n = Cardinality({id \in IdsOf(1, ch.items) : store[id].indexed = 0})
    BY <1>4, <1>6, <2>1, CreatedIs
  <2>3. Sum(CreatedBy(answers)) \in Nat /\ Sum(UpdatedBy(answers)) \in Nat
    BY Numbers
  <2> QED
    BY <1>1, <1>4, <1>6, <2>1, <2>2, <2>3, FirstCounted
<1>7. ASSUME call = 2, Good' PROVE CountedSecond'
  <2>1. m = Cardinality(ch.items) /\ CountedSecond
    <3>1. m = Cardinality(ch.items) - 0 /\ CountedSecond
      BY <1>3, <1>7 DEF SInv, Counted
    <3>2. Cardinality(ch.items) \in Nat
      BY <1>4, <1>5, IdsFinite
    <3> QED
      BY <3>1, <3>2
  <2>2. IsFiniteSet(ch.items) /\ IsFiniteSet(Asked(2)) /\ Cardinality(ch.items) \in Nat /\ Cardinality(Asked(2)) \in Nat
    <3>1. Asked(2) \subseteq DOMAIN ops[2] /\ ch.items \subseteq DOMAIN ops[2]
      BY <1>4, <1>7 DEF Asked
    <3> QED
      BY <1>5, <1>7, <3>1, IdsFinite
  <2>3. Cardinality(Asked(2) \cup ch.items) = Cardinality(Asked(2)) + Cardinality(ch.items)
    BY <1>4, <1>7, <2>2, Disjoint
  <2>4. Cardinality(Asked(2))' = Cardinality(Asked(2)) + Cardinality(ch.items)
    BY <1>4, <1>7, <2>3
  <2>5. Sum(UpdatedBy(answers)) \in Nat /\ stats[2].updated \in Nat
    BY Numbers DEF Calls
  <2> QED
    BY <1>1, <2>1, <2>2, <2>4, <2>5 DEF CountedSecond
<1>8. FirstDone => FirstDone'
  BY DEF FirstDone, IdsOf
<1>9. call = 2 => \A b \in answers' : b.created = 0
  BY <1>2 DEF SInv, Counted
<1> QED
  BY <1>1, <1>6, <1>7, <1>8, <1>9 DEF SInv, Counted

LEMMA SBlock == ASSUME SInv, NEW ch \in pending, bulk_block(ch) PROVE Answered' /\ Counted'
<1>1. PICK rejected \in SUBSET ch.items :
        /\ store' = Stored(ch, Performed(ch, rejected))
        /\ answers' = answers \cup
             {[chunk |-> ch, ok |-> ItemsOk(ch, Performed(ch, rejected)), created |-> Created(ch, Performed(ch, rejected)),
               updated |-> Cardinality(Performed(ch, rejected)) - Created(ch, Performed(ch, rejected))]}
  BY DEF bulk_block
<1> DEFINE done == Performed(ch, rejected)
           n == Created(ch, done)
           m == Cardinality(done) - n
           ok == ItemsOk(ch, done)
<1>2. pending' = pending \ {ch} /\ UNCHANGED <<ops, call, next, stats, outcome>>
  BY DEF bulk_block
<1>3. done \in SUBSET ch.items
  BY DEF Performed
<1>4. store' = Stored(ch, done) /\ answers' = answers \cup {[chunk |-> ch, ok |-> ok, created |-> n, updated |-> m]}
  BY <1>1
<1> HIDE DEF done
<1>5. ch.items \subseteq DOMAIN ops[call]
  BY <1>2, AskedMore
<1>6. n \in Nat /\ m \in Nat /\ (call = 2 => n = 0)
  BY <1>3, <1>5, CreatedIs
<1>7. ok \in BOOLEAN /\ (ok => done = ch.items)
  BY DEF ItemsOk
<1>8. n = Created(ch, done) /\ m = Cardinality(done) - n
  OBVIOUS
<1> HIDE DEF n, m, ok
<1> QED
  BY <1>2, <1>3, <1>4, <1>6, <1>7, <1>8, SExecutes

LEMMA SError == ASSUME SInv, NEW ch \in pending, bulk_error(ch) PROVE Answered' /\ Counted'
<1>1. PICK rejected \in {{}, ch.items} : store' = Stored(ch, Performed(ch, rejected))
  BY DEF bulk_error
<1>2. Performed(ch, rejected) \in SUBSET ch.items
  BY DEF Performed
<1>3. /\ pending' = pending \ {ch} /\ UNCHANGED <<ops, call, next, stats, outcome>>
      /\ answers' = answers \cup {[chunk |-> ch, ok |-> FALSE, created |-> 0, updated |-> 0]}
  BY DEF bulk_error
<1> QED
  BY <1>1, <1>2, <1>3, SExecutes

LEMMA SFold == ASSUME SInv, NEW a \in answers, fold(a) PROVE Answered' /\ Counted'
<1>1. /\ outcome = "running" /\ answers' = answers \ {a}
      /\ UNCHANGED <<ops, call, next, pending, store>>
      /\ IF a.ok
         THEN /\ stats' = [stats EXCEPT ![call].created = @ + a.created, ![call].updated = @ + a.updated]
              /\ outcome' = outcome
         ELSE outcome' = "panic" /\ stats' = stats
  BY DEF fold
<1>2. a.created \in Nat /\ a.updated \in Nat
  BY DEF SInv, Answered
<1>3. /\ CreatedBy(answers') = CreatedBy(answers) \ {<<a, a.created>>} /\ <<a, a.created>> \in CreatedBy(answers)
      /\ UpdatedBy(answers') = UpdatedBy(answers) \ {<<a, a.updated>>} /\ <<a, a.updated>> \in UpdatedBy(answers)
  BY <1>1 DEF CreatedBy, UpdatedBy
<1>4. IsFiniteSet(Tally(CreatedBy(answers'))) /\ Sum(CreatedBy(answers)) = Sum(CreatedBy(answers')) + a.created
  <2> DEFINE P == CreatedBy(answers)
             Q == CreatedBy(answers')
  <2>1. IsFiniteSet(Tally(P)) /\ <<a, a.created>> \in P /\ Q = P \ {<<a, a.created>>}
    BY <1>3 DEF SInv, Answered
  <2> HIDE DEF P, Q
  <2>2. IsFiniteSet(Tally(Q)) /\ Sum(P) = Sum(Q) + a.created
    BY <1>2, <2>1, SumRemoves
  <2> QED
    BY <2>2 DEF P, Q
<1>5. IsFiniteSet(Tally(UpdatedBy(answers'))) /\ Sum(UpdatedBy(answers)) = Sum(UpdatedBy(answers')) + a.updated
  <2> DEFINE P == UpdatedBy(answers)
             Q == UpdatedBy(answers')
  <2>1. IsFiniteSet(Tally(P)) /\ <<a, a.updated>> \in P /\ Q = P \ {<<a, a.updated>>}
    BY <1>3 DEF SInv, Answered
  <2> HIDE DEF P, Q
  <2>2. IsFiniteSet(Tally(Q)) /\ Sum(P) = Sum(Q) + a.updated
    BY <1>2, <2>1, SumRemoves
  <2> QED
    BY <2>2 DEF P, Q
<1>6. Answered'
  BY <1>1, <1>4, <1>5 DEF SInv, Answered
<1>7. call \in Calls /\ stats \in [Calls -> [created : Nat, updated : Nat]]
  BY DEF SInv, Counted, IInv, Typed
<1>8. /\ stats' \in [Calls -> [created : Nat, updated : Nat]]
      /\ \A c \in Calls : c # call \/ ~a.ok => stats'[c] = stats[c]
      /\ a.ok => /\ stats'[call].created = stats[call].created + a.created
                 /\ stats'[call].updated = stats[call].updated + a.updated
  BY <1>1, <1>2, <1>7
<1>9. Asked(1)' = Asked(1) /\ Asked(2)' = Asked(2) /\ \A S : IdsOf(1, S)' = IdsOf(1, S)
  BY <1>1 DEF Asked, Waiting, IdsOf
<1>10. Good' => Good /\ a.ok
  BY <1>1 DEF Good
<1>11. Sum(CreatedBy(answers')) \in Nat /\ Sum(UpdatedBy(answers')) \in Nat
  BY <1>4, <1>5, FS_CardinalityType DEF Sum
<1>12. \A c \in Calls : stats[c].created \in Nat /\ stats[c].updated \in Nat
  BY Numbers
<1>13. ASSUME call = 1, Good' PROVE CountedFirst'
  <2>1. CountedFirst /\ a.ok
    BY <1>10, <1>13 DEF SInv, Counted
  <2>2. IdsOf(1, Asked(1))' = IdsOf(1, Asked(1))
    BY <1>1, <1>9 DEF IdsOf
  <2>3. stats'[1].created + Sum(CreatedBy(answers')) = stats[1].created + Sum(CreatedBy(answers))
    BY <1>2, <1>4, <1>7, <1>8, <1>11, <1>12, <1>13, <2>1
  <2>4. stats'[1].updated + Sum(UpdatedBy(answers')) = stats[1].updated + Sum(UpdatedBy(answers))
    BY <1>2, <1>5, <1>7, <1>8, <1>11, <1>12, <1>13, <2>1
  <2> QED
    BY <1>1, <1>9, <2>1, <2>2, <2>3, <2>4 DEF CountedFirst
<1>14. ASSUME call = 2, Good' PROVE CountedSecond'
  <2>1. CountedSecond /\ a.ok
    BY <1>10, <1>14 DEF SInv, Counted
  <2>2. stats'[2].updated + Sum(UpdatedBy(answers')) = stats[2].updated + Sum(UpdatedBy(answers))
    BY <1>2, <1>5, <1>7, <1>8, <1>11, <1>12, <1>14, <2>1
  <2> QED
    BY <1>9, <2>1, <2>2 DEF CountedSecond
<1>15. call = 2 => FirstDone'
  <2>1. call = 2 => stats'[1] = stats[1]
    BY <1>7, <1>8 DEF Calls
  <2> QED
    BY <1>1, <2>1 DEF SInv, Counted, FirstDone, IdsOf
<1>16. stats'[2].created = 0 /\ (call = 1 => stats'[2].updated = 0) /\ (call = 2 => \A b \in answers' : b.created = 0)
  <2>1. stats[2].created = 0 /\ (call = 1 => stats[2].updated = 0) /\ (call = 2 => \A b \in answers : b.created = 0)
    BY DEF SInv, Counted
  <2> QED
    BY <1>1, <1>7, <1>8, <2>1 DEF Calls
<1> QED
  BY <1>1, <1>6, <1>8, <1>13, <1>14, <1>15, <1>16 DEF Counted

LEMMA SReturn == ASSUME SInv, bulk_return PROVE Answered' /\ Counted'
<1>1. /\ outcome = "running" /\ next > Len(ops[call]) /\ pending = {} /\ answers = {}
      /\ UNCHANGED <<ops, pending, answers, stats, store>>
      /\ IF call = 1 THEN call' = 2 /\ next' = 1 /\ outcome' = outcome
                     ELSE outcome' = "ok" /\ call' = call /\ next' = next
  BY DEF bulk_return
<1>2. Answered'
  BY <1>1 DEF SInv, Answered
<1>3. CreatedBy(answers) = {} /\ UpdatedBy(answers) = {}
  BY <1>1 DEF CreatedBy, UpdatedBy
<1>4. Sum(CreatedBy(answers)) = 0 /\ Sum(UpdatedBy(answers)) = 0
  BY <1>3, SumNone
<1>5. Good /\ call \in Calls /\ next \in Nat /\ \A c \in Calls : Len(ops[c]) \in Nat /\ DOMAIN ops[c] = 1..Len(ops[c])
  BY <1>1, Streams12 DEF Good, SInv, IInv, Typed
<1>6. CASE call = 1
  <2>1. Asked(1) = DOMAIN ops[1]
    BY <1>1, <1>5, <1>6 DEF Asked, Waiting
  <2>2. Cardinality(Asked(1)) = Len(ops[1])
    <3>1. Asked(1) = 1..Len(ops[1]) /\ Len(ops[1]) \in Nat
      BY <1>5, <2>1 DEF Calls
    <3>2. \A l \in Nat : Cardinality(1..l) = l
      BY FS_Interval
    <3> QED
      BY <3>1, <3>2
  <2>3. Cardinality(IdsOf(1, Asked(1))) \in Nat
    BY <2>1, IdsFinite DEF SInv, IInv, Calls
  <2>4. FirstDone
    <3>1. CountedFirst
      BY <1>5, <1>6 DEF SInv, Counted
    <3>2. stats[1].created \in Nat /\ stats[1].updated \in Nat
      BY Numbers DEF Calls
    <3>3. stats[1].created = Cardinality(IdsOf(1, Asked(1)))
      BY <1>4, <3>1, <3>2 DEF CountedFirst
    <3>4. stats[1].updated = Cardinality(Asked(1)) - Cardinality(IdsOf(1, Asked(1)))
      BY <1>4, <3>1, <3>2 DEF CountedFirst
    <3>5. stats[1].created + stats[1].updated = Len(ops[1])
      BY <1>5, <2>2, <2>3, <3>2, <3>3, <3>4 DEF Calls
    <3> QED
      BY <2>1, <3>3, <3>5 DEF FirstDone
  <2>5. FirstDone'
    BY <1>1, <2>4 DEF FirstDone, IdsOf
  <2>6. CountedSecond'
    <3>1. Asked(2)' = {}
      BY <1>1, <1>5, <1>6 DEF Asked, Calls
    <3>2. Cardinality(Asked(2)') = 0 /\ Sum(UpdatedBy(answers')) = 0
      BY <1>1, <1>4, <3>1, FS_EmptySet
    <3>3. stats'[2].updated = 0
      BY <1>1, <1>6 DEF SInv, Counted
    <3> QED
      BY <3>2, <3>3 DEF CountedSecond
  <2> QED
    BY <1>1, <1>2, <1>6, <2>5, <2>6 DEF SInv, Counted
<1>7. CASE call = 2
  <2>1. CountedSecond /\ FirstDone
    BY <1>5, <1>7 DEF SInv, Counted
  <2>2. CountedSecond' /\ FirstDone'
    BY <1>1, <1>7, <2>1 DEF CountedSecond, FirstDone, Asked, Waiting, IdsOf
  <2> QED
    BY <1>1, <1>2, <1>7, <2>2 DEF SInv, Counted
<1> QED
  BY <1>5, <1>6, <1>7 DEF Calls

LEMMA SInvariance == SInv /\ [Next]_vars => SInv'
<1> SUFFICES ASSUME SInv, [Next]_vars PROVE SInv'
  OBVIOUS
<1>0. IInv'
  BY Invariance DEF SInv
<1>1. CASE UNCHANGED vars
  BY <1>0, <1>1 DEF vars, SInv, Answered, Counted, FirstDone, CountedFirst, CountedSecond, Good, Asked, Waiting, IdsOf
<1>2. CASE poll_chunk
  BY <1>0, <1>2, SPoll DEF SInv
<1>3. ASSUME NEW ch \in pending, bulk_block(ch) PROVE SInv'
  BY <1>0, <1>3, SBlock DEF SInv
<1>4. ASSUME NEW ch \in pending, bulk_error(ch) PROVE SInv'
  BY <1>0, <1>4, SError DEF SInv
<1>5. ASSUME NEW a \in answers, fold(a) PROVE SInv'
  BY <1>0, <1>5, SFold DEF SInv
<1>6. CASE bulk_return
  BY <1>0, <1>6, SReturn DEF SInv
<1> QED
  BY <1>1, <1>2, <1>3, <1>4, <1>5, <1>6 DEF Next

\* When insert_documents or update_documents returns, its statistics are exact,
\* however the requests were interleaved and their answers folded (internal.rs,
\* bulk's fold of InsertStats): every distinct document counts as created once,
\* every other operation as an update, and updates create nothing.
THEOREM StatsExactAlways == Spec => []StatsExact
<1>1. SInv => StatsExact
  <2> SUFFICES ASSUME SInv PROVE StatsExact
    OBVIOUS
  <2>1. Inserted => FirstDone
    BY InsertedMeans DEF SInv, Counted
  <2>2. ASSUME outcome = "ok" PROVE stats[2] = [created |-> 0, updated |-> Len(ops[2])]
    <3>1. call = 2 /\ pending = {} /\ answers = {} /\ Good
      BY <2>2 DEF SInv, IInv, Reported, Good
    <3>2. CountedSecond /\ stats[2].created = 0 /\ stats \in [Calls -> [created : Nat, updated : Nat]]
      BY <3>1 DEF SInv, Counted
    <3>3. UpdatedBy(answers) = {}
      BY <3>1 DEF UpdatedBy
    <3>4. stats[2].updated = Cardinality(Asked(2))
      BY <3>2, <3>3, SumNone DEF CountedSecond, Calls
    <3>5. Len(ops[2]) \in Nat /\ DOMAIN ops[2] = 1..Len(ops[2])
      BY Streams12 DEF SInv, IInv, Calls
    <3>6. Asked(2) = 1..Len(ops[2])
      <4>1. next > Len(ops[2]) /\ next \in Nat
        BY <2>2 DEF SInv, Counted, IInv, Typed
      <4> QED
        BY <3>1, <3>5, <4>1 DEF Asked, Waiting
    <3>7. Cardinality(Asked(2)) = Len(ops[2])
      <4>1. \A l \in Nat : Cardinality(1..l) = l
        BY FS_Interval
      <4> QED
        BY <3>5, <3>6, <4>1
    <3> QED
      BY <3>2, <3>4, <3>7 DEF Calls
  <2> QED
    BY <2>1, <2>2 DEF StatsExact, FirstDone
<1>2. Spec => []SInv
  BY SInitially, SInvariance, PTL DEF Spec
<1> QED
  BY <1>1, <1>2, PTL
-------------------------------------------------------------------------------
\* An empty page means that nothing remains: the page size is not 0.
LEMMA EmptyPage == ASSUME NEW S, IsPage({}, S) PROVE S = {}
BY ListAssumption, FS_EmptySet DEF IsPage

\* What is published at once is of one generation.
LEMMA ContentsOf == ASSUME NEW c \in Contents PROVE c \subseteq Documents /\ SameGeneration(c)
<1>1. PICK g \in Generations, T \in SUBSET Tiebreakers : c = {<<g, t>> : t \in T}
  BY DEF Contents
<1> QED
  BY <1>1 DEF Documents, SameGeneration

\* Each step of the stream and of Elasticsearch keeps the inductive invariant.
LEMMA ListStep == ListInv /\ [ListNext]_listVars => ListInv'
<1> SUFFICES ASSUME ListInv, [ListNext]_listVars PROVE ListInv'
  OBVIOUS
<1> USE ListAssumption DEF ListInv, TypeOK, Ends, Documents
<1>1. CASE UNCHANGED listVars
  BY <1>1 DEF listVars, Progress, OnAnswering, SameGeneration
<1>2. CASE open_point_in_time
  BY <1>2 DEF open_point_in_time, Progress, OnAnswering, SameGeneration
<1>3. CASE read_response
  <2> PICK failed \in SUBSET Shards, P \in SUBSET Remaining :
         /\ IsPage(P, HitsWithout(failed))
         /\ page' = P
         /\ missed' = missed \cup failed
         /\ \/ \E d \in P : IsLastHit(d, P) /\ state' = "Next" /\ token' = d[2]
            \/ P = {} /\ state' = "End" /\ UNCHANGED token
    BY <1>3 DEF read_response
  <2>1. /\ state \in {"Start", "Next"} /\ page = {}
        /\ UNCHANGED <<live, pit, snapshot, listed>>
    BY <1>3 DEF read_response
  <2>2. /\ Remaining \subseteq snapshot /\ missed' \subseteq Shards
        /\ \A e \in snapshot : e[2] \in Nat
        /\ OnAnswering' \subseteq OnAnswering
    BY <2>1 DEF Remaining, OnAnswering
  <2>3. OnAnswering' \cap Remaining \subseteq HitsWithout(failed)
    BY DEF OnAnswering, HitsWithout
  <2>4. OnAnswering \subseteq listed \cup Remaining
    BY <2>1, <2>2 DEF Progress, Remaining, OnAnswering
  <2>5. CASE P = {} /\ state' = "End" /\ UNCHANGED token
    <3>1. HitsWithout(failed) = {}
      BY <2>5, EmptyPage
    <3>2. OnAnswering' \subseteq listed'
      BY <2>1, <2>2, <2>3, <2>4, <3>1
    <3> QED
      BY <2>1, <2>2, <2>5, <3>2 DEF Progress, SameGeneration
  <2>6. ASSUME NEW d \in P, IsLastHit(d, P), state' = "Next", token' = d[2] PROVE ListInv'
    <3>1. TypeOK' /\ page' \subseteq snapshot' /\ SameGeneration(snapshot)' /\ SameGeneration(live)'
      BY <2>1, <2>2, <2>6 DEF SameGeneration
    <3>2. \A e \in P : e[2] >= d[2]
      BY <2>2, <2>6 DEF IsLastHit
    <3>3. \A e \in HitsWithout(failed) \ P : e[2] < d[2]
      BY <2>2, <2>6 DEF IsPage, HitsWithout
    <3>4. \A e \in listed, f \in Remaining : e[2] > f[2]
      BY <2>1, <2>2 DEF Progress, Remaining
    <3>5. \A e \in listed \cup P : e[2] >= d[2]
      BY <2>2, <3>2, <3>4
    <3>6. {e \in OnAnswering' : e[2] >= d[2]} \subseteq listed \cup P
      BY <2>2, <2>3, <2>4, <3>3 DEF HitsWithout
    <3>7. Progress'
      BY <2>1, <2>6, <3>4, <3>5, <3>6 DEF Progress
    <3> QED
      BY <2>1, <3>1, <3>7
  <2> QED
    BY <2>5, <2>6
<1>4. CASE read_error
  BY <1>4 DEF read_error, Progress, OnAnswering, SameGeneration
<1>5. ASSUME NEW d \in Documents, take(d) PROVE ListInv'
  <2>1. \A e \in snapshot : e[2] \in Nat
    OBVIOUS
  <2>2. \A e \in page \ {d} : e[2] < d[2]
    <3> SUFFICES ASSUME NEW e \in page, e # d PROVE e[2] < d[2]
      OBVIOUS
    <3>1. e[1] = d[1] /\ e[2] <= d[2] /\ e \in Generations \X Tiebreakers /\ d \in Generations \X Tiebreakers
      BY <1>5 DEF take, SameGeneration
    <3>2. e[2] # d[2]
      BY <3>1
    <3>3. e[2] \in Nat /\ d[2] \in Nat
      BY <3>1
    <3> QED
      BY <3>1, <3>2, <3>3
  <2>3. listed' \cup page' = listed \cup page /\ page' = page \ {d} /\ listed' = listed \cup {d}
    BY <1>5 DEF take
  <2>4. Progress'
    BY <1>5, <2>2, <2>3 DEF take, Progress, OnAnswering
  <2> QED
    BY <1>5, <2>4 DEF take, SameGeneration
<1>6. CASE close_point_in_time
  BY <1>6 DEF close_point_in_time, Progress, OnAnswering, SameGeneration
<1>7. CASE drop
  BY <1>7 DEF drop, Progress, OnAnswering, SameGeneration
<1>8. CASE publish
  <2>1. live' \subseteq Documents /\ SameGeneration(live)'
    <3>1. live' \in Contents
      BY <1>8, Zenon DEF publish
    <3> QED
      BY <3>1, ContentsOf DEF SameGeneration
  <2> QED
    BY <1>8, <2>1 DEF publish, Progress, OnAnswering, SameGeneration
<1>9. CASE expire
  BY <1>9 DEF expire, Progress, OnAnswering, SameGeneration
<1> QED
  BY <1>1, <1>2, <1>3, <1>4, <1>5, <1>6, <1>7, <1>8, <1>9 DEF ListNext, Stream

\* ListInv holds from the beginning of a listing on.
LEMMA ListInvariant == ListSpec => []ListInv
<1>1. ListInit => ListInv
  <2> SUFFICES ASSUME ListInit PROVE ListInv
    OBVIOUS
  <2>1. live \subseteq Documents /\ SameGeneration(live)
    BY ContentsOf DEF ListInit
  <2> QED
    BY <2>1 DEF ListInit, ListInv, TypeOK, Progress, SameGeneration, Documents, Ends
<1> QED
  BY <1>1, ListStep, PTL DEF ListSpec

\* A listing that ends well lists documents published when it began, and all of
\* them but those of shards that left a search unanswered.
THEOREM ListsSnapshotAlways == ListSpec => []ListsSnapshot
<1>1. ListInv => ListsSnapshot
  BY DEF ListInv, Progress, ListsSnapshot
<1> QED
  BY <1>1, ListInvariant, PTL

\* A listing never mixes two publications.
THEOREM OneGenerationAlways == ListSpec => []OneGeneration
<1>1. ListInv => OneGeneration
  BY DEF ListInv, SameGeneration, OneGeneration
<1> QED
  BY <1>1, ListInvariant, PTL

\* A listing hands every document out at most once, in decreasing order.
THEOREM ListedOnceAlways == ListSpec => ListedOnce
<1>1. ListInv /\ [ListNext]_listVars =>
        [\A d \in page \ page' :
           d \notin listed /\ d \in listed' /\ \A e \in listed : d[2] < e[2]]_listVars
  <2> SUFFICES ASSUME ListInv, ListNext, NEW d \in page, d \notin page'
               PROVE  d \notin listed /\ d \in listed' /\ \A e \in listed : d[2] < e[2]
    BY DEF listVars
  <2>1. PICK c \in Documents : take(c)
    BY DEF ListNext, Stream, open_point_in_time, read_response, read_error, close_point_in_time, take,
           drop, publish, expire
  <2>2. c = d /\ state = "Next"
    BY <2>1 DEF take
  <2>3. d[2] \in Nat /\ \A e \in listed : e[2] \in Nat /\ d[2] < e[2]
    <3>1. \A e \in listed : e[2] > d[2]
      BY <2>2 DEF ListInv, Progress
    <3>2. d \in Generations \X Tiebreakers /\ listed \subseteq Generations \X Tiebreakers
      BY DEF ListInv, TypeOK, Documents
    <3>3. d[2] \in Nat /\ \A e \in listed : e[2] \in Nat
      BY <3>2, ListAssumption
    <3> QED
      BY <3>1, <3>3
  <2>4. d \notin listed
    BY <2>3
  <2> QED
    BY <2>1, <2>2, <2>3, <2>4 DEF take
<1> QED
  BY <1>1, ListInvariant, PTL DEF ListSpec, ListedOnce
===============================================================================
