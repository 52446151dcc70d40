------------------------ MODULE IndexPublicationProofs ------------------------
(* Proofs about IndexPublication, for any number of runs, containers, chunks. *)
EXTENDS IndexPublication, TLAPS

\* Each step of a run, each request and each failure keeps the types.
LEMMA TypeStep == TypeOK /\ [Next]_vars => TypeOK'
<1> SUFFICES ASSUME TypeOK, [Next]_vars PROVE TypeOK'
  OBVIOUS
<1> USE DEF TypeOK, Phases, Publishing, Ended
<1>1. CASE UNCHANGED vars
  BY <1>1 DEF vars
<1>2. CASE Next
  <2> PICK r \in Runs : create_index(r) \/ Step(r)
    BY <1>2 DEF Next
  <2>1. CASE create_index(r)
    BY <2>1 DEF create_index, Reply
  <2>2. CASE find_index(r)
    BY <2>2 DEF find_index, Reply, Stop, esVars
  <2>3. CASE add_pipeline(r)
    BY <2>3 DEF add_pipeline, Reply, esVars
  <2>4. ASSUME NEW k \in Chunks, bulk_send(r, k) PROVE TypeOK'
    BY <2>4 DEF bulk_send, esVars
  <2>5. ASSUME NEW k \in Chunks, bulk_executed(r, k) PROVE TypeOK'
    BY <2>5 DEF bulk_executed, Reply
  <2>6. ASSUME NEW k \in Chunks, bulk_rejected(r, k) PROVE TypeOK'
    BY <2>6 DEF bulk_rejected, Stop
  <2>7. CASE bulk_end(r)
    BY <2>7 DEF bulk_end, esVars
  <2>8. CASE refresh_index(r)
    BY <2>8 DEF refresh_index, Reply, Stop
  <2>9. CASE get_previous_indices(r)
    BY <2>9 DEF get_previous_indices, PreviousIndices, Reply, esVars
  <2>10. ASSUME NEW alias \in AliasNames, NEW next \in Phases, update_alias(r, alias, next)
         PROVE  TypeOK'
    BY <2>10 DEF update_alias, Reply, Stop
  <2>11. CASE publish_dataset(r)
    <3>1. dataset_alias(r) \in AliasNames
      BY DEF AliasNames
    <3> QED
      BY <2>11, <2>10, <3>1 DEF publish_dataset
  <2>12. CASE publish_doctype(r)
    <3>1. doctype_alias(r) \in AliasNames
      BY DEF AliasNames
    <3> QED
      BY <2>12, <2>10, <3>1 DEF publish_doctype
  <2>13. CASE publish_root(r)
    <3>1. root \in AliasNames
      BY DEF AliasNames
    <3> QED
      BY <2>13, <2>10, <3>1 DEF publish_root
  <2>14. ASSUME NEW q \in Runs, delete_container(r, q) PROVE TypeOK'
    BY <2>14 DEF delete_container, Reply, Stop, esVars
  <2>15. CASE force_merge(r)
    BY <2>15 DEF force_merge, Reply, Stop, esVars
  <2>16. CASE find_container(r)
    BY <2>16 DEF find_container, Reply, Stop, esVars
  <2>17. CASE Fails(r)
    BY <2>17 DEF Fails, Stop, esVars
  <2> QED
    BY <2>1, <2>2, <2>3, <2>4, <2>5, <2>6, <2>7, <2>8, <2>9, <2>11, <2>12,
       <2>13, <2>14, <2>15, <2>16, <2>17 DEF Step, Progress
<1> QED
  BY <1>1, <1>2

\* Every variable of the publication keeps its type in every behaviour, whether
\* or not importers overlap.
THEOREM TypeCorrect == Spec => []TypeOK
<1>1. Init => TypeOK
  BY DEF Init, TypeOK, Phases
<1> QED
  BY <1>1, TypeStep, PTL DEF Spec

-------------------------------------------------------------------------------
\* The second and third piece of an index name are the document type and the
\* first piece of the dataset.
LEMMA NamePieces ==
    ASSUME NEW r \in Runs
    PROVE  /\ Name(r) \in Seq({INDEX_ROOT} \cup DocTypes \cup Pieces \cup Runs)
           /\ Len(Name(r)) = 3 + Len(DatasetOf[r])
           /\ Name(r)[1] = INDEX_ROOT
           /\ Name(r)[2] = DocTypeOf[r]
           /\ Name(r)[3] = DatasetOf[r][1]
<1> DEFINE S == {INDEX_ROOT} \cup DocTypes \cup Pieces \cup Runs
           p == <<INDEX_ROOT, DocTypeOf[r]>>
           d == DatasetOf[r]
<1>1. /\ p \in Seq(S) /\ d \in Seq(S) /\ <<r>> \in Seq(S)
      /\ Len(p) = 2 /\ Len(<<r>>) = 1 /\ Len(d) \in Nat /\ Len(d) > 0
  BY ConstantsAssumption
<1> HIDE DEF d
<1>2. /\ p \o d \in Seq(S)
      /\ Len(p \o d) = 2 + Len(d)
      /\ (p \o d)[1] = INDEX_ROOT /\ (p \o d)[2] = DocTypeOf[r]
      /\ (p \o d)[3] = d[1]
  BY <1>1
<1>3. Name(r) = (p \o d) \o <<r>>
  BY DEF Name, root_doctype_dataset_ts, root_doctype_dataset, d
<1> DEFINE pd == p \o d
<1> HIDE DEF pd, S
<1>4. /\ pd \o <<r>> \in Seq(S)
      /\ Len(pd \o <<r>>) = Len(pd) + 1
      /\ \A i \in 1..Len(pd) : (pd \o <<r>>)[i] = pd[i]
  BY <1>1, <1>2 DEF pd
<1> QED
  BY <1>1, <1>2, <1>3, <1>4 DEF pd, S, d

\* The alias a run publishes under has three pieces, those of its index name.
LEMMA DatasetAlias ==
    ASSUME NEW r \in Runs
    PROVE  /\ Index(r) = [doc_type |-> DocTypeOf[r], dataset |-> <<DatasetOf[r][1]>>]
           /\ Len(dataset_alias(r)) = 3
           /\ dataset_alias(r)[1] = INDEX_ROOT
           /\ dataset_alias(r)[2] = DocTypeOf[r]
           /\ dataset_alias(r)[3] = DatasetOf[r][1]
<1>1. Index(r) = [doc_type |-> DocTypeOf[r], dataset |-> <<DatasetOf[r][1]>>]
  BY NamePieces DEF Index, split_index_name
<1>2. ASSUME NEW b, NEW c
      PROVE  LET s == <<INDEX_ROOT, b>> \o <<c>>
             IN  Len(s) = 3 /\ s[1] = INDEX_ROOT /\ s[2] = b /\ s[3] = c
  OBVIOUS
<1>3. dataset_alias(r) = <<INDEX_ROOT, DocTypeOf[r]>> \o <<DatasetOf[r][1]>>
  BY <1>1 DEF dataset_alias, root_doctype_dataset
<1> QED
  BY <1>1, <1>2, <1>3

\* What get_previous_indices selects for any dataset names: the indices with the
\* same document type and the same first piece of the dataset.
LEMMA MatchesIff ==
    ASSUME NEW r \in Runs, NEW q \in Runs
    PROVE  Matches(dataset_alias(r), Name(q)) <=>
              DocTypeOf[r] = DocTypeOf[q] /\ DatasetOf[r][1] = DatasetOf[q][1]
<1> DEFINE a == dataset_alias(r)
<1> HIDE DEF a
<1>1. Len(a) = 3 /\ a[1] = INDEX_ROOT /\ a[2] = DocTypeOf[r] /\ a[3] = DatasetOf[r][1]
  BY DatasetAlias DEF a
<1>2. Len(Name(q)) \in Nat /\ Len(Name(q)) > 3
  BY NamePieces, ConstantsAssumption
<1>3. Matches(a, Name(q)) <=> \A i \in 1..3 : Name(q)[i] = a[i]
  BY <1>1, <1>2 DEF Matches
<1>4. @ <=> Name(q)[1] = a[1] /\ Name(q)[2] = a[2] /\ Name(q)[3] = a[3]
  OBVIOUS
<1> QED
  BY <1>1, <1>3, <1>4, NamePieces DEF a

\* Without '_' in dataset names, that is exactly the run's container, and the
\* dataset's alias tells containers apart.
LEMMA SimpleNamesLemma ==
    ASSUME SimpleNames, NEW r \in Runs, NEW q \in Runs
    PROVE  /\ Matches(dataset_alias(r), Name(q)) <=> Container(q) = Container(r)
           /\ Container(q) = Container(r) =>
                 dataset_alias(q) = dataset_alias(r) /\ doctype_alias(q) = doctype_alias(r)
<1>1. DatasetOf[r] = <<DatasetOf[r][1]>> /\ DatasetOf[q] = <<DatasetOf[q][1]>>
  BY ConstantsAssumption DEF SimpleNames
<1>2. Container(q) = Container(r) <=>
        DocTypeOf[r] = DocTypeOf[q] /\ DatasetOf[r][1] = DatasetOf[q][1]
  BY <1>1 DEF Container
<1>3. Container(q) = Container(r) => Index(q) = Index(r)
  BY <1>2, DatasetAlias
<1> QED
  BY <1>2, <1>3, MatchesIff DEF dataset_alias, doctype_alias

-------------------------------------------------------------------------------
\* Each step of a run keeps the inductive invariant of SerialSpec.
LEMMA SerialStep ==
    ASSUME SimpleNames, SerialInv, [SerialNext]_vars PROVE SerialInv'
<1> USE DEF SerialInv, TypeOK, Active, Ended, Publishing, Phases
<1>1. TypeOK'
  BY TypeStep DEF SerialNext, Next
<1>2. CASE UNCHANGED vars
  BY <1>2 DEF vars, Exclusion, PreviousInContainer, Loaded, Aliased, Switched, Listed, ServedOnce
<1>3. CASE SerialNext
  <2> PICK r \in Runs : (Alone(r) /\ create_index(r)) \/ Step(r)
    BY <1>3 DEF SerialNext
  <2>1. CASE Alone(r) /\ create_index(r)
    <3>1. Exclusion'
      BY <2>1 DEF create_index, Reply, Alone, Exclusion
    <3>2. PreviousInContainer'
      BY <2>1 DEF create_index, Reply, PreviousInContainer
    <3>3. Loaded'
      BY <2>1 DEF create_index, Reply, Loaded
    <3>4. Aliased'
      BY <2>1 DEF create_index, Reply, Aliased, Loaded
    <3>5. Switched'
      BY <2>1 DEF create_index, Reply, Switched
    <3>6. Listed'
      BY <2>1 DEF create_index, Reply, Alone, Listed, Exclusion
    <3>7. ServedOnce'
      BY <2>1 DEF create_index, Reply, ServedOnce
    <3> QED
      BY <1>1, <3>1, <3>2, <3>3, <3>4, <3>5, <3>6, <3>7
  <2>2. CASE find_index(r)
    <3>1. Exclusion'
      BY <2>2 DEF find_index, Reply, Stop, esVars, Exclusion
    <3>2. PreviousInContainer'
      BY <2>2 DEF find_index, Reply, Stop, esVars, PreviousInContainer
    <3>3. Loaded'
      BY <2>2 DEF find_index, Reply, Stop, esVars, Loaded
    <3>4. Aliased'
      BY <2>2 DEF find_index, Reply, Stop, esVars, Aliased, Loaded
    <3>5. Switched'
      BY <2>2 DEF find_index, Reply, Stop, esVars, Switched
    <3>6. Listed'
      BY <2>2 DEF find_index, Reply, Stop, esVars, Listed
    <3>7. ServedOnce'
      BY <2>2 DEF find_index, Reply, Stop, esVars, ServedOnce
    <3> QED
      BY <1>1, <3>1, <3>2, <3>3, <3>4, <3>5, <3>6, <3>7
  <2>3. CASE add_pipeline(r)
    <3>1. Exclusion'
      BY <2>3 DEF add_pipeline, Reply, esVars, Exclusion
    <3>2. PreviousInContainer'
      BY <2>3 DEF add_pipeline, Reply, esVars, PreviousInContainer
    <3>3. Loaded'
      BY <2>3 DEF add_pipeline, Reply, esVars, Loaded
    <3>4. Aliased'
      BY <2>3 DEF add_pipeline, Reply, esVars, Aliased, Loaded
    <3>5. Switched'
      BY <2>3 DEF add_pipeline, Reply, esVars, Switched
    <3>6. Listed'
      BY <2>3 DEF add_pipeline, Reply, esVars, Listed
    <3>7. ServedOnce'
      BY <2>3 DEF add_pipeline, Reply, esVars, ServedOnce
    <3> QED
      BY <1>1, <3>1, <3>2, <3>3, <3>4, <3>5, <3>6, <3>7
  <2>4. ASSUME NEW k \in Chunks, bulk_send(r, k) PROVE SerialInv'
    <3>1. Exclusion'
      BY <2>4 DEF bulk_send, esVars, Exclusion
    <3>2. PreviousInContainer'
      BY <2>4 DEF bulk_send, esVars, PreviousInContainer
    <3>3. Loaded'
      BY <2>4 DEF bulk_send, esVars, Loaded
    <3>4. Aliased'
      BY <2>4 DEF bulk_send, esVars, Aliased, Loaded
    <3>5. Switched'
      BY <2>4 DEF bulk_send, esVars, Switched
    <3>6. Listed'
      BY <2>4 DEF bulk_send, esVars, Listed
    <3>7. ServedOnce'
      BY <2>4 DEF bulk_send, esVars, ServedOnce
    <3> QED
      BY <1>1, <3>1, <3>2, <3>3, <3>4, <3>5, <3>6, <3>7
  <2>5. ASSUME NEW k \in Chunks, bulk_executed(r, k) PROVE SerialInv'
    <3>1. Exclusion'
      BY <2>5 DEF bulk_executed, Reply, Exclusion
    <3>2. PreviousInContainer'
      BY <2>5 DEF bulk_executed, Reply, PreviousInContainer
    <3>3. Loaded'
      BY <2>5 DEF bulk_executed, Reply, Loaded
    <3>4. Aliased'
      BY <2>5 DEF bulk_executed, Reply, Aliased, Loaded
    <3>5. Switched'
      BY <2>5 DEF bulk_executed, Reply, Switched
    <3>6. Listed'
      BY <2>5 DEF bulk_executed, Reply, Listed, Loaded, Exclusion
    <3>7. ServedOnce'
      BY <2>5 DEF bulk_executed, Reply, ServedOnce
    <3> QED
      BY <1>1, <3>1, <3>2, <3>3, <3>4, <3>5, <3>6, <3>7
  <2>6. ASSUME NEW k \in Chunks, bulk_rejected(r, k) PROVE SerialInv'
    <3>1. Exclusion'
      BY <2>6 DEF bulk_rejected, Stop, Exclusion
    <3>2. PreviousInContainer'
      BY <2>6 DEF bulk_rejected, Stop, PreviousInContainer
    <3>3. Loaded'
      BY <2>6 DEF bulk_rejected, Stop, Loaded
    <3>4. Aliased'
      BY <2>6 DEF bulk_rejected, Stop, Aliased, Loaded
    <3>5. Switched'
      BY <2>6 DEF bulk_rejected, Stop, Switched
    <3>6. Listed'
      BY <2>6 DEF bulk_rejected, Stop, Listed, Loaded, Exclusion
    <3>7. ServedOnce'
      BY <2>6 DEF bulk_rejected, Stop, ServedOnce
    <3> QED
      BY <1>1, <3>1, <3>2, <3>3, <3>4, <3>5, <3>6, <3>7
  <2>7. CASE bulk_end(r)
    <3>1. Exclusion'
      BY <2>7 DEF bulk_end, esVars, Exclusion
    <3>2. PreviousInContainer'
      BY <2>7 DEF bulk_end, esVars, PreviousInContainer
    <3>3. Loaded'
      <4>1. docs[r] = Chunks
        BY <2>7 DEF bulk_end, Loaded
      <4> QED
        BY <2>7, <4>1 DEF bulk_end, esVars, Loaded
    <3>4. Aliased'
      BY <2>7 DEF bulk_end, esVars, Aliased, Loaded
    <3>5. Switched'
      BY <2>7 DEF bulk_end, esVars, Switched
    <3>6. Listed'
      BY <2>7 DEF bulk_end, esVars, Listed
    <3>7. ServedOnce'
      BY <2>7 DEF bulk_end, esVars, ServedOnce
    <3> QED
      BY <1>1, <3>1, <3>2, <3>3, <3>4, <3>5, <3>6, <3>7
  <2>8. CASE refresh_index(r)
    <3>1. Exclusion'
      BY <2>8 DEF refresh_index, Reply, Stop, Exclusion
    <3>2. PreviousInContainer'
      BY <2>8 DEF refresh_index, Reply, Stop, PreviousInContainer
    <3>3. Loaded'
      BY <2>8 DEF refresh_index, Reply, Stop, Loaded
    <3>4. Aliased'
      BY <2>8 DEF refresh_index, Reply, Stop, Aliased, Loaded
    <3>5. Switched'
      BY <2>8 DEF refresh_index, Reply, Stop, Switched
    <3>6. Listed'
      BY <2>8 DEF refresh_index, Reply, Stop, Listed, Loaded, Exclusion
    <3>7. ServedOnce'
      BY <2>8 DEF refresh_index, Reply, Stop, ServedOnce
    <3> QED
      BY <1>1, <3>1, <3>2, <3>3, <3>4, <3>5, <3>6, <3>7
  <2>9. CASE get_previous_indices(r)
    <3>1. Exclusion'
      BY <2>9 DEF get_previous_indices, PreviousIndices, Reply, esVars, Exclusion
    <3>2. PreviousInContainer'
      BY <2>9, SimpleNamesLemma DEF get_previous_indices, PreviousIndices, Reply, esVars, PreviousInContainer
    <3>3. Loaded'
      BY <2>9 DEF get_previous_indices, PreviousIndices, Reply, esVars, Loaded
    <3>4. Aliased'
      BY <2>9 DEF get_previous_indices, PreviousIndices, Reply, esVars, Aliased, Loaded
    <3>5. Switched'
      BY <2>9 DEF get_previous_indices, PreviousIndices, Reply, esVars, Switched
    <3>6. Listed'
      BY <2>9, SimpleNamesLemma DEF get_previous_indices, PreviousIndices, Reply, esVars, Listed, Aliased
    <3>7. ServedOnce'
      BY <2>9 DEF get_previous_indices, PreviousIndices, Reply, esVars, ServedOnce
    <3> QED
      BY <1>1, <3>1, <3>2, <3>3, <3>4, <3>5, <3>6, <3>7
  <2>10. CASE publish_dataset(r)
    <3>1. Exclusion'
      BY <2>10 DEF publish_dataset, update_alias, Reply, Stop, Exclusion
    <3>2. PreviousInContainer'
      BY <2>10 DEF publish_dataset, update_alias, Reply, Stop, PreviousInContainer
    <3>3. Loaded'
      BY <2>10 DEF publish_dataset, update_alias, Reply, Stop, Loaded
    <3>4. Aliased'
      BY <2>10 DEF publish_dataset, update_alias, Reply, Stop, Aliased, Loaded
    <3>5. Switched'
      <4>1. \A z \in Runs : Active(z) => z \notin previous[r]
        BY <2>10 DEF publish_dataset, PreviousInContainer, Exclusion
      <4>2. \A a : \A z \in Runs : Active(z) /\ <<a, z>> \in aliases => <<a, z>> \in aliases'
        BY <2>10, <4>1 DEF publish_dataset, update_alias
      <4>3. phase'[r] # "failed" => <<dataset_alias(r), r>> \in aliases'
        BY <2>10, <4>1 DEF publish_dataset, update_alias, Stop
      <4> QED
        BY <2>10, <4>2, <4>3 DEF publish_dataset, update_alias, Reply, Stop, Switched
    <3>6. Listed'
      BY <2>10 DEF publish_dataset, update_alias, Reply, Stop, Listed, PreviousInContainer, Exclusion
    <3>7. ServedOnce'
      BY <2>10 DEF publish_dataset, update_alias, Reply, Stop, ServedOnce, Listed
    <3> QED
      BY <1>1, <3>1, <3>2, <3>3, <3>4, <3>5, <3>6, <3>7
  <2>11. CASE publish_doctype(r)
    <3>1. Exclusion'
      BY <2>11 DEF publish_doctype, update_alias, Reply, Stop, Exclusion
    <3>2. PreviousInContainer'
      BY <2>11 DEF publish_doctype, update_alias, Reply, Stop, PreviousInContainer
    <3>3. Loaded'
      BY <2>11 DEF publish_doctype, update_alias, Reply, Stop, Loaded
    <3>4. Aliased'
      BY <2>11 DEF publish_doctype, update_alias, Reply, Stop, Aliased, Loaded
    <3>5. Switched'
      <4>1. \A z \in Runs : Active(z) => z \notin previous[r]
        BY <2>11 DEF publish_doctype, PreviousInContainer, Exclusion
      <4>2. \A a : \A z \in Runs : Active(z) /\ <<a, z>> \in aliases => <<a, z>> \in aliases'
        BY <2>11, <4>1 DEF publish_doctype, update_alias
      <4>3. phase'[r] # "failed" => <<doctype_alias(r), r>> \in aliases'
        BY <2>11, <4>1 DEF publish_doctype, update_alias, Stop
      <4> QED
        BY <2>11, <4>2, <4>3 DEF publish_doctype, update_alias, Reply, Stop, Switched
    <3>6. Listed'
      BY <2>11 DEF publish_doctype, update_alias, Reply, Stop, Listed, PreviousInContainer, Exclusion
    <3>7. ServedOnce'
      BY <2>11 DEF publish_doctype, update_alias, Reply, Stop, ServedOnce, Listed
    <3> QED
      BY <1>1, <3>1, <3>2, <3>3, <3>4, <3>5, <3>6, <3>7
  <2>12. CASE publish_root(r)
    <3>1. Exclusion'
      BY <2>12 DEF publish_root, update_alias, Reply, Stop, Exclusion
    <3>2. PreviousInContainer'
      BY <2>12 DEF publish_root, update_alias, Reply, Stop, PreviousInContainer
    <3>3. Loaded'
      BY <2>12 DEF publish_root, update_alias, Reply, Stop, Loaded
    <3>4. Aliased'
      BY <2>12 DEF publish_root, update_alias, Reply, Stop, Aliased, Loaded
    <3>5. Switched'
      <4>1. \A z \in Runs : Active(z) => z \notin previous[r]
        BY <2>12 DEF publish_root, PreviousInContainer, Exclusion
      <4>2. \A a : \A z \in Runs : Active(z) /\ <<a, z>> \in aliases => <<a, z>> \in aliases'
        BY <2>12, <4>1 DEF publish_root, update_alias
      <4>3. phase'[r] # "failed" => <<root, r>> \in aliases'
        BY <2>12, <4>1 DEF publish_root, update_alias, Stop
      <4> QED
        BY <2>12, <4>2, <4>3 DEF publish_root, update_alias, Reply, Stop, Switched
    <3>6. Listed'
      BY <2>12 DEF publish_root, update_alias, Reply, Stop, Listed, PreviousInContainer, Exclusion
    <3>7. ServedOnce'
      BY <2>12 DEF publish_root, update_alias, Reply, Stop, ServedOnce, Listed
    <3> QED
      BY <1>1, <3>1, <3>2, <3>3, <3>4, <3>5, <3>6, <3>7
  <2>13. ASSUME NEW q \in Runs, delete_container(r, q) PROVE SerialInv'
    <3>1. Exclusion'
      BY <2>13 DEF delete_container, Reply, Stop, esVars, Exclusion
    <3>2. PreviousInContainer'
      BY <2>13 DEF delete_container, Reply, Stop, esVars, PreviousInContainer
    <3>3. Loaded'
      BY <2>13 DEF delete_container, Reply, Stop, esVars, Loaded, PreviousInContainer, Exclusion
    <3>4. Aliased'
      BY <2>13 DEF delete_container, Reply, Stop, esVars, Aliased, PreviousInContainer, Exclusion
    <3>5. Switched'
      <4>1. \A z \in Runs : Active(z) => z # q
        BY <2>13 DEF delete_container, PreviousInContainer, Exclusion
      <4>2. \A a : \A z \in Runs : Active(z) /\ <<a, z>> \in aliases => <<a, z>> \in aliases'
        BY <2>13, <4>1 DEF delete_container, esVars
      <4> QED
        BY <2>13, <4>2 DEF delete_container, Reply, Stop, Switched
    <3>6. Listed'
      BY <2>13 DEF delete_container, Reply, Stop, esVars, Listed, PreviousInContainer, Exclusion, Loaded
    <3>7. ServedOnce'
      BY <2>13 DEF delete_container, Reply, Stop, esVars, ServedOnce
    <3> QED
      BY <1>1, <3>1, <3>2, <3>3, <3>4, <3>5, <3>6, <3>7
  <2>14. CASE force_merge(r)
    <3>1. Exclusion'
      BY <2>14 DEF force_merge, Reply, Stop, esVars, Exclusion
    <3>2. PreviousInContainer'
      BY <2>14 DEF force_merge, Reply, Stop, esVars, PreviousInContainer
    <3>3. Loaded'
      BY <2>14 DEF force_merge, Reply, Stop, esVars, Loaded
    <3>4. Aliased'
      BY <2>14 DEF force_merge, Reply, Stop, esVars, Aliased, Loaded
    <3>5. Switched'
      BY <2>14 DEF force_merge, Reply, Stop, esVars, Switched
    <3>6. Listed'
      BY <2>14 DEF force_merge, Reply, Stop, esVars, Listed
    <3>7. ServedOnce'
      BY <2>14 DEF force_merge, Reply, Stop, esVars, ServedOnce
    <3> QED
      BY <1>1, <3>1, <3>2, <3>3, <3>4, <3>5, <3>6, <3>7
  <2>15. CASE find_container(r)
    <3>1. Exclusion'
      BY <2>15 DEF find_container, Reply, Stop, esVars, Exclusion
    <3>2. PreviousInContainer'
      BY <2>15 DEF find_container, Reply, Stop, esVars, PreviousInContainer
    <3>3. Loaded'
      BY <2>15 DEF find_container, Reply, Stop, esVars, Loaded
    <3>4. Aliased'
      BY <2>15 DEF find_container, Reply, Stop, esVars, Aliased, Loaded
    <3>5. Switched'
      BY <2>15 DEF find_container, Reply, Stop, esVars, Switched
    <3>6. Listed'
      BY <2>15 DEF find_container, Reply, Stop, esVars, Listed
    <3>7. ServedOnce'
      BY <2>15 DEF find_container, Reply, Stop, esVars, ServedOnce
    <3> QED
      BY <1>1, <3>1, <3>2, <3>3, <3>4, <3>5, <3>6, <3>7
  <2>16. CASE Fails(r)
    <3>1. Exclusion'
      BY <2>16 DEF Fails, Stop, esVars, Exclusion
    <3>2. PreviousInContainer'
      BY <2>16 DEF Fails, Stop, esVars, PreviousInContainer
    <3>3. Loaded'
      BY <2>16 DEF Fails, Stop, esVars, Loaded
    <3>4. Aliased'
      BY <2>16 DEF Fails, Stop, esVars, Aliased, Loaded
    <3>5. Switched'
      BY <2>16 DEF Fails, Stop, esVars, Switched
    <3>6. Listed'
      BY <2>16 DEF Fails, Stop, esVars, Listed
    <3>7. ServedOnce'
      BY <2>16 DEF Fails, Stop, esVars, ServedOnce
    <3> QED
      BY <1>1, <3>1, <3>2, <3>3, <3>4, <3>5, <3>6, <3>7
  <2> QED
    BY <2>1, <2>2, <2>3, <2>4, <2>5, <2>6, <2>7, <2>8, <2>9, <2>10, <2>11, <2>12,
       <2>13, <2>14, <2>15, <2>16 DEF Step, Progress
<1> QED
  BY <1>2, <1>3

\* While importers of one container take turns, the inductive invariant holds in
\* every behaviour, whatever requests fail and wherever runs stop.
THEOREM SerialInvariant == ASSUME SimpleNames PROVE SerialSpec => []SerialInv
<1>1. Init => SerialInv
  BY DEF Init, SerialInv, TypeOK, Exclusion, PreviousInContainer, Loaded, Aliased, Switched,
         Listed, ServedOnce, Active, Phases, Publishing
<1>2. SerialInv /\ [SerialNext]_vars => SerialInv'
  BY SerialStep
<1> QED
  BY <1>1, <1>2, PTL DEF SerialSpec

\* Importers that take turns only ever serve complete indices.
THEOREM ServedCompleteAlways == ASSUME SimpleNames PROVE SerialSpec => []ServedComplete
<1>1. SerialInv => ServedComplete
  BY DEF SerialInv, Aliased, ServedComplete
<1> QED
  BY <1>1, SerialInvariant, PTL

\* Importers that take turns never serve a container twice through an alias.
THEOREM ServedOnceAlways == ASSUME SimpleNames PROVE SerialSpec => []ServedOnce
<1>1. SerialInv => ServedOnce
  BY DEF SerialInv
<1> QED
  BY <1>1, SerialInvariant, PTL

\* What a step of SerialSpec may do to an alias entry that it removes.
LEMMA AliasLoss ==
    ASSUME SimpleNames, SerialInv, SerialNext, NEW x \in aliases, x \notin aliases'
    PROVE  \E r \in Runs :
              /\ Container(r) = Container(x[2])
              /\ \/ <<x[1], r>> \in aliases'
                 \/ /\ VisibilityOf[r] = "Private" /\ phase[r] = "delete"
                    /\ <<dataset_alias(r), r>> \in aliases'
<1> USE DEF SerialInv
<1> PICK r \in Runs : create_index(r) \/ Step(r)
  BY DEF SerialNext
<1>1. ASSUME NEW alias, NEW next, update_alias(r, alias, next)
      PROVE  Container(r) = Container(x[2]) /\ <<x[1], r>> \in aliases'
  <2>1. x \in {alias} \X previous[r] /\ <<alias, r>> \in aliases'
    BY <1>1 DEF update_alias, PreviousInContainer
  <2> QED
    BY <2>1 DEF PreviousInContainer
<1>2. ASSUME NEW q \in Runs, delete_container(r, q)
      PROVE  /\ Container(r) = Container(x[2])
             /\ \/ <<x[1], r>> \in aliases'
                \/ /\ VisibilityOf[r] = "Private" /\ phase[r] = "delete"
                   /\ <<dataset_alias(r), r>> \in aliases'
  <2>1. x[2] = q /\ q \in previous[r] /\ phase[r] = "delete" /\ aliases' = {y \in aliases : y[2] # q}
    BY <1>2 DEF delete_container, esVars
  <2>2. q # r /\ Container(r) = Container(q)
    BY <2>1 DEF PreviousInContainer
  <2>3. \A a : <<a, r>> \in aliases => <<a, r>> \in aliases'
    BY <2>1, <2>2
  <2>4. <<dataset_alias(r), r>> \in aliases'
    BY <2>1, <2>3 DEF Switched
  <2>5. CASE VisibilityOf[r] = "Private"
    BY <2>1, <2>2, <2>4, <2>5
  <2>6. CASE VisibilityOf[r] = "Public"
    <3>1. <<doctype_alias(r), r>> \in aliases' /\ <<root, r>> \in aliases'
      BY <2>1, <2>3, <2>6 DEF Switched
    <3>2. x[1] \in {dataset_alias(r), doctype_alias(r), root}
      BY <2>1, <2>2, SimpleNamesLemma DEF Aliased
    <3> QED
      BY <2>1, <2>2, <2>4, <3>1, <3>2
  <2> QED
    BY <2>5, <2>6, ConstantsAssumption
<1>3. CASE \/ publish_dataset(r) \/ publish_doctype(r) \/ publish_root(r)
           \/ \E q \in Runs : delete_container(r, q)
  BY <1>1, <1>2, <1>3 DEF publish_dataset, publish_doctype, publish_root
<1>4. CASE create_index(r) \/ find_index(r) \/ add_pipeline(r) \/ bulk_end(r) \/ refresh_index(r)
           \/ get_previous_indices(r) \/ force_merge(r) \/ find_container(r) \/ Fails(r)
           \/ \E k \in Chunks : bulk_send(r, k) \/ bulk_executed(r, k) \/ bulk_rejected(r, k)
  BY <1>4 DEF create_index, find_index, add_pipeline, bulk_send, bulk_executed, bulk_rejected,
              bulk_end, refresh_index, get_previous_indices, force_merge, find_container, Fails, esVars
<1> QED
  BY <1>3, <1>4 DEF Step, Progress

\* Importers that take turns never take a container out of an alias that serves
\* it, wherever earlier runs stopped.
THEOREM NoDowntimeAlways == ASSUME SimpleNames PROVE SerialSpec => NoDowntime
<1> DEFINE Lost(x) ==
         \/ Serves(x[1], Container(x[2]))'
         \/ \E q \in Runs : /\ VisibilityOf[q] = "Private" /\ phase[q] = "delete"
                            /\ Container(q) = Container(x[2])
                            /\ <<dataset_alias(q), q>> \in aliases'
<1>1. SerialInv /\ [SerialNext]_vars => [\A x \in aliases \ aliases' : Lost(x)]_vars
  <2> SUFFICES ASSUME SerialInv, SerialNext, NEW x \in aliases, x \notin aliases' PROVE Lost(x)
    OBVIOUS
  <2> QED
    BY AliasLoss DEF Serves
<1> QED
  BY <1>1, SerialInvariant, PTL DEF SerialSpec, NoDowntime

\* A publication that succeeds leaves its index current, wherever earlier runs
\* stopped.
THEOREM PublishedIsCurrentAlways == ASSUME SimpleNames PROVE SerialSpec => PublishedIsCurrent
<1> DEFINE Current(r) ==
         /\ r \in indices' /\ visible'[r] = Chunks
         /\ <<dataset_alias(r), r>> \in aliases'
         /\ VisibilityOf[r] = "Public" =>
               <<doctype_alias(r), r>> \in aliases' /\ <<root, r>> \in aliases'
         /\ \A q \in indices' \ {r} : Container(q) = Container(r) =>
               phase'[q] = "failed" /\ visible'[q] = {} /\ \A x \in aliases' : x[2] # q
<1>1. SerialInv /\ [SerialNext]_vars =>
        [\A r \in Runs : phase[r] # "done" /\ phase'[r] = "done" => Current(r)]_vars
  <2> SUFFICES ASSUME SerialInv, SerialNext, NEW r \in Runs, phase[r] # "done", phase'[r] = "done"
               PROVE  Current(r)
    OBVIOUS
  <2> USE DEF SerialInv, TypeOK
  <2>1. find_container(r)
    <3> PICK z \in Runs : create_index(z) \/ Step(z)
      BY DEF SerialNext
    <3> QED
      BY DEF Step, Progress, create_index, find_index, add_pipeline, bulk_send, bulk_executed, bulk_rejected,
             bulk_end, refresh_index, get_previous_indices, publish_dataset, publish_doctype,
             publish_root, update_alias, delete_container, force_merge, find_container, Fails,
             Reply, Stop
  <2>2. phase[r] = "check" /\ r \in indices /\ UNCHANGED esVars
    BY <2>1 DEF find_container, Stop
  <2>3. visible[r] = Chunks /\ previous[r] = {} /\ <<dataset_alias(r), r>> \in aliases
    BY <2>2 DEF Loaded, Listed, Switched, Publishing
  <2>4. VisibilityOf[r] = "Public" => <<doctype_alias(r), r>> \in aliases /\ <<root, r>> \in aliases
    BY <2>2 DEF Switched
  <2>5. ASSUME NEW q \in indices \ {r}, Container(q) = Container(r)
        PROVE  phase'[q] = "failed" /\ visible[q] = {} /\ \A x \in aliases : x[2] # q
    <3>1. phase[q] = "failed" /\ visible[q] = {}
      BY <2>2, <2>3, <2>5 DEF Listed, Publishing
    <3>2. phase'[q] = phase[q]
      BY <2>1 DEF find_container, Reply, Stop
    <3>3. \A x \in aliases : x[2] # q
      BY <2>2, <2>3, <2>5 DEF Listed, Publishing
    <3> QED
      BY <3>1, <3>2, <3>3
  <2> QED
    BY <2>2, <2>3, <2>4, <2>5 DEF esVars
<1> QED
  BY <1>1, SerialInvariant, PTL DEF SerialSpec, PublishedIsCurrent

-------------------------------------------------------------------------------
\* With or without overlapping importers, a run only plans to delete indices of
\* its own container.
LEMMA PreviousStep ==
    ASSUME SimpleNames, TypeOK, PreviousInContainer, [Next]_vars PROVE PreviousInContainer'
<1> USE DEF TypeOK, PreviousInContainer
<1>1. CASE UNCHANGED vars
  BY <1>1 DEF vars
<1>2. CASE Next
  <2> PICK r \in Runs : create_index(r) \/ Step(r)
    BY <1>2 DEF Next
  <2>1. CASE get_previous_indices(r)
    BY <2>1, SimpleNamesLemma DEF get_previous_indices, PreviousIndices
  <2>2. ASSUME NEW q \in Runs, delete_container(r, q) PROVE PreviousInContainer'
    BY <2>2 DEF delete_container
  <2>3. CASE UNCHANGED previous
    BY <2>3
  <2> QED
    BY <2>1, <2>2, <2>3 DEF Step, Progress, create_index, find_index, add_pipeline, bulk_send, bulk_executed,
       bulk_rejected, bulk_end, refresh_index, publish_dataset, publish_doctype, publish_root,
       update_alias, force_merge, find_container, Fails
<1> QED
  BY <1>1, <1>2

\* A step of run r shows in the view of r and of the indices r replaces only.
LEMMA StepTouches ==
    ASSUME TypeOK, NEW r \in Runs, create_index(r) \/ Step(r), NEW z \in Runs,
           z # r, z \notin previous[r]
    PROVE  View(z)' = View(z)
<1> USE DEF TypeOK, View
<1>1. CASE create_index(r)
  BY <1>1 DEF create_index, Reply
<1>2. CASE find_index(r) \/ add_pipeline(r) \/ bulk_end(r) \/ force_merge(r)
           \/ find_container(r) \/ Fails(r)
  BY <1>2 DEF find_index, add_pipeline, bulk_end, force_merge, find_container, Fails, Reply, Stop,
              esVars
<1>3. ASSUME NEW k \in Chunks, bulk_send(r, k) \/ bulk_executed(r, k) \/ bulk_rejected(r, k)
      PROVE  View(z)' = View(z)
  BY <1>3 DEF bulk_send, bulk_executed, bulk_rejected, Reply, Stop, esVars
<1>4. CASE refresh_index(r)
  BY <1>4 DEF refresh_index, Reply, Stop
<1>5. CASE get_previous_indices(r)
  BY <1>5 DEF get_previous_indices, Reply, esVars
<1>6. ASSUME NEW alias, NEW next, update_alias(r, alias, next) PROVE View(z)' = View(z)
  <2>1. {x \in aliases' : x[2] = z} = {x \in aliases : x[2] = z}
    BY <1>6 DEF update_alias
  <2> QED
    BY <1>6, <2>1 DEF update_alias, Reply, Stop
<1>7. CASE publish_dataset(r) \/ publish_doctype(r) \/ publish_root(r)
  BY <1>6, <1>7 DEF publish_dataset, publish_doctype, publish_root
<1>8. ASSUME NEW q \in Runs, delete_container(r, q) PROVE View(z)' = View(z)
  <2>1. {x \in aliases' : x[2] = z} = {x \in aliases : x[2] = z}
    BY <1>8 DEF delete_container, esVars
  <2> QED
    BY <1>8, <2>1 DEF delete_container, Reply, Stop, esVars
<1> QED
  BY <1>1, <1>2, <1>3, <1>4, <1>5, <1>7, <1>8 DEF Step, Progress

\* Runs, overlapping or not, never touch the indices, the aliases or the runs of
\* another container, as long as dataset names hold no '_'.
THEOREM PartitionedAlways == ASSUME SimpleNames PROVE Spec => Partitioned
<1>1. Init => TypeOK /\ PreviousInContainer
  BY DEF Init, TypeOK, Phases, PreviousInContainer
<1>2. TypeOK /\ PreviousInContainer /\ [Next]_vars => (TypeOK /\ PreviousInContainer)'
  BY TypeStep, PreviousStep
<1>3. TypeOK /\ PreviousInContainer /\ [Next]_vars =>
        [\A r, q \in Runs :
           View(r) # View(r)' /\ View(q) # View(q)' => Container(r) = Container(q)]_vars
  <2> SUFFICES ASSUME TypeOK, PreviousInContainer, Next, NEW r \in Runs, NEW q \in Runs,
                      View(r) # View(r)', View(q) # View(q)'
               PROVE  Container(r) = Container(q)
    OBVIOUS
  <2> PICK z \in Runs : create_index(z) \/ Step(z)
    BY DEF Next
  <2>1. r \in previous[z] \cup {z} /\ q \in previous[z] \cup {z}
    BY StepTouches
  <2> QED
    BY <2>1 DEF PreviousInContainer
<1> QED
  BY <1>1, <1>2, <1>3, PTL DEF Spec, Partitioned
-------------------------------------------------------------------------------
\* IndexPublication implements Catalogue, for any number of runs, containers and
\* chunks, as long as the importers of one container take turns.
AtWork == {q \in Runs : Active(q)}
Over == {q \in Runs : phase[q] \in Ended}

\* Where each alias is among those a run publishes under.
LEMMA AliasPositions ==
    ASSUME NEW r \in Runs
    PROVE  /\ aliases_of(r)[1] = dataset_alias(r)
           /\ VisibilityOf[r] = "Private" => Len(aliases_of(r)) = 1
           /\ VisibilityOf[r] = "Public" =>
                 /\ Len(aliases_of(r)) = 3
                 /\ aliases_of(r)[2] = doctype_alias(r) /\ aliases_of(r)[3] = root
BY DEF aliases_of

\* The operators of Catalogue, read in terms of the publication's state.
LEMMA CatalogueReading ==
    ASSUME NEW r \in Runs
    PROVE  /\ Promise!Peers(r) = {q \in Runs \ {r} : Container(q) = Container(r)}
           /\ \A n \in Nat : Promise!SwitchedUpTo(r, n) <=>
                 \A i \in 1..n : <<aliases_of(r)[i], r>> \in aliases
BY DEF Promise!Peers, Promise!SwitchedUpTo

\* A step that only moves run r to phase p, and leaves the aliases alone, is the
\* end of the run or none of Catalogue's concern.
LEMMA QuietStep ==
    ASSUME TypeOK, NEW r \in Runs, NEW p \in Phases, p # "new",
           phase[r] # "new", phase[r] \in Ended => p \in Ended,
           phase' = [phase EXCEPT ![r] = p], aliases' = aliases
    PROVE  [Promise!Next]_(Promise!catalogueVars)
<1> USE DEF TypeOK, Phases, Publishing, Ended, Active
<1>1. CASE p \in Ended /\ phase[r] \notin Ended
  <2>1. r \in AtWork /\ AtWork' = AtWork \ {r} /\ Over' = Over \cup {r}
    BY <1>1 DEF AtWork, Over
  <2>2. Promise!end(r)
    BY <2>1 DEF Promise!end, AtWork, Over
  <2> QED
    BY <2>2 DEF Promise!Next, Promise!Work
<1>2. CASE ~(p \in Ended /\ phase[r] \notin Ended)
  <2>1. AtWork' = AtWork /\ Over' = Over
    BY <1>2 DEF AtWork, Over
  <2> QED
    BY <2>1 DEF Promise!catalogueVars, AtWork, Over
<1> QED
  BY <1>1, <1>2

\* After a request that took effect the run goes on or stops.
LEMMA ReplyGoesOn ==
    ASSUME TypeOK, NEW r \in Runs, Active(r), NEW next \in Phases \ {"new"}, Reply(r, next)
    PROVE  Promise!GoesOn(r)
<1> USE DEF TypeOK, Phases, Publishing, Ended, Active
<1> PICK p \in {next, "failed"} : phase' = [phase EXCEPT ![r] = p]
  BY DEF Reply
<1>1. CASE p \in Ended
  <2>1. AtWork' = AtWork \ {r} /\ Over' = Over \cup {r}
    BY <1>1 DEF AtWork, Over
  <2> QED
    BY <2>1 DEF Promise!GoesOn, AtWork, Over
<1>2. CASE p \notin Ended
  <2>1. AtWork' = AtWork /\ Over' = Over
    BY <1>2 DEF AtWork, Over
  <2> QED
    BY <2>1 DEF Promise!GoesOn, AtWork, Over
<1> QED
  BY <1>1, <1>2

\* A request to change the n-th alias of a run is Catalogue's switch, or the end
\* of the run when it is refused.
LEMMA UpdateAliasSwitches ==
    ASSUME SimpleNames, SerialInv, NEW r \in Runs, NEW n \in 1..Len(aliases_of(r)),
           phase[r] \in Publishing \ {"previous"},
           \A i \in 1..(n - 1) : <<aliases_of(r)[i], r>> \in aliases,
           NEW next \in Phases \ {"new"}, update_alias(r, aliases_of(r)[n], next)
    PROVE  [Promise!Next]_(Promise!catalogueVars)
<1> DEFINE alias == aliases_of(r)[n]
<1> HIDE DEF alias
<1> USE DEF SerialInv
<1>0. n \in Nat /\ n - 1 \in Nat
  BY AliasPositions, ConstantsAssumption
<1>1. CASE {r} \cup previous[r] \subseteq indices
  <2>1. /\ aliases' = (aliases \cup {<<alias, r>>}) \ ({alias} \X previous[r])
        /\ Reply(r, next)
    BY <1>1 DEF update_alias, alias
  <2>2. Active(r)
    BY DEF Active, Publishing, Ended
  <2>3. Promise!GoesOn(r)
    BY <2>1, <2>2, ReplyGoesOn
  <2>4. aliases' = {x \in aliases : x[1] # alias \/ x[2] \notin Promise!Peers(r)} \cup {<<alias, r>>}
    <3>1. \A x \in aliases : x = <<x[1], x[2]>> /\ x[2] \in Runs
      BY DEF TypeOK
    <3>2. \A x \in aliases : x[2] \in Promise!Peers(r) => x[2] \in previous[r]
      BY <3>1, CatalogueReading DEF Listed
    <3>3. \A q \in previous[r] : q \in Promise!Peers(r)
      BY CatalogueReading DEF TypeOK, PreviousInContainer
    <3>4. r \notin previous[r]
      BY DEF PreviousInContainer
    <3> QED
      BY <2>1, <3>1, <3>2, <3>3, <3>4
  <2>5. Promise!SwitchedUpTo(r, n - 1)
    BY <1>0, CatalogueReading
  <2>6. Promise!switch(r, n)
    BY <2>2, <2>3, <2>4, <2>5 DEF Promise!switch, alias
  <2> QED
    BY <2>6 DEF Promise!Next, Promise!Work
<1>2. CASE ~({r} \cup previous[r] \subseteq indices)
  <2>1. phase' = [phase EXCEPT ![r] = "failed"] /\ aliases' = aliases
    BY <1>2 DEF update_alias, Stop
  <2> QED
    BY <2>1, QuietStep DEF Publishing, Phases, Ended
<1> QED
  BY <1>1, <1>2

\* The deletion of a previous index is Catalogue's.
LEMMA DeletionDeletes ==
    ASSUME SimpleNames, SerialInv, NEW r \in Runs, NEW q \in Runs, delete_container(r, q)
    PROVE  [Promise!Next]_(Promise!catalogueVars)
<1> USE DEF SerialInv
<1>1. phase[r] = "delete" /\ q \in previous[r]
  BY DEF delete_container
<1>2. CASE q \in indices
  <2>1. aliases' = {x \in aliases : x[2] # q} /\ Reply(r, "delete")
    BY <1>2 DEF delete_container
  <2>2. Active(r)
    BY <1>1 DEF Active, Ended
  <2>3. Promise!GoesOn(r)
    BY <2>1, <2>2, ReplyGoesOn DEF Phases, Publishing
  <2>4. q \in Promise!Peers(r)
    BY <1>1, CatalogueReading DEF PreviousInContainer
  <2>5. Len(aliases_of(r)) \in Nat /\ \A i \in 1..Len(aliases_of(r)) : <<aliases_of(r)[i], r>> \in aliases
    <3> DEFINE Done(i) == <<aliases_of(r)[i], r>> \in aliases
    <3>1. CASE VisibilityOf[r] = "Private"
      <4>1. Len(aliases_of(r)) = 1 /\ Done(1)
        BY <1>1, <3>1, AliasPositions DEF Switched
      <4> HIDE DEF Done
      <4>2. \A i \in 1..1 : Done(i)
        BY <4>1
      <4> QED
        BY <4>1, <4>2 DEF Done
    <3>2. CASE VisibilityOf[r] = "Public"
      <4>1. Len(aliases_of(r)) = 3 /\ Done(1) /\ Done(2) /\ Done(3)
        BY <1>1, <3>2, AliasPositions DEF Switched
      <4> HIDE DEF Done
      <4>2. \A i \in 1..3 : Done(i)
        BY <4>1
      <4> QED
        BY <4>1, <4>2 DEF Done
    <3> QED
      BY <3>1, <3>2, ConstantsAssumption
  <2>6. Promise!SwitchedUpTo(r, Len(aliases_of(r)))
    BY <2>5, CatalogueReading
  <2>7. Promise!delete(r, q)
    BY <2>1, <2>2, <2>3, <2>4, <2>6 DEF Promise!delete
  <2> QED
    BY <2>4, <2>7 DEF Promise!Next, Promise!Work
<1>3. CASE q \notin indices
  <2>1. phase' = [phase EXCEPT ![r] = "failed"] /\ aliases' = aliases
    BY <1>3 DEF delete_container, Stop, esVars
  <2> QED
    BY <1>1, <2>1, QuietStep DEF Publishing, Phases, Ended
<1> QED
  BY <1>2, <1>3

\* Only Public runs switch the doctype and root aliases.
OnlyPublicGoesFurther ==
    \A r \in Runs : phase[r] \in {"alias_doctype", "alias_root"} => VisibilityOf[r] = "Public"

LEMMA OnlyPublicStep ==
    ASSUME TypeOK, OnlyPublicGoesFurther, [SerialNext]_vars PROVE OnlyPublicGoesFurther'
<1>1. CASE UNCHANGED vars
  BY <1>1 DEF vars, OnlyPublicGoesFurther
<1>2. CASE SerialNext
  BY <1>2 DEF SerialNext, Step, Progress, create_index, find_index, add_pipeline, bulk_send,
       bulk_executed, bulk_rejected, bulk_end, refresh_index, get_previous_indices,
       publish_dataset, publish_doctype, publish_root, update_alias, delete_container,
       force_merge, find_container, Fails, Reply, Stop, OnlyPublicGoesFurther, TypeOK
<1> QED
  BY <1>1, <1>2

\* Every step of importers that take turns is a step of Catalogue, or none.
LEMMA SerialStepKeepsPromise ==
    ASSUME SimpleNames, SerialInv, OnlyPublicGoesFurther, [SerialNext]_vars
    PROVE  [Promise!Next]_(Promise!catalogueVars)
<1> USE DEF SerialInv
<1>1. CASE UNCHANGED vars
  BY <1>1 DEF vars, Promise!catalogueVars, Active, Ended
<1>2. CASE SerialNext
  <2> PICK r \in Runs : (Alone(r) /\ create_index(r)) \/ Step(r)
    BY <1>2 DEF SerialNext
  <2>1. CASE Alone(r) /\ create_index(r)
    <3> USE DEF TypeOK, Phases, Publishing, Ended, Active
    <3>1. r \notin AtWork \cup Over /\ AtWork \cap Promise!Peers(r) = {}
      BY <2>1, CatalogueReading DEF create_index, Alone, AtWork, Over
    <3>2. \/ AtWork' = AtWork \cup {r} /\ Over' = Over
          \/ AtWork' = AtWork /\ Over' = Over \cup {r}
      <4> PICK p \in {"find", "failed"} : phase[r] = "new" /\ phase' = [phase EXCEPT ![r] = p]
        BY <2>1 DEF create_index, Reply
      <4>1. CASE p = "find"
        BY <4>1 DEF AtWork, Over
      <4>2. CASE p = "failed"
        BY <4>2 DEF AtWork, Over
      <4> QED
        BY <4>1, <4>2
    <3>3. Promise!begin(r)
      BY <2>1, <3>1, <3>2 DEF Promise!begin, create_index, AtWork, Over
    <3> QED
      BY <3>3 DEF Promise!Next
  <2>2. CASE publish_dataset(r)
    <3> DEFINE next == IF VisibilityOf[r] = "Public" THEN "alias_doctype" ELSE "delete"
    <3>1. next \in Phases \ {"new"}
      BY DEF Phases, Publishing
    <3> HIDE DEF next
    <3>2. phase[r] \in Publishing \ {"previous"} /\ 1 \in 1..Len(aliases_of(r))
      BY <2>2, AliasPositions, ConstantsAssumption DEF publish_dataset, Publishing
    <3>3. update_alias(r, aliases_of(r)[1], next)
      BY <2>2, AliasPositions DEF publish_dataset, next
    <3>4. \A i \in 1..(1 - 1) : <<aliases_of(r)[i], r>> \in aliases
      OBVIOUS
    <3> QED
      BY <3>1, <3>2, <3>3, <3>4, UpdateAliasSwitches
  <2>3. CASE publish_doctype(r) /\ VisibilityOf[r] = "Public"
    <3>1. phase[r] \in Publishing \ {"previous"} /\ 2 \in 1..Len(aliases_of(r))
      BY <2>3, AliasPositions DEF publish_doctype, Publishing
    <3>2. update_alias(r, aliases_of(r)[2], "alias_root") /\ "alias_root" \in Phases \ {"new"}
      BY <2>3, AliasPositions DEF publish_doctype, Phases, Publishing
    <3>3. <<aliases_of(r)[1], r>> \in aliases
      BY <2>3, AliasPositions DEF publish_doctype, Switched
    <3>4. \A i \in 1..(2 - 1) : <<aliases_of(r)[i], r>> \in aliases
      BY <3>3
    <3> QED
      BY <3>1, <3>2, <3>4, UpdateAliasSwitches
  <2>4. CASE publish_root(r) /\ VisibilityOf[r] = "Public"
    <3>1. phase[r] \in Publishing \ {"previous"} /\ 3 \in 1..Len(aliases_of(r))
      BY <2>4, AliasPositions DEF publish_root, Publishing
    <3>2. update_alias(r, aliases_of(r)[3], "delete") /\ "delete" \in Phases \ {"new"}
      BY <2>4, AliasPositions DEF publish_root, Phases, Publishing
    <3>3. <<aliases_of(r)[1], r>> \in aliases /\ <<aliases_of(r)[2], r>> \in aliases
      BY <2>4, AliasPositions DEF publish_root, Switched
    <3>4. \A i \in 1..(3 - 1) : <<aliases_of(r)[i], r>> \in aliases
      BY <3>3
    <3> QED
      BY <3>1, <3>2, <3>4, UpdateAliasSwitches
  <2>5. ASSUME NEW q \in Runs, delete_container(r, q)
        PROVE  [Promise!Next]_(Promise!catalogueVars)
    BY <2>5, DeletionDeletes
  <2>6. ASSUME NEW p \in Phases, p # "new", phase[r] # "new", phase[r] \in Ended => p \in Ended,
               phase' = [phase EXCEPT ![r] = p], aliases' = aliases
        PROVE  [Promise!Next]_(Promise!catalogueVars)
    BY <2>6, QuietStep
  <2>7. CASE find_index(r) \/ add_pipeline(r) \/ bulk_end(r) \/ refresh_index(r)
             \/ get_previous_indices(r) \/ force_merge(r) \/ find_container(r) \/ Fails(r)
    <3>1. PICK p \in Phases \ {"new"} : phase' = [phase EXCEPT ![r] = p]
      BY <2>7 DEF find_index, add_pipeline, bulk_end, refresh_index, get_previous_indices,
                  force_merge, find_container, Fails, Reply, Stop, Phases, Publishing, Ended
    <3>2. aliases' = aliases /\ phase[r] \notin {"new"} \cup Ended
      BY <2>7 DEF find_index, add_pipeline, bulk_end, refresh_index, get_previous_indices,
                  force_merge, find_container, Fails, Active, Ended, esVars
    <3> QED
      BY <2>6, <3>1, <3>2
  <2>8. ASSUME NEW k \in Chunks, bulk_send(r, k) \/ bulk_executed(r, k) \/ bulk_rejected(r, k)
        PROVE  [Promise!Next]_(Promise!catalogueVars)
    <3>1. CASE phase' = phase
      BY <2>8, <3>1 DEF bulk_send, bulk_executed, bulk_rejected, esVars, Promise!catalogueVars,
                        Active, Ended
    <3>2. CASE phase' # phase
      <4>1. phase[r] \in {"insert", "failed"} /\ aliases' = aliases
        BY <2>8, <3>2 DEF bulk_send, bulk_executed, bulk_rejected, Loaded
      <4>2. PICK p \in {"insert", "failed"} : phase' = [phase EXCEPT ![r] = p] /\ p = "failed"
        BY <2>8, <3>2, <4>1 DEF bulk_send, bulk_executed, bulk_rejected, Reply, Stop, TypeOK
      <4> QED
        BY <2>6, <4>1, <4>2 DEF Phases, Publishing, Ended
    <3> QED
      BY <3>1, <3>2
  <2>9. publish_doctype(r) \/ publish_root(r) => VisibilityOf[r] = "Public"
    BY DEF OnlyPublicGoesFurther, publish_doctype, publish_root
  <2> QED
    BY <2>1, <2>2, <2>3, <2>4, <2>5, <2>7, <2>8, <2>9 DEF Step, Progress
<1> QED
  BY <1>1, <1>2

\* Bragi may rely on Catalogue whatever requests of the importers fail.
THEOREM PublicationImplementsCatalogue ==
    ASSUME SimpleNames PROVE SerialSpec => ImplementsCatalogue
<1>1. Init => Promise!Init
  BY DEF Init, Promise!Init, Active, Ended
<1>2. Init => OnlyPublicGoesFurther
  BY DEF Init, OnlyPublicGoesFurther
<1>3. SerialInv /\ OnlyPublicGoesFurther /\ [SerialNext]_vars => OnlyPublicGoesFurther'
  BY OnlyPublicStep DEF SerialInv
<1>4. SerialInv /\ OnlyPublicGoesFurther /\ [SerialNext]_vars =>
        [Promise!Next]_(Promise!catalogueVars)
  BY SerialStepKeepsPromise
<1> QED
  BY <1>1, <1>2, <1>3, <1>4, SerialInvariant, PTL DEF SerialSpec, ImplementsCatalogue, Promise!Spec
===============================================================================
